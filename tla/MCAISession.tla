---------------------------- MODULE MCAISession ----------------------------
(* Instances of AISession: one panel with every accident of its own, or two   *)
(* panels that share the tab.                                                 *)
EXTENDS AISession

CONSTANTS p1, p2

Scenario(panels, reqs, faults, moves) ==
    [panels |-> panels, reqs |-> reqs, faults |-> faults, moves |-> moves]

Sessions == {Scenario({p1}, 3, {"model", "save", "build", "reply", "crash"},
                      {"retry", "reset", "close"}),
             Scenario({p1}, 4, {"model", "reply", "crash", "evict"}, {"close"}),
             Scenario({p1, p2}, 3, {"model", "late"}, {"stop", "reload"}),
             Scenario({p1}, 4, {"model", "reply"}, {"stop", "reset"}),
             Scenario({p1}, 3, {"model", "late", "reply"}, {"close", "retry"})}

Resetting == {Scenario({p1}, 4, {"model", "reply"}, {"stop", "reset"})}
=============================================================================
