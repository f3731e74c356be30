---------------------------- MODULE MCTaskRunner ----------------------------
EXTENDS TaskProps

CONSTANTS t1, c1, c2

OneTask    == {t1}
TwoClients == {c1, c2}
NoFaults   == {}
AllFaults  == {"save", "panic"}
=============================================================================
