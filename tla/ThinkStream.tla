---------------------------- MODULE ThinkStream ----------------------------
(***************************************************************************)
(* The answer of a reasoning model on its way to the panel                 *)
(* (internal/llm/llm.go: thinkStripper, stripThinkAll; agent.go: Stream;   *)
(* internal/service/ai.go: aiAgentChat).                                    *)
(*                                                                         *)
(* The model puts what it thinks between tags.  The panel is shown the      *)
(* answer piece by piece with the thoughts taken out as they pass; what is  *)
(* recorded, and replayed later, is the whole text with the thoughts taken  *)
(* out at the end.  The stream may cut the text anywhere, in a tag too.     *)
(* A text is a sequence of characters.                                      *)
(***************************************************************************)
EXTENDS Naturals, Sequences, SequencesExt

CONSTANTS
    OpenTag, CloseTag,  \* "<think>" and "</think>"
    RawTexts,           \* what the model may say
    MaxChunk            \* the longest piece of the stream

ASSUME TagAssumption == OpenTag # <<>> /\ CloseTag # <<>> /\ MaxChunk \in Nat \ {0}

VARIABLES
    raw,        \* the text of the model
    arrived,    \* how much of it the stream has brought
    inThink,    \* thinkStripper.inThink
    pending,       \* thinkStripper.buf
    streamed,   \* what the panel has been given
    answer      \* the recorded answer, or how the stream ended

streamVars == <<raw, arrived, inThink, pending, streamed, answer>>

Unfinished == <<"unfinished">>
BrokenOff  == <<"broken off">>
Refused    == <<"refused">>

-----------------------------------------------------------------------------
(* strings.Index, and the text before and after the first match.             *)
Has(s, tag)    == \E i \in 1..(Len(s) - Len(tag) + 1) : SubSeq(s, i, i + Len(tag) - 1) = tag
At1(s, tag)    == CHOOSE i \in 1..Len(s) :
                     /\ SubSeq(s, i, i + Len(tag) - 1) = tag
                     /\ \A j \in 1..(i - 1) : SubSeq(s, j, j + Len(tag) - 1) # tag
Before(s, tag) == SubSeq(s, 1, At1(s, tag) - 1)
After(s, tag)  == SubSeq(s, At1(s, tag) + Len(tag), Len(s))

(* stripThinkAll takes one block after the other out of the whole text and   *)
(* starts again from its beginning.                                          *)
RECURSIVE stripThinkAll(_)
stripThinkAll(s) ==
    IF ~Has(s, OpenTag) THEN s
    ELSE LET rest == SubSeq(s, At1(s, OpenTag), Len(s))
         IN  IF ~Has(rest, CloseTag) THEN Before(s, OpenTag)
             ELSE stripThinkAll(Before(s, OpenTag) \o After(rest, CloseTag))

(* Slip: nothing is held back.                                               *)
KeepNothing(s, tag) == 0

(* The longest end of s that a tag may begin with.                           *)
tagPrefixLen(s, tag) ==
    CHOOSE n \in 0..Len(tag) :
      /\ n <= Len(s) /\ SubSeq(s, Len(s) - n + 1, Len(s)) = SubSeq(tag, 1, n)
      /\ \A m \in (n + 1)..Len(tag) :
           m <= Len(s) => SubSeq(s, Len(s) - m + 1, Len(s)) # SubSeq(tag, 1, m)

Tail1(s, n) == SubSeq(s, Len(s) - n + 1, Len(s))

(* One call of Feed: the state of the stripper after it, and what it gives.   *)
RECURSIVE Feed(_, _, _)
Feed(s, thinking, out) ==
    LET tag == IF thinking THEN CloseTag ELSE OpenTag
    IN  IF Has(s, tag)
        THEN Feed(After(s, tag), ~thinking, IF thinking THEN out ELSE out \o Before(s, tag))
        ELSE LET keep == tagPrefixLen(s, tag)
             IN  [thinking |-> thinking, pending |-> Tail1(s, keep),
                  out |-> IF thinking THEN out ELSE out \o SubSeq(s, 1, Len(s) - keep)]

StreamInit ==
    /\ raw \in RawTexts
    /\ arrived = 0 /\ inThink = FALSE /\ pending = <<>> /\ streamed = <<>>
    /\ answer = Unfinished

(* A piece arrives: Recv, Feed, onDelta.                                      *)
Receive ==
    /\ answer = Unfinished
    /\ \E n \in 1..MaxChunk :
         /\ arrived + n <= Len(raw)
         /\ LET fed == Feed(pending \o SubSeq(raw, arrived + 1, arrived + n), inThink, <<>>)
            IN  /\ streamed' = streamed \o fed.out
                /\ pending' = fed.pending
                /\ inThink' = fed.thinking
         /\ arrived' = arrived + n
    /\ UNCHANGED <<raw, answer>>

(* The end: Flush gives what is held back outside a thought, and the whole    *)
(* text is recorded; an empty answer is refused (aiAgentChat).                *)
EndStream ==
    /\ answer = Unfinished /\ arrived = Len(raw)
    /\ streamed' = IF inThink THEN streamed ELSE streamed \o pending
    /\ pending' = <<>>
    /\ answer' = IF stripThinkAll(raw) = <<>> THEN Refused ELSE stripThinkAll(raw)
    /\ UNCHANGED <<raw, arrived, inThink>>

(* The stream breaks off: nothing is recorded.                                *)
BreakOff ==
    /\ answer = Unfinished
    /\ answer' = BrokenOff
    /\ UNCHANGED <<raw, arrived, inThink, pending, streamed>>

StreamNext == Receive \/ EndStream \/ BreakOff
StreamSpec == StreamInit /\ [][StreamNext]_streamVars

-----------------------------------------------------------------------------
(* The variables have their types.                                            *)
StreamTypeOK ==
    /\ arrived \in 0..Len(raw)
    /\ inThink \in BOOLEAN
    /\ Len(pending) < Len(OpenTag) \/ Len(pending) < Len(CloseTag)

(* What one pass over the whole text leaves.                                  *)
OnePass == LET fed == Feed(raw, FALSE, <<>>)
           IN  fed.out \o (IF fed.thinking THEN <<>> ELSE fed.pending)

(* However the stream was cut, the panel was shown exactly the answer that is  *)
(* recorded and that a retry replays; and nothing of an answer that was        *)
(* refused as empty.  Only where taking a thought out puts a new tag together   *)
(* do the two differ: stripThinkAll takes that out as well.                    *)
ShownIsRecorded ==
    answer \notin {Unfinished, BrokenOff} /\ ~Has(OnePass, OpenTag) =>
      streamed = IF answer = Refused THEN <<>> ELSE answer

(* What was shown is never taken back: at every moment, also where the stream   *)
(* breaks off in a tag, it is the beginning of what one pass leaves.            *)
ShownIsFinal == IsPrefix(streamed, OnePass)

(* The panel shows the recorded answer, and never more than that before.      *)
PanelShowsAnswer == ShownIsRecorded /\ ShownIsFinal
=============================================================================
