------------------------------- MODULE BatchPipe -------------------------------
(***************************************************************************)
(* What the GIDS loader promises whoever iterates over it: the batches the  *)
(* graph sampler draws come out in the order they were drawn, none left out *)
(* and none twice, each with the features of its own nodes.  It promises    *)
(* nothing on how far the batches lag behind the sampler, and of a row that *)
(* was lost, or is blank, only that it comes with nothing of another row.   *)
(***************************************************************************)
EXTENDS Naturals, Sequences

CONSTANTS
  Batches,            \* what the sampler may draw
  Features(_, _, _)   \* what a batch may come with, by the rows lost and blank

VARIABLES
  sampled,        \* batches drawn so far
  returned,       \* batches handed out, with the features they came with
  lost,           \* rows of batches whose read failed
  blank           \* rows of the table that are not served

Init == sampled = <<>> /\ returned = <<>> /\ lost = {} /\ blank = {}

\* Before the first batch the caller sets the store up.
SetUp ==
  /\ sampled = <<>>
  /\ UNCHANGED <<sampled, returned, lost>>

Sample(b) ==
  /\ sampled' = Append(sampled, b)
  /\ UNCHANGED <<returned, lost, blank>>

\* Features are read, ahead of their batches or with them, and reads fail.
Lose ==
  /\ lost \subseteq lost'
  /\ UNCHANGED <<sampled, returned, blank>>

Return ==
  /\ Len(returned) < Len(sampled)
  /\ lost \subseteq lost'
  /\ LET b == sampled[Len(returned) + 1]
     IN \E f \in Features(b, lost', blank) :
          returned' = Append(returned, [batch |-> b, features |-> f])
  /\ UNCHANGED <<sampled, blank>>

Next == SetUp \/ (\E b \in Batches : Sample(b)) \/ Lose \/ Return

Spec == Init /\ [][Next]_<<sampled, returned, lost, blank>>
==============================================================================
