------------------------------ MODULE IoService ------------------------------
(***************************************************************************)
(* What read_data and write_data (bam/include/page_cache.h) expect of a     *)
(* queue pair: a thread that asks for a transfer gets it done by the SSD    *)
(* exactly once, and goes on only after that.  Nothing here knows of        *)
(* queues, command ids or doorbells.                                        *)
(***************************************************************************)
EXTENDS Naturals

CONSTANT Threads   \* threads that use the queue pair

VARIABLES
  asked,      \* transfers a thread has asked for
  served,     \* transfers of a thread the SSD has made
  returned    \* transfers a thread was told of

ioVars == <<asked, served, returned>>

Init ==
  /\ asked = [t \in Threads |-> 0]
  /\ served = [t \in Threads |-> 0]
  /\ returned = [t \in Threads |-> 0]

Ask(t) ==
  /\ asked[t] = returned[t]
  /\ asked' = [asked EXCEPT ![t] = @ + 1]
  /\ UNCHANGED <<served, returned>>

Serve(t) ==
  /\ served[t] < asked[t]
  /\ served' = [served EXCEPT ![t] = @ + 1]
  /\ UNCHANGED <<asked, returned>>

Return(t) ==
  /\ returned[t] < served[t]
  /\ returned' = [returned EXCEPT ![t] = @ + 1]
  /\ UNCHANGED <<asked, served>>

Next == \E t \in Threads : Ask(t) \/ Serve(t) \/ Return(t)

Spec == Init /\ [][Next]_ioVars
==============================================================================
