------------------------------ MODULE MCBamPtr ------------------------------
(* Small instances of bam_ptr, with a flush after the kernel. *)
EXTENDS PageCacheFlush, TLC

CONSTANTS p1, p2, p3, c1, c2, t1, t2, old, new

\* Three pages over two controllers, and two slots: slot 0 has the number of
\* p1 and slot 1 that of p2.
StripedCopies == p1 :> {c1, c2} @@ p2 :> {c2} @@ p3 :> {c1}
FirstPages == 0 :> p1 @@ 1 :> p2

\* t1 and t2 are groups of one warp, which acquire their pages together or apart.
OnePair == {{t1, t2}}

\* The accesses of each thread: one may want the page the other evicts.
TwoEach == [t \in Threads |-> 2]

\* All groups of all warps but one each may wait in __syncwarp with their page: one
\* more slot lets the last ones go on.  There are pages enough for a warp's groups to
\* differ.
ASSUME EnoughSlots ==
  /\ NSlots > Cardinality(Threads) - Cardinality(Warps)
  /\ \A w \in Warps : Cardinality(w) <= Cardinality(Pages)

\* What the SSDs hold is old, what is in the slots is not.
OldInit ==
  /\ FlushInit
  /\ \A p \in Pages : original[p] = old
  /\ data = [s \in Slots |-> new]
  /\ got = [t \in Threads |-> old]

\* Bound: only t1 is a group of more than one lane.
OneGroup == \A t \in Threads : lanes'[t] > 1 => t = t1

OldSpec == OldInit /\ [][FlushNext /\ OneGroup]_allVars /\ UserFairness
==============================================================================
