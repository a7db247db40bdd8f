----------------------------- MODULE MCPageCache -----------------------------
(* The page cache under a kernel of loads, stores and atomic additions. *)
EXTENDS PageCacheInv, TLC

CONSTANTS p1, p2, p3, c1, c2

\* Three pages: one replicated, two striped to one controller and interchangeable.
MixedCopies == p1 :> {c1} @@ p2 :> {c1, c2} @@ p3 :> {c1}

TwoEach == [t \in Threads |-> 2]

Symmetry == Permutations(Threads) \cup Permutations(Values) \cup Permutations({p1, p3})
==============================================================================
