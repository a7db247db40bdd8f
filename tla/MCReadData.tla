------------------------------ MODULE MCReadData ------------------------------
(* Small instances of reads and writes through one queue pair. *)
EXTENDS ReadData, QueuePair, TLC

CONSTANTS t1, t2, t3

\* Every thread reads, and every read is followed by a second one.
AllRead == [t \in Threads |-> {"read"}]

\* One thread reads and the others write.
OneReads == t1 :> {"read"} @@ t2 :> {"write"} @@ t3 :> {"write"}

\* One thread reads twice and the other once; and one transfer each.
TwiceAndOnce == t1 :> 2 @@ t2 :> 1
OnceEach == [t \in Threads |-> 1]

\* The queues of a program that asks for a depth of 1024 on a controller of few
\* entries.
SqOf4 == sq_size(TRUE, 3, 1024)
CqOf4 == cq_size(TRUE, 3, 1024)
SqOf2 == sq_size(FALSE, 1, 1024)
CqOf2 == cq_size(FALSE, 1, 1024)

Symmetry == Permutations(Cids)
==============================================================================
