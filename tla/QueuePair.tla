------------------------------ MODULE QueuePair ------------------------------
(***************************************************************************)
(* The sizes of the queues of a pair: QueuePair's constructor               *)
(* (bam/include/queue.h) takes them from the program's queue depth and from *)
(* what the controller says of itself (CAP).  nvm_queue_clear               *)
(* (bam/src/queue.cpp) accepts or refuses them.                             *)
(***************************************************************************)
EXTENDS Integers

MAX_SQ_ENTRIES_64K == 1024
MAX_CQ_ENTRIES_64K == 4096

Least(a, b) == IF a <= b THEN a ELSE b

\* Entries of a queue of which "most" fit in 64 KB: a controller that wants its
\* queues in one piece (cqr, CAP.CQR) gets no more.  mqes is CAP.MQES, from 0.
Entries(most, cqr, mqes, depth) ==
  Least(depth, IF cqr THEN Least(most, mqes + 1) ELSE mqes + 1)

sq_size(cqr, mqes, depth) == Entries(MAX_SQ_ENTRIES_64K, cqr, mqes, depth)
cq_size(cqr, mqes, depth) == Entries(MAX_CQ_ENTRIES_64K, cqr, mqes, depth)

\* nvm_queue_clear returns no error.
Accepted(qs, mqes) == 2 <= qs /\ qs <= 2^16 /\ qs <= mqes + 1
==============================================================================
