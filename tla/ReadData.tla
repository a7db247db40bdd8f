------------------------------ MODULE ReadData ------------------------------
(***************************************************************************)
(* read_data, write_data and enqueue_second (bam/include/page_cache.h) on   *)
(* one queue pair.  A thread that has found the completion of its read      *)
(* takes a place in a sequence (q_tail) and then makes sure that a second,  *)
(* one-block read follows it: either its own, under q_lock and with the     *)
(* same command id, or that of another thread, recognised by q_head having  *)
(* moved past its place.                                                    *)
(*                                                                         *)
(* The queue pair is NvmQueue, step for step; stage says which part of      *)
(* read_data a thread runs it for.                                          *)
(***************************************************************************)
EXTENDS NvmQueue

CONSTANTS
  Wrap,     \* q_head and q_tail are modulo this (2^64)
  Starts,   \* what both may be when the kernel begins
  Kinds     \* [Threads -> SUBSET {"read", "write"}]: what a thread may ask for

ASSUME ReadAssumption ==
  /\ Wrap \in Nat \ {0}
  /\ Starts \subseteq 0 .. Wrap - 1
  /\ Kinds \in [Threads -> SUBSET {"read", "write"}]

VARIABLES
  q_head, q_tail, q_lock,  \* page_cache_d_t
  kind,                    \* "read" (read_data) or "write" (write_data)
  stage,                   \* the part of it a thread is in
  prev_head,               \* pc_prev_head
  pos,                     \* pc_pos
  cur_tail,                \* cur_pc_tail
  extra_reads,             \* second reads each thread has begun
  behind,                  \* history: reads that had completed when a thread
                           \* loaded q_tail for its second read
  followed                 \* history: reads behind a second read that was made

seqVars == <<q_head, q_tail, q_lock>>
readVars == <<prev_head, pos, cur_tail, extra_reads>>
historyVars == <<behind, followed>>
allVars == <<vars, seqVars, kind, stage, readVars, historyVars>>

Stages == {"first", "load", "counted", "trying", "second", "loaded", "stored",
           "published", "done"}

\* Reads that have completed and wait for a second read.
Waiting == {t \in Threads : kind[t] = "read" /\ stage[t] \in Stages \ {"first", "load", "done"}}

SetStage(t, s) == stage' = [stage EXCEPT ![t] = s]

\* A kernel finds both counters equal, as the one before has left them, anywhere
\* in their range.
ReadInit ==
  /\ Init
  /\ q_head \in Starts
  /\ q_tail = q_head
  /\ q_lock = 0
  /\ kind = [t \in Threads |-> "read"]
  /\ stage = [t \in Threads |-> "first"]
  /\ prev_head = [t \in Threads |-> 0]
  /\ pos = [t \in Threads |-> 0]
  /\ cur_tail = [t \in Threads |-> 0]
  /\ extra_reads = [t \in Threads |-> 0]
  /\ behind = [t \in Threads |-> {}]
  /\ followed = {}
------------------------------------------------------------------------------
\* Fault: the counters are compared as if they never wrapped.
PastCompared(prev, p, cur) == p < cur

\* sec of enqueue_second: the head has moved from prev past p.
Past(prev, p, cur) ==
  \/ cur < prev /\ prev <= p
  \/ prev <= p /\ p < cur
  \/ p < cur /\ cur < prev
------------------------------------------------------------------------------
(* The queue's operations, for the first and for the second read *)

Begin(t, k, c) ==
  /\ GetCid(t, c)
  /\ k \in Kinds[t]
  /\ kind' = [kind EXCEPT ![t] = k]
  /\ followed' = followed \ {t}
  /\ behind' = [u \in Threads |-> behind[u] \ {t}]
  /\ UNCHANGED <<seqVars, stage, readVars>>

\* sq_enqueue of the second read loads q_tail between the copy and the mark.
CopyCommand(t) ==
  /\ Copy(t)
  /\ IF stage[t] = "second"
       THEN /\ cur_tail' = [cur_tail EXCEPT ![t] = q_tail]
            /\ behind' = [behind EXCEPT ![t] = Waiting]
       ELSE UNCHANGED <<cur_tail, behind>>
  /\ UNCHANGED <<kind, seqVars, stage, prev_head, pos, extra_reads, followed>>

\* ... and again before it rings the doorbell, if it is the one to move the tail.
LoadTail(t) ==
  /\ pc[t] = "ring" /\ stage[t] = "second"
  /\ cur_tail' = [cur_tail EXCEPT ![t] = q_tail]
  /\ SetStage(t, "loaded")
  /\ behind' = [behind EXCEPT ![t] = Waiting]
  /\ UNCHANGED <<kind, vars, seqVars, prev_head, pos, extra_reads, followed>>

RingDoorbell(t) ==
  /\ RingTail(t)
  /\ stage[t] # "second"
  /\ stage' = IF stage[t] = "loaded" THEN [stage EXCEPT ![t] = "second"] ELSE stage
  /\ UNCHANGED <<kind, seqVars, readVars, historyVars>>

QueueStep(t) ==
  /\ \/ TakeTicket(t) \/ AwaitTurn(t) \/ MarkTail(t)
     \/ LookTail(t) \/ TryTail(t) \/ MoveTail(t) \/ StoreTail(t)
     \/ UnlockTail(t) \/ Leave(t)
     \/ Poll(t) \/ Entry(t)
     \/ stage[t] \in {"counted", "published"} /\ PosLock(t)
     \/ MarkHead(t) \/ LookHead(t) \/ TryHead(t) \/ MoveHead(t) \/ ReadSqHead(t)
     \/ Free(t) \/ MoveSqHead(t) \/ RingHead(t) \/ StoreHead(t) \/ UnlockHead(t)
     \/ AwaitHead(t) \/ PosFree(t)
  /\ UNCHANGED <<kind, seqVars, stage, readVars, historyVars>>
------------------------------------------------------------------------------
(* read_data between cq_poll and cq_dequeue *)

LoadHead(t) ==
  /\ pc[t] = "poslock" /\ stage[t] = "first"
  /\ prev_head' = [prev_head EXCEPT ![t] = q_head]
  /\ SetStage(t, "load")
  /\ UNCHANGED <<kind, vars, seqVars, pos, cur_tail, extra_reads, historyVars>>

CountRead(t) ==
  /\ stage[t] = "load"
  /\ pos' = [pos EXCEPT ![t] = q_tail]
  /\ q_tail' = (q_tail + 1) % Wrap
  /\ SetStage(t, "counted")
  /\ UNCHANGED <<kind, vars, q_head, q_lock, prev_head, cur_tail, extra_reads,
                 historyVars>>
------------------------------------------------------------------------------
(* enqueue_second, which write_data does not call *)

\* Has the head passed the read's place?
LookQHead(t) ==
  /\ pc[t] = "putcid" /\ stage[t] = "counted" /\ kind[t] = "read"
  /\ SetStage(t, IF Past(prev_head[t], pos[t], q_head) THEN "done" ELSE "trying")
  /\ UNCHANGED <<kind, vars, seqVars, readVars, historyVars>>

\* Load of q_lock and fetch_or: a failure changes nothing.
TryQLock(t) ==
  /\ stage[t] = "trying"
  /\ \/ /\ q_lock = 1
        /\ SetStage(t, "counted")
        /\ UNCHANGED <<vars, q_lock, extra_reads>>
     \/ /\ q_lock = 0
        /\ q_lock' = 1
        /\ SetStage(t, "second")
        /\ Goto(t, "ticket")
        /\ extra_reads' = [extra_reads EXCEPT ![t] = @ + 1]
        /\ UNCHANGED <<sqVars, cqVars, ssdVars, idVars, moveVars, pollVars>>
  /\ UNCHANGED <<kind, q_head, q_tail, prev_head, pos, cur_tail, historyVars>>

\* Its completion found, the head moves to the tail loaded with the command.
StoreQHead(t) ==
  /\ pc[t] = "poslock" /\ stage[t] = "second"
  /\ q_head' = cur_tail[t]
  /\ SetStage(t, "stored")
  /\ followed' = followed \cup behind[t]
  /\ behind' = [behind EXCEPT ![t] = {}]
  /\ UNCHANGED <<kind, vars, q_tail, q_lock, readVars>>

UnlockQ(t) ==
  /\ stage[t] = "stored"
  /\ q_lock' = 0
  /\ SetStage(t, "published")
  /\ UNCHANGED <<kind, vars, q_head, q_tail, readVars, historyVars>>

\* put_cid, and read_data or write_data returns.
Return(t) ==
  /\ PutCid(t)
  /\ stage[t] \in {"done", "published"} \cup (IF kind[t] = "write" THEN {"counted"} ELSE {})
  /\ SetStage(t, "first")
  /\ prev_head' = [prev_head EXCEPT ![t] = 0]
  /\ pos' = [pos EXCEPT ![t] = 0]
  /\ cur_tail' = [cur_tail EXCEPT ![t] = 0]
  /\ UNCHANGED <<kind, seqVars, extra_reads, historyVars>>
------------------------------------------------------------------------------
Device == Ssd /\ UNCHANGED <<kind, seqVars, stage, readVars, historyVars>>

ReadStep(t) ==
  \/ \E k \in {"read", "write"}, c \in Cids : Begin(t, k, c)
  \/ CopyCommand(t) \/ LoadTail(t) \/ RingDoorbell(t) \/ QueueStep(t)
  \/ LoadHead(t) \/ CountRead(t)
  \/ LookQHead(t) \/ TryQLock(t) \/ StoreQHead(t) \/ UnlockQ(t)
  \/ Return(t)

ReadNext ==
  \/ \E t \in Threads : ReadStep(t)
  \/ Device
  \/ Returned /\ UNCHANGED allVars

ReadSpec == ReadInit /\ [][ReadNext]_allVars

\* Threads keep being scheduled and the SSD keeps executing commands.
FairReadSpec ==
  /\ ReadSpec
  /\ WF_allVars(Device)
  /\ \A t \in Threads : WF_allVars(ReadStep(t))
------------------------------------------------------------------------------
ReadTypeOK ==
  /\ TypeOK
  /\ q_head \in 0 .. Wrap - 1
  /\ q_tail \in 0 .. Wrap - 1
  /\ q_lock \in {0, 1}
  /\ kind \in [Threads -> {"read", "write"}]
  /\ stage \in [Threads -> Stages]
  /\ prev_head \in [Threads -> 0 .. Wrap - 1]
  /\ pos \in [Threads -> 0 .. Wrap - 1]
  /\ cur_tail \in [Threads -> 0 .. Wrap - 1]
  /\ extra_reads \in [Threads -> Nat]
  /\ behind \in [Threads -> SUBSET Threads]
  /\ followed \in SUBSET Threads

\* First and second reads are each made once, and a thread goes on only after it
\* was told of its own: the second read uses the first one's id again at once,
\* and its completion must not be mistaken.
Told(t) == MaxOps[t] - todo[t] + extra_reads[t]

Transfers == INSTANCE IoService WITH
  asked    <- [t \in Threads |-> Told(t)],
  served   <- served,
  returned <- [t \in Threads |->
                 IF \/ pc[t] \in {"idle", "putcid"}
                    \/ pc[t] = "poslock" /\ stage[t] \notin {"first", "second"}
                    \/ stage[t] \in {"stored", "published", "counted", "done"}
                   THEN Told(t) ELSE Told(t) - 1]

TransfersOnce == Transfers!Spec

\* A read returns only when some thread has found the completion of a second read
\* for which it loaded q_tail after the read had taken its place: the comparison
\* of three counters that wrap never lets a read go early.
ReadIsFollowed ==
  \A t \in Threads :
    kind[t] = "read" /\ pc[t] = "putcid" /\ stage[t] \in {"done", "published"} =>
      t \in followed

\* Every read and write returns: nobody waits for ever for a place in a queue, for
\* the tail or the head to be moved, or for q_lock, whose holder needs a place and
\* a completion of its own.
KernelReturns == <>Returned
==============================================================================
