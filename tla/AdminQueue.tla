------------------------------ MODULE AdminQueue ------------------------------
(***************************************************************************)
(* Admin commands: nvm_raw_rpc and execute_command (bam/src/rpc.cpp) over   *)
(* the queues of bam/include/nvm_queue.h and nvm_cq_dequeue_block           *)
(* (bam/src/queue.cpp), against a controller that fetches commands in       *)
(* order, completes them in any order and as late as it likes.              *)
(*                                                                         *)
(* A command is the number of the call that sent it.  Its command id is     *)
(* left out: it is written into the command and never looked at again.      *)
(***************************************************************************)
EXTENDS Integers, FiniteSets

CONSTANTS
  Callers,   \* threads of the process
  sq_size,   \* nvm_queue_t::qs of the ASQ
  cq_size,   \* nvm_queue_t::qs of the ACQ
  MaxCalls,  \* bound: calls of nvm_raw_rpc
  NoOne      \* holder of a lock nobody holds

ASSUME QueueAssumption ==
  /\ sq_size \in Nat \ {0, 1} /\ 2^16 % sq_size = 0   \* a page holds 2^k commands
  /\ cq_size \in Nat \ {0, 1}
  /\ MaxCalls \in Nat
  /\ NoOne \notin Callers

Calls == 1 .. MaxCalls

\* errno values
EAGAIN == -11
ETIME  == -62

VARIABLES
  lock,     \* nvm_admin_reference::lock
  asq,      \* head, tail, and last: the tail the doorbell was rung with
  commands, \* memory of the ASQ
  acq,      \* head, phase, and last: the head the doorbell was rung with
  entries,  \* memory of the ACQ: phase and command
  ctrl,     \* the controller: fetched, the next slot it fetches from; working, the
            \* commands it has not completed; tail and phase, its place in the ACQ
  calls,    \* calls made
  stage,    \* where each caller is: idle, or wait (for a completion)
  got       \* result of each call: the command of the completion it returned with,
            \* EAGAIN or ETIME; 0 before

adminVars == <<lock, asq, commands, acq, entries, ctrl, calls, stage, got>>

AdminInit ==
  /\ lock = NoOne
  /\ asq = [head |-> 0, tail |-> 0, last |-> 0]
  /\ commands = [s \in 0 .. sq_size - 1 |-> 0]
  /\ acq = [head |-> 0, phase |-> 1, last |-> 0]
  /\ entries = [s \in 0 .. cq_size - 1 |-> [phase |-> 0, command |-> 0]]
  /\ ctrl = [fetched |-> 0, working |-> {}, tail |-> 0, phase |-> 1]
  /\ calls = 0
  /\ stage = [c \in Callers |-> "idle"]
  /\ got = [i \in Calls |-> 0]

\* ((uint16_t) (tail - head) % qs) of nvm_sq_enqueue
Used == ((asq.tail - asq.head) % 2^16) % sq_size

\* nvm_sq_enqueue returns NULL.
Full == Used = sq_size - 1

\* nvm_raw_rpc takes the lock; execute_command puts the command in the next slot
\* and rings the doorbell, or gives up on a full queue.
Submit(c) ==
  /\ lock = NoOne /\ stage[c] = "idle" /\ calls < MaxCalls
  /\ calls' = calls + 1
  /\ \/ /\ Full
        /\ got' = [got EXCEPT ![calls'] = EAGAIN]
        /\ UNCHANGED <<lock, asq, commands, stage>>
     \/ /\ ~Full
        /\ lock' = c
        /\ commands' = [commands EXCEPT ![asq.tail] = calls']
        /\ LET tail == (asq.tail + 1) % sq_size
           IN asq' = [asq EXCEPT !.tail = tail, !.last = tail]
        /\ stage' = [stage EXCEPT ![c] = "wait"]
        /\ UNCHANGED got
  /\ UNCHANGED <<acq, entries, ctrl>>

\* nvm_cq_poll finds an entry of the current phase.
Ready == entries[acq.head].phase = acq.phase

\* Fault: the phase stays the same when the head comes round.
DequeuedSamePhase == [acq EXCEPT !.head = (@ + 1) % cq_size]

\* What nvm_cq_dequeue does to the queue.
Dequeued == [acq EXCEPT !.head = (@ + 1) % cq_size,
                        !.phase = IF acq.head + 1 = cq_size THEN 1 - @ ELSE @]

\* nvm_cq_dequeue_block returns a completion: nvm_sq_update gives a slot back, the
\* completion is copied, nvm_cq_update rings the doorbell, and nvm_raw_rpc gives
\* the lock back.  The controller sees nothing of it before the doorbell.
Return(c) ==
  /\ stage[c] = "wait" /\ Ready
  /\ acq' = [Dequeued EXCEPT !.last = Dequeued.head]
  /\ asq' = [asq EXCEPT !.head = (@ + 1) % sq_size]
  /\ got' = [got EXCEPT ![calls] = entries[acq.head].command]
  /\ stage' = [stage EXCEPT ![c] = "idle"]
  /\ lock' = NoOne
  /\ UNCHANGED <<commands, entries, ctrl, calls>>

\* Fault: a command that timed out is taken for done.
HeadPastTimeout == [asq EXCEPT !.head = (@ + 1) % sq_size]

\* The ASQ after a timeout: the slot is not given back.
HeadAtTimeout == asq

\* nvm_cq_dequeue_block has found nothing when its time is up.
TimeOut(c) ==
  /\ stage[c] = "wait" /\ ~Ready
  /\ got' = [got EXCEPT ![calls] = ETIME]
  /\ asq' = HeadAtTimeout
  /\ stage' = [stage EXCEPT ![c] = "idle"]
  /\ lock' = NoOne
  /\ UNCHANGED <<commands, acq, entries, ctrl, calls>>

\* The controller fetches the next command it was told of.
Fetch ==
  /\ ctrl.fetched # asq.last
  /\ ctrl' = [ctrl EXCEPT !.fetched = (@ + 1) % sq_size,
                          !.working = @ \union {commands[ctrl.fetched]}]
  /\ UNCHANGED <<lock, asq, commands, acq, entries, calls, stage, got>>

\* The controller completes a command, where the ACQ has a free slot.
Complete ==
  \E i \in ctrl.working :
    /\ (ctrl.tail + 1) % cq_size # acq.last
    /\ entries' = [entries EXCEPT ![ctrl.tail] = [phase |-> ctrl.phase, command |-> i]]
    /\ ctrl' = [ctrl EXCEPT !.working = @ \ {i},
                            !.tail = (@ + 1) % cq_size,
                            !.phase = IF ctrl.tail + 1 = cq_size THEN 1 - @ ELSE @]
    /\ UNCHANGED <<lock, asq, commands, acq, calls, stage, got>>

Rpc(c) == Submit(c) \/ Return(c) \/ TimeOut(c)
------------------------------------------------------------------------------
Answered(i) == got[i] \in Calls

\* No completion is returned to two calls: an entry of an earlier round of the
\* ACQ is not taken for a new one.
CompletedOnce ==
  \A i, j \in Calls : Answered(i) /\ got[i] = got[j] => i = j

\* The slots of the ASQ in use are as many as the commands whose completion no
\* call has returned with: a command that timed out keeps its slot, and its late
\* completion, whichever call returns with it, gives the slot back.
SlotsInUse ==
  LET sent     == {i \in 1 .. calls : got[i] # EAGAIN}
      returned == {got[i] : i \in {j \in Calls : Answered(j)}}
  IN Used = Cardinality(sent \ returned)

\* As long as no call has timed out, a call returns with the completion of its
\* own command, whoever called before.
OwnUnlessTimedOut ==
  \A i \in Calls :
    Answered(i) /\ (\A j \in 1 .. i - 1 : got[j] # ETIME) => got[i] = i

\* What nvm_rpc.h says of every call: it gets the corresponding completion.
OwnCompletion == \A i \in Calls : Answered(i) => got[i] = i
==============================================================================
