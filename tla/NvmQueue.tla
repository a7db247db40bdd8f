------------------------------- MODULE NvmQueue -------------------------------
(***************************************************************************)
(* A submission and a completion queue shared by the threads of a GPU       *)
(* (bam/include/nvm_parallel_queue.h) and the SSD behind them.  A thread    *)
(* takes a command id and a ticket, waits for its turn at the ticket's      *)
(* place, writes its command there and marks the place; whoever holds       *)
(* tail_lock moves the tail over all marked places and rings the doorbell.  *)
(* The thread then looks for its completion, marks it, and whoever holds    *)
(* head_lock moves the head over all marked completions, frees the          *)
(* submission places the SSD has fetched and rings the other doorbell.      *)
(*                                                                         *)
(* Every atomic operation of the code on memory that others may change      *)
(* meanwhile is one action.  Queue counters are not reduced modulo 2^32.    *)
(***************************************************************************)
EXTENDS Integers, FiniteSets

CONSTANTS
  Threads,   \* threads that use the queue pair
  SqSize,    \* sq->qs
  CqSize,    \* cq->qs
  Cids,      \* command ids (65536 of them)
  Stale,     \* ids that the entries of a new completion queue may hold
  NoCid,     \* no command id
  Nobody,    \* owner of a place no command was written to
  MaxOps     \* bound: commands each thread submits before its kernel returns

\* Sizes are powers of two, since positions are masked with qs - 1.
ASSUME QueueAssumption ==
  /\ SqSize \in Nat /\ SqSize >= 2
  /\ CqSize \in Nat /\ CqSize >= SqSize
  /\ Stale \subseteq Cids
  /\ NoCid \notin Cids
  /\ Nobody \notin Threads
  /\ MaxOps \in [Threads -> Nat]

VARIABLES
  \* the submission queue
  in_ticket,   \* next ticket
  tickets,     \* per place: twice the round, plus one for each of the two
               \* events that free it (its user has left, the SSD has fetched)
  tail_mark,   \* per place: holds a command that was not submitted yet
  tail_lock,   \* thread that holds sq->tail_lock, or Nobody
  sq_tail, sq_head,
  sq_mem,      \* commands: [owner, cid]
  sq_db,       \* doorbell
  cid_lock,    \* sq->cid: ids in use
  \* the completion queue
  head_mark,   \* per place: holds a completion that was recognised
  head_lock,   \* thread that holds cq->head_lock, or Nobody
  pos_locks,   \* per place: a thread is dequeueing its completion
  cq_head,
  cq_mem,      \* completions: [cid, phase, sqhd]
  cq_db,       \* doorbell
  \* the SSD
  fetched,     \* place of the submission queue it fetches next
  working,     \* commands it has fetched and not completed: [place, cmd]
  posted,      \* completions posted
  served,      \* commands of a thread it has executed
  \* the threads
  pc,          \* where a thread is in the code
  cid,         \* its command id
  ticket,      \* its ticket
  moved,       \* count in move_tail and move_head_cq
  freed,       \* sq_move_count in move_head_cq
  new_sq_head, \* new_sq_head in move_head_cq
  head,        \* cq_poll: head it started from
  loc,         \* cq_poll: place it looks at, then that of its completion
  todo         \* commands left

sqVars == <<in_ticket, tickets, tail_mark, tail_lock, sq_tail, sq_head, sq_mem, sq_db,
            cid_lock>>
cqVars == <<head_mark, head_lock, pos_locks, cq_head, cq_mem, cq_db>>
ssdVars == <<fetched, working, posted, served>>
moveVars == <<moved, freed, new_sq_head>>
pollVars == <<head, loc>>
idVars == <<cid, ticket, todo>>
vars == <<sqVars, cqVars, ssdVars, pc, idVars, moveVars, pollVars>>
------------------------------------------------------------------------------
SqPos(n) == n % SqSize
CqPos(n) == n % CqSize

\* get_id: tickets advance by two in a round.
get_id(n) == 2 * (n \div SqSize)

\* Phase bit of the completions of the round in which place n is written.
Phase(n) == 1 - ((n \div CqSize) % 2)

Goto(t, label) == pc' = [pc EXCEPT ![t] = label]

Init ==
  /\ in_ticket = 0
  /\ tickets = [p \in 0 .. SqSize - 1 |-> 0]
  /\ tail_mark = [p \in 0 .. SqSize - 1 |-> FALSE]
  /\ tail_lock = Nobody
  /\ sq_tail = 0
  /\ sq_head = 0
  /\ sq_mem = [p \in 0 .. SqSize - 1 |-> [owner |-> Nobody, cid |-> NoCid]]
  /\ sq_db = 0
  /\ cid_lock = {}
  /\ head_mark = [p \in 0 .. CqSize - 1 |-> FALSE]
  /\ head_lock = Nobody
  /\ pos_locks = [p \in 0 .. CqSize - 1 |-> FALSE]
  /\ cq_head = 0
  /\ cq_mem \in [0 .. CqSize - 1 -> [cid : Stale, phase : {0}, sqhd : {0}]]
  /\ \A p, q \in 0 .. CqSize - 1 : cq_mem[p] = cq_mem[q]
  /\ cq_db = 0
  /\ fetched = 0
  /\ working = {}
  /\ posted = 0
  /\ served = [t \in Threads |-> 0]
  /\ pc = [t \in Threads |-> "idle"]
  /\ cid = [t \in Threads |-> NoCid]
  /\ ticket = [t \in Threads |-> 0]
  /\ moved = [t \in Threads |-> 0]
  /\ freed = [t \in Threads |-> 0]
  /\ new_sq_head = [t \in Threads |-> 0]
  /\ head = [t \in Threads |-> 0]
  /\ loc = [t \in Threads |-> 0]
  /\ todo = MaxOps
------------------------------------------------------------------------------
(* Faulty variants of actions below, each a bug one edit away. *)

\* One of the two events of the round before is enough.
AwaitTurnEither(t) ==
  /\ pc[t] = "turn"
  /\ tickets[SqPos(ticket[t])] >= get_id(ticket[t]) - 1
  /\ Goto(t, "copy")
  /\ UNCHANGED <<sqVars, cqVars, ssdVars, idVars, moveVars, pollVars>>

\* move_tail keeps the lock if it moved the tail over nothing.
MoveTailKeepLock(t) ==
  LET n == sq_tail + moved[t] IN
  /\ pc[t] = "movetail"
  /\ \/ /\ SqPos(n + 1) # SqPos(sq_head)
        /\ tail_mark[SqPos(n)]
        /\ tail_mark' = [tail_mark EXCEPT ![SqPos(n)] = FALSE]
        /\ moved' = [moved EXCEPT ![t] = @ + 1]
        /\ UNCHANGED pc
     \/ /\ SqPos(n + 1) = SqPos(sq_head) \/ ~tail_mark[SqPos(n)]
        /\ Goto(t, IF moved[t] = 0 THEN "tail" ELSE "ring")
        /\ UNCHANGED <<tail_mark, moved>>
  /\ UNCHANGED <<in_ticket, tickets, tail_lock, sq_tail, sq_head, sq_mem, sq_db,
                 cid_lock, cqVars, ssdVars, idVars, freed, new_sq_head, pollVars>>

\* The doorbell gets the tail without the mask.
RingTailUnmasked(t) ==
  /\ pc[t] = "ring"
  /\ sq_db' = sq_tail + moved[t]
  /\ Goto(t, "settail")
  /\ UNCHANGED <<in_ticket, tickets, tail_mark, tail_lock, sq_tail, sq_head, sq_mem,
                 cid_lock, cqVars, ssdVars, idVars, moveVars, pollVars>>

\* cq_poll recognises a completion by its id alone.
EntryAnyPhase(t) ==
  LET e == cq_mem[CqPos(loc[t])] IN
  /\ pc[t] = "entry"
  /\ IF e.cid = cid[t] THEN Goto(t, "poslock") ELSE Goto(t, "poll")
  /\ UNCHANGED <<sqVars, cqVars, ssdVars, idVars, moveVars, pollVars>>

\* move_head_cq takes the first completion for marked.
MoveHeadBlind(t) ==
  LET p == CqPos(cq_head + moved[t]) IN
  /\ pc[t] = "movehead"
  /\ head_mark' = [head_mark EXCEPT ![p] = FALSE]
  /\ IF head_mark[p] \/ moved[t] = 0
       THEN moved' = [moved EXCEPT ![t] = @ + 1] /\ UNCHANGED pc
       ELSE Goto(t, "sqhd") /\ UNCHANGED moved
  /\ UNCHANGED <<sqVars, head_lock, pos_locks, cq_head, cq_mem, cq_db, ssdVars, idVars,
                 freed, new_sq_head, pollVars>>
------------------------------------------------------------------------------
(* get_cid and sq_enqueue *)

\* get_cid: lock an id nobody uses; which one the id ticket hits is left open.
GetCid(t, c) ==
  /\ pc[t] = "idle"
  /\ todo[t] > 0
  /\ c \notin cid_lock
  /\ cid_lock' = cid_lock \cup {c}
  /\ cid' = [cid EXCEPT ![t] = c]
  /\ todo' = [todo EXCEPT ![t] = @ - 1]
  /\ Goto(t, "ticket")
  /\ UNCHANGED <<in_ticket, tickets, tail_mark, tail_lock, sq_tail, sq_head, sq_mem,
                 sq_db, cqVars, ssdVars, ticket, moveVars, pollVars>>

TakeTicket(t) ==
  /\ pc[t] = "ticket"
  /\ ticket' = [ticket EXCEPT ![t] = in_ticket]
  /\ in_ticket' = in_ticket + 1
  /\ Goto(t, "turn")
  /\ UNCHANGED <<tickets, tail_mark, tail_lock, sq_tail, sq_head, sq_mem, sq_db,
                 cid_lock, cqVars, ssdVars, cid, todo, moveVars, pollVars>>

\* Spin until both events of the round before have happened.
AwaitTurn(t) ==
  /\ pc[t] = "turn"
  /\ tickets[SqPos(ticket[t])] = get_id(ticket[t])
  /\ Goto(t, "copy")
  /\ UNCHANGED <<sqVars, cqVars, ssdVars, idVars, moveVars, pollVars>>

Copy(t) ==
  /\ pc[t] = "copy"
  /\ sq_mem' = [sq_mem EXCEPT ![SqPos(ticket[t])] = [owner |-> t, cid |-> cid[t]]]
  /\ Goto(t, "mark")
  /\ UNCHANGED <<in_ticket, tickets, tail_mark, tail_lock, sq_tail, sq_head, sq_db,
                 cid_lock, cqVars, ssdVars, idVars, moveVars, pollVars>>

MarkTail(t) ==
  /\ pc[t] = "mark"
  /\ tail_mark' = [tail_mark EXCEPT ![SqPos(ticket[t])] = TRUE]
  /\ Goto(t, "tail")
  /\ UNCHANGED <<in_ticket, tickets, tail_lock, sq_tail, sq_head, sq_mem, sq_db,
                 cid_lock, cqVars, ssdVars, idVars, moveVars, pollVars>>

\* Has somebody submitted the command?
LookTail(t) ==
  /\ pc[t] = "tail"
  /\ Goto(t, IF tail_mark[SqPos(ticket[t])] THEN "trytail" ELSE "leave")
  /\ UNCHANGED <<sqVars, cqVars, ssdVars, idVars, moveVars, pollVars>>

\* Load of tail_lock and fetch_or: a failure changes nothing.
TryTail(t) ==
  /\ pc[t] = "trytail"
  /\ \/ tail_lock # Nobody /\ Goto(t, "tail") /\ UNCHANGED tail_lock
     \/ tail_lock = Nobody /\ Goto(t, "movetail") /\ tail_lock' = t
  /\ UNCHANGED <<in_ticket, tickets, tail_mark, sq_tail, sq_head, sq_mem, sq_db,
                 cid_lock, cqVars, ssdVars, idVars, moveVars, pollVars>>

\* One round of move_tail.  (Its last statement adds one to sq->head_lock, which
\* nothing reads: sq_dequeue is never called.)
MoveTail(t) ==
  LET n == sq_tail + moved[t] IN
  /\ pc[t] = "movetail"
  /\ \/ /\ SqPos(n + 1) # SqPos(sq_head)
        /\ tail_mark[SqPos(n)]
        /\ tail_mark' = [tail_mark EXCEPT ![SqPos(n)] = FALSE]
        /\ moved' = [moved EXCEPT ![t] = @ + 1]
        /\ UNCHANGED pc
     \/ /\ SqPos(n + 1) = SqPos(sq_head) \/ ~tail_mark[SqPos(n)]
        /\ Goto(t, IF moved[t] = 0 THEN "untail" ELSE "ring")
        /\ UNCHANGED <<tail_mark, moved>>
  /\ UNCHANGED <<in_ticket, tickets, tail_lock, sq_tail, sq_head, sq_mem, sq_db,
                 cid_lock, cqVars, ssdVars, idVars, freed, new_sq_head, pollVars>>

RingTail(t) ==
  /\ pc[t] = "ring"
  /\ sq_db' = SqPos(sq_tail + moved[t])
  /\ Goto(t, "settail")
  /\ UNCHANGED <<in_ticket, tickets, tail_mark, tail_lock, sq_tail, sq_head, sq_mem,
                 cid_lock, cqVars, ssdVars, idVars, moveVars, pollVars>>

StoreTail(t) ==
  /\ pc[t] = "settail"
  /\ sq_tail' = sq_tail + moved[t]
  /\ moved' = [moved EXCEPT ![t] = 0]
  /\ Goto(t, "untail")
  /\ UNCHANGED <<in_ticket, tickets, tail_mark, tail_lock, sq_head, sq_mem, sq_db,
                 cid_lock, cqVars, ssdVars, idVars, freed, new_sq_head, pollVars>>

UnlockTail(t) ==
  /\ pc[t] = "untail"
  /\ tail_lock' = Nobody
  /\ Goto(t, "tail")
  /\ UNCHANGED <<in_ticket, tickets, tail_mark, sq_tail, sq_head, sq_mem, sq_db,
                 cid_lock, cqVars, ssdVars, idVars, moveVars, pollVars>>

\* The user has left its place: the first of the two events.
Leave(t) ==
  /\ pc[t] = "leave"
  /\ tickets' = [tickets EXCEPT ![SqPos(ticket[t])] = @ + 1]
  /\ ticket' = [ticket EXCEPT ![t] = 0]
  /\ Goto(t, "poll")
  /\ UNCHANGED <<in_ticket, tail_mark, tail_lock, sq_tail, sq_head, sq_mem, sq_db,
                 cid_lock, cqVars, ssdVars, cid, todo, moveVars, pollVars>>
------------------------------------------------------------------------------
(* cq_poll and cq_dequeue *)

Poll(t) ==
  /\ pc[t] = "poll"
  /\ head' = [head EXCEPT ![t] = cq_head]
  /\ loc' = [loc EXCEPT ![t] = cq_head]
  /\ Goto(t, "entry")
  /\ UNCHANGED <<sqVars, cqVars, ssdVars, idVars, moveVars>>

\* Look at one completion: the thread's own, one of this round (go on, as far as
\* qs - 1 of them), or one of the round before (start again).
Entry(t) ==
  LET e == cq_mem[CqPos(loc[t])] IN
  /\ pc[t] = "entry"
  /\ \/ /\ e.phase = Phase(loc[t]) /\ e.cid = cid[t]
        /\ Goto(t, "poslock")
        /\ UNCHANGED loc
     \/ /\ e.phase = Phase(loc[t]) /\ e.cid # cid[t]
        /\ IF loc[t] + 1 < head[t] + CqSize - 1
             THEN loc' = [loc EXCEPT ![t] = @ + 1] /\ UNCHANGED pc
             ELSE Goto(t, "poll") /\ UNCHANGED loc
     \/ /\ e.phase # Phase(loc[t])
        /\ Goto(t, "poll")
        /\ UNCHANGED loc
  /\ UNCHANGED <<sqVars, cqVars, ssdVars, idVars, moveVars, head>>

PosLock(t) ==
  /\ pc[t] = "poslock"
  /\ ~pos_locks[CqPos(loc[t])]
  /\ pos_locks' = [pos_locks EXCEPT ![CqPos(loc[t])] = TRUE]
  /\ Goto(t, "markhead")
  /\ UNCHANGED <<sqVars, head_mark, head_lock, cq_head, cq_mem, cq_db, ssdVars, idVars,
                 moveVars, pollVars>>

MarkHead(t) ==
  /\ pc[t] = "markhead"
  /\ head_mark' = [head_mark EXCEPT ![CqPos(loc[t])] = TRUE]
  /\ Goto(t, "head")
  /\ UNCHANGED <<sqVars, head_lock, pos_locks, cq_head, cq_mem, cq_db, ssdVars, idVars,
                 moveVars, pollVars>>

LookHead(t) ==
  /\ pc[t] = "head"
  /\ Goto(t, IF head_mark[CqPos(loc[t])] THEN "tryhead" ELSE "await")
  /\ UNCHANGED <<sqVars, cqVars, ssdVars, idVars, moveVars, pollVars>>

TryHead(t) ==
  /\ pc[t] = "tryhead"
  /\ \/ head_lock # Nobody /\ Goto(t, "head") /\ UNCHANGED head_lock
     \/ head_lock = Nobody /\ Goto(t, "movehead") /\ head_lock' = t
  /\ UNCHANGED <<sqVars, head_mark, pos_locks, cq_head, cq_mem, cq_db, ssdVars, idVars,
                 moveVars, pollVars>>

\* One round of the first loop of move_head_cq.
MoveHead(t) ==
  LET p == CqPos(cq_head + moved[t]) IN
  /\ pc[t] = "movehead"
  /\ head_mark' = [head_mark EXCEPT ![p] = FALSE]
  /\ IF head_mark[p]
       THEN moved' = [moved EXCEPT ![t] = @ + 1] /\ UNCHANGED pc
       ELSE /\ Goto(t, IF moved[t] = 0 THEN "unhead" ELSE "sqhd")
            /\ UNCHANGED moved
  /\ UNCHANGED <<sqVars, head_lock, pos_locks, cq_head, cq_mem, cq_db, ssdVars, idVars,
                 freed, new_sq_head, pollVars>>

\* The head of the submission queue, as the last of these completions has it.
ReadSqHead(t) ==
  /\ pc[t] = "sqhd"
  /\ new_sq_head' =
       [new_sq_head EXCEPT ![t] = cq_mem[CqPos(cq_head + moved[t] - 1)].sqhd]
  /\ Goto(t, "free")
  /\ UNCHANGED <<sqVars, cqVars, ssdVars, idVars, moved, freed, pollVars>>

\* The SSD has fetched a place: the second of the two events.
Free(t) ==
  LET p == SqPos(sq_head + freed[t]) IN
  /\ pc[t] = "free"
  /\ \/ /\ p # new_sq_head[t]
        /\ tickets' = [tickets EXCEPT ![p] = @ + 1]
        /\ freed' = [freed EXCEPT ![t] = @ + 1]
        /\ UNCHANGED pc
     \/ /\ p = new_sq_head[t]
        /\ Goto(t, "sqhead")
        /\ UNCHANGED <<tickets, freed>>
  /\ UNCHANGED <<in_ticket, tail_mark, tail_lock, sq_tail, sq_head, sq_mem, sq_db,
                 cid_lock, cqVars, ssdVars, idVars, moved, new_sq_head, pollVars>>

MoveSqHead(t) ==
  /\ pc[t] = "sqhead"
  /\ sq_head' = sq_head + freed[t]
  /\ freed' = [freed EXCEPT ![t] = 0]
  /\ new_sq_head' = [new_sq_head EXCEPT ![t] = 0]
  /\ Goto(t, "ringhead")
  /\ UNCHANGED <<in_ticket, tickets, tail_mark, tail_lock, sq_tail, sq_mem, sq_db,
                 cid_lock, cqVars, ssdVars, idVars, moved, pollVars>>

RingHead(t) ==
  /\ pc[t] = "ringhead"
  /\ cq_db' = CqPos(cq_head + moved[t])
  /\ Goto(t, "sethead")
  /\ UNCHANGED <<sqVars, head_mark, head_lock, pos_locks, cq_head, cq_mem, ssdVars,
                 idVars, moveVars, pollVars>>

StoreHead(t) ==
  /\ pc[t] = "sethead"
  /\ cq_head' = cq_head + moved[t]
  /\ moved' = [moved EXCEPT ![t] = 0]
  /\ Goto(t, "unhead")
  /\ UNCHANGED <<sqVars, head_mark, head_lock, pos_locks, cq_mem, cq_db, ssdVars, idVars,
                 freed, new_sq_head, pollVars>>

UnlockHead(t) ==
  /\ pc[t] = "unhead"
  /\ head_lock' = Nobody
  /\ Goto(t, "head")
  /\ UNCHANGED <<sqVars, head_mark, pos_locks, cq_head, cq_mem, cq_db, ssdVars, idVars,
                 moveVars, pollVars>>

\* Spin until the head has passed the completion.  (The code's other case is a
\* head that wrapped at 2^32.)
AwaitHead(t) ==
  /\ pc[t] = "await"
  /\ head[t] <= loc[t] /\ loc[t] < cq_head
  /\ Goto(t, "posfree")
  /\ UNCHANGED <<sqVars, cqVars, ssdVars, idVars, moveVars, pollVars>>

PosFree(t) ==
  /\ pc[t] = "posfree"
  /\ pos_locks' = [pos_locks EXCEPT ![CqPos(loc[t])] = FALSE]
  /\ head' = [head EXCEPT ![t] = 0]
  /\ loc' = [loc EXCEPT ![t] = 0]
  /\ Goto(t, "putcid")
  /\ UNCHANGED <<sqVars, head_mark, head_lock, cq_head, cq_mem, cq_db, ssdVars, idVars,
                 moveVars>>

PutCid(t) ==
  /\ pc[t] = "putcid"
  /\ cid_lock' = cid_lock \ {cid[t]}
  /\ cid' = [cid EXCEPT ![t] = NoCid]
  /\ Goto(t, "idle")
  /\ UNCHANGED <<in_ticket, tickets, tail_mark, tail_lock, sq_tail, sq_head, sq_mem,
                 sq_db, cqVars, ssdVars, ticket, todo, moveVars, pollVars>>
------------------------------------------------------------------------------
(* The SSD: fetches in order up to the doorbell, completes in any order, and    *)
(* never posts into a completion queue that is full.                            *)

Fetch ==
  /\ fetched # sq_db
  /\ working' = working \cup {[place |-> fetched, cmd |-> sq_mem[fetched]]}
  /\ fetched' = SqPos(fetched + 1)
  /\ UNCHANGED <<sqVars, cqVars, posted, served, pc, idVars, moveVars, pollVars>>

Complete(c) ==
  /\ c \in working
  /\ CqPos(posted + 1) # cq_db
  /\ working' = working \ {c}
  /\ served' = [u \in Threads |-> served[u] + (IF u = c.cmd.owner THEN 1 ELSE 0)]
  /\ cq_mem' = [cq_mem EXCEPT ![CqPos(posted)] =
                  [cid |-> c.cmd.cid, phase |-> Phase(posted), sqhd |-> fetched]]
  /\ posted' = posted + 1
  /\ UNCHANGED <<sqVars, head_mark, head_lock, pos_locks, cq_head, cq_db, fetched, pc,
                 idVars, moveVars, pollVars>>

Ssd == Fetch \/ \E c \in working : Complete(c)
------------------------------------------------------------------------------
EnqueueStep(t) ==
  \/ \E c \in Cids : GetCid(t, c)
  \/ TakeTicket(t) \/ AwaitTurn(t) \/ Copy(t) \/ MarkTail(t)
  \/ LookTail(t) \/ TryTail(t) \/ MoveTail(t) \/ RingTail(t) \/ StoreTail(t)
  \/ UnlockTail(t) \/ Leave(t)

DequeueStep(t) ==
  \/ Poll(t) \/ Entry(t) \/ PosLock(t) \/ MarkHead(t)
  \/ LookHead(t) \/ TryHead(t) \/ MoveHead(t) \/ ReadSqHead(t) \/ Free(t)
  \/ MoveSqHead(t) \/ RingHead(t) \/ StoreHead(t) \/ UnlockHead(t)
  \/ AwaitHead(t) \/ PosFree(t) \/ PutCid(t)

Step(t) == EnqueueStep(t) \/ DequeueStep(t)

Returned == \A t \in Threads : pc[t] = "idle" /\ todo[t] = 0

Next ==
  \/ \E t \in Threads : Step(t)
  \/ Ssd
  \/ Returned /\ UNCHANGED vars

Spec == Init /\ [][Next]_vars
------------------------------------------------------------------------------
Labels == {"idle", "ticket", "turn", "copy", "mark", "tail", "trytail", "movetail",
           "ring", "settail", "untail", "leave", "poll", "entry", "poslock", "markhead",
           "head", "tryhead", "movehead", "sqhd", "free", "sqhead", "ringhead",
           "sethead", "unhead", "await", "posfree", "putcid"}

Commands == [owner : Threads \cup {Nobody}, cid : Cids \cup {NoCid}]

TypeOK ==
  /\ in_ticket \in Nat
  /\ tickets \in [0 .. SqSize - 1 -> Nat]
  /\ tail_mark \in [0 .. SqSize - 1 -> BOOLEAN]
  /\ tail_lock \in Threads \cup {Nobody}
  /\ sq_tail \in Nat
  /\ sq_head \in Nat
  /\ sq_mem \in [0 .. SqSize - 1 -> Commands]
  /\ sq_db \in 0 .. SqSize - 1
  /\ cid_lock \in SUBSET Cids
  /\ head_mark \in [0 .. CqSize - 1 -> BOOLEAN]
  /\ head_lock \in Threads \cup {Nobody}
  /\ pos_locks \in [0 .. CqSize - 1 -> BOOLEAN]
  /\ cq_head \in Nat
  /\ cq_mem \in [0 .. CqSize - 1 -> [cid : Cids \cup {NoCid}, phase : {0, 1},
                                     sqhd : 0 .. SqSize - 1]]
  /\ cq_db \in 0 .. CqSize - 1
  /\ fetched \in 0 .. SqSize - 1
  /\ working \in SUBSET [place : 0 .. SqSize - 1, cmd : Commands]
  /\ posted \in Nat
  /\ served \in [Threads -> Nat]
  /\ pc \in [Threads -> Labels]
  /\ cid \in [Threads -> Cids \cup {NoCid}]
  /\ ticket \in [Threads -> Nat]
  /\ moved \in [Threads -> Nat]
  /\ freed \in [Threads -> Nat]
  /\ new_sq_head \in [Threads -> 0 .. SqSize - 1]
  /\ head \in [Threads -> Nat]
  /\ loc \in [Threads -> Nat]
  /\ todo \in [Threads -> Nat]
  /\ \A t \in Threads : todo[t] <= MaxOps[t]

\* From its turn until it has left, a thread has its submission place for itself:
\* nobody else writes there, marks it, or takes its mark for theirs.
AtPlace == {"copy", "mark", "tail", "trytail", "movetail", "ring", "settail", "untail",
            "leave"}

PlacesNotShared ==
  \A t, u \in Threads :
    t # u /\ pc[t] \in AtPlace /\ pc[u] \in AtPlace =>
      SqPos(ticket[t]) # SqPos(ticket[u])

\* A command is not written over one the SSD was told of and has not fetched.
NotOverwritten ==
  \A t \in Threads : pc[t] \in {"copy", "mark"} =>
    (SqPos(ticket[t]) - fetched) % SqSize >= (sq_db - fetched) % SqSize

\* The head the SSD was told of: between the doorbell and the store of the head
\* it is ahead of cq_head.
RungHead ==
  IF head_lock # Nobody /\ pc[head_lock] = "sethead"
    THEN cq_head + moved[head_lock]
    ELSE cq_head

\* A completion stays in its place until its thread has dequeued it: the head
\* never passes one that is not marked (move_head_cq), and the SSD never posts
\* over one that the head has not passed, so that what cq_poll recognised, and
\* what move_head_cq reads the submission head from, is still there.
CompletionsKept ==
  /\ posted - RungHead < CqSize
  /\ \A t \in Threads : pc[t] \in {"poslock", "markhead"} =>
       /\ cq_mem[CqPos(loc[t])].cid = cid[t]
       /\ cq_head <= loc[t]
==============================================================================
