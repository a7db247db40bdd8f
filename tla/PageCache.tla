------------------------------ MODULE PageCache ------------------------------
(***************************************************************************)
(* The GPU page cache of BaM (bam/include/page_cache.h): threads of a      *)
(* kernel acquire a logical page, use it in its cache slot and release it; *)
(* a miss takes a slot from a round-robin ticket, writes the slot's dirty  *)
(* page back to the SSDs and reads the new page in.                        *)
(*                                                                         *)
(* Every atomic operation of the code on shared memory is one action, so   *)
(* that all interleavings of the threads are explored.  A "thread" is the  *)
(* master lane of a group of lanes that touch the same page: it acquires   *)
(* and releases with the size of its group (coalesce_page).                *)
(*                                                                         *)
(* The 32-bit state word of a page is kept as its four fields: valid       *)
(* (bit 31), busy (bit 30), dirty (bit 29) and cnt (bits 28..0).           *)
(***************************************************************************)
EXTENDS Integers, FiniteSets

CONSTANTS
  Threads,   \* master lanes
  Pages,     \* logical pages of all the ranges
  NSlots,    \* page_cache_d_t::n_pages
  Ctrls,     \* NVMe controllers
  Copies,    \* [Pages -> SUBSET Ctrls]: where a page is stored; one
             \* controller under STRIPE, all of them under REPLICATE
  Values,    \* contents of a page
  MaxLanes,  \* largest group of lanes (32 on the device)
  MaxOps,    \* bound: accesses each thread makes before its kernel returns
  Garbage,   \* what the uninitialised page_translation of a slot may name
  NoPage,    \* no page
  NoSlot     \* no slot

Slots == 0 .. NSlots - 1

ASSUME CacheAssumption ==
  /\ NSlots \in Nat \ {0}
  /\ MaxLanes \in Nat \ {0}
  /\ MaxOps \in [Threads -> Nat]
  /\ Copies \in [Pages -> (SUBSET Ctrls) \ {{}}]
  /\ Garbage \subseteq Pages \cup {NoPage}
  /\ NoPage \notin Pages
  /\ NoSlot \notin Slots
  /\ Values # {}
  /\ IsFiniteSet(Threads)

VARIABLES
  valid, busy, dirty, cnt,  \* data_page_t::state of every page
  offset,                   \* data_page_t::offset: the slot of a valid page
  page_take_lock,           \* cache_page_t: FREE, LOCKED or UNLOCKED
  page_translation,         \* cache_page_t: the page a slot was given to
  page_ticket,              \* next slot to try, modulo n_pages
  data,                     \* content of every slot
  media,                    \* content of every page on every controller
  pc,                       \* where a thread is in the code
  op,                       \* "read", "write" or "add": what it came for
  page,                     \* page it acquires
  lanes,                    \* size of its group
  seen,                     \* the DIRTY bit of read_state
  slot,                     \* candidate slot in find_slot, then its page's slot
  victim,                   \* page that find_slot found in that slot
  wrote,                    \* controllers its write-back has reached
  got,                      \* value its last read returned
  todo                      \* accesses left in its kernel

wordVars == <<valid, busy, dirty, cnt>>
slotVars == <<page_take_lock, page_translation, page_ticket>>
dataVars == <<data, media>>
callVars == <<op, page, lanes, todo>>
findVars == <<slot, victim, wrote>>
vars == <<wordVars, offset, slotVars, dataVars, pc, callVars, seen, findVars, got>>
------------------------------------------------------------------------------
Ops == {"read", "write", "add"}

\* Fault: seq_write acquires its page without "write".
MarksAddsOnly(t) == op[t] = "add"

Marks(t) == op[t] # "read"     \* acquire_page's argument "write"

Goto(t, label) == pc' = [pc EXCEPT ![t] = label]

\* acquire_page's switch on bits 31..30 of the state word it has read.
Dispatch(p) ==
  CASE busy[p]               -> "spin"
    [] ~busy[p] /\ valid[p]  -> "hit"
    [] ~busy[p] /\ ~valid[p] -> "claim"

\* The constructor of page_cache_t stores FREE in every slot and leaves its
\* page_translation as the heap had it.
Init ==
  /\ valid = [p \in Pages |-> FALSE]
  /\ busy = [p \in Pages |-> FALSE]
  /\ dirty = [p \in Pages |-> FALSE]
  /\ cnt = [p \in Pages |-> 0]
  /\ offset = [p \in Pages |-> NoSlot]
  /\ page_take_lock = [s \in Slots |-> "FREE"]
  /\ page_translation \in [Slots -> Garbage]
  /\ page_ticket = 0
  /\ data \in [Slots -> Values]
  /\ \E m \in [Pages -> Values] : media = [p \in Pages |-> [c \in Ctrls |-> m[p]]]
  /\ pc = [t \in Threads |-> "idle"]
  /\ op = [t \in Threads |-> "read"]
  /\ page = [t \in Threads |-> NoPage]
  /\ lanes = [t \in Threads |-> 0]
  /\ seen = [t \in Threads |-> FALSE]
  /\ slot = [t \in Threads |-> NoSlot]
  /\ victim = [t \in Threads |-> NoPage]
  /\ wrote = [t \in Threads |-> {}]
  /\ got \in [Threads -> Values]
  /\ todo = MaxOps
------------------------------------------------------------------------------
(* Faulty variants of actions below, each a bug one edit away: the model      *)
(* checker must find that the properties do not survive them.                 *)

\* acquire_page adds one instead of the size of the group.
AcquireOne(t, p, o, n) ==
  /\ pc[t] = "idle"
  /\ todo[t] > 0
  /\ cnt' = [cnt EXCEPT ![p] = @ + 1]
  /\ Goto(t, Dispatch(p))
  /\ op' = [op EXCEPT ![t] = o]
  /\ page' = [page EXCEPT ![t] = p]
  /\ lanes' = [lanes EXCEPT ![t] = n]
  /\ seen' = [seen EXCEPT ![t] = dirty[p]]
  /\ todo' = [todo EXCEPT ![t] = @ - 1]
  /\ UNCHANGED <<valid, busy, dirty, offset, slotVars, dataVars, findVars, got>>

\* The word fetch_or(BUSY) returns is not looked at for BUSY.
ClaimBlind(t) ==
  /\ pc[t] = "claim"
  /\ busy' = [busy EXCEPT ![page[t]] = TRUE]
  /\ Goto(t, IF valid[page[t]] THEN "unclaim" ELSE "ticket")
  /\ UNCHANGED <<valid, dirty, cnt, offset, slotVars, dataVars, callVars, seen,
                 findVars, got>>

\* A slot whose lock is LOCKED is taken like a FREE one.
TakeLockBlind(t) ==
  LET l == page_take_lock[slot[t]] IN
  /\ pc[t] = "lock"
  /\ page_take_lock' = [page_take_lock EXCEPT ![slot[t]] = "LOCKED"]
  /\ Goto(t, IF l = "UNLOCKED" THEN "peek" ELSE "bind")
  /\ UNCHANGED <<wordVars, offset, page_translation, page_ticket, dataVars,
                 callVars, seen, findVars, got>>

\* The word fetch_or(BUSY) returns is not looked at for the count.
MarkBlind(t) ==
  LET v == victim[t] IN
  /\ pc[t] = "mark"
  /\ busy' = [busy EXCEPT ![v] = TRUE]
  /\ Goto(t, IF busy[v] THEN "giveup" ELSE IF dirty[v] THEN "writeback" ELSE "drop")
  /\ wrote' = [wrote EXCEPT ![t] = {}]
  /\ UNCHANGED <<valid, dirty, cnt, offset, slotVars, dataVars, callVars, seen, slot,
                 victim, got>>

\* A replicated page is written back to one controller only.
WriteBackOne(t, c) ==
  /\ pc[t] = "writeback"
  /\ c \in Copies[victim[t]]
  /\ media' = [media EXCEPT ![victim[t]][c] = data[slot[t]]]
  /\ wrote' = [wrote EXCEPT ![t] = {c}]
  /\ Goto(t, "drop")
  /\ UNCHANGED <<wordVars, offset, slotVars, data, callVars, seen, slot, victim, got>>

\* The victim's whole word is cleared, with the count of who came meanwhile.
DropAll(t) ==
  LET v == victim[t] IN
  /\ pc[t] = "drop"
  /\ valid' = [valid EXCEPT ![v] = FALSE]
  /\ busy' = [busy EXCEPT ![v] = FALSE]
  /\ dirty' = [dirty EXCEPT ![v] = FALSE]
  /\ cnt' = [cnt EXCEPT ![v] = 0]
  /\ Goto(t, "bind")
  /\ UNCHANGED <<offset, slotVars, dataVars, callVars, seen, findVars, got>>

\* A slot whose page is in use is left locked.
GiveUpLocked(t) ==
  /\ pc[t] = "giveup"
  /\ victim' = [victim EXCEPT ![t] = NoPage]
  /\ Goto(t, "ticket")
  /\ UNCHANGED <<wordVars, offset, slotVars, dataVars, callVars, seen, slot, wrote,
                 got>>
------------------------------------------------------------------------------
(* range_d_t::acquire_page *)

\* state.fetch_add(count), which also returns the word the switch looks at.
Acquire(t, p, o, n) ==
  /\ pc[t] = "idle"
  /\ todo[t] > 0
  /\ cnt' = [cnt EXCEPT ![p] = @ + n]
  /\ Goto(t, Dispatch(p))
  /\ op' = [op EXCEPT ![t] = o]
  /\ page' = [page EXCEPT ![t] = p]
  /\ lanes' = [lanes EXCEPT ![t] = n]
  /\ seen' = [seen EXCEPT ![t] = dirty[p]]
  /\ todo' = [todo EXCEPT ![t] = @ - 1]
  /\ UNCHANGED <<valid, busy, dirty, offset, slotVars, dataVars, findVars, got>>

\* NV_B, V_B: back off and load the word again.
Reload(t) ==
  /\ pc[t] = "spin"
  /\ Goto(t, Dispatch(page[t]))
  /\ seen' = [seen EXCEPT ![t] = dirty[page[t]]]
  /\ UNCHANGED <<wordVars, offset, slotVars, dataVars, callVars, findVars, got>>

\* V_NB: a write sets DIRTY unless read_state had it.
Hit(t) ==
  /\ pc[t] = "hit"
  /\ dirty' = IF Marks(t) /\ ~seen[t]
                THEN [dirty EXCEPT ![page[t]] = TRUE]
                ELSE dirty
  /\ Goto(t, "offset")
  /\ UNCHANGED <<valid, busy, cnt, offset, slotVars, dataVars, callVars, seen,
                 findVars, got>>

\* V_NB: read pages[index].offset and return it.
TakeOffset(t) ==
  /\ pc[t] = "offset"
  /\ slot' = [slot EXCEPT ![t] = offset[page[t]]]
  /\ Goto(t, "use")
  /\ UNCHANGED <<wordVars, offset, slotVars, dataVars, callVars, seen, victim,
                 wrote, got>>

\* NV_NB: fetch_or(BUSY).  The thread that sets the bit loads the page, unless
\* another one made it valid since read_state; every other thread retries.
Claim(t) ==
  LET p == page[t] IN
  /\ pc[t] = "claim"
  /\ busy' = [busy EXCEPT ![p] = TRUE]
  /\ \/ busy[p] /\ Goto(t, "spin")
     \/ ~busy[p] /\ ~valid[p] /\ Goto(t, "ticket")
     \/ ~busy[p] /\ valid[p] /\ Goto(t, "unclaim")
  /\ UNCHANGED <<valid, dirty, cnt, offset, slotVars, dataVars, callVars, seen,
                 findVars, got>>

\* "Another thread beat us to load the page": fetch_and(~BUSY) and retry.
Unclaim(t) ==
  /\ pc[t] = "unclaim"
  /\ busy' = [busy EXCEPT ![page[t]] = FALSE]
  /\ Goto(t, "spin")
  /\ UNCHANGED <<valid, dirty, cnt, offset, slotVars, dataVars, callVars, seen,
                 findVars, got>>

\* read_data into the slot found, from the page's controller (STRIPE) or from
\* any of them (REPLICATE, by ctrl_counter).
ReadIn(t, c) ==
  /\ pc[t] = "read"
  /\ c \in Copies[page[t]]
  /\ data' = [data EXCEPT ![slot[t]] = media[page[t]][c]]
  /\ Goto(t, "fill")
  /\ UNCHANGED <<wordVars, offset, slotVars, media, callVars, seen, findVars, got>>

\* pages[index].offset = page_trans, and fetch_or(DIRTY) for a write.
Fill(t) ==
  /\ pc[t] = "fill"
  /\ offset' = [offset EXCEPT ![page[t]] = slot[t]]
  /\ dirty' = [dirty EXCEPT ![page[t]] = @ \/ Marks(t)]
  /\ Goto(t, "publish")
  /\ UNCHANGED <<valid, busy, cnt, slotVars, dataVars, callVars, seen, findVars, got>>

\* fetch_xor(BUSY | VALID).
Publish(t) ==
  /\ pc[t] = "publish"
  /\ busy' = [busy EXCEPT ![page[t]] = ~@]
  /\ valid' = [valid EXCEPT ![page[t]] = ~@]
  /\ Goto(t, "use")
  /\ UNCHANGED <<dirty, cnt, offset, slotVars, dataVars, callVars, seen, findVars,
                 got>>
------------------------------------------------------------------------------
(* page_cache_d_t::find_slot *)

TakeTicket(t) ==
  /\ pc[t] = "ticket"
  /\ slot' = [slot EXCEPT ![t] = page_ticket]
  /\ page_ticket' = (page_ticket + 1) % NSlots
  /\ Goto(t, "lock")
  /\ UNCHANGED <<wordVars, offset, page_take_lock, page_translation, dataVars,
                 callVars, seen, victim, wrote, got>>

\* Load page_take_lock and compare-exchange it to LOCKED; a failure changes
\* nothing and takes the next ticket, so the two steps are one here.
TakeLock(t) ==
  LET l == page_take_lock[slot[t]] IN
  /\ pc[t] = "lock"
  /\ \/ /\ l = "LOCKED"
        /\ Goto(t, "ticket")
        /\ UNCHANGED page_take_lock
     \/ /\ l # "LOCKED"
        /\ page_take_lock' = [page_take_lock EXCEPT ![slot[t]] = "LOCKED"]
        /\ Goto(t, IF l = "FREE" THEN "bind" ELSE "peek")
  /\ UNCHANGED <<wordVars, offset, page_translation, page_ticket, dataVars,
                 callVars, seen, findVars, got>>

\* The slot belongs to a page: is that page unused and idle?
Peek(t) ==
  LET v == page_translation[slot[t]] IN
  /\ pc[t] = "peek"
  /\ victim' = [victim EXCEPT ![t] = v]
  /\ Goto(t, IF cnt[v] = 0 /\ ~busy[v] THEN "mark" ELSE "giveup")
  /\ UNCHANGED <<wordVars, offset, slotVars, dataVars, callVars, seen, slot, wrote,
                 got>>

\* fetch_or(BUSY) on the victim, and look at the word it returns.
Mark(t) ==
  LET v == victim[t] IN
  /\ pc[t] = "mark"
  /\ busy' = [busy EXCEPT ![v] = TRUE]
  /\ \/ busy[v] /\ Goto(t, "giveup")
     \/ ~busy[v] /\ cnt[v] # 0 /\ Goto(t, "unmark")
     \/ ~busy[v] /\ cnt[v] = 0 /\ Goto(t, IF dirty[v] THEN "writeback" ELSE "drop")
  /\ wrote' = [wrote EXCEPT ![t] = {}]
  /\ UNCHANGED <<valid, dirty, cnt, offset, slotVars, dataVars, callVars, seen, slot,
                 victim, got>>

\* Somebody acquired the victim after the load: fetch_and(~BUSY).
Unmark(t) ==
  /\ pc[t] = "unmark"
  /\ busy' = [busy EXCEPT ![victim[t]] = FALSE]
  /\ Goto(t, "giveup")
  /\ UNCHANGED <<valid, dirty, cnt, offset, slotVars, dataVars, callVars, seen,
                 findVars, got>>

\* write_data of the slot to a controller that holds the victim: the one of
\* get_backing_ctrl_, or each of them in turn when it is ALL_CTRLS.
WriteBack(t, c) ==
  LET v == victim[t] IN
  /\ pc[t] = "writeback"
  /\ c \in Copies[v] \ wrote[t]
  /\ media' = [media EXCEPT ![v][c] = data[slot[t]]]
  /\ wrote' = [wrote EXCEPT ![t] = @ \cup {c}]
  /\ Goto(t, IF Copies[v] \subseteq wrote[t] \cup {c} THEN "drop" ELSE "writeback")
  /\ UNCHANGED <<wordVars, offset, slotVars, data, callVars, seen, slot, victim, got>>

\* fetch_and(CNT_MASK): no longer valid, busy or dirty; the count stays.
Drop(t) ==
  LET v == victim[t] IN
  /\ pc[t] = "drop"
  /\ valid' = [valid EXCEPT ![v] = FALSE]
  /\ busy' = [busy EXCEPT ![v] = FALSE]
  /\ dirty' = [dirty EXCEPT ![v] = FALSE]
  /\ Goto(t, "bind")
  /\ UNCHANGED <<cnt, offset, slotVars, dataVars, callVars, seen, findVars, got>>

\* page_translation = global_address, and unlock the slot.
Bind(t) ==
  /\ pc[t] = "bind"
  /\ page_translation' = [page_translation EXCEPT ![slot[t]] = page[t]]
  /\ page_take_lock' = [page_take_lock EXCEPT ![slot[t]] = "UNLOCKED"]
  /\ victim' = [victim EXCEPT ![t] = NoPage]
  /\ wrote' = [wrote EXCEPT ![t] = {}]
  /\ Goto(t, "read")
  /\ UNCHANGED <<wordVars, offset, page_ticket, dataVars, callVars, seen, slot, got>>

\* The slot's page is in use: unlock the slot and take another ticket.
GiveUp(t) ==
  /\ pc[t] = "giveup"
  /\ page_take_lock' = [page_take_lock EXCEPT ![slot[t]] = "UNLOCKED"]
  /\ victim' = [victim EXCEPT ![t] = NoPage]
  /\ Goto(t, "ticket")
  /\ UNCHANGED <<wordVars, offset, page_translation, page_ticket, dataVars, callVars,
                 seen, slot, wrote, got>>
------------------------------------------------------------------------------
(* array_d_t: what a group does with the page it holds *)

\* seq_read, memcpy, get_raw
Read(t) ==
  /\ pc[t] = "use"
  /\ op[t] = "read"
  /\ got' = [got EXCEPT ![t] = data[slot[t]]]
  /\ Goto(t, "release")
  /\ UNCHANGED <<wordVars, offset, slotVars, dataVars, callVars, seen, findVars>>

\* seq_write
Write(t, v) ==
  /\ pc[t] = "use"
  /\ op[t] = "write"
  /\ data' = [data EXCEPT ![slot[t]] = v]
  /\ Goto(t, "release")
  /\ UNCHANGED <<wordVars, offset, slotVars, media, callVars, seen, findVars, got>>

\* AtomicAdd: the old value and a new one, in one device-wide atomic.
AtomicAdd(t, v) ==
  /\ pc[t] = "use"
  /\ op[t] = "add"
  /\ got' = [got EXCEPT ![t] = data[slot[t]]]
  /\ data' = [data EXCEPT ![slot[t]] = v]
  /\ Goto(t, "release")
  /\ UNCHANGED <<wordVars, offset, slotVars, media, callVars, seen, findVars>>

\* range_d_t::release_page: state.fetch_sub(count).
Release(t) ==
  /\ pc[t] = "release"
  /\ cnt' = [cnt EXCEPT ![page[t]] = @ - lanes[t]]
  /\ Goto(t, "idle")
  /\ op' = [op EXCEPT ![t] = "read"]
  /\ page' = [page EXCEPT ![t] = NoPage]
  /\ lanes' = [lanes EXCEPT ![t] = 0]
  /\ seen' = [seen EXCEPT ![t] = FALSE]
  /\ slot' = [slot EXCEPT ![t] = NoSlot]
  /\ UNCHANGED <<valid, busy, dirty, offset, slotVars, dataVars, todo, victim,
                 wrote, got>>
------------------------------------------------------------------------------
AcquireStep(t) ==
  \/ \E p \in Pages, o \in Ops, n \in 1 .. MaxLanes : Acquire(t, p, o, n)
  \/ Reload(t) \/ Hit(t) \/ TakeOffset(t) \/ Claim(t) \/ Unclaim(t)
  \/ \E c \in Ctrls : ReadIn(t, c)
  \/ Fill(t) \/ Publish(t)

FindSlotStep(t) ==
  \/ TakeTicket(t) \/ TakeLock(t) \/ Peek(t) \/ Mark(t) \/ Unmark(t)
  \/ \E c \in Ctrls : WriteBack(t, c)
  \/ Drop(t) \/ Bind(t) \/ GiveUp(t)

UseStep(t) ==
  \/ Read(t)
  \/ \E v \in Values : Write(t, v) \/ AtomicAdd(t, v)
  \/ Release(t)

Step(t) == AcquireStep(t) \/ FindSlotStep(t) \/ UseStep(t)

\* The kernel has returned: every thread is done.
Returned == \A t \in Threads : pc[t] = "idle" /\ todo[t] = 0

Next ==
  \/ \E t \in Threads : Step(t)
  \/ Returned /\ UNCHANGED vars

Spec == Init /\ [][Next]_vars
==============================================================================
