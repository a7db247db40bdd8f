----------------------------- MODULE PageCacheInv -----------------------------
(***************************************************************************)
(* Correctness of the page cache: the invariants a reader of page_cache.h  *)
(* relies on, the refinement of PageStore, and the inductive invariant     *)
(* IInv from which PageCacheProofs derives both.                           *)
(***************************************************************************)
EXTENDS PageCache

\* Stages of a thread.
Holding  == {"hit", "offset", "use", "held", "release"}   \* found the page valid
Using    == {"use", "held", "release"}            \* has its slot's address ("held":
                                                  \* in a pointer, see BamPtr)
Finding  == {"ticket", "lock", "peek", "mark", "unmark", "writeback", "drop",
             "bind", "giveup"}                    \* in find_slot
Filling  == {"read", "fill", "publish"}           \* owns a slot for its page
Loading  == Finding \cup Filling                  \* set BUSY on an invalid page
Evicting == {"writeback", "drop"}                 \* set BUSY on an idle victim
Locking  == {"peek", "mark", "unmark", "writeback", "drop", "bind", "giveup"}
Active   == {"spin", "claim", "unclaim"} \cup Holding \cup Loading
Labels   == {"idle"} \cup Active

OwnsOwn(t)    == pc[t] \in Loading \cup {"unclaim"}
OwnsVictim(t) == pc[t] \in Evicting \cup {"unmark"}

\* The lanes that have acquired page p and not released it.
Tokens(p) == {x \in Threads \X (1 .. MaxLanes) :
                /\ pc[x[1]] # "idle"
                /\ page[x[1]] = p
                /\ x[2] <= lanes[x[1]]}

\* One of the controllers that store page p.
Home(p) == CHOOSE c \in Ctrls : c \in Copies[p]

\* Where page p's content is: in its slot if it is valid, on the SSDs if not.
Content(p) == IF valid[p] THEN data[offset[p]] ELSE media[p][Home(p)]
------------------------------------------------------------------------------
TypeOK ==
  /\ valid \in [Pages -> BOOLEAN]
  /\ busy \in [Pages -> BOOLEAN]
  /\ dirty \in [Pages -> BOOLEAN]
  /\ cnt \in [Pages -> Nat]
  /\ offset \in [Pages -> Slots \cup {NoSlot}]
  /\ page_take_lock \in [Slots -> {"FREE", "LOCKED", "UNLOCKED"}]
  /\ page_translation \in [Slots -> Pages \cup {NoPage}]
  /\ page_ticket \in Slots
  /\ data \in [Slots -> Values]
  /\ media \in [Pages -> [Ctrls -> Values]]
  /\ pc \in [Threads -> Labels]
  /\ op \in [Threads -> Ops]
  /\ page \in [Threads -> Pages \cup {NoPage}]
  /\ lanes \in [Threads -> 0 .. MaxLanes]
  /\ seen \in [Threads -> BOOLEAN]
  /\ slot \in [Threads -> Slots \cup {NoSlot}]
  /\ victim \in [Threads -> Pages \cup {NoPage}]
  /\ wrote \in [Threads -> SUBSET Ctrls]
  /\ got \in [Threads -> Values]
  /\ todo \in [Threads -> Nat]

\* The count of a page is the number of lanes that hold it (acquire_page adds
\* the size of a group, release_page takes the same number off): a count that
\* drifts down lets find_slot evict a page in use, one that drifts up pins its
\* slot for good.
CountIsHolders == \A p \in Pages : cnt[p] = Cardinality(Tokens(p))

\* A page's BUSY bit is set exactly while one thread owns it: the one loading
\* it (or backing out of the claim), or the one evicting it (or backing out).
\* A bit cleared by another thread, or left behind, breaks this.
BusyHasOneOwner ==
  \A p \in Pages :
    LET owners == {t \in Threads : OwnsOwn(t) /\ page[t] = p}
        evictors == {t \in Threads : OwnsVictim(t) /\ victim[t] = p}
    IN /\ busy[p] <=> owners \cup evictors # {}
       /\ owners \cap evictors = {}
       /\ \A t, u \in owners \cup evictors : t = u

\* While a thread has the address of its page (from acquire_page's return to
\* release_page) the page stays valid in that very slot, the slot stays given
\* to the page, and nobody is writing it back or dropping it.
PinnedStaysResident ==
  \A t \in Threads : pc[t] \in Using =>
    /\ valid[page[t]]
    /\ slot[t] = offset[page[t]]
    /\ page_translation[slot[t]] = page[t]
    /\ \A u \in Threads : pc[u] \in Evicting => victim[u] # page[t]

\* A page without DIRTY has the same content on every controller that stores
\* it as in the cache: dropping it loses nothing, and REPLICATE may read it
\* from any controller.
CleanIsOnMedia ==
  \A p \in Pages : ~dirty[p] => \A c \in Copies[p] : media[p][c] = Content(p)

\* No slot is given to two pages, and a slot that a miss is filling is not the
\* slot of a valid page (two threads never read into, or use, one slot).
SlotsNotShared ==
  /\ \A p, q \in Pages : p # q /\ valid[p] /\ valid[q] => offset[p] # offset[q]
  /\ \A t \in Threads : pc[t] \in Filling =>
       /\ \A p \in Pages : valid[p] => offset[p] # slot[t]
       /\ \A u \in Threads : u # t /\ pc[u] \in Filling => slot[u] # slot[t]

\* To its threads the cache is a plain memory: PageStore, where a page's
\* content is wherever Content finds it.
Store == INSTANCE PageStore WITH
  mem   <- [p \in Pages |-> Content(p)],
  asked <- page,
  got   <- got

IsPageStore == Store!Spec

\* Every kernel whose threads make finitely many accesses returns: no thread
\* spins for ever on a BUSY bit, on a slot's lock or in find_slot.
KernelReturns == <>Returned
------------------------------------------------------------------------------
(* The inductive invariant *)

\* What each stage of a thread knows of its own locals.
LocalsOK ==
  \A t \in Threads :
    /\ pc[t] = "idle" <=> page[t] = NoPage
    /\ pc[t] = "idle" <=> lanes[t] = 0
    /\ pc[t] \in (Loading \ {"ticket"}) \cup Using => slot[t] \in Slots
    /\ pc[t] \in Locking \ {"peek", "bind", "giveup"} => victim[t] \in Pages

\* BUSY as a lock: its owners, and that they exclude each other.
BusyOwned ==
  /\ \A t \in Threads :
       /\ OwnsOwn(t) => busy[page[t]]
       /\ OwnsVictim(t) => busy[victim[t]] /\ victim[t] # page[t]
  /\ \A t, u \in Threads : t # u =>
       /\ OwnsOwn(t) /\ OwnsOwn(u) => page[t] # page[u]
       /\ OwnsOwn(t) /\ OwnsVictim(u) => page[t] # victim[u]
       /\ OwnsVictim(t) /\ OwnsVictim(u) => victim[t] # victim[u]

\* A set BUSY bit has an owner to clear it.
BusyIsOwned ==
  \A p \in Pages : busy[p] =>
    \E t \in Threads : \/ OwnsOwn(t) /\ page[t] = p
                       \/ OwnsVictim(t) /\ victim[t] = p

\* page_take_lock as a lock.
SlotLocked ==
  /\ \A t \in Threads : pc[t] \in Locking => page_take_lock[slot[t]] = "LOCKED"
  /\ \A t, u \in Threads :
       t # u /\ pc[t] \in Locking /\ pc[u] \in Locking => slot[t] # slot[u]

\* A slot that was given away is the slot of the page it names, except between
\* the drop of its old page and the store of its new one.
SlotOwned ==
  \A s \in Slots :
    \/ page_take_lock[s] = "FREE"
    \/ \E t \in Threads : pc[t] = "bind" /\ slot[t] = s
    \/ /\ page_translation[s] \in Pages
       /\ \/ valid[page_translation[s]] /\ offset[page_translation[s]] = s
          \/ \E t \in Threads : /\ pc[t] \in Filling
                                /\ slot[t] = s
                                /\ page[t] = page_translation[s]

\* A valid page has its slot.
ValidHasSlot ==
  \A p \in Pages : valid[p] =>
    /\ offset[p] \in Slots
    /\ page_take_lock[offset[p]] # "FREE"
    /\ page_translation[offset[p]] = p
    /\ \A t \in Threads : pc[t] = "bind" => slot[t] # offset[p]

\* A page being loaded is not valid until it is published, and the slot it is read
\* into is its own.
LoadOK ==
  \A t \in Threads :
    /\ pc[t] \in Loading => ~valid[page[t]]
    /\ pc[t] = "publish" => offset[page[t]] = slot[t]
    /\ pc[t] \in Filling => /\ page_take_lock[slot[t]] # "FREE"
                            /\ page_translation[slot[t]] = page[t]
                            /\ \A u \in Threads : pc[u] = "bind" => slot[u] # slot[t]

\* A thread that found its page valid keeps it so and knows its slot.
HoldOK ==
  \A t \in Threads :
    /\ pc[t] \in Holding => valid[page[t]]
    /\ pc[t] \in Using => slot[t] = offset[page[t]]

\* A page is marked dirty before it is written, and never while it is loaded: only a
\* page about to be published may be dirty without being valid.
DirtyOK ==
  /\ \A t \in Threads :
       /\ pc[t] \in Loading \ {"publish"} => ~dirty[page[t]]
       /\ pc[t] = "hit" /\ seen[t] => dirty[page[t]]
       /\ pc[t] \in {"publish", "offset"} \cup Using /\ Marks(t) => dirty[page[t]]
  /\ \A p \in Pages : ~valid[p] /\ dirty[p] =>
       \E t \in Threads : pc[t] = "publish" /\ page[t] = p

\* A victim being evicted is the valid page of the locked slot and nobody holds it.
EvictOK ==
  \A t \in Threads :
    /\ pc[t] \in {"mark", "unmark"} \cup Evicting => page_translation[slot[t]] = victim[t]
    /\ pc[t] \in Evicting =>
         /\ valid[victim[t]]
         /\ offset[victim[t]] = slot[t]
         /\ \A u \in Threads : pc[u] \in Holding => page[u] # victim[t]

\* What is on the SSDs: the content of every page that is clean, invalid, just
\* read in, or written back as far as its eviction has got.
MediaOK ==
  /\ \A p \in Pages : valid[p] /\ ~dirty[p] =>
       \A c \in Copies[p] : media[p][c] = data[offset[p]]
  /\ \A p \in Pages : ~valid[p] =>
       \A c, d \in Copies[p] : media[p][c] = media[p][d]
  /\ \A t \in Threads : pc[t] \in {"fill", "publish"} =>
       \A c \in Copies[page[t]] : media[page[t]][c] = data[slot[t]]
  /\ \A t \in Threads : pc[t] = "writeback" =>
       \A c \in Copies[victim[t]] \cap wrote[t] : media[victim[t]][c] = data[slot[t]]
  /\ \A t \in Threads : pc[t] = "drop" =>
       \A c \in Copies[victim[t]] : media[victim[t]][c] = data[slot[t]]

\* Counts, locks and slots, whatever is marked dirty.
PinInv ==
  /\ TypeOK
  /\ LocalsOK
  /\ CountIsHolders
  /\ BusyOwned
  /\ BusyIsOwned
  /\ SlotLocked
  /\ SlotOwned
  /\ ValidHasSlot
  /\ LoadOK
  /\ HoldOK
  /\ EvictOK

\* ... and the contents of the pages.
IInv == PinInv /\ DirtyOK /\ MediaOK
==============================================================================
