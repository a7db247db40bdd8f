-------------------------------- MODULE BamPtr --------------------------------
(***************************************************************************)
(* bam_ptr (bam/include/page_cache.h): the pointer through which a kernel   *)
(* walks an array.  It keeps the page it touched last: operator[] uses it   *)
(* again while the index stays in that page, and otherwise releases it      *)
(* (fini), acquires the page of the index without "write" (update_page) and *)
(* sets DIRTY itself through the data_page_t* that array_d_t::acquire_page  *)
(* handed out.                                                              *)
(*                                                                          *)
(* That pointer is &r_->pages[base_master], where base_master is what       *)
(* range_d_t::acquire_page returned: the number of the cache slot, not of   *)
(* the page.  PageNumbered[s] is the page of the range whose number is s.   *)
(*                                                                          *)
(* The lanes of a warp that call acquire_page together are one mask: lanes  *)
(* of the same page make a group ("thread" of PageCache) with one master,   *)
(* and the __syncwarp(mask) at its end holds every group, with its page     *)
(* acquired, until the last group of the mask has its own.                  *)
(*                                                                          *)
(* The page cache itself is PageCache, step for step.                       *)
(***************************************************************************)
EXTENDS PageCacheInv

CONSTANTS
  PageNumbered,   \* [Slots -> Pages]: the page whose number is a slot's number
  Writers,        \* threads that store through the reference they get
  Warps           \* the warps, each the set of its groups

ASSUME PtrAssumption ==
  /\ PageNumbered \in [Slots -> Pages]
  /\ Writers \subseteq Threads
  /\ UNION Warps = Threads
  /\ \A w, x \in Warps : w # x => w \cap x = {}

VARIABLES
  mask,      \* the groups a group has entered acquire_page with; {} outside it
  stored,    \* history: the pages somebody has stored to
  original   \* history: what every page had on the SSDs at first

warpVars == <<mask, stored, original>>
ptrVars == <<vars, warpVars>>

PtrInit ==
  /\ Init
  /\ mask = [t \in Threads |-> {}]
  /\ stored = {}
  /\ original = [p \in Pages |-> media[p][Home(p)]]
------------------------------------------------------------------------------
\* Lanes of a warp enter acquire_page: __activemask is whoever got there together.
Converge(G) ==
  /\ \E w \in Warps : G \subseteq w
  /\ \A u \in G : pc[u] = "idle" /\ todo[u] > 0 /\ mask[u] = {}
  /\ mask' = [u \in Threads |-> IF u \in G THEN G ELSE mask[u]]
  /\ UNCHANGED <<vars, stored, original>>

\* range_d_t::acquire_page by the master of a group, as coalesce_page calls it for
\* update_page: never with "write".  Groups of one mask have different pages
\* (__match_any_sync).
Update(t, p, n) ==
  /\ mask[t] # {}
  /\ \A u \in mask[t] : page[u] # p
  /\ Acquire(t, p, "read", n)
  /\ UNCHANGED warpVars

\* __syncwarp(mask): every group of the mask has acquired its page.
SyncWarp(t) ==
  /\ mask[t] # {}
  /\ \A u \in mask[t] : pc[u] = "use"
  /\ mask' = [u \in Threads |-> IF u \in mask[t] THEN {} ELSE mask[u]]
  /\ UNCHANGED <<vars, stored, original>>

\* page->state.fetch_or(DIRTY), after update_page returned.
Touch(t) ==
  /\ pc[t] = "use"
  /\ mask[t] = {}
  /\ dirty' = [dirty EXCEPT ![PageNumbered[slot[t]]] = TRUE]
  /\ Goto(t, "held")
  /\ UNCHANGED <<valid, busy, cnt, offset, slotVars, dataVars, callVars, seen,
                 findVars, got, warpVars>>

\* A load through the reference, as often as the index stays in the page.
Load(t) ==
  /\ pc[t] = "held"
  /\ got' = [got EXCEPT ![t] = data[slot[t]]]
  /\ UNCHANGED <<wordVars, offset, slotVars, dataVars, pc, callVars, seen, findVars,
                 warpVars>>

\* A store through the reference.
StoreTo(t, v) ==
  /\ pc[t] = "held"
  /\ t \in Writers
  /\ data' = [data EXCEPT ![slot[t]] = v]
  /\ stored' = stored \cup {page[t]}
  /\ UNCHANGED <<wordVars, offset, slotVars, media, pc, callVars, seen, findVars, got,
                 mask, original>>

\* fini of one lane of several: the lanes that still are at the same place in the
\* kernel release together (the __match_any_sync of release_page), so that a
\* group may break up and go lane by lane.
FiniOne(t) ==
  /\ pc[t] = "held"
  /\ lanes[t] > 1
  /\ cnt' = [cnt EXCEPT ![page[t]] = @ - 1]
  /\ lanes' = [lanes EXCEPT ![t] = @ - 1]
  /\ UNCHANGED <<valid, busy, dirty, offset, slotVars, dataVars, pc, op, page, todo,
                 seen, findVars, got, warpVars>>

\* fini, for an index in another page or in the destructor; Release follows.  The
\* __syncwarp of release_page waits for lanes that have nothing left to wait for
\* (a master subtracts its count), and is left out.
Fini(t) ==
  /\ pc[t] = "held"
  /\ Goto(t, "release")
  /\ UNCHANGED <<wordVars, offset, slotVars, dataVars, callVars, seen, findVars, got,
                 warpVars>>

\* A step of the page cache for an access that has begun.
CacheStep(t) ==
  \/ Reload(t) \/ Hit(t) \/ TakeOffset(t) \/ Claim(t) \/ Unclaim(t)
  \/ \E c \in Ctrls : ReadIn(t, c)
  \/ Fill(t) \/ Publish(t)
  \/ FindSlotStep(t)
  \/ Release(t)

\* What brings a kernel further: all but another access in the page it holds.
Advance(t) ==
  \/ \E G \in SUBSET Threads : t \in G /\ Converge(G)
  \/ \E p \in Pages, n \in 1 .. MaxLanes : Update(t, p, n)
  \/ CacheStep(t) /\ UNCHANGED warpVars
  \/ SyncWarp(t) \/ Touch(t) \/ FiniOne(t) \/ Fini(t)

PtrStep(t) ==
  \/ Advance(t)
  \/ Load(t)
  \/ \E v \in Values : StoreTo(t, v)

PtrNext ==
  \/ \E t \in Threads : PtrStep(t)
  \/ Returned /\ UNCHANGED ptrVars

PtrSpec == PtrInit /\ [][PtrNext]_ptrVars
------------------------------------------------------------------------------
\* operator[] "sets the page's DIRTY flag": while a thread holds the reference,
\* the page it may store to is marked, so that its eviction writes it back.
HeldPageIsDirty == \A t \in Threads : pc[t] = "held" => dirty[page[t]]

\* A page that a thread holds through a bam_ptr stays valid in the slot whose
\* address the pointer keeps, however often it is used before fini.
HeldStaysResident ==
  \A t \in Threads : pc[t] \in {"use", "held", "release"} =>
    /\ valid[page[t]]
    /\ slot[t] = offset[page[t]]
    /\ page_translation[slot[t]] = page[t]
==============================================================================
