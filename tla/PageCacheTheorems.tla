-------------------------- MODULE PageCacheTheorems --------------------------
(***************************************************************************)
(* The page cache keeps its invariants and implements PageStore, for every *)
(* value of the constants.  The lemmas of PageCacheProofs say that each    *)
(* conjunct of IInv survives a step of any thread; here they are put       *)
(* together, and the step-by-step refinement is proved from IInv.          *)
(***************************************************************************)
EXTENDS PageCacheProofs, PageCacheFlush

\* The empty cache over any contents of the SSDs satisfies IInv: no slot is
\* given away, no page is valid and every copy of a page is the same.
LEMMA IInvInit ==
  Init => IInv
<1> SUFFICES ASSUME Init
             PROVE  IInv
  OBVIOUS
<1>1. 0 \in Slots /\ 0 \in 0 .. MaxLanes
  BY CacheAssumption DEF Slots
<1> USE CacheAssumption DEF Init
<1>2. TypeOK
  BY <1>1 DEF TypeOK, Labels, Ops
<1>3. \A t \in Threads : pc[t] = "idle"
  OBVIOUS
<1>4. CountIsHolders
  <2> SUFFICES ASSUME NEW p \in Pages
               PROVE  cnt[p] = Cardinality(Tokens(p))
    BY DEF CountIsHolders
  <2>1. Tokens(p) = {}
    BY <1>3 DEF Tokens
  <2>2. QED
    BY <2>1, FS_EmptySet
<1>5. LocalsOK /\ SlotLocked /\ SlotOwned /\ ValidHasSlot
  BY <1>3 DEF LocalsOK, SlotLocked, SlotOwned, ValidHasSlot, Loading, Finding,
     Filling, Locking, Using
<1>6. BusyOwned /\ BusyIsOwned /\ LoadOK /\ HoldOK /\ DirtyOK /\ EvictOK
  BY <1>3 DEF BusyOwned, BusyIsOwned, LoadOK, HoldOK, DirtyOK, EvictOK, OwnsOwn,
     OwnsVictim, Loading, Finding, Filling, Using, Holding, Evicting
<1>7. MediaOK
  <2>1. \A p \in Pages : \A c, d \in Copies[p] : media[p][c] = media[p][d]
    OBVIOUS
  <2>2. QED
    BY <1>3, <2>1 DEF MediaOK
<1>8. QED
  BY <1>2, <1>4, <1>5, <1>6, <1>7 DEF IInv, PinInv

\* A step of the page cache, whatever is marked dirty.
LEMMA PinStep ==
  ASSUME PinInv, NEW t \in Threads, Step(t)
  PROVE  PinInv'
<1> USE DEF PinInv
<1>1. EvictOK'
  BY EvictStep
<1>2. TypeOK' /\ LocalsOK' /\ CountIsHolders'
  BY TypeStep, LocalsStep, CountStep
<1>3. BusyOwned' /\ BusyIsOwned'
  BY BusyOwnedStep, BusyIsOwnedStep
<1>4. SlotLocked' /\ SlotOwned' /\ ValidHasSlot'
  BY SlotLockedStep, SlotOwnedStep, ValidHasSlotStep
<1>5. LoadOK' /\ HoldOK'
  BY LoadStep, HoldStep
<1>6. QED
  BY <1>1, <1>2, <1>3, <1>4, <1>5

LEMMA PinSame ==
  ASSUME PinInv, UNCHANGED <<valid, busy, cnt, offset, slotVars, pc, op, page, lanes, slot, victim>>,
         TypeOK'
  PROVE  PinInv'
<1> USE DEF PinInv
<1>1. LocalsOK' /\ CountIsHolders'
  BY DEF LocalsOK, CountIsHolders, Tokens
<1>2. BusyOwned' /\ BusyIsOwned'
  BY DEF BusyOwned, BusyIsOwned, OwnsOwn, OwnsVictim
<1>3. SlotLocked' /\ SlotOwned' /\ ValidHasSlot'
  BY DEF SlotLocked, SlotOwned, ValidHasSlot, slotVars
<1>4. LoadOK' /\ HoldOK' /\ EvictOK'
  BY DEF LoadOK, HoldOK, EvictOK, slotVars
<1>5. QED
  BY <1>1, <1>2, <1>3, <1>4

LEMMA PinUnchanged ==
  ASSUME PinInv, UNCHANGED vars
  PROVE  PinInv'
<1> USE DEF vars, wordVars, slotVars, dataVars, callVars, findVars
<1>1. TypeOK'
  BY DEF PinInv, TypeOK
<1>2. QED
  BY <1>1, PinSame

\* IInv is inductive.
LEMMA IInvStep ==
  IInv /\ [Next]_vars => IInv'
<1> SUFFICES ASSUME IInv, [Next]_vars
             PROVE  IInv'
  OBVIOUS
<1>1. ASSUME NEW t \in Threads, Step(t)
      PROVE  IInv'
  <2>1. PinInv'
    BY <1>1, PinStep DEF IInv
  <2>2. DirtyOK' /\ MediaOK'
    BY <1>1, <2>1, DirtyStep, MediaStep DEF IInv, PinInv
  <2>3. QED
    BY <2>1, <2>2 DEF IInv
<1>2. CASE UNCHANGED vars
  <2> USE <1>2 DEF vars, wordVars, slotVars, dataVars, callVars, findVars
  <2>1. TypeOK'
    BY DEF IInv, PinInv, TypeOK
  <2>2. PinInv'
    BY <2>1, PinSame DEF IInv
  <2>3. DirtyOK' /\ MediaOK'
    BY DEF IInv, DirtyOK, MediaOK, Marks
  <2>4. QED
    BY <2>2, <2>3 DEF IInv
<1>3. QED
  BY <1>1, <1>2 DEF Next

\* The inductive invariant holds in every reachable state of the page cache.
THEOREM Inductive == Spec => []IInv
  BY IInvInit, IInvStep, PTL DEF Spec
------------------------------------------------------------------------------
(* The invariants that a reader of page_cache.h relies on *)

\* Every variable keeps its type; in particular no count goes below zero.
THEOREM TypeCorrect == Spec => []TypeOK
<1>1. IInv => TypeOK
  BY DEF IInv, PinInv
<1>2. QED
  BY <1>1, Inductive, PTL

\* The count in a page's state word is at all times the number of lanes that
\* have acquired the page and not released it.
THEOREM CountIsExact == Spec => []CountIsHolders
<1>1. IInv => CountIsHolders
  BY DEF IInv, PinInv
<1>2. QED
  BY <1>1, Inductive, PTL

\* The BUSY bit is a lock: set exactly while one thread, loading or evicting,
\* owns the page.
THEOREM BusyIsALock == Spec => []BusyHasOneOwner
<1>1. IInv => BusyHasOneOwner
  <2> SUFFICES ASSUME IInv, NEW p \in Pages
               PROVE  LET owners == {t \in Threads : OwnsOwn(t) /\ page[t] = p}
                          evictors == {t \in Threads : OwnsVictim(t) /\ victim[t] = p}
                      IN /\ busy[p] <=> owners \cup evictors # {}
                         /\ owners \cap evictors = {}
                         /\ \A t, u \in owners \cup evictors : t = u
    BY DEF BusyHasOneOwner
  <2>1. BusyOwned /\ BusyIsOwned
    BY DEF IInv, PinInv
  <2>2. QED
    BY <2>1 DEF BusyOwned, BusyIsOwned
<1>2. QED
  BY <1>1, Inductive, PTL

\* What acquire_page returned stays the address of the page until release_page.
THEOREM PinnedStays == Spec => []PinnedStaysResident
<1>1. IInv => PinnedStaysResident
  <2> SUFFICES ASSUME IInv, NEW t \in Threads, pc[t] \in Using
               PROVE  /\ valid[page[t]]
                      /\ slot[t] = offset[page[t]]
                      /\ page_translation[slot[t]] = page[t]
                      /\ \A u \in Threads : pc[u] \in Evicting => victim[u] # page[t]
    BY DEF PinnedStaysResident
  <2>1. page[t] \in Pages /\ pc[t] \in Holding
    <3>1. page[t] \in Pages \cup {NoPage} /\ pc[t] # "idle"
      BY DEF IInv, PinInv, TypeOK, Using
    <3>2. page[t] # NoPage
      BY <3>1 DEF IInv, PinInv, LocalsOK
    <3>3. QED
      BY <3>1, <3>2 DEF Using, Holding
  <2>2. valid[page[t]] /\ slot[t] = offset[page[t]]
    BY <2>1 DEF IInv, PinInv, HoldOK
  <2>3. page_translation[slot[t]] = page[t]
    BY <2>1, <2>2 DEF IInv, PinInv, ValidHasSlot
  <2>4. \A u \in Threads : pc[u] \in Evicting => victim[u] # page[t]
    BY <2>1 DEF IInv, PinInv, EvictOK
  <2>5. QED
    BY <2>2, <2>3, <2>4
<1>2. QED
  BY <1>1, Inductive, PTL

\* Each controller that stores a page; Home is one of them.
LEMMA HomeStores ==
  ASSUME NEW p \in Pages
  PROVE  Home(p) \in Copies[p] /\ Copies[p] \subseteq Ctrls
<1>1. Copies[p] \in (SUBSET Ctrls) \ {{}}
  BY CacheAssumption
<1>2. QED
  BY <1>1 DEF Home

\* A page that is not dirty is on every controller that stores it as it is in
\* the cache.
THEOREM CleanOnMedia == Spec => []CleanIsOnMedia
<1>1. IInv => CleanIsOnMedia
  BY HomeStores DEF IInv, PinInv, CleanIsOnMedia, Content, MediaOK
<1>2. QED
  BY <1>1, Inductive, PTL

\* The page a slot names (page_translation) is the one page whose slot it is.
LEMMA SlotsAreNotShared ==
  PinInv => SlotsNotShared
<1> SUFFICES ASSUME PinInv
             PROVE  SlotsNotShared
  OBVIOUS
<1>1. /\ BusyOwned /\ ValidHasSlot /\ LoadOK
  BY DEF PinInv
<1>2. ASSUME NEW p \in Pages, NEW q \in Pages, p # q, valid[p], valid[q]
      PROVE  offset[p] # offset[q]
  BY <1>1, <1>2 DEF ValidHasSlot
<1>3. ASSUME NEW t \in Threads, pc[t] \in Filling, NEW p \in Pages, valid[p]
      PROVE  offset[p] # slot[t]
  BY <1>1, <1>3 DEF ValidHasSlot, LoadOK, Loading
<1>4. ASSUME NEW t \in Threads, pc[t] \in Filling,
             NEW u \in Threads, u # t, pc[u] \in Filling
      PROVE  slot[u] # slot[t]
  BY <1>1, <1>4 DEF BusyOwned, LoadOK, OwnsOwn, Loading
<1>5. QED
  BY <1>2, <1>3, <1>4 DEF SlotsNotShared

\* Two pages never share a slot, and no page in use is in a slot being filled.
THEOREM SlotsExclusive == Spec => []SlotsNotShared
<1>1. IInv => SlotsNotShared
  BY SlotsAreNotShared DEF IInv
<1>2. QED
  BY <1>1, Inductive, PTL
------------------------------------------------------------------------------
(* The page cache is a plain memory *)

\* No step but a thread's own write or atomic changes the content of a page:
\* reading in, publishing, writing back, dropping and handing over a slot move
\* the content between the SSDs and the cache and lose nothing.
LEMMA ContentKept ==
  ASSUME IInv, NEW t \in Threads, AcquireStep(t) \/ FindSlotStep(t)
  PROVE  \A p \in Pages : Content(p)' = Content(p)
<1> USE DEF Content, Goto, wordVars, slotVars, dataVars, callVars, findVars
<1>1. /\ valid \in [Pages -> BOOLEAN]
      /\ offset \in [Pages -> Slots \cup {NoSlot}]
      /\ data \in [Slots -> Values]
      /\ media \in [Pages -> [Ctrls -> Values]]
      /\ page \in [Threads -> Pages \cup {NoPage}]
      /\ slot \in [Threads -> Slots \cup {NoSlot}]
  BY DEF IInv, PinInv, TypeOK
<1>2. \A p \in Pages : Home(p) \in Copies[p] /\ Copies[p] \subseteq Ctrls
  BY HomeStores
<1>3. ASSUME NEW p \in Pages, NEW o \in Ops, NEW n \in 1 .. MaxLanes,
             Acquire(t, p, o, n)
      PROVE  \A q \in Pages : Content(q)' = Content(q)
  BY <1>3 DEF Acquire
<1>4. CASE Reload(t) \/ Hit(t) \/ TakeOffset(t) \/ Claim(t) \/ Unclaim(t)
  BY <1>4 DEF Reload, Hit, TakeOffset, Claim, Unclaim
<1>5. CASE TakeTicket(t) \/ TakeLock(t) \/ Peek(t) \/ Mark(t) \/ Unmark(t)
  BY <1>5 DEF TakeTicket, TakeLock, Peek, Mark, Unmark
<1>6. CASE Bind(t) \/ GiveUp(t)
  BY <1>6 DEF Bind, GiveUp
<1>7. ASSUME NEW c \in Ctrls, ReadIn(t, c)
      PROVE  \A p \in Pages : Content(p)' = Content(p)
  <2>1. \A p \in Pages : valid[p] => offset[p] # slot[t]
    BY <1>7, SlotsAreNotShared DEF IInv, SlotsNotShared, ReadIn, Filling
  <2>2. QED
    BY <1>1, <1>7, <2>1 DEF ReadIn
<1>8. CASE Fill(t)
  <2>1. ~valid[page[t]]
    BY <1>8 DEF IInv, PinInv, LoadOK, Fill, Loading, Filling
  <2>2. QED
    BY <1>1, <1>8, <2>1 DEF Fill
<1>9. CASE Publish(t)
  <2>1. /\ page[t] \in Pages /\ ~valid[page[t]] /\ offset[page[t]] = slot[t]
        /\ \A c \in Copies[page[t]] : media[page[t]][c] = data[slot[t]]
    BY <1>1, <1>9 DEF IInv, PinInv, LocalsOK, LoadOK, MediaOK, Publish, Loading, Filling
  <2>2. /\ valid' = [valid EXCEPT ![page[t]] = TRUE]
        /\ UNCHANGED <<offset, data, media>>
    BY <1>1, <1>9, <2>1 DEF Publish
  <2>3. QED
    BY <1>1, <1>2, <2>1, <2>2
<1>10. ASSUME NEW c \in Ctrls, WriteBack(t, c)
       PROVE  \A p \in Pages : Content(p)' = Content(p)
  <2>1. valid[victim[t]]
    BY <1>10 DEF IInv, PinInv, EvictOK, WriteBack, Evicting
  <2>2. QED
    BY <1>1, <1>10, <2>1 DEF WriteBack
<1>11. CASE Drop(t)
  <2>1. /\ valid[victim[t]] /\ offset[victim[t]] = slot[t]
        /\ \A c \in Copies[victim[t]] : media[victim[t]][c] = data[slot[t]]
    BY <1>11 DEF IInv, PinInv, EvictOK, MediaOK, Drop, Evicting
  <2>2. /\ valid' = [valid EXCEPT ![victim[t]] = FALSE]
        /\ UNCHANGED <<offset, data, media>>
    BY <1>11 DEF Drop
  <2>3. QED
    BY <1>1, <1>2, <2>1, <2>2
<1>12. QED
  BY <1>3, <1>4, <1>5, <1>6, <1>7, <1>8, <1>9, <1>10, <1>11
     DEF AcquireStep, FindSlotStep

\* A store into the slot that acquire_page returned changes the content of the
\* acquired page and of no other.
LEMMA ContentWritten ==
  ASSUME IInv, NEW t \in Threads, pc[t] = "use", NEW v \in Values,
         data' = [data EXCEPT ![slot[t]] = v], UNCHANGED <<valid, offset, media>>
  PROVE  /\ page[t] \in Pages
         /\ data[slot[t]] = Content(page[t])
         /\ \A p \in Pages : Content(p)' = IF p = page[t] THEN v ELSE Content(p)
<1>1. /\ page[t] \in Pages /\ slot[t] \in Slots /\ data \in [Slots -> Values]
      /\ valid[page[t]] /\ slot[t] = offset[page[t]]
  <2>1. /\ page[t] \in Pages \cup {NoPage} /\ page[t] # NoPage
        /\ slot[t] \in Slots /\ data \in [Slots -> Values]
    BY DEF IInv, PinInv, TypeOK, LocalsOK, Using
  <2>2. valid[page[t]] /\ slot[t] = offset[page[t]]
    BY DEF IInv, PinInv, HoldOK, Using, Holding
  <2>3. QED
    BY <2>1, <2>2
<1>2. ASSUME NEW p \in Pages \ {page[t]}, valid[p]
      PROVE  offset[p] # slot[t] /\ offset[p] \in Slots
  BY <1>1, <1>2, SlotsAreNotShared DEF SlotsNotShared, IInv, PinInv, ValidHasSlot
<1>3. data[slot[t]] = Content(page[t])
  BY <1>1 DEF Content
<1>4. ASSUME NEW p \in Pages
      PROVE  Content(p)' = IF p = page[t] THEN v ELSE Content(p)
  <2>1. CASE p = page[t]
    BY <1>1, <2>1 DEF Content
  <2>2. CASE p # page[t] /\ valid[p]
    BY <1>1, <1>2, <2>2 DEF Content
  <2>3. CASE p # page[t] /\ ~valid[p]
    BY <2>3 DEF Content
  <2>4. QED
    BY <2>1, <2>2, <2>3
<1>5. QED
  BY <1>1, <1>3, <1>4

\* Initially the content of every page is what its SSDs hold.
LEMMA ImplementsInit ==
  Init => Store!Init
<1> SUFFICES ASSUME Init
             PROVE  Store!Init
  OBVIOUS
<1>1. PICK m \in [Pages -> Values] :
        media = [p \in Pages |-> [c \in Ctrls |-> m[p]]]
  BY DEF Init
<1>2. \A p \in Pages : Content(p) = m[p]
  <2> SUFFICES ASSUME NEW p \in Pages
               PROVE  Content(p) = m[p]
    OBVIOUS
  <2>1. Home(p) \in Ctrls
    BY HomeStores
  <2>2. QED
    BY <1>1, <2>1 DEF Init, Content
<1>3. QED
  BY <1>2 DEF Init, Store!Init

\* Every step of the page cache is a step of PageStore or leaves it alone.
LEMMA ImplementsStep ==
  IInv /\ [Next]_vars => [Store!Next]_Store!storeVars
<1> SUFFICES ASSUME IInv, [Next]_vars
             PROVE  [Store!Next]_Store!storeVars
  OBVIOUS
<1>1. ASSUME NEW t \in Threads, AcquireStep(t) \/ FindSlotStep(t)
      PROVE  [Store!Next]_Store!storeVars
  <2>1. [p \in Pages |-> Content(p)]' = [p \in Pages |-> Content(p)]
    BY <1>1, ContentKept
  <2>2. got' = got
    BY <1>1 DEF AcquireStep, FindSlotStep, Acquire, Reload, Hit, TakeOffset,
       Claim, Unclaim, ReadIn, Fill, Publish, TakeTicket, TakeLock, Peek, Mark,
       Unmark, WriteBack, Drop, Bind, GiveUp
  <2>3. CASE \E p \in Pages, o \in Ops, n \in 1 .. MaxLanes : Acquire(t, p, o, n)
    <3>1. PICK p \in Pages, o \in Ops, n \in 1 .. MaxLanes : Acquire(t, p, o, n)
      BY <2>3
    <3>2. page[t] = NoPage /\ page' = [page EXCEPT ![t] = p]
      BY <3>1 DEF Acquire, IInv, PinInv, LocalsOK
    <3>3. Store!Ask(t, p)
      BY <2>1, <2>2, <3>2 DEF Store!Ask
    <3>4. QED
      BY <3>3 DEF Store!Next
  <2>4. CASE ~(\E p \in Pages, o \in Ops, n \in 1 .. MaxLanes : Acquire(t, p, o, n))
    <3>1. page' = page
      BY <1>1, <2>4 DEF AcquireStep, FindSlotStep, Reload, Hit, TakeOffset, Claim,
         Unclaim, ReadIn, Fill, Publish, TakeTicket, TakeLock, Peek, Mark,
         Unmark, WriteBack, Drop, Bind, GiveUp, callVars
    <3>2. QED
      BY <2>1, <2>2, <3>1 DEF Store!storeVars
  <2>5. QED
    BY <2>3, <2>4
<1>2. ASSUME NEW t \in Threads, Read(t)
      PROVE  [Store!Next]_Store!storeVars
  <2>1. /\ pc[t] = "use" /\ UNCHANGED <<valid, offset, data, media, page>>
        /\ got' = [got EXCEPT ![t] = data[slot[t]]]
    BY <1>2 DEF Read, wordVars, dataVars, callVars
  <2>2. page[t] \in Pages /\ data[slot[t]] = Content(page[t])
    <3>1. page[t] \in Pages \cup {NoPage} /\ page[t] # NoPage
      BY <2>1 DEF IInv, PinInv, TypeOK, LocalsOK
    <3>2. valid[page[t]] /\ slot[t] = offset[page[t]]
      BY <2>1 DEF IInv, PinInv, HoldOK, Using, Holding
    <3>3. QED
      BY <3>1, <3>2 DEF Content
  <2>3. Store!Read(t)
    BY <2>1, <2>2 DEF Store!Read, Content
  <2>4. QED
    BY <2>3 DEF Store!Next
<1>3. ASSUME NEW t \in Threads, NEW v \in Values, Write(t, v)
      PROVE  [Store!Next]_Store!storeVars
  <2>1. /\ pc[t] = "use" /\ UNCHANGED <<valid, offset, media, page, got>>
        /\ data' = [data EXCEPT ![slot[t]] = v]
    BY <1>3 DEF Write, wordVars, callVars
  <2>2. Store!Write(t, v)
    BY <2>1, ContentWritten DEF Store!Write
  <2>3. QED
    BY <2>2 DEF Store!Next
<1>4. ASSUME NEW t \in Threads, NEW v \in Values, AtomicAdd(t, v)
      PROVE  [Store!Next]_Store!storeVars
  <2>1. /\ pc[t] = "use" /\ UNCHANGED <<valid, offset, media, page>>
        /\ data' = [data EXCEPT ![slot[t]] = v]
        /\ got' = [got EXCEPT ![t] = data[slot[t]]]
    BY <1>4 DEF AtomicAdd, wordVars, callVars
  <2>2. Store!Exchange(t, v)
    BY <2>1, ContentWritten DEF Store!Exchange
  <2>3. QED
    BY <2>2 DEF Store!Next
<1>5. ASSUME NEW t \in Threads, Release(t)
      PROVE  [Store!Next]_Store!storeVars
  <2>1. /\ pc[t] = "release" /\ UNCHANGED <<valid, offset, data, media, got>>
        /\ page' = [page EXCEPT ![t] = NoPage]
    BY <1>5 DEF Release, dataVars
  <2>2. page[t] \in Pages
    BY <2>1 DEF IInv, PinInv, TypeOK, LocalsOK
  <2>3. Store!LetGo(t)
    BY <2>1, <2>2 DEF Store!LetGo, Content
  <2>4. QED
    BY <2>3 DEF Store!Next
<1>6. CASE UNCHANGED vars
  BY <1>6 DEF vars, wordVars, dataVars, callVars, Content, Store!storeVars
<1>7. QED
  BY <1>1, <1>2, <1>3, <1>4, <1>5, <1>6 DEF Next, Step, UseStep

\* To its threads the page cache is a plain memory: every behaviour of misses,
\* evictions, write-backs and hits is one of PageStore.
THEOREM Implementation == Spec => IsPageStore
  BY ImplementsInit, ImplementsStep, Inductive, PTL DEF Spec, Store!Spec, IsPageStore
------------------------------------------------------------------------------
(* A pointer that walks an array (BamPtr): it marks pages dirty by the number *)
(* of a slot, so that DirtyOK and MediaOK are lost, but PinInv is not.        *)

\* fini of one lane takes its token and leaves the group's other lanes theirs.
LEMMA FiniOnePins ==
  ASSUME PinInv, NEW t \in Threads, FiniOne(t)
  PROVE  PinInv'
<1> USE DEF PinInv
<1>0. /\ pc[t] = "held" /\ lanes[t] > 1
      /\ cnt' = [cnt EXCEPT ![page[t]] = @ - 1] /\ lanes' = [lanes EXCEPT ![t] = @ - 1]
      /\ UNCHANGED <<valid, busy, dirty, offset, slotVars, dataVars, pc, op, page, todo,
                     seen, findVars, got>>
  BY DEF FiniOne
<1>1. /\ page[t] \in Pages /\ lanes[t] \in 1 .. MaxLanes /\ cnt[page[t]] >= lanes[t]
      /\ MaxLanes \in Nat
      /\ cnt \in [Pages -> Nat] /\ lanes \in [Threads -> 0 .. MaxLanes]
  BY <1>0, CountPositive, CacheAssumption DEF TypeOK
<1>2. TypeOK'
  <2>1. cnt' \in [Pages -> Nat]
    BY <1>0, <1>1
  <2>2. lanes' \in [Threads -> 0 .. MaxLanes]
    BY <1>0, <1>1
  <2>3. QED
    BY <1>0, <2>1, <2>2 DEF TypeOK, slotVars, dataVars, findVars
<1>3. LocalsOK'
  <2>1. \A u \in Threads : lanes'[u] = 0 <=> lanes[u] = 0
    BY <1>0, <1>1
  <2>2. QED
    BY <1>0, <2>1 DEF LocalsOK, findVars
<1>4. CountIsHolders'
  <2>1. ASSUME NEW p \in Pages
        PROVE  cnt'[p] = Cardinality(Tokens(p)')
    <3>1. CASE p # page[t]
      <4>1. Tokens(p)' = Tokens(p)
        BY <1>0, <3>1 DEF Tokens
      <4>2. QED
        BY <1>0, <3>1, <4>1 DEF CountIsHolders
    <3>2. CASE p = page[t]
      <4> DEFINE last == <<t, lanes[t]>>
      <4>1. last \in Tokens(p)
        BY <1>0, <1>1, <3>2 DEF Tokens
      <4>2. Tokens(p)' = Tokens(p) \ {last}
        <5>1. ASSUME NEW u \in Threads, NEW n \in 1 .. MaxLanes
              PROVE  <<u, n>> \in Tokens(p)' <=> <<u, n>> \in Tokens(p) /\ <<u, n>> # last
          <6>1. CASE u = t
            BY <1>0, <1>1, <3>2, <6>1 DEF Tokens
          <6>2. CASE u # t
            BY <1>0, <1>1, <6>2 DEF Tokens
          <6>3. QED
            BY <6>1, <6>2
        <5>2. Tokens(p) \subseteq Threads \X (1 .. MaxLanes) /\ Tokens(p)' \subseteq Threads \X (1 .. MaxLanes)
          BY DEF Tokens
        <5>3. QED
          BY <5>1, <5>2
      <4>3. Cardinality(Tokens(p) \ {last}) = Cardinality(Tokens(p)) - 1
        BY <4>1, TokensFinite, FS_RemoveElement
      <4>4. cnt'[p] = cnt[p] - 1
        BY <1>0, <1>1, <3>2
      <4>5. QED
        BY <4>2, <4>3, <4>4 DEF CountIsHolders
    <3>3. QED
      BY <3>1, <3>2
  <2>2. QED
    BY <2>1 DEF CountIsHolders
<1>5. BusyOwned' /\ BusyIsOwned'
  BY <1>0 DEF BusyOwned, BusyIsOwned, OwnsOwn, OwnsVictim, findVars
<1>6. SlotLocked' /\ SlotOwned' /\ ValidHasSlot'
  BY <1>0 DEF SlotLocked, SlotOwned, ValidHasSlot, slotVars, findVars
<1>7. LoadOK' /\ HoldOK' /\ EvictOK'
  BY <1>0 DEF LoadOK, HoldOK, EvictOK, slotVars, findVars
<1>8. QED
  BY <1>2, <1>3, <1>4, <1>5, <1>6, <1>7

\* From the use of the reference to fini, and from fini to release_page.
LEMMA HeldPins ==
  ASSUME PinInv, NEW t \in Threads, Touch(t) \/ Fini(t)
  PROVE  PinInv'
<1> USE DEF PinInv
<1>0. /\ \/ pc[t] = "use" /\ pc' = [pc EXCEPT ![t] = "held"]
         \/ pc[t] = "held" /\ pc' = [pc EXCEPT ![t] = "release"]
      /\ UNCHANGED <<valid, busy, cnt, offset, slotVars, dataVars, callVars, seen, findVars, got>>
      /\ dirty' = dirty \/ dirty' = [dirty EXCEPT ![PageNumbered[slot[t]]] = TRUE]
  BY DEF Touch, Fini, Goto, wordVars
<1>1. pc \in [Threads -> Labels]
  BY DEF TypeOK
<1> DEFINE Used == {"use", "held", "release"}
<1>2. \A u \in Threads : pc'[u] = pc[u] \/ (pc'[u] \in Used /\ pc[u] \in Used)
  BY <1>0, <1>1
<1>3. TypeOK'
  <2>1. pc' \in [Threads -> Labels]
    BY <1>0, <1>1 DEF Labels, Active, Holding
  <2>2. dirty' \in [Pages -> BOOLEAN]
    BY <1>0 DEF TypeOK
  <2>3. QED
    BY <1>0, <2>1, <2>2 DEF TypeOK, slotVars, dataVars, callVars, findVars
<1>4. LocalsOK'
  BY <1>0, <1>2 DEF LocalsOK, callVars, findVars, Loading, Finding, Filling, Using, Locking
<1>5. CountIsHolders'
  <2>1. \A p \in Pages : Tokens(p)' = Tokens(p)
    BY <1>0, <1>2 DEF Tokens, callVars
  <2>2. QED
    BY <1>0, <2>1 DEF CountIsHolders
<1>6. BusyOwned' /\ BusyIsOwned'
  <2>1. \A u \in Threads : /\ OwnsOwn(u)' <=> OwnsOwn(u)
                           /\ OwnsVictim(u)' <=> OwnsVictim(u)
    BY <1>0, <1>2 DEF OwnsOwn, OwnsVictim, Loading, Finding, Filling, Evicting
  <2>2. QED
    BY <1>0, <2>1 DEF BusyOwned, BusyIsOwned, callVars, findVars
<1>7. SlotLocked' /\ SlotOwned' /\ ValidHasSlot'
  BY <1>0, <1>2 DEF SlotLocked, SlotOwned, ValidHasSlot, slotVars, callVars, findVars, Locking, Filling
<1>8. LoadOK' /\ HoldOK' /\ EvictOK'
  BY <1>0, <1>2 DEF LoadOK, HoldOK, EvictOK, slotVars, callVars, findVars, Loading, Finding, Filling,
     Holding, Using, Evicting
<1>9. QED
  BY <1>3, <1>4, <1>5, <1>6, <1>7, <1>8

\* A store through the reference changes only the slot's content.
LEMMA StoreToPins ==
  ASSUME PinInv, NEW t \in Threads, Load(t) \/ (\E v \in Values : StoreTo(t, v))
  PROVE  PinInv'
<1>1. /\ UNCHANGED <<valid, busy, dirty, cnt, offset, slotVars, media, pc, callVars, seen, findVars>>
      /\ \/ UNCHANGED got /\ \E v \in Values : data' = [data EXCEPT ![slot[t]] = v]
         \/ UNCHANGED data /\ got' = [got EXCEPT ![t] = data[slot[t]]] /\ pc[t] = "held"
  BY DEF Load, StoreTo, wordVars, dataVars
<1>2. pc[t] = "held" => slot[t] \in Slots
  BY DEF PinInv, LocalsOK, Using
<1>3. data' \in [Slots -> Values] /\ got' \in [Threads -> Values]
  BY <1>1, <1>2 DEF PinInv, TypeOK
<1>4. TypeOK'
  BY <1>1, <1>3 DEF PinInv, TypeOK, slotVars, callVars, findVars
<1>5. QED
  BY <1>1, <1>4, PinSame DEF callVars, findVars

\* Any step of a thread of such a kernel.  Converging and __syncwarp touch no page.
LEMMA PtrPinStep ==
  ASSUME PinInv, NEW t \in Threads, PtrStep(t)
  PROVE  PinInv'
<1>1. CASE Touch(t) \/ Fini(t)
  BY <1>1, HeldPins
<1>2. CASE FiniOne(t)
  BY <1>2, FiniOnePins
<1>3. CASE Load(t) \/ \E v \in Values : StoreTo(t, v)
  BY <1>3, StoreToPins
<1>4. CASE \E p \in Pages, n \in 1 .. MaxLanes : Update(t, p, n)
  <2>1. Step(t)
    BY <1>4 DEF Update, Step, AcquireStep, Ops
  <2>2. QED
    BY <2>1, PinStep
<1>5. CASE CacheStep(t)
  <2>1. Step(t)
    BY <1>5 DEF CacheStep, Step, AcquireStep, UseStep
  <2>2. QED
    BY <2>1, PinStep
<1>6. CASE SyncWarp(t) \/ \E G \in SUBSET Threads : t \in G /\ Converge(G)
  BY <1>6, PinUnchanged DEF SyncWarp, Converge
<1>7. QED
  BY <1>1, <1>2, <1>3, <1>4, <1>5, <1>6 DEF PtrStep, Advance

\* Counts, locks and slots stay right under a kernel that keeps pages by pointers.
THEOREM PtrAlwaysPins == PtrSpec => []PinInv
<1>1. PtrInit => PinInv
  BY IInvInit DEF IInv, PtrInit
<1>2. PinInv /\ [PtrNext]_ptrVars => PinInv'
  BY PtrPinStep, PinUnchanged DEF PtrNext, ptrVars
<1>3. QED
  BY <1>1, <1>2, PTL DEF PtrSpec

\* While a bam_ptr holds a page its reference stays the address of that page, however
\* often it is used before fini and whoever looks for a slot meanwhile.
THEOREM PtrHeldStays == PtrSpec => []HeldStaysResident
<1>1. PinInv => HeldStaysResident
  <2>1. SUFFICES ASSUME PinInv, NEW t \in Threads, pc[t] \in {"use", "held", "release"}
                 PROVE  /\ valid[page[t]] /\ slot[t] = offset[page[t]]
                        /\ page_translation[slot[t]] = page[t]
    BY DEF HeldStaysResident
  <2>2. page[t] \in Pages
    BY <2>1 DEF PinInv, TypeOK, LocalsOK
  <2>3. valid[page[t]] /\ slot[t] = offset[page[t]]
    BY <2>1 DEF PinInv, HoldOK, Holding, Using
  <2>4. QED
    BY <2>1, <2>2, <2>3 DEF PinInv, ValidHasSlot
<1>2. QED
  BY <1>1, PtrAlwaysPins, PTL

\* The groups that share a page through pointers and break up lane by lane release
\* each count once.
THEOREM PtrCountIsExact == PtrSpec => []CountIsHolders
<1>1. PinInv => CountIsHolders
  BY DEF PinInv
<1>2. QED
  BY <1>1, PtrAlwaysPins, PTL
------------------------------------------------------------------------------
(* store_tensor: such a kernel and then flush_cache.  Pages are marked dirty that   *)
(* nobody stored to, and a slot nobody has taken may name any page.                 *)

\* When no thread is in the cache, a page that is not named by a free slot is named by
\* the slot it is in alone.
LEMMA NamedIsResident ==
  ASSUME PinInv, Returned, NEW s \in Slots, Named(s) \in Pages, ~NamedByFree(Named(s))
  PROVE  valid[Named(s)] /\ offset[Named(s)] = s
<1>1. page_take_lock[s] # "FREE"
  BY DEF NamedByFree
<1>2. \A t \in Threads : pc[t] = "idle"
  BY DEF Returned
<1>3. QED
  BY <1>1, <1>2 DEF PinInv, SlotOwned, Named, Filling

\* What the pages have, by steps of a thread that store nothing: a page is read in,
\* published, written back or dropped, all with the content it had at first.
LEMMA IntactCache ==
  ASSUME PinInv, LoadedIsIntact, running = "user", running' = "user", ReadOnlyIsIntact,
         UNCHANGED <<stored, original>>, NEW t \in Threads, CacheStep(t)
  PROVE  LoadedIsIntact' /\ ReadOnlyIsIntact'
<1>1. TypeOK /\ LocalsOK /\ LoadOK /\ EvictOK /\ HoldOK /\ ValidHasSlot /\ SlotsNotShared
  BY SlotsAreNotShared DEF PinInv
<1>2. \A p \in Pages : Copies[p] \subseteq Ctrls
  BY CacheAssumption
<1>3. \A p \in Pages \ stored :
        /\ \A c \in Copies[p] : media[p][c] = original[p]
        /\ valid[p] => data[offset[p]] = original[p]
  BY DEF ReadOnlyIsIntact
<1>4. SUFFICES /\ \A u \in Threads : pc'[u] \in {"fill", "publish"} /\ page'[u] \notin stored =>
                     data'[slot'[u]] = original[page'[u]]
               /\ \A p \in Pages \ stored :
                     /\ \A c \in Copies[p] : media'[p][c] = original[p]
                     /\ valid'[p] => data'[offset'[p]] = original[p]
  BY DEF LoadedIsIntact, ReadOnlyIsIntact
<1>5. CASE \/ Reload(t) \/ Hit(t) \/ TakeOffset(t) \/ Claim(t) \/ Unclaim(t)
           \/ TakeTicket(t) \/ TakeLock(t) \/ Peek(t) \/ Mark(t) \/ Unmark(t)
           \/ Bind(t) \/ GiveUp(t) \/ Release(t)
  <2>1. /\ UNCHANGED <<valid, offset, data, media>>
        /\ \A u \in Threads \ {t} : /\ pc'[u] = pc[u]
                                   /\ page'[u] = page[u] /\ slot'[u] = slot[u]
    BY <1>1, <1>5 DEF Reload, Hit, TakeOffset, Claim, Unclaim, TakeTicket, TakeLock,
       Peek, Mark, Unmark, Bind, GiveUp, Release, Goto, TypeOK, wordVars, dataVars,
       callVars, findVars
  <2>2. pc'[t] \notin {"fill", "publish"}
    BY <1>1, <1>5 DEF Reload, Hit, TakeOffset, Claim, Unclaim, TakeTicket, TakeLock,
       Peek, Mark, Unmark, Bind, GiveUp, Release, Goto, TypeOK, Dispatch
  <2>3. QED
    BY <1>3, <2>1, <2>2 DEF LoadedIsIntact
<1>6. CASE \E c \in Ctrls : ReadIn(t, c)
  <2>1. PICK c \in Ctrls : ReadIn(t, c)
    BY <1>6
  <2>2. /\ pc[t] = "read" /\ c \in Copies[page[t]]
        /\ data' = [data EXCEPT ![slot[t]] = media[page[t]][c]]
        /\ pc' = [pc EXCEPT ![t] = "fill"]
        /\ UNCHANGED <<valid, offset, media, page, slot>>
    BY <2>1 DEF ReadIn, Goto, wordVars, callVars, findVars
  <2>3. page[t] \in Pages /\ slot[t] \in Slots
    BY <1>1, <2>2 DEF LocalsOK, TypeOK, Loading, Filling
  <2>4. \A p \in Pages : valid[p] => data'[offset[p]] = data[offset[p]]
    BY <1>1, <2>2 DEF SlotsNotShared, Filling, TypeOK
  <2>5. \A u \in Threads \ {t} : pc[u] \in {"fill", "publish"} => data'[slot[u]] = data[slot[u]]
    BY <1>1, <2>2 DEF SlotsNotShared, Filling, TypeOK
  <2>6. data'[slot[t]] = media[page[t]][c]
    BY <1>1, <2>2, <2>3 DEF TypeOK
  <2>7. QED
    BY <1>1, <1>3, <2>2, <2>3, <2>4, <2>5, <2>6 DEF LoadedIsIntact, TypeOK
<1>7. CASE Fill(t)
  <2>1. /\ pc[t] = "fill"
        /\ offset' = [offset EXCEPT ![page[t]] = slot[t]]
        /\ pc' = [pc EXCEPT ![t] = "publish"]
        /\ UNCHANGED <<valid, data, media, page, slot>>
    BY <1>7 DEF Fill, Goto, dataVars, callVars, findVars
  <2>2. ~valid[page[t]]
    BY <1>1, <2>1 DEF LoadOK, Loading, Filling
  <2>3. \A p \in Pages : valid[p] => offset'[p] = offset[p]
    BY <1>1, <2>1, <2>2 DEF TypeOK
  <2>4. \A u \in Threads : pc'[u] \in {"fill", "publish"} => pc[u] \in {"fill", "publish"}
    BY <1>1, <2>1 DEF TypeOK
  <2>5. QED
    BY <1>3, <2>1, <2>3, <2>4 DEF LoadedIsIntact
<1>8. CASE Publish(t)
  <2>1. /\ pc[t] = "publish"
        /\ valid' = [valid EXCEPT ![page[t]] = ~@]
        /\ pc' = [pc EXCEPT ![t] = "use"]
        /\ UNCHANGED <<offset, data, media, page, slot>>
    BY <1>8 DEF Publish, Goto, dataVars, callVars, findVars
  <2>2. offset[page[t]] = slot[t]
    BY <1>1, <2>1 DEF LoadOK
  <2>3. \A p \in Pages : p # page[t] => valid'[p] = valid[p]
    BY <1>1, <2>1 DEF TypeOK
  <2>4. \A u \in Threads : pc'[u] \in {"fill", "publish"} => pc[u] \in {"fill", "publish"}
    BY <1>1, <2>1 DEF TypeOK
  <2>5. page[t] \notin stored => data[slot[t]] = original[page[t]]
    BY <2>1 DEF LoadedIsIntact
  <2>6. QED
    BY <1>3, <2>1, <2>2, <2>3, <2>4, <2>5 DEF LoadedIsIntact
<1>9. CASE \E c \in Ctrls : WriteBack(t, c)
  <2>1. PICK c \in Ctrls : WriteBack(t, c)
    BY <1>9
  <2>2. /\ pc[t] = "writeback"
        /\ media' = [media EXCEPT ![victim[t]][c] = data[slot[t]]]
        /\ pc' = [pc EXCEPT ![t] = IF Copies[victim[t]] \subseteq wrote[t] \cup {c}
                                     THEN "drop" ELSE "writeback"]
        /\ UNCHANGED <<valid, offset, data, page, slot>>
    BY <2>1 DEF WriteBack, Goto, wordVars, callVars
  <2>3. /\ victim[t] \in Pages
        /\ valid[victim[t]] /\ offset[victim[t]] = slot[t]
    BY <1>1, <2>2 DEF LocalsOK, EvictOK, Evicting, Locking
  <2>4. \A p \in Pages, d \in Ctrls :
          media'[p][d] = media[p][d] \/ (p = victim[t] /\ media'[p][d] = data[slot[t]])
    BY <1>1, <2>2, <2>3 DEF TypeOK
  <2>5. \A u \in Threads : pc'[u] \in {"fill", "publish"} => pc[u] \in {"fill", "publish"}
    BY <1>1, <2>2 DEF TypeOK
  <2>6. \A p \in Pages \ stored : \A d \in Copies[p] : media'[p][d] = original[p]
    BY <1>2, <1>3, <2>3, <2>4
  <2>7. QED
    BY <1>3, <2>2, <2>5, <2>6 DEF LoadedIsIntact
<1>10. CASE Drop(t)
  <2>1. /\ pc[t] = "drop"
        /\ valid' = [valid EXCEPT ![victim[t]] = FALSE]
        /\ pc' = [pc EXCEPT ![t] = "bind"]
        /\ UNCHANGED <<offset, data, media, page, slot>>
    BY <1>10 DEF Drop, Goto, dataVars, callVars, findVars
  <2>2. \A p \in Pages : valid'[p] => valid[p]
    BY <1>1, <2>1 DEF TypeOK
  <2>3. \A u \in Threads : pc'[u] \in {"fill", "publish"} => pc[u] \in {"fill", "publish"}
    BY <1>1, <2>1 DEF TypeOK
  <2>4. QED
    BY <1>3, <2>1, <2>2, <2>3 DEF LoadedIsIntact
<1>11. QED
  BY <1>5, <1>6, <1>7, <1>8, <1>9, <1>10 DEF CacheStep, FindSlotStep

\* What the pages have, by any step of a kernel that walks an array: what is stored
\* through a reference goes to the page that is held.
LEMMA IntactStep ==
  ASSUME PinInv, LoadedIsIntact, running = "user", running' = "user", ReadOnlyIsIntact,
         stored \subseteq Pages, original \in [Pages -> Values],
         NEW t \in Threads, PtrStep(t)
  PROVE  /\ LoadedIsIntact' /\ ReadOnlyIsIntact'
         /\ stored' \subseteq Pages /\ original' = original
<1>1. TypeOK /\ LocalsOK /\ HoldOK /\ SlotsNotShared
  BY SlotsAreNotShared DEF PinInv
<1>2. CASE CacheStep(t) /\ UNCHANGED warpVars
  BY <1>2, IntactCache DEF warpVars
<1>3. CASE \/ \E G \in SUBSET Threads : t \in G /\ Converge(G)
           \/ \E p \in Pages, n \in 1 .. MaxLanes : Update(t, p, n)
           \/ SyncWarp(t) \/ Touch(t) \/ FiniOne(t) \/ Fini(t) \/ Load(t)
  <2>1. /\ UNCHANGED <<valid, offset, data, media, slot, stored, original>>
        /\ \A u \in Threads : pc'[u] \in {"fill", "publish"} =>
             pc'[u] = pc[u] /\ page'[u] = page[u]
    BY <1>1, <1>3 DEF Converge, Update, SyncWarp, Touch, FiniOne, Fini, Load, Acquire,
       Goto, Dispatch, TypeOK, vars, warpVars, wordVars, dataVars, callVars, findVars
  <2>2. QED
    BY <2>1 DEF LoadedIsIntact, ReadOnlyIsIntact
<1>4. CASE \E v \in Values : StoreTo(t, v)
  <2>1. PICK v \in Values : StoreTo(t, v)
    BY <1>4
  <2>2. /\ pc[t] = "held"
        /\ data' = [data EXCEPT ![slot[t]] = v]
        /\ stored' = stored \cup {page[t]}
        /\ UNCHANGED <<valid, offset, media, pc, page, slot, original>>
    BY <2>1 DEF StoreTo, wordVars, callVars, findVars
  <2>3. page[t] \in Pages /\ valid[page[t]] /\ slot[t] = offset[page[t]]
    BY <1>1, <2>2 DEF LocalsOK, HoldOK, Holding, Using, TypeOK
  <2>4. \A p \in Pages \ stored' : valid[p] => data'[offset[p]] = data[offset[p]]
    BY <1>1, <2>2, <2>3 DEF SlotsNotShared, TypeOK
  <2>5. \A u \in Threads : pc[u] \in {"fill", "publish"} => data'[slot[u]] = data[slot[u]]
    BY <1>1, <2>2, <2>3 DEF SlotsNotShared, Filling, TypeOK
  <2>6. QED
    BY <2>2, <2>3, <2>4, <2>5 DEF LoadedIsIntact, ReadOnlyIsIntact
<1>5. QED
  BY <1>2, <1>3, <1>4 DEF PtrStep, Advance

\* The launch of the kernel.
LEMMA FlushInvInit ==
  FlushInit => FlushInv
<1> SUFFICES ASSUME FlushInit
             PROVE  FlushInv
  OBVIOUS
<1>1. /\ Init /\ stored = {} /\ original = [p \in Pages |-> media[p][Home(p)]]
      /\ running = "user" /\ fpc = [s \in Slots |-> "load"] /\ marked = {}
  BY DEF FlushInit, PtrInit
<1>2. PinInv
  BY <1>1, IInvInit DEF IInv
<1>3. original \in [Pages -> Values]
  BY <1>1, <1>2, HomeStores DEF PinInv, TypeOK
<1>4. \A p \in Pages : ~valid[p] /\ \A c \in Copies[p] : media[p][c] = original[p]
  BY <1>1, HomeStores, CacheAssumption DEF Init
<1>5. LoadedIsIntact /\ ReadOnlyIsIntact /\ MarkedStages /\ StagesOK
  BY <1>1, <1>4 DEF Init, LoadedIsIntact, ReadOnlyIsIntact, MarkedStages, StagesOK
<1>6. QED
  BY <1>1, <1>2, <1>3, <1>5 DEF FlushInv, FlushTypeOK

\* A step of the kernel before the flush.
LEMMA UserKeeps ==
  ASSUME FlushInv, NEW t \in Threads, UserStep(t)
  PROVE  FlushInv'
<1>1. running = "user" /\ PtrStep(t) /\ UNCHANGED <<running, fpc, marked>>
  BY DEF UserStep, flushVars
<1>2. PinInv'
  BY <1>1, PtrPinStep DEF FlushInv
<1>3. /\ LoadedIsIntact' /\ ReadOnlyIsIntact'
      /\ stored' \subseteq Pages /\ original' = original
  BY <1>1, IntactStep DEF FlushInv, FlushTypeOK
<1>4. FlushTypeOK' /\ MarkedStages' /\ StagesOK'
  BY <1>1, <1>3 DEF FlushInv, FlushTypeOK, MarkedStages, StagesOK
<1>5. QED
  BY <1>1, <1>2, <1>3, <1>4 DEF FlushInv

\* A step of __flush, or of the host around it, that leaves the cache alone.
LEMMA FlushControlKeeps ==
  ASSUME FlushInv, UNCHANGED ptrVars,
         \/ FlushCache
         \/ \E s \in Slots : LoadState(s)
         \/ FlushReturns
         \/ UNCHANGED flushVars
  PROVE  FlushInv'
<1> USE DEF FlushInv
<1>1. PinInv' /\ (Returned' <=> Returned)
  BY PinUnchanged DEF ptrVars, vars, callVars, Returned
<1>2. /\ UNCHANGED <<valid, dirty, offset, page_take_lock, page_translation, data, media,
                     pc, page, slot, stored, original>>
  BY DEF ptrVars, vars, warpVars, wordVars, slotVars, dataVars, callVars, findVars
<1>3. \A p \in Pages : NamedByFree(p)' <=> NamedByFree(p)
  BY <1>2 DEF NamedByFree, Named
<1>4. LoadedIsIntact'
  BY <1>2 DEF LoadedIsIntact
<1>5. \A p \in Pages : valid[p] => offset[p] \in Slots
  BY DEF PinInv, ValidHasSlot
<1>6. CASE FlushCache
  <2>1. /\ running = "user" /\ running' = "flush" /\ fpc' = fpc
        /\ Returned /\ marked' = {p \in Pages : dirty[p]}
    BY <1>6 DEF FlushCache
  <2>2. \A s \in Slots : fpc[s] = "load"
    BY <2>1 DEF StagesOK
  <2>3. StagesOK' /\ MarkedStages'
    BY <1>2, <1>5, <2>1, <2>2 DEF StagesOK, MarkedStages
  <2>4. QED
    BY <1>1, <1>2, <1>3, <1>4, <2>1, <2>3 DEF FlushTypeOK, ReadOnlyIsIntact
<1>7. CASE \E s \in Slots : LoadState(s)
  <2>1. PICK s \in Slots :
          /\ running = "flush" /\ fpc[s] = "load"
          /\ fpc' = [fpc EXCEPT ![s] =
               IF Named(s) \in Pages /\ dirty[Named(s)] THEN "write" ELSE "done"]
          /\ UNCHANGED <<running, marked>>
    BY <1>7 DEF LoadState
  <2>2. \A p \in marked : valid[p] => Named(offset[p]) = p
    BY DEF PinInv, ValidHasSlot, FlushTypeOK, Named
  <2>3. StagesOK'
    BY <1>2, <2>1 DEF StagesOK, FlushTypeOK, Named
  <2>4. MarkedStages'
    BY <1>2, <1>3, <1>5, <2>1, <2>2 DEF MarkedStages, FlushTypeOK
  <2>5. FlushTypeOK'
    BY <1>2, <2>1 DEF FlushTypeOK
  <2>6. QED
    BY <1>1, <1>2, <1>3, <1>4, <2>1, <2>3, <2>4, <2>5 DEF ReadOnlyIsIntact
<1>8. CASE FlushReturns \/ UNCHANGED flushVars
  <2>1. /\ fpc' = fpc /\ marked' = marked
        /\ running' = running \/ (running = "flush" /\ running' = "none"
                                  /\ \A s \in Slots : fpc[s] = "done")
    BY <1>8 DEF FlushReturns, flushVars
  <2>2. StagesOK' /\ FlushTypeOK'
    BY <1>2, <2>1 DEF StagesOK, FlushTypeOK, Named
  <2>3. MarkedStages' /\ ReadOnlyIsIntact'
    BY <1>2, <1>3, <2>1 DEF MarkedStages, ReadOnlyIsIntact, FlushTypeOK
  <2>4. QED
    BY <1>1, <1>4, <2>1, <2>2, <2>3
<1>9. QED
  BY <1>6, <1>7, <1>8

\* A step of __flush on the page that a slot names.  A page that only this slot names
\* is in it; another page is not touched.
LEMMA FlushPageKeeps ==
  ASSUME FlushInv, NEW s \in Slots, FlushSlot(s) \/ ClearDirty(s)
  PROVE  FlushInv'
<1> USE DEF FlushInv
<1> DEFINE q == Named(s)
<1>1. /\ running = "flush" /\ fpc[s] \in {"write", "clear"}
      /\ UNCHANGED <<running, marked>>
      /\ UNCHANGED <<valid, busy, cnt, offset, slotVars, data, pc, callVars, seen,
                     findVars, got, warpVars>>
  BY DEF FlushSlot, ClearDirty, wordVars, dataVars
<1>2. TypeOK /\ Returned /\ q \in Pages
  BY <1>1 DEF PinInv, StagesOK
<1>3. ~NamedByFree(q) => valid[q] /\ offset[q] = s
  BY <1>2, NamedIsResident
<1>4. \A p \in Pages : NamedByFree(p)' <=> NamedByFree(p)
  BY <1>1 DEF NamedByFree, Named, slotVars
<1>5. \A p \in Pages : Copies[p] \subseteq Ctrls
  BY CacheAssumption
<1>6. /\ dirty' \in [Pages -> BOOLEAN]
      /\ media' \in [Pages -> [Ctrls -> Values]]
      /\ \A p \in Pages \ {q} : dirty'[p] = dirty[p] /\ media'[p] = media[p]
      /\ \/ /\ fpc[s] = "write" /\ fpc' = [fpc EXCEPT ![s] = "clear"]
            /\ dirty' = dirty /\ \A c \in Copies[q] : media'[q][c] = data[s]
         \/ /\ fpc[s] = "clear" /\ fpc' = [fpc EXCEPT ![s] = "done"]
            /\ media' = media /\ ~dirty'[q]
  <2>1. CASE FlushSlot(s)
    <3>1. /\ fpc[s] = "write" /\ fpc' = [fpc EXCEPT ![s] = "clear"] /\ dirty' = dirty
          /\ media' = [media EXCEPT ![q] =
               [c \in Ctrls |-> IF c \in Copies[q] THEN data[s] ELSE @[c]]]
      BY <2>1 DEF FlushSlot, wordVars
    <3>2. QED
      BY <1>2, <1>5, <3>1 DEF TypeOK
  <2>2. CASE ClearDirty(s)
    <3>1. /\ fpc[s] = "clear" /\ fpc' = [fpc EXCEPT ![s] = "done"] /\ media' = media
          /\ dirty' = [dirty EXCEPT ![q] = FALSE]
      BY <2>2 DEF ClearDirty, dataVars
    <3>2. QED
      BY <1>2, <3>1 DEF TypeOK
  <2>3. QED
    BY <2>1, <2>2
<1>7. TypeOK'
  BY <1>1, <1>2, <1>6 DEF TypeOK, slotVars, callVars, findVars
<1>8. PinInv' /\ Returned'
  BY <1>1, <1>2, <1>7, PinSame DEF callVars, findVars, Returned
<1>9. FlushTypeOK' /\ StagesOK'
  <2>1. \A r \in Slots : Named(r)' = Named(r)
    BY <1>1 DEF Named, slotVars
  <2>2. \A r \in Slots : r # s => fpc'[r] = fpc[r]
    BY <1>6 DEF FlushTypeOK
  <2>3. fpc' \in [Slots -> {"load", "write", "clear", "done"}]
    BY <1>6 DEF FlushTypeOK
  <2>4. FlushTypeOK'
    BY <1>1, <2>3 DEF FlushTypeOK, warpVars
  <2>5. StagesOK'
    BY <1>1, <1>2, <2>1, <2>2 DEF StagesOK
  <2>6. QED
    BY <2>4, <2>5
<1>10. LoadedIsIntact'
  BY <1>1 DEF LoadedIsIntact, callVars, findVars, warpVars
<1>11. ReadOnlyIsIntact'
  <2>1. SUFFICES ASSUME NEW p \in Pages, p \notin stored, ~NamedByFree(p)
                 PROVE  /\ \A c \in Copies[p] : media'[p][c] = original[p]
                        /\ valid[p] => data[offset[p]] = original[p]
    BY <1>1, <1>4 DEF ReadOnlyIsIntact, warpVars
  <2>2. /\ \A c \in Copies[p] : media[p][c] = original[p]
        /\ valid[p] => data[offset[p]] = original[p]
    BY <2>1 DEF ReadOnlyIsIntact
  <2>3. QED
    BY <1>3, <1>6, <2>1, <2>2
<1>12. MarkedStages'
  <2>1. SUFFICES ASSUME NEW p \in marked, valid[p], ~NamedByFree(p)
                 PROVE  /\ fpc'[offset[p]] = "load" => dirty'[p]
                        /\ fpc'[offset[p]] \in {"clear", "done"} =>
                             \A c \in Copies[p] : media'[p][c] = data[offset[p]]
                        /\ fpc'[offset[p]] = "done" => ~dirty'[p]
    BY <1>1, <1>4 DEF MarkedStages, FlushTypeOK
  <2>2. /\ fpc[offset[p]] = "load" => dirty[p]
        /\ fpc[offset[p]] \in {"clear", "done"} =>
             \A c \in Copies[p] : media[p][c] = data[offset[p]]
        /\ fpc[offset[p]] = "done" => ~dirty[p]
    BY <2>1 DEF MarkedStages
  <2>3. p \in Pages /\ offset[p] \in Slots /\ Named(offset[p]) = p
    BY <2>1 DEF PinInv, ValidHasSlot, FlushTypeOK, Named
  <2>4. CASE p = q
    BY <1>3, <1>6, <2>1, <2>2, <2>4 DEF FlushTypeOK
  <2>5. CASE p # q
    <3>1. offset[p] # s
      BY <2>3, <2>5
    <3>2. fpc'[offset[p]] = fpc[offset[p]]
      BY <1>6, <2>3, <3>1 DEF FlushTypeOK
    <3>3. QED
      BY <1>6, <2>2, <2>3, <2>5, <3>2
  <2>6. QED
    BY <2>4, <2>5
<1>13. QED
  BY <1>1, <1>8, <1>9, <1>10, <1>11, <1>12

\* store_tensor keeps the invariant, whatever the slots nobody has taken name.
THEOREM FlushInductive == FlushSpec => []FlushInv
<1>1. FlushInit => FlushInv
  BY FlushInvInit
<1>2. FlushInv /\ [FlushNext]_allVars => FlushInv'
  <2> SUFFICES ASSUME FlushInv, [FlushNext]_allVars
               PROVE  FlushInv'
    OBVIOUS
  <2>1. CASE \E t \in Threads : UserStep(t)
    BY <2>1, UserKeeps
  <2>2. CASE \E s \in Slots : FlushSlot(s) \/ ClearDirty(s)
    BY <2>2, FlushPageKeeps
  <2>3. CASE FlushCache \/ (\E s \in Slots : LoadState(s)) \/ FlushReturns
             \/ UNCHANGED allVars
    BY <2>3, FlushControlKeeps DEF FlushCache, LoadState, FlushReturns, allVars
  <2>4. QED
    BY <2>1, <2>2, <2>3 DEF FlushNext
<1>3. QED
  BY <1>1, <1>2, PTL DEF FlushSpec

\* Every page that was marked when flush_cache started, and is not named by a slot
\* nobody has taken, is clean and written back when it is over.
THEOREM FlushWritesBackMarked == FlushSpec => []FlushedIfMarked
<1>1. FlushInv => FlushedIfMarked
  <2> SUFFICES ASSUME FlushInv, running = "none", NEW p \in marked, valid[p],
                      ~NamedByFree(p)
               PROVE  ~dirty[p] /\ \A c \in Copies[p] : media[p][c] = data[offset[p]]
    BY DEF FlushedIfMarked
  <2>1. offset[p] \in Slots
    BY DEF FlushInv, FlushTypeOK, PinInv, ValidHasSlot
  <2>2. fpc[offset[p]] = "done"
    BY <2>1 DEF FlushInv, StagesOK
  <2>3. QED
    BY <2>2 DEF FlushInv, MarkedStages
<1>2. QED
  BY <1>1, FlushInductive, PTL

\* A page nobody stored to keeps its content, on the SSDs and in the cache, however
\* wrongly pages are marked, evicted and flushed.
THEOREM ReadOnlyStaysIntact == FlushSpec => []ReadOnlyIsIntact
<1>1. FlushInv => ReadOnlyIsIntact
  BY DEF FlushInv
<1>2. QED
  BY <1>1, FlushInductive, PTL
==============================================================================
