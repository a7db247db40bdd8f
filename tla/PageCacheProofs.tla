--------------------------- MODULE PageCacheProofs ---------------------------
(***************************************************************************)
(* Proofs, for every number of threads, pages, slots, controllers, lanes   *)
(* and values, that the page cache keeps IInv and implements PageStore.    *)
(***************************************************************************)
EXTENDS PageCacheInv, FiniteSetTheorems, TLAPS

(* Counting the lanes that hold a page *)

\* Tokens(p) is finite, so that its cardinality is a natural number.
LEMMA TokensFinite ==
  ASSUME NEW p
  PROVE  IsFiniteSet(Tokens(p)) /\ Cardinality(Tokens(p)) \in Nat
<1>1. IsFiniteSet(Threads \X (1 .. MaxLanes))
  <2>1. IsFiniteSet(Threads) /\ 1 \in Int /\ MaxLanes \in Int
    BY CacheAssumption
  <2>2. IsFiniteSet(1 .. MaxLanes)
    BY <2>1, FS_Interval
  <2>3. QED
    BY <2>1, <2>2, FS_Product
<1>2. Tokens(p) \in SUBSET (Threads \X (1 .. MaxLanes))
  BY DEF Tokens
<1>3. QED
  BY <1>1, <1>2, FS_Subset, FS_CardinalityType

\* A group of n lanes is n tokens.
LEMMA GroupSize ==
  ASSUME NEW t, NEW n \in Nat
  PROVE  IsFiniteSet({t} \X (1 .. n)) /\ Cardinality({t} \X (1 .. n)) = n
<1>1. IsFiniteSet({t}) /\ Cardinality({t}) = 1
  BY FS_Singleton
<1>2. IsFiniteSet(1 .. n) /\ Cardinality(1 .. n) = n
  BY FS_Interval
<1>3. /\ IsFiniteSet({t} \X (1 .. n))
      /\ Cardinality({t} \X (1 .. n)) = Cardinality({t}) * Cardinality(1 .. n)
  BY <1>1, <1>2, FS_Product, Zenon
<1>4. QED
  BY <1>1, <1>2, <1>3

\* Disjoint finite sets: the cardinalities add up.
LEMMA CardinalityAdd ==
  ASSUME NEW S, NEW T, IsFiniteSet(S), IsFiniteSet(T), S \cap T = {}
  PROVE  Cardinality(S \cup T) = Cardinality(S) + Cardinality(T)
<1>1. Cardinality(S \cup T)
        = Cardinality(S) + Cardinality(T) - Cardinality(S \cap T)
  BY FS_Union, Zenon
<1>2. Cardinality(S \cap T) = 0
  BY FS_EmptySet
<1>3. Cardinality(S) \in Nat /\ Cardinality(T) \in Nat
  BY FS_CardinalityType
<1>4. QED
  BY <1>1, <1>2, <1>3

\* Taking a subset away takes its cardinality off.
LEMMA CardinalityRemove ==
  ASSUME NEW S, NEW T, IsFiniteSet(S), T \subseteq S
  PROVE  Cardinality(S \ T) = Cardinality(S) - Cardinality(T)
<1>1. S \cap T = T
  OBVIOUS
<1>2. Cardinality(S \ T) = Cardinality(S) - Cardinality(S \cap T)
  BY FS_Difference, Zenon
<1>3. QED
  BY <1>1, <1>2

\* The tokens of a thread that is in acquire_page or holds a page.
LEMMA GroupTokens ==
  ASSUME TypeOK, LocalsOK, NEW t \in Threads, pc[t] # "idle"
  PROVE  /\ page[t] \in Pages
         /\ lanes[t] \in 1 .. MaxLanes
         /\ {t} \X (1 .. lanes[t]) \subseteq Tokens(page[t])
<1>1. page[t] \in Pages /\ lanes[t] \in 1 .. MaxLanes
  BY CacheAssumption DEF TypeOK, LocalsOK
<1>2. {t} \X (1 .. lanes[t]) \subseteq Threads \X (1 .. MaxLanes)
  BY <1>1, CacheAssumption
<1>3. QED
  BY <1>1, <1>2 DEF Tokens

\* A page that some thread has acquired has at least that thread's lanes.
LEMMA CountPositive ==
  ASSUME TypeOK, LocalsOK, CountIsHolders, NEW t \in Threads, pc[t] # "idle"
  PROVE  /\ page[t] \in Pages
         /\ lanes[t] \in 1 .. MaxLanes
         /\ cnt[page[t]] >= lanes[t]
<1>1. Cardinality({t} \X (1 .. lanes[t])) = lanes[t]
  <2>1. lanes[t] \in Nat
    BY GroupTokens, CacheAssumption
  <2>2. QED
    BY <2>1, GroupSize
<1>2. Cardinality({t} \X (1 .. lanes[t])) <= Cardinality(Tokens(page[t]))
  BY GroupTokens, TokensFinite, FS_Subset
<1>3. QED
  BY <1>1, <1>2, GroupTokens DEF CountIsHolders
------------------------------------------------------------------------------
(* The count of a page *)

\* A step that neither acquires nor releases leaves every count, and every
\* thread's group, as it is.
LEMMA QuietStep ==
  ASSUME TypeOK, NEW t \in Threads, Step(t),
         ~(\E p \in Pages, o \in Ops, n \in 1 .. MaxLanes : Acquire(t, p, o, n)),
         ~Release(t)
  PROVE  /\ UNCHANGED <<cnt, page, lanes>>
         /\ \A u \in Threads : pc'[u] = "idle" <=> pc[u] = "idle"
<1>1. CASE AcquireStep(t)
  BY <1>1 DEF AcquireStep, Reload, Hit, TakeOffset, Claim, Unclaim, ReadIn, Fill,
     Publish, Goto, Dispatch, TypeOK, wordVars, callVars
<1>2. CASE FindSlotStep(t)
  BY <1>2 DEF FindSlotStep, TakeTicket, TakeLock, Peek, Mark, Unmark, WriteBack,
     Drop, Bind, GiveUp, Goto, TypeOK, wordVars, callVars
<1>3. CASE UseStep(t)
  BY <1>3 DEF UseStep, Read, Write, AtomicAdd, Goto, TypeOK, wordVars, callVars
<1>4. QED
  BY <1>1, <1>2, <1>3 DEF Step

\* The count of every page stays the number of lanes that hold it: acquire_page
\* and release_page add and take off the size of one group, and no other step
\* touches a count (Drop keeps the bits of CNT_MASK).
LEMMA CountStep ==
  ASSUME TypeOK, LocalsOK, CountIsHolders, NEW t \in Threads, Step(t)
  PROVE  CountIsHolders'
<1>1. ASSUME NEW p \in Pages, NEW o \in Ops, NEW n \in 1 .. MaxLanes,
             Acquire(t, p, o, n)
      PROVE  CountIsHolders'
  <2>1. /\ n \in Nat
        /\ {t} \X (1 .. n) \subseteq Threads \X (1 .. MaxLanes)
    BY CacheAssumption
  <2>2. /\ pc[t] = "idle" /\ pc'[t] # "idle"
        /\ page'[t] = p /\ lanes'[t] = n
        /\ \A u \in Threads \ {t} : /\ pc'[u] = pc[u]
                                     /\ page'[u] = page[u]
                                     /\ lanes'[u] = lanes[u]
    BY <1>1 DEF Acquire, Goto, Dispatch, TypeOK
  <2>3. ASSUME NEW q \in Pages, q # p
        PROVE  Tokens(q)' = Tokens(q)
    BY <2>2, <2>3 DEF Tokens
  <2>4. Tokens(p)' = Tokens(p) \cup ({t} \X (1 .. n))
    BY <2>1, <2>2 DEF Tokens
  <2>5. Tokens(p) \cap ({t} \X (1 .. n)) = {}
    BY <2>2 DEF Tokens
  <2>6. Cardinality(Tokens(p)') = Cardinality(Tokens(p)) + n
    <3>1. Cardinality(Tokens(p) \cup ({t} \X (1 .. n)))
            = Cardinality(Tokens(p)) + Cardinality({t} \X (1 .. n))
      BY <2>1, <2>5, TokensFinite, GroupSize, CardinalityAdd
    <3>2. QED
      BY <2>1, <2>4, <3>1, GroupSize
  <2>7. cnt' = [cnt EXCEPT ![p] = @ + n]
    BY <1>1 DEF Acquire
  <2>8. QED
    BY <2>3, <2>6, <2>7 DEF CountIsHolders, TypeOK
<1>2. CASE Release(t)
  <2>1. PICK p \in Pages, n \in Nat :
          /\ p = page[t] /\ n = lanes[t]
          /\ {t} \X (1 .. n) \subseteq Tokens(p)
    BY <1>2, GroupTokens, CacheAssumption DEF Release
  <2>2. /\ pc[t] # "idle" /\ pc'[t] = "idle"
        /\ \A u \in Threads \ {t} : /\ pc'[u] = pc[u]
                                     /\ page'[u] = page[u]
                                     /\ lanes'[u] = lanes[u]
    BY <1>2 DEF Release, Goto, TypeOK
  <2>3. ASSUME NEW q \in Pages, q # p
        PROVE  Tokens(q)' = Tokens(q)
    BY <2>1, <2>2, <2>3 DEF Tokens
  <2>4. Tokens(p)' = Tokens(p) \ ({t} \X (1 .. n))
    BY <2>1, <2>2 DEF Tokens
  <2>5. Cardinality(Tokens(p)') = Cardinality(Tokens(p)) - n
    <3>1. Cardinality(Tokens(p) \ ({t} \X (1 .. n)))
            = Cardinality(Tokens(p)) - Cardinality({t} \X (1 .. n))
      BY <2>1, TokensFinite, CardinalityRemove
    <3>2. QED
      BY <2>1, <2>4, <3>1, GroupSize
  <2>6. cnt' = [cnt EXCEPT ![p] = @ - n]
    BY <1>2, <2>1 DEF Release
  <2>7. QED
    BY <2>3, <2>5, <2>6 DEF CountIsHolders, TypeOK
<1>3. CASE /\ ~(\E p \in Pages, o \in Ops, n \in 1 .. MaxLanes : Acquire(t, p, o, n))
           /\ ~Release(t)
  <2>1. /\ UNCHANGED <<cnt, page, lanes>>
        /\ \A u \in Threads : pc'[u] = "idle" <=> pc[u] = "idle"
    BY <1>3, QuietStep
  <2>2. ASSUME NEW p \in Pages
        PROVE  Tokens(p)' = Tokens(p)
    BY <2>1 DEF Tokens
  <2>3. QED
    BY <2>1, <2>2 DEF CountIsHolders
<1>4. QED
  BY <1>1, <1>2, <1>3
------------------------------------------------------------------------------
(* Types, and what each stage knows of its locals *)

\* Every stage knows its locals: a thread in find_slot has a slot and, from the
\* check of page_translation on, a victim that is a page.
LEMMA LocalsStep ==
    ASSUME TypeOK, LocalsOK, SlotLocked, SlotOwned, ValidHasSlot, HoldOK, NEW
         t \in Threads, Step(t)
  PROVE  LocalsOK'
<1> USE DEF LocalsOK, Loading, Finding, Filling, Using, Locking, Goto,
    wordVars, slotVars, dataVars, callVars, findVars
<1>1. /\ CacheAssumption
      /\ pc \in [Threads -> Labels]
      /\ slot \in [Threads -> Slots \cup {NoSlot}]
      /\ page \in [Threads -> Pages \cup {NoPage}]
      /\ victim \in [Threads -> Pages \cup {NoPage}]
      /\ lanes \in [Threads -> 0 .. MaxLanes]
      /\ page_ticket \in Slots
  BY CacheAssumption DEF TypeOK
<1>2. ASSUME NEW p \in Pages, NEW o \in Ops, NEW n \in 1 .. MaxLanes,
             Acquire(t, p, o, n)
      PROVE  LocalsOK'
  BY <1>1, <1>2 DEF Acquire, Dispatch
<1>3. CASE Reload(t)
  BY <1>1, <1>3 DEF Reload, Dispatch
<1>4. CASE Hit(t)
  BY <1>1, <1>4 DEF Hit
<1>5. CASE TakeOffset(t)
  BY <1>1, <1>5 DEF TakeOffset, ValidHasSlot, HoldOK, Holding
<1>6. CASE Claim(t)
  BY <1>1, <1>6 DEF Claim
<1>7. CASE Unclaim(t)
  BY <1>1, <1>7 DEF Unclaim
<1>8. CASE Fill(t)
  BY <1>1, <1>8 DEF Fill
<1>9. CASE Publish(t)
  BY <1>1, <1>9 DEF Publish
<1>10. CASE TakeTicket(t)
  BY <1>1, <1>10 DEF TakeTicket
<1>11. CASE TakeLock(t)
  BY <1>1, <1>11 DEF TakeLock
<1>12. CASE Peek(t)
  BY <1>1, <1>12 DEF Peek, SlotLocked, SlotOwned
<1>13. CASE Mark(t)
  BY <1>1, <1>13 DEF Mark
<1>14. CASE Unmark(t)
  BY <1>1, <1>14 DEF Unmark
<1>15. CASE Drop(t)
  BY <1>1, <1>15 DEF Drop
<1>16. CASE Bind(t)
  BY <1>1, <1>16 DEF Bind
<1>17. CASE GiveUp(t)
  BY <1>1, <1>17 DEF GiveUp
<1>18. CASE Read(t)
  BY <1>1, <1>18 DEF Read
<1>19. ASSUME NEW c \in Ctrls, ReadIn(t, c)
      PROVE  LocalsOK'
  BY <1>1, <1>19 DEF ReadIn
<1>20. ASSUME NEW c \in Ctrls, WriteBack(t, c)
      PROVE  LocalsOK'
  BY <1>1, <1>20 DEF WriteBack
<1>21. ASSUME NEW v \in Values, Write(t, v)
      PROVE  LocalsOK'
  BY <1>1, <1>21 DEF Write
<1>22. ASSUME NEW v \in Values, AtomicAdd(t, v)
      PROVE  LocalsOK'
  BY <1>1, <1>22 DEF AtomicAdd
<1>23. CASE Release(t)
  BY <1>1, <1>23 DEF Release
<1>24. QED
  BY <1>2, <1>3, <1>4, <1>5, <1>6, <1>7, <1>8, <1>9, <1>10, <1>11, <1>12,
     <1>13, <1>14, <1>15, <1>16, <1>17, <1>18, <1>19, <1>20, <1>21, <1>22,
     <1>23 DEF Step, AcquireStep, FindSlotStep, UseStep

\* Every step keeps the types; a count never goes below zero, for a thread that
\* releases is counted.
LEMMA TypeStep ==
  ASSUME TypeOK, LocalsOK, CountIsHolders, NEW t \in Threads, Step(t)
  PROVE  TypeOK'
<1> USE CacheAssumption DEF TypeOK, Goto, Labels, Active, Holding, Loading, Finding,
    Filling, Ops, wordVars, callVars, findVars, slotVars, dataVars
<1>1. ASSUME NEW p \in Pages, NEW o \in Ops, NEW n \in 1 .. MaxLanes,
             Acquire(t, p, o, n)
      PROVE  TypeOK'
  BY <1>1, SMTT(60) DEF Acquire, Dispatch
<1>2. CASE Reload(t)
  BY <1>2 DEF Reload, Dispatch, LocalsOK
<1>3. CASE Hit(t)
  BY <1>3 DEF Hit
<1>4. CASE TakeOffset(t)
  BY <1>4 DEF TakeOffset, LocalsOK
<1>5. CASE Claim(t)
  BY <1>5 DEF Claim
<1>6. CASE Unclaim(t)
  BY <1>6 DEF Unclaim
<1>7. CASE Fill(t)
  BY <1>7 DEF Fill, LocalsOK, Marks
<1>8. CASE Publish(t)
  BY <1>8 DEF Publish, LocalsOK
<1>9. CASE TakeTicket(t)
  BY <1>9 DEF TakeTicket, Slots
<1>10. CASE TakeLock(t)
  BY <1>10 DEF TakeLock
<1>11. CASE Peek(t)
  BY <1>11 DEF Peek, LocalsOK
<1>12. CASE Mark(t)
  BY <1>12 DEF Mark
<1>13. CASE Unmark(t)
  BY <1>13 DEF Unmark
<1>14. CASE Drop(t)
  BY <1>14 DEF Drop
<1>15. CASE Bind(t)
  BY <1>15 DEF Bind, LocalsOK
<1>16. CASE GiveUp(t)
  BY <1>16 DEF GiveUp
<1>17. CASE Read(t)
  BY <1>17 DEF Read, LocalsOK, Using
<1>18. ASSUME NEW c \in Ctrls, ReadIn(t, c)
      PROVE  TypeOK'
  BY <1>18, SMTT(60) DEF ReadIn, LocalsOK
<1>19. ASSUME NEW c \in Ctrls, WriteBack(t, c)
      PROVE  TypeOK'
  <2>1. victim[t] \in Pages /\ data[slot[t]] \in Values
    BY <1>19 DEF WriteBack, LocalsOK, Locking
  <2>2. media' \in [Pages -> [Ctrls -> Values]]
    BY <1>19, <2>1 DEF WriteBack
  <2>3. wrote' \in [Threads -> SUBSET Ctrls]
    BY <1>19 DEF WriteBack
  <2>4. pc' \in [Threads -> Labels]
    BY <1>19 DEF WriteBack
  <2>5. QED
    BY <1>19, <2>2, <2>3, <2>4 DEF WriteBack
<1>20. ASSUME NEW v \in Values, Write(t, v)
      PROVE  TypeOK'
  BY <1>20 DEF Write, LocalsOK, Using
<1>21. ASSUME NEW v \in Values, AtomicAdd(t, v)
      PROVE  TypeOK'
  BY <1>21 DEF AtomicAdd, LocalsOK, Using
<1>22. CASE Release(t)
  <2>1. cnt' \in [Pages -> Nat]
    <3>1. lanes[t] \in Nat /\ page[t] \in Pages /\ cnt[page[t]] - lanes[t] \in Nat
      BY <1>22, CountPositive DEF Release
    <3>2. QED
      BY <1>22, <3>1 DEF Release
  <2>2. QED
    BY <1>22, <2>1 DEF Release
<1>23. QED
  BY <1>1, <1>2, <1>3, <1>4, <1>5, <1>6, <1>7, <1>8, <1>9, <1>10, <1>11,
     <1>12, <1>13, <1>14, <1>15, <1>16, <1>17, <1>18, <1>19, <1>20, <1>21,
     <1>22 DEF Step, AcquireStep, FindSlotStep, UseStep

\* page_take_lock excludes: only the thread that swapped LOCKED in stores
\* UNLOCKED.
LEMMA SlotLockedStep ==
  ASSUME TypeOK, LocalsOK, SlotLocked, NEW t \in Threads, Step(t)
  PROVE  SlotLocked'
<1> USE DEF LocalsOK, Loading, Finding, Filling, Using, Locking, SlotLocked,
    Goto, wordVars, slotVars, dataVars, callVars, findVars
<1>1. /\ page_take_lock \in [Slots -> {"FREE", "LOCKED", "UNLOCKED"}]
      /\ pc \in [Threads -> Labels]
      /\ slot \in [Threads -> Slots \cup {NoSlot}]
  BY DEF TypeOK
<1>2. ASSUME NEW p \in Pages, NEW o \in Ops, NEW n \in 1 .. MaxLanes,
             Acquire(t, p, o, n)
      PROVE  SlotLocked'
  BY <1>1, <1>2 DEF Acquire, Dispatch
<1>3. CASE Reload(t)
  BY <1>1, <1>3 DEF Reload, Dispatch
<1>4. CASE Hit(t)
  BY <1>1, <1>4 DEF Hit
<1>5. CASE TakeOffset(t)
  BY <1>1, <1>5 DEF TakeOffset
<1>6. CASE Claim(t)
  BY <1>1, <1>6 DEF Claim
<1>7. CASE Unclaim(t)
  BY <1>1, <1>7 DEF Unclaim
<1>8. CASE Fill(t)
  BY <1>1, <1>8 DEF Fill
<1>9. CASE Publish(t)
  BY <1>1, <1>9 DEF Publish
<1>10. CASE TakeTicket(t)
  BY <1>1, <1>10 DEF TakeTicket
<1>11. CASE TakeLock(t)
  BY <1>1, <1>11 DEF TakeLock
<1>12. CASE Peek(t)
  BY <1>1, <1>12 DEF Peek
<1>13. CASE Mark(t)
  BY <1>1, <1>13 DEF Mark
<1>14. CASE Unmark(t)
  BY <1>1, <1>14 DEF Unmark
<1>15. CASE Drop(t)
  BY <1>1, <1>15 DEF Drop
<1>16. CASE Bind(t)
  BY <1>1, <1>16 DEF Bind
<1>17. CASE GiveUp(t)
  BY <1>1, <1>17 DEF GiveUp
<1>18. CASE Read(t)
  BY <1>1, <1>18 DEF Read
<1>19. ASSUME NEW c \in Ctrls, ReadIn(t, c)
      PROVE  SlotLocked'
  BY <1>1, <1>19 DEF ReadIn
<1>20. ASSUME NEW c \in Ctrls, WriteBack(t, c)
      PROVE  SlotLocked'
  BY <1>1, <1>20 DEF WriteBack
<1>21. ASSUME NEW v \in Values, Write(t, v)
      PROVE  SlotLocked'
  BY <1>1, <1>21 DEF Write
<1>22. ASSUME NEW v \in Values, AtomicAdd(t, v)
      PROVE  SlotLocked'
  BY <1>1, <1>22 DEF AtomicAdd
<1>23. CASE Release(t)
  BY <1>1, <1>23 DEF Release
<1>24. QED
  BY <1>2, <1>3, <1>4, <1>5, <1>6, <1>7, <1>8, <1>9, <1>10, <1>11, <1>12,
     <1>13, <1>14, <1>15, <1>16, <1>17, <1>18, <1>19, <1>20, <1>21, <1>22,
     <1>23 DEF Step, AcquireStep, FindSlotStep, UseStep

\* The BUSY bit excludes: a fetch_or that returns it clear makes its thread the
\* owner, and only the owner clears it.
LEMMA BusyOwnedStep ==
  ASSUME TypeOK, LocalsOK, BusyOwned, NEW t \in Threads, Step(t)
  PROVE  BusyOwned'
<1> USE DEF LocalsOK, Loading, Finding, Filling, Using, Locking, BusyOwned,
    OwnsOwn, OwnsVictim, Evicting, Goto, wordVars, slotVars, dataVars,
    callVars, findVars
<1>1. /\ busy \in [Pages -> BOOLEAN]
      /\ pc \in [Threads -> Labels]
      /\ page \in [Threads -> Pages \cup {NoPage}]
      /\ victim \in [Threads -> Pages \cup {NoPage}]
  BY DEF TypeOK
<1>2. ASSUME NEW p \in Pages, NEW o \in Ops, NEW n \in 1 .. MaxLanes,
             Acquire(t, p, o, n)
      PROVE  BusyOwned'
  BY <1>1, <1>2 DEF Acquire, Dispatch
<1>3. CASE Reload(t)
  BY <1>1, <1>3 DEF Reload, Dispatch
<1>4. CASE Hit(t)
  BY <1>1, <1>4 DEF Hit
<1>5. CASE TakeOffset(t)
  BY <1>1, <1>5 DEF TakeOffset
<1>6. CASE Claim(t)
  BY <1>1, <1>6 DEF Claim
<1>7. CASE Unclaim(t)
  BY <1>1, <1>7 DEF Unclaim
<1>8. CASE Fill(t)
  BY <1>1, <1>8 DEF Fill
<1>9. CASE Publish(t)
  BY <1>1, <1>9 DEF Publish
<1>10. CASE TakeTicket(t)
  BY <1>1, <1>10 DEF TakeTicket
<1>11. CASE TakeLock(t)
  BY <1>1, <1>11 DEF TakeLock
<1>12. CASE Peek(t)
  BY <1>1, <1>12 DEF Peek
<1>13. CASE Mark(t)
  BY <1>1, <1>13 DEF Mark
<1>14. CASE Unmark(t)
  BY <1>1, <1>14 DEF Unmark
<1>15. CASE Drop(t)
  BY <1>1, <1>15 DEF Drop
<1>16. CASE Bind(t)
  BY <1>1, <1>16 DEF Bind
<1>17. CASE GiveUp(t)
  BY <1>1, <1>17 DEF GiveUp
<1>18. CASE Read(t)
  BY <1>1, <1>18 DEF Read
<1>19. ASSUME NEW c \in Ctrls, ReadIn(t, c)
      PROVE  BusyOwned'
  BY <1>1, <1>19 DEF ReadIn
<1>20. ASSUME NEW c \in Ctrls, WriteBack(t, c)
      PROVE  BusyOwned'
  BY <1>1, <1>20 DEF WriteBack
<1>21. ASSUME NEW v \in Values, Write(t, v)
      PROVE  BusyOwned'
  BY <1>1, <1>21 DEF Write
<1>22. ASSUME NEW v \in Values, AtomicAdd(t, v)
      PROVE  BusyOwned'
  BY <1>1, <1>22 DEF AtomicAdd
<1>23. CASE Release(t)
  BY <1>1, <1>23 DEF Release
<1>24. QED
  BY <1>2, <1>3, <1>4, <1>5, <1>6, <1>7, <1>8, <1>9, <1>10, <1>11, <1>12,
     <1>13, <1>14, <1>15, <1>16, <1>17, <1>18, <1>19, <1>20, <1>21, <1>22,
     <1>23 DEF Step, AcquireStep, FindSlotStep, UseStep

\* No step leaves a BUSY bit set that no thread will clear.
LEMMA BusyIsOwnedStep ==
  ASSUME TypeOK, LocalsOK, BusyOwned, BusyIsOwned, NEW t \in Threads, Step(t)
  PROVE  BusyIsOwned'
<1> USE DEF LocalsOK, Loading, Finding, Filling, Using, Locking,
    BusyOwned, BusyIsOwned, OwnsOwn, OwnsVictim, Evicting, Goto, wordVars,
    slotVars, dataVars, callVars, findVars
<1>1. /\ busy \in [Pages -> BOOLEAN]
      /\ pc \in [Threads -> Labels]
      /\ page \in [Threads -> Pages \cup {NoPage}]
      /\ victim \in [Threads -> Pages \cup {NoPage}]
  BY DEF TypeOK
<1>2. ASSUME NEW p \in Pages, NEW o \in Ops, NEW n \in 1 .. MaxLanes,
             Acquire(t, p, o, n)
      PROVE  BusyIsOwned'
  BY <1>1, <1>2 DEF Acquire, Dispatch
<1>3. CASE Reload(t)
  BY <1>1, <1>3 DEF Reload, Dispatch
<1>4. CASE Hit(t)
  BY <1>1, <1>4 DEF Hit
<1>5. CASE TakeOffset(t)
  BY <1>1, <1>5 DEF TakeOffset
<1>6. CASE Claim(t)
  BY <1>1, <1>6 DEF Claim
<1>7. CASE Unclaim(t)
  BY <1>1, <1>7 DEF Unclaim
<1>8. CASE Fill(t)
  BY <1>1, <1>8 DEF Fill
<1>9. CASE Publish(t)
  BY <1>1, <1>9 DEF Publish
<1>10. CASE TakeTicket(t)
  BY <1>1, <1>10 DEF TakeTicket
<1>11. CASE TakeLock(t)
  BY <1>1, <1>11 DEF TakeLock
<1>12. CASE Peek(t)
  BY <1>1, <1>12 DEF Peek
<1>13. CASE Mark(t)
  BY <1>1, <1>13 DEF Mark
<1>14. CASE Unmark(t)
  BY <1>1, <1>14 DEF Unmark
<1>15. CASE Drop(t)
  BY <1>1, <1>15 DEF Drop
<1>16. CASE Bind(t)
  BY <1>1, <1>16 DEF Bind
<1>17. CASE GiveUp(t)
  BY <1>1, <1>17 DEF GiveUp
<1>18. CASE Read(t)
  BY <1>1, <1>18 DEF Read
<1>19. ASSUME NEW c \in Ctrls, ReadIn(t, c)
      PROVE  BusyIsOwned'
  BY <1>1, <1>19 DEF ReadIn
<1>20. ASSUME NEW c \in Ctrls, WriteBack(t, c)
      PROVE  BusyIsOwned'
  BY <1>1, <1>20 DEF WriteBack
<1>21. ASSUME NEW v \in Values, Write(t, v)
      PROVE  BusyIsOwned'
  BY <1>1, <1>21 DEF Write
<1>22. ASSUME NEW v \in Values, AtomicAdd(t, v)
      PROVE  BusyIsOwned'
  BY <1>1, <1>22 DEF AtomicAdd
<1>23. CASE Release(t)
  BY <1>1, <1>23 DEF Release
<1>24. QED
  BY <1>2, <1>3, <1>4, <1>5, <1>6, <1>7, <1>8, <1>9, <1>10, <1>11, <1>12,
     <1>13, <1>14, <1>15, <1>16, <1>17, <1>18, <1>19, <1>20, <1>21, <1>22,
     <1>23 DEF Step, AcquireStep, FindSlotStep, UseStep

\* A slot that was given away keeps naming the page that is in it, or is being
\* filled or evicted by one thread.
LEMMA SlotOwnedStep ==
    ASSUME TypeOK, LocalsOK, SlotLocked, SlotOwned, BusyOwned, LoadOK,
         EvictOK, NEW t \in Threads, Step(t)
  PROVE  SlotOwned'
<1> USE DEF LocalsOK, Loading, Finding, Filling, Using, Locking, SlotOwned,
    Goto, wordVars, slotVars, dataVars, callVars, findVars
<1>1. /\ valid \in [Pages -> BOOLEAN]
      /\ offset \in [Pages -> Slots \cup {NoSlot}]
      /\ page_take_lock \in [Slots -> {"FREE", "LOCKED", "UNLOCKED"}]
      /\ page_translation \in [Slots -> Pages \cup {NoPage}]
      /\ pc \in [Threads -> Labels]
      /\ slot \in [Threads -> Slots \cup {NoSlot}]
      /\ page \in [Threads -> Pages \cup {NoPage}]
      /\ victim \in [Threads -> Pages \cup {NoPage}]
  BY DEF TypeOK
<1>2. ASSUME NEW p \in Pages, NEW o \in Ops, NEW n \in 1 .. MaxLanes,
             Acquire(t, p, o, n)
      PROVE  SlotOwned'
  BY <1>1, <1>2 DEF Acquire, Dispatch
<1>3. CASE Reload(t)
  BY <1>1, <1>3 DEF Reload, Dispatch
<1>4. CASE Hit(t)
  BY <1>1, <1>4 DEF Hit
<1>5. CASE TakeOffset(t)
  BY <1>1, <1>5 DEF TakeOffset
<1>6. CASE Claim(t)
  BY <1>1, <1>6 DEF Claim
<1>7. CASE Unclaim(t)
  BY <1>1, <1>7 DEF Unclaim
<1>8. CASE Fill(t)
  BY <1>1, <1>8 DEF Fill, LoadOK
<1>9. CASE Publish(t)
  <2>1. /\ pc[t] = "publish" /\ pc' = [pc EXCEPT ![t] = "use"]
        /\ page[t] \in Pages /\ slot[t] \in Slots
        /\ ~valid[page[t]] /\ offset[page[t]] = slot[t]
        /\ page_translation[slot[t]] = page[t]
    BY <1>1, <1>9 DEF Publish, LoadOK
  <2>2. /\ valid' = [valid EXCEPT ![page[t]] = TRUE]
        /\ UNCHANGED <<offset, page_take_lock, page_translation, slot, page>>
    BY <1>1, <1>9, <2>1 DEF Publish
  <2>3. ASSUME NEW s \in Slots, s # slot[t]
        PROVE  \/ page_take_lock[s] = "FREE"
               \/ \E u \in Threads : pc'[u] = "bind" /\ slot[u] = s
               \/ /\ page_translation[s] \in Pages
                  /\ \/ valid'[page_translation[s]] /\ offset[page_translation[s]] = s
                     \/ \E u \in Threads : /\ pc'[u] \in Filling
                                           /\ slot[u] = s
                                           /\ page[u] = page_translation[s]
    BY <1>1, <2>1, <2>2, <2>3
  <2>4. valid'[page_translation[slot[t]]] /\ offset[page_translation[slot[t]]] = slot[t]
    BY <1>1, <2>1, <2>2
  <2>5. QED
    BY <1>1, <2>1, <2>2, <2>3, <2>4
<1>10. CASE TakeTicket(t)
  BY <1>1, <1>10 DEF TakeTicket
<1>11. CASE TakeLock(t)
  BY <1>1, <1>11 DEF TakeLock
<1>12. CASE Peek(t)
  BY <1>1, <1>12 DEF Peek
<1>13. CASE Mark(t)
  BY <1>1, <1>13 DEF Mark
<1>14. CASE Unmark(t)
  BY <1>1, <1>14 DEF Unmark
<1>15. CASE Drop(t)
  BY <1>1, <1>15 DEF Drop, EvictOK, Evicting
<1>16. CASE Bind(t)
  BY <1>1, <1>16 DEF Bind, SlotLocked
<1>17. CASE GiveUp(t)
  BY <1>1, <1>17 DEF GiveUp, SlotLocked
<1>18. CASE Read(t)
  BY <1>1, <1>18 DEF Read
<1>19. ASSUME NEW c \in Ctrls, ReadIn(t, c)
      PROVE  SlotOwned'
  BY <1>1, <1>19 DEF ReadIn
<1>20. ASSUME NEW c \in Ctrls, WriteBack(t, c)
      PROVE  SlotOwned'
  BY <1>1, <1>20 DEF WriteBack
<1>21. ASSUME NEW v \in Values, Write(t, v)
      PROVE  SlotOwned'
  BY <1>1, <1>21 DEF Write
<1>22. ASSUME NEW v \in Values, AtomicAdd(t, v)
      PROVE  SlotOwned'
  BY <1>1, <1>22 DEF AtomicAdd
<1>23. CASE Release(t)
  BY <1>1, <1>23 DEF Release
<1>24. QED
  BY <1>2, <1>3, <1>4, <1>5, <1>6, <1>7, <1>8, <1>9, <1>10, <1>11, <1>12,
     <1>13, <1>14, <1>15, <1>16, <1>17, <1>18, <1>19, <1>20, <1>21, <1>22,
     <1>23 DEF Step, AcquireStep, FindSlotStep, UseStep

\* A valid page keeps the slot its offset names.
LEMMA ValidHasSlotStep ==
    ASSUME TypeOK, LocalsOK, SlotLocked, ValidHasSlot, BusyOwned, LoadOK,
         EvictOK, NEW t \in Threads, Step(t)
  PROVE  ValidHasSlot'
<1> USE DEF LocalsOK, Loading, Finding, Filling, Using, Locking,
    ValidHasSlot, Goto, wordVars, slotVars, dataVars, callVars, findVars
<1>1. /\ valid \in [Pages -> BOOLEAN]
      /\ offset \in [Pages -> Slots \cup {NoSlot}]
      /\ page_take_lock \in [Slots -> {"FREE", "LOCKED", "UNLOCKED"}]
      /\ page_translation \in [Slots -> Pages \cup {NoPage}]
      /\ pc \in [Threads -> Labels]
      /\ slot \in [Threads -> Slots \cup {NoSlot}]
      /\ page \in [Threads -> Pages \cup {NoPage}]
      /\ victim \in [Threads -> Pages \cup {NoPage}]
  BY DEF TypeOK
<1>2. ASSUME NEW p \in Pages, NEW o \in Ops, NEW n \in 1 .. MaxLanes,
             Acquire(t, p, o, n)
      PROVE  ValidHasSlot'
  BY <1>1, <1>2 DEF Acquire, Dispatch
<1>3. CASE Reload(t)
  BY <1>1, <1>3 DEF Reload, Dispatch
<1>4. CASE Hit(t)
  BY <1>1, <1>4 DEF Hit
<1>5. CASE TakeOffset(t)
  BY <1>1, <1>5 DEF TakeOffset
<1>6. CASE Claim(t)
  BY <1>1, <1>6 DEF Claim
<1>7. CASE Unclaim(t)
  BY <1>1, <1>7 DEF Unclaim
<1>8. CASE Fill(t)
  BY <1>1, <1>8 DEF Fill, LoadOK
<1>9. CASE Publish(t)
  BY <1>1, <1>9 DEF Publish, LoadOK
<1>10. CASE TakeTicket(t)
  BY <1>1, <1>10 DEF TakeTicket
<1>11. CASE TakeLock(t)
  BY <1>1, <1>11 DEF TakeLock
<1>12. CASE Peek(t)
  BY <1>1, <1>12 DEF Peek
<1>13. CASE Mark(t)
  BY <1>1, <1>13 DEF Mark
<1>14. CASE Unmark(t)
  BY <1>1, <1>14 DEF Unmark
<1>15. CASE Drop(t)
  BY <1>1, <1>15 DEF Drop, EvictOK, Evicting
<1>16. CASE Bind(t)
  BY <1>1, <1>16 DEF Bind, SlotLocked
<1>17. CASE GiveUp(t)
  BY <1>1, <1>17 DEF GiveUp
<1>18. CASE Read(t)
  BY <1>1, <1>18 DEF Read
<1>19. ASSUME NEW c \in Ctrls, ReadIn(t, c)
      PROVE  ValidHasSlot'
  BY <1>1, <1>19 DEF ReadIn
<1>20. ASSUME NEW c \in Ctrls, WriteBack(t, c)
      PROVE  ValidHasSlot'
  BY <1>1, <1>20 DEF WriteBack
<1>21. ASSUME NEW v \in Values, Write(t, v)
      PROVE  ValidHasSlot'
  BY <1>1, <1>21 DEF Write
<1>22. ASSUME NEW v \in Values, AtomicAdd(t, v)
      PROVE  ValidHasSlot'
  BY <1>1, <1>22 DEF AtomicAdd
<1>23. CASE Release(t)
  BY <1>1, <1>23 DEF Release
<1>24. QED
  BY <1>2, <1>3, <1>4, <1>5, <1>6, <1>7, <1>8, <1>9, <1>10, <1>11, <1>12,
     <1>13, <1>14, <1>15, <1>16, <1>17, <1>18, <1>19, <1>20, <1>21, <1>22,
     <1>23 DEF Step, AcquireStep, FindSlotStep, UseStep

\* A page that a thread acquired stays valid, in its slot and, for a writer,
\* dirty until it is released.
LEMMA HoldStep ==
    ASSUME TypeOK, LocalsOK, BusyOwned, LoadOK, HoldOK, EvictOK, NEW t \in
         Threads, Step(t)
  PROVE  HoldOK'
<1> USE DEF LocalsOK, Loading, Finding, Filling, Using, Locking, HoldOK,
    Holding, Marks, Goto, wordVars, slotVars, dataVars, callVars, findVars
<1>1. /\ valid \in [Pages -> BOOLEAN]
      /\ dirty \in [Pages -> BOOLEAN]
      /\ offset \in [Pages -> Slots \cup {NoSlot}]
      /\ pc \in [Threads -> Labels]
      /\ op \in [Threads -> Ops]
      /\ slot \in [Threads -> Slots \cup {NoSlot}]
      /\ page \in [Threads -> Pages \cup {NoPage}]
      /\ seen \in [Threads -> BOOLEAN]
      /\ victim \in [Threads -> Pages \cup {NoPage}]
      /\ busy \in [Pages -> BOOLEAN]
  BY DEF TypeOK
<1>2. ASSUME NEW p \in Pages, NEW o \in Ops, NEW n \in 1 .. MaxLanes,
             Acquire(t, p, o, n)
      PROVE  HoldOK'
  BY <1>1, <1>2 DEF Acquire, Dispatch
<1>3. CASE Reload(t)
  BY <1>1, <1>3 DEF Reload, Dispatch
<1>4. CASE Hit(t)
  BY <1>1, <1>4 DEF Hit
<1>5. CASE TakeOffset(t)
  BY <1>1, <1>5 DEF TakeOffset
<1>6. CASE Claim(t)
  BY <1>1, <1>6 DEF Claim
<1>7. CASE Unclaim(t)
  BY <1>1, <1>7 DEF Unclaim
<1>8. CASE Fill(t)
  BY <1>1, <1>8 DEF Fill, LoadOK
<1>9. CASE Publish(t)
  <2>1. /\ pc[t] = "publish" /\ page[t] \in Pages
        /\ ~valid[page[t]] /\ offset[page[t]] = slot[t]
    BY <1>1, <1>9 DEF Publish, LoadOK
  <2>2. /\ pc' = [pc EXCEPT ![t] = "use"]
        /\ valid' = [valid EXCEPT ![page[t]] = TRUE]
        /\ UNCHANGED <<dirty, offset, op, page, seen, slot>>
    BY <1>1, <1>9, <2>1 DEF Publish
  <2>3. QED
    BY <1>1, <2>1, <2>2
<1>10. CASE TakeTicket(t)
  BY <1>1, <1>10 DEF TakeTicket
<1>11. CASE TakeLock(t)
  BY <1>1, <1>11 DEF TakeLock
<1>12. CASE Peek(t)
  BY <1>1, <1>12 DEF Peek
<1>13. CASE Mark(t)
  BY <1>1, <1>13 DEF Mark
<1>14. CASE Unmark(t)
  BY <1>1, <1>14 DEF Unmark
<1>15. CASE Drop(t)
  BY <1>1, <1>15 DEF Drop, EvictOK, Evicting
<1>16. CASE Bind(t)
  BY <1>1, <1>16 DEF Bind
<1>17. CASE GiveUp(t)
  BY <1>1, <1>17 DEF GiveUp
<1>18. CASE Read(t)
  BY <1>1, <1>18 DEF Read
<1>19. ASSUME NEW c \in Ctrls, ReadIn(t, c)
      PROVE  HoldOK'
  BY <1>1, <1>19 DEF ReadIn
<1>20. ASSUME NEW c \in Ctrls, WriteBack(t, c)
      PROVE  HoldOK'
  BY <1>1, <1>20 DEF WriteBack
<1>21. ASSUME NEW v \in Values, Write(t, v)
      PROVE  HoldOK'
  BY <1>1, <1>21 DEF Write
<1>22. ASSUME NEW v \in Values, AtomicAdd(t, v)
      PROVE  HoldOK'
  BY <1>1, <1>22 DEF AtomicAdd
<1>23. CASE Release(t)
  BY <1>1, <1>23 DEF Release
<1>24. QED
  BY <1>2, <1>3, <1>4, <1>5, <1>6, <1>7, <1>8, <1>9, <1>10, <1>11, <1>12,
     <1>13, <1>14, <1>15, <1>16, <1>17, <1>18, <1>19, <1>20, <1>21, <1>22,
     <1>23 DEF Step, AcquireStep, FindSlotStep, UseStep

\* A page being loaded stays invalid until its loader publishes it.
LEMMA LoadStep ==
    ASSUME TypeOK, LocalsOK, BusyOwned, SlotLocked, ValidHasSlot, LoadOK,
         HoldOK, EvictOK, NEW t \in Threads, Step(t)
  PROVE  LoadOK'
<1> USE DEF LocalsOK, Loading, Finding, Filling, Using, Locking, LoadOK,
    Marks, Goto, wordVars, slotVars, dataVars, callVars, findVars
<1>1. /\ valid \in [Pages -> BOOLEAN]
      /\ dirty \in [Pages -> BOOLEAN]
      /\ offset \in [Pages -> Slots \cup {NoSlot}]
      /\ page_take_lock \in [Slots -> {"FREE", "LOCKED", "UNLOCKED"}]
      /\ page_translation \in [Slots -> Pages \cup {NoPage}]
      /\ pc \in [Threads -> Labels]
      /\ op \in [Threads -> Ops]
      /\ slot \in [Threads -> Slots \cup {NoSlot}]
      /\ page \in [Threads -> Pages \cup {NoPage}]
      /\ victim \in [Threads -> Pages \cup {NoPage}]
      /\ busy \in [Pages -> BOOLEAN]
  BY DEF TypeOK
<1>2. ASSUME NEW p \in Pages, NEW o \in Ops, NEW n \in 1 .. MaxLanes,
             Acquire(t, p, o, n)
      PROVE  LoadOK'
  BY <1>1, <1>2 DEF Acquire, Dispatch
<1>3. CASE Reload(t)
  BY <1>1, <1>3 DEF Reload, Dispatch
<1>4. CASE Hit(t)
  BY <1>1, <1>4 DEF Hit, HoldOK, Holding
<1>5. CASE TakeOffset(t)
  BY <1>1, <1>5 DEF TakeOffset
<1>6. CASE Claim(t)
  BY <1>1, <1>6 DEF Claim, BusyOwned, OwnsOwn
<1>7. CASE Unclaim(t)
  BY <1>1, <1>7 DEF Unclaim
<1>8. CASE Fill(t)
  BY <1>1, <1>8 DEF Fill, BusyOwned, OwnsOwn, OwnsVictim
<1>9. CASE Publish(t)
  BY <1>1, <1>9 DEF Publish, BusyOwned, OwnsOwn, OwnsVictim
<1>10. CASE TakeTicket(t)
  BY <1>1, <1>10 DEF TakeTicket
<1>11. CASE TakeLock(t)
  BY <1>1, <1>11 DEF TakeLock
<1>12. CASE Peek(t)
  BY <1>1, <1>12 DEF Peek
<1>13. CASE Mark(t)
  BY <1>1, <1>13 DEF Mark
<1>14. CASE Unmark(t)
  BY <1>1, <1>14 DEF Unmark
<1>15. CASE Drop(t)
  BY <1>1, <1>15 DEF Drop, EvictOK, Evicting, ValidHasSlot
<1>16. CASE Bind(t)
  BY <1>1, <1>16 DEF Bind, SlotLocked
<1>17. CASE GiveUp(t)
  BY <1>1, <1>17 DEF GiveUp, SlotLocked
<1>18. CASE Read(t)
  BY <1>1, <1>18 DEF Read
<1>19. ASSUME NEW c \in Ctrls, ReadIn(t, c)
      PROVE  LoadOK'
  BY <1>1, <1>19 DEF ReadIn
<1>20. ASSUME NEW c \in Ctrls, WriteBack(t, c)
      PROVE  LoadOK'
  BY <1>1, <1>20 DEF WriteBack
<1>21. ASSUME NEW v \in Values, Write(t, v)
      PROVE  LoadOK'
  BY <1>1, <1>21 DEF Write
<1>22. ASSUME NEW v \in Values, AtomicAdd(t, v)
      PROVE  LoadOK'
  BY <1>1, <1>22 DEF AtomicAdd
<1>23. CASE Release(t)
  BY <1>1, <1>23 DEF Release
<1>24. QED
  BY <1>2, <1>3, <1>4, <1>5, <1>6, <1>7, <1>8, <1>9, <1>10, <1>11, <1>12,
     <1>13, <1>14, <1>15, <1>16, <1>17, <1>18, <1>19, <1>20, <1>21, <1>22,
     <1>23 DEF Step, AcquireStep, FindSlotStep, UseStep

\* A page is marked dirty by its writers only once it is theirs.
LEMMA DirtyStep ==
    ASSUME TypeOK, LocalsOK, BusyOwned, SlotLocked, ValidHasSlot, LoadOK,
         HoldOK, EvictOK, DirtyOK, NEW t \in Threads, Step(t)
  PROVE  DirtyOK'
<1> USE DEF LocalsOK, Loading, Finding, Filling, Using, Locking, DirtyOK,
    Marks, Goto, wordVars, slotVars, dataVars, callVars, findVars
<1>1. /\ valid \in [Pages -> BOOLEAN]
      /\ dirty \in [Pages -> BOOLEAN]
      /\ offset \in [Pages -> Slots \cup {NoSlot}]
      /\ page_take_lock \in [Slots -> {"FREE", "LOCKED", "UNLOCKED"}]
      /\ page_translation \in [Slots -> Pages \cup {NoPage}]
      /\ pc \in [Threads -> Labels]
      /\ op \in [Threads -> Ops]
      /\ slot \in [Threads -> Slots \cup {NoSlot}]
      /\ page \in [Threads -> Pages \cup {NoPage}]
      /\ victim \in [Threads -> Pages \cup {NoPage}]
      /\ seen \in [Threads -> BOOLEAN]
      /\ busy \in [Pages -> BOOLEAN]
  BY DEF TypeOK
<1>2. ASSUME NEW p \in Pages, NEW o \in Ops, NEW n \in 1 .. MaxLanes,
             Acquire(t, p, o, n)
      PROVE  DirtyOK'
  BY <1>1, <1>2 DEF Acquire, Dispatch
<1>3. CASE Reload(t)
  BY <1>1, <1>3 DEF Reload, Dispatch
<1>4. CASE Hit(t)
  BY <1>1, <1>4 DEF Hit, HoldOK, LoadOK, Holding
<1>5. CASE TakeOffset(t)
  BY <1>1, <1>5 DEF TakeOffset
<1>6. CASE Claim(t)
  BY <1>1, <1>6 DEF Claim, BusyOwned, OwnsOwn
<1>7. CASE Unclaim(t)
  BY <1>1, <1>7 DEF Unclaim
<1>8. CASE Fill(t)
  BY <1>1, <1>8 DEF Fill, LoadOK, BusyOwned, OwnsOwn, OwnsVictim
<1>9. CASE Publish(t)
  BY <1>1, <1>9 DEF Publish, LoadOK, BusyOwned, OwnsOwn, OwnsVictim
<1>10. CASE TakeTicket(t)
  BY <1>1, <1>10 DEF TakeTicket
<1>11. CASE TakeLock(t)
  BY <1>1, <1>11 DEF TakeLock
<1>12. CASE Peek(t)
  BY <1>1, <1>12 DEF Peek
<1>13. CASE Mark(t)
  BY <1>1, <1>13 DEF Mark
<1>14. CASE Unmark(t)
  BY <1>1, <1>14 DEF Unmark
<1>15. CASE Drop(t)
  BY <1>1, <1>15 DEF Drop, BusyOwned, OwnsOwn, OwnsVictim, EvictOK, Evicting, Holding, LoadOK
<1>16. CASE Bind(t)
  BY <1>1, <1>16 DEF Bind, SlotLocked
<1>17. CASE GiveUp(t)
  BY <1>1, <1>17 DEF GiveUp, SlotLocked
<1>18. CASE Read(t)
  BY <1>1, <1>18 DEF Read
<1>19. ASSUME NEW c \in Ctrls, ReadIn(t, c)
      PROVE  DirtyOK'
  BY <1>1, <1>19 DEF ReadIn
<1>20. ASSUME NEW c \in Ctrls, WriteBack(t, c)
      PROVE  DirtyOK'
  BY <1>1, <1>20 DEF WriteBack
<1>21. ASSUME NEW v \in Values, Write(t, v)
      PROVE  DirtyOK'
  BY <1>1, <1>21 DEF Write
<1>22. ASSUME NEW v \in Values, AtomicAdd(t, v)
      PROVE  DirtyOK'
  BY <1>1, <1>22 DEF AtomicAdd
<1>23. CASE Release(t)
  BY <1>1, <1>23 DEF Release
<1>24. QED
  BY <1>2, <1>3, <1>4, <1>5, <1>6, <1>7, <1>8, <1>9, <1>10, <1>11, <1>12,
     <1>13, <1>14, <1>15, <1>16, <1>17, <1>18, <1>19, <1>20, <1>21, <1>22,
     <1>23 DEF Step, AcquireStep, FindSlotStep, UseStep

\* A victim is evicted only when no lane holds it, and stays the page of the
\* locked slot: the count read by fetch_or is zero, and from then on BUSY keeps
\* acquire_page out.
LEMMA EvictStep ==
    ASSUME TypeOK, LocalsOK, CountIsHolders, BusyOwned, SlotLocked, SlotOwned,
         LoadOK, HoldOK, EvictOK, NEW t \in Threads, Step(t)
  PROVE  EvictOK'
<1> USE DEF LocalsOK, Loading, Finding, Filling, Using, Locking, EvictOK,
    Evicting, Holding, Goto, wordVars, slotVars, dataVars, callVars,
    findVars
<1>1. /\ valid \in [Pages -> BOOLEAN]
      /\ offset \in [Pages -> Slots \cup {NoSlot}]
      /\ page_take_lock \in [Slots -> {"FREE", "LOCKED", "UNLOCKED"}]
      /\ page_translation \in [Slots -> Pages \cup {NoPage}]
      /\ pc \in [Threads -> Labels]
      /\ slot \in [Threads -> Slots \cup {NoSlot}]
      /\ page \in [Threads -> Pages \cup {NoPage}]
      /\ victim \in [Threads -> Pages \cup {NoPage}]
      /\ busy \in [Pages -> BOOLEAN]
  BY DEF TypeOK
<1>2. ASSUME NEW p \in Pages, NEW o \in Ops, NEW n \in 1 .. MaxLanes,
             Acquire(t, p, o, n)
      PROVE  EvictOK'
  BY <1>1, <1>2 DEF Acquire, Dispatch, BusyOwned, OwnsOwn, OwnsVictim
<1>3. CASE Reload(t)
  BY <1>1, <1>3 DEF Reload, Dispatch, BusyOwned, OwnsOwn, OwnsVictim
<1>4. CASE Hit(t)
  BY <1>1, <1>4 DEF Hit
<1>5. CASE TakeOffset(t)
  BY <1>1, <1>5 DEF TakeOffset
<1>6. CASE Claim(t)
  BY <1>1, <1>6 DEF Claim
<1>7. CASE Unclaim(t)
  BY <1>1, <1>7 DEF Unclaim
<1>8. CASE Fill(t)
  BY <1>1, <1>8 DEF Fill, BusyOwned, OwnsOwn, OwnsVictim
<1>9. CASE Publish(t)
  BY <1>1, <1>9 DEF Publish, BusyOwned, OwnsOwn, OwnsVictim
<1>10. CASE TakeTicket(t)
  BY <1>1, <1>10 DEF TakeTicket
<1>11. CASE TakeLock(t)
  BY <1>1, <1>11 DEF TakeLock
<1>12. CASE Peek(t)
  BY <1>1, <1>12 DEF Peek
<1>13. CASE Mark(t)
  BY <1>1, <1>13, CountPositive DEF Mark, BusyOwned, OwnsOwn, OwnsVictim,
     SlotLocked, SlotOwned
<1>14. CASE Unmark(t)
  BY <1>1, <1>14 DEF Unmark
<1>15. CASE Drop(t)
  BY <1>1, <1>15 DEF Drop, BusyOwned, OwnsOwn, OwnsVictim
<1>16. CASE Bind(t)
  BY <1>1, <1>16 DEF Bind, SlotLocked
<1>17. CASE GiveUp(t)
  BY <1>1, <1>17 DEF GiveUp, SlotLocked
<1>18. CASE Read(t)
  BY <1>1, <1>18 DEF Read
<1>19. ASSUME NEW c \in Ctrls, ReadIn(t, c)
      PROVE  EvictOK'
  BY <1>1, <1>19 DEF ReadIn
<1>20. ASSUME NEW c \in Ctrls, WriteBack(t, c)
      PROVE  EvictOK'
  BY <1>1, <1>20 DEF WriteBack
<1>21. ASSUME NEW v \in Values, Write(t, v)
      PROVE  EvictOK'
  BY <1>1, <1>21 DEF Write
<1>22. ASSUME NEW v \in Values, AtomicAdd(t, v)
      PROVE  EvictOK'
  BY <1>1, <1>22 DEF AtomicAdd
<1>23. CASE Release(t)
  BY <1>1, <1>23 DEF Release
<1>24. QED
  BY <1>2, <1>3, <1>4, <1>5, <1>6, <1>7, <1>8, <1>9, <1>10, <1>11, <1>12,
     <1>13, <1>14, <1>15, <1>16, <1>17, <1>18, <1>19, <1>20, <1>21, <1>22,
     <1>23 DEF Step, AcquireStep, FindSlotStep, UseStep

\* No write to a slot or to an SSD loses the content of a page: what is clean or
\* invalid is on every controller that stores it, and a write-back finishes before
\* the drop.
LEMMA MediaStep ==
    ASSUME TypeOK, LocalsOK, BusyOwned, SlotLocked, ValidHasSlot, LoadOK,
         HoldOK, EvictOK, EvictOK', DirtyOK, MediaOK, NEW t \in Threads, Step(t)
  PROVE  MediaOK'
<1> USE DEF LocalsOK, Loading, Finding, Filling, Using, Locking, MediaOK,
    Goto, wordVars, slotVars, dataVars, callVars, findVars
<1>1. /\ valid \in [Pages -> BOOLEAN]
      /\ dirty \in [Pages -> BOOLEAN]
      /\ offset \in [Pages -> Slots \cup {NoSlot}]
      /\ data \in [Slots -> Values]
      /\ media \in [Pages -> [Ctrls -> Values]]
      /\ pc \in [Threads -> Labels]
      /\ page \in [Threads -> Pages \cup {NoPage}]
      /\ slot \in [Threads -> Slots \cup {NoSlot}]
      /\ victim \in [Threads -> Pages \cup {NoPage}]
      /\ wrote \in [Threads -> SUBSET Ctrls]
  BY DEF TypeOK
<1>2. ASSUME NEW p \in Pages, NEW o \in Ops, NEW n \in 1 .. MaxLanes,
             Acquire(t, p, o, n)
      PROVE  MediaOK'
  BY <1>1, <1>2 DEF Acquire, Dispatch
<1>3. CASE Reload(t)
  BY <1>1, <1>3 DEF Reload, Dispatch
<1>4. CASE Hit(t)
  BY <1>1, <1>4 DEF Hit, HoldOK, DirtyOK, Holding
<1>5. CASE TakeOffset(t)
  BY <1>1, <1>5 DEF TakeOffset, LoadOK, DirtyOK
<1>6. CASE Claim(t)
  <2>1. CASE busy[page[t]]
    <3>1. /\ pc[t] = "claim"
          /\ pc' = [pc EXCEPT ![t] = "spin"]
          /\ UNCHANGED <<valid, dirty, offset, data, media, page, slot, victim, wrote>>
      BY <1>1, <1>6, <2>1 DEF Claim
    <3>2. QED
      BY <1>1, <2>1, <3>1
  <2>2. CASE ~busy[page[t]] /\ ~valid[page[t]]
    <3>1. /\ pc[t] = "claim"
          /\ pc' = [pc EXCEPT ![t] = "ticket"]
          /\ UNCHANGED <<valid, dirty, offset, data, media, page, slot, victim, wrote>>
      BY <1>1, <1>6, <2>2 DEF Claim
    <3>2. QED
      BY <1>1, <2>2, <3>1
  <2>3. CASE ~busy[page[t]] /\ valid[page[t]]
    <3>1. /\ pc[t] = "claim"
          /\ pc' = [pc EXCEPT ![t] = "unclaim"]
          /\ UNCHANGED <<valid, dirty, offset, data, media, page, slot, victim, wrote>>
      BY <1>1, <1>6, <2>3 DEF Claim
    <3>2. QED
      BY <1>1, <2>3, <3>1
  <2>4. QED
    BY <2>1, <2>2, <2>3
<1>7. CASE Unclaim(t)
  BY <1>1, <1>7 DEF Unclaim
<1>8. CASE Fill(t)
  BY <1>1, <1>8 DEF Fill, LoadOK, DirtyOK, BusyOwned, OwnsOwn, OwnsVictim
<1>9. CASE Publish(t)
  BY <1>1, <1>9 DEF Publish, LoadOK, DirtyOK, BusyOwned, OwnsOwn, OwnsVictim
<1>10. CASE TakeTicket(t)
  BY <1>1, <1>10 DEF TakeTicket, LoadOK, DirtyOK
<1>11. CASE TakeLock(t)
  <2>1. CASE page_take_lock[slot[t]] = "LOCKED"
    <3>1. /\ pc[t] = "lock"
          /\ pc' = [pc EXCEPT ![t] = "ticket"]
          /\ UNCHANGED <<valid, dirty, offset, data, media, page, slot, victim, wrote>>
      BY <1>1, <1>11, <2>1 DEF TakeLock
    <3>2. QED
      BY <1>1, <2>1, <3>1
  <2>2. CASE page_take_lock[slot[t]] = "FREE"
    <3>1. /\ pc[t] = "lock"
          /\ pc' = [pc EXCEPT ![t] = "bind"]
          /\ UNCHANGED <<valid, dirty, offset, data, media, page, slot, victim, wrote>>
      BY <1>1, <1>11, <2>2 DEF TakeLock
    <3>2. QED
      BY <1>1, <2>2, <3>1
  <2>3. CASE page_take_lock[slot[t]] \notin {"LOCKED", "FREE"}
    <3>1. /\ pc[t] = "lock"
          /\ pc' = [pc EXCEPT ![t] = "peek"]
          /\ UNCHANGED <<valid, dirty, offset, data, media, page, slot, victim, wrote>>
      BY <1>1, <1>11, <2>3 DEF TakeLock
    <3>2. QED
      BY <1>1, <2>3, <3>1
  <2>4. QED
    BY <2>1, <2>2, <2>3
<1>12. CASE Peek(t)
  BY <1>1, <1>12 DEF Peek
<1>13. CASE Mark(t)
  <2>1. /\ \/ pc' = [pc EXCEPT ![t] = "giveup"]
           \/ pc' = [pc EXCEPT ![t] = "unmark"]
           \/ dirty[victim[t]] /\ pc' = [pc EXCEPT ![t] = "writeback"]
           \/ ~dirty[victim[t]] /\ pc' = [pc EXCEPT ![t] = "drop"]
        /\ pc[t] = "mark" /\ victim[t] \in Pages
        /\ wrote' = [wrote EXCEPT ![t] = {}]
        /\ UNCHANGED <<valid, dirty, offset, data, media, page, slot, victim>>
    BY <1>1, <1>13 DEF Mark
  <2>2. pc'[t] = "drop" => valid[victim[t]] /\ offset[victim[t]] = slot[t]
    BY <1>1, <2>1 DEF EvictOK, Evicting
  <2>3. CASE pc' = [pc EXCEPT ![t] = "giveup"]
    BY <1>1, <2>1, <2>3
  <2>4. CASE pc' = [pc EXCEPT ![t] = "unmark"]
    BY <1>1, <2>1, <2>4
  <2>5. CASE pc' = [pc EXCEPT ![t] = "writeback"]
    BY <1>1, <2>1, <2>5
  <2>6. CASE pc' = [pc EXCEPT ![t] = "drop"] /\ ~dirty[victim[t]]
    BY <1>1, <2>1, <2>2, <2>6
  <2>7. QED
    BY <1>1, <2>1, <2>3, <2>4, <2>5, <2>6
<1>14. CASE Unmark(t)
  BY <1>1, <1>14 DEF Unmark
<1>15. CASE Drop(t)
  BY <1>1, <1>15 DEF Drop, BusyOwned, OwnsOwn, OwnsVictim, EvictOK, Evicting
<1>16. CASE Bind(t)
  BY <1>1, <1>16 DEF Bind, SlotLocked
<1>17. CASE GiveUp(t)
  BY <1>1, <1>17 DEF GiveUp
<1>18. CASE Read(t)
  BY <1>1, <1>18 DEF Read
<1>19. ASSUME NEW c \in Ctrls, ReadIn(t, c)
      PROVE  MediaOK'
  BY <1>1, <1>19 DEF ReadIn, BusyOwned, OwnsOwn, OwnsVictim, LoadOK, DirtyOK,
     EvictOK, Evicting, ValidHasSlot
<1>20. ASSUME NEW c \in Ctrls, WriteBack(t, c)
      PROVE  MediaOK'
  BY <1>1, <1>20 DEF WriteBack, BusyOwned, OwnsOwn, OwnsVictim, EvictOK,
     Evicting, SlotLocked, LoadOK, DirtyOK, ValidHasSlot
<1>21. ASSUME NEW v \in Values, Write(t, v)
      PROVE  MediaOK'
  <2>1. /\ pc[t] = "use" /\ page[t] \in Pages /\ slot[t] \in Slots
        /\ valid[page[t]] /\ dirty[page[t]] /\ slot[t] = offset[page[t]]
        /\ page_translation[slot[t]] = page[t]
    BY <1>1, <1>21 DEF Write, HoldOK, DirtyOK, Holding, Marks, ValidHasSlot
  <2>2. /\ pc' = [pc EXCEPT ![t] = "release"]
        /\ data' = [data EXCEPT ![slot[t]] = v]
        /\ UNCHANGED <<valid, dirty, offset, media, page, slot, victim, wrote>>
    BY <1>21 DEF Write
  <2>3. ASSUME NEW p \in Pages, valid[p], ~dirty[p]
        PROVE  offset[p] # slot[t]
    BY <2>1, <2>3 DEF ValidHasSlot
  <2>4. ASSUME NEW u \in Threads, pc[u] \in {"fill", "publish"} \cup Evicting
        PROVE  slot[u] # slot[t] /\ u # t
    <3>1. CASE pc[u] \in Evicting
      BY <1>1, <2>1, <3>1 DEF EvictOK, Evicting, Holding
    <3>2. CASE pc[u] \in {"fill", "publish"}
      BY <1>1, <2>1, <3>2 DEF LoadOK, DirtyOK
    <3>3. QED
      BY <2>4, <3>1, <3>2
  <2>5. QED
    BY <1>1, <2>1, <2>2, <2>3, <2>4 DEF Evicting, ValidHasSlot
<1>22. ASSUME NEW v \in Values, AtomicAdd(t, v)
      PROVE  MediaOK'
  <2>1. /\ pc[t] = "use" /\ page[t] \in Pages /\ slot[t] \in Slots
        /\ valid[page[t]] /\ dirty[page[t]] /\ slot[t] = offset[page[t]]
        /\ page_translation[slot[t]] = page[t]
    BY <1>1, <1>22 DEF AtomicAdd, HoldOK, DirtyOK, Holding, Marks, ValidHasSlot
  <2>2. /\ pc' = [pc EXCEPT ![t] = "release"]
        /\ data' = [data EXCEPT ![slot[t]] = v]
        /\ UNCHANGED <<valid, dirty, offset, media, page, slot, victim, wrote>>
    BY <1>22 DEF AtomicAdd
  <2>3. ASSUME NEW p \in Pages, valid[p], ~dirty[p]
        PROVE  offset[p] # slot[t]
    BY <2>1, <2>3 DEF ValidHasSlot
  <2>4. ASSUME NEW u \in Threads, pc[u] \in {"fill", "publish"} \cup Evicting
        PROVE  slot[u] # slot[t] /\ u # t
    <3>1. CASE pc[u] \in Evicting
      BY <1>1, <2>1, <3>1 DEF EvictOK, Evicting, Holding
    <3>2. CASE pc[u] \in {"fill", "publish"}
      BY <1>1, <2>1, <3>2 DEF LoadOK, DirtyOK
    <3>3. QED
      BY <2>4, <3>1, <3>2
  <2>5. QED
    BY <1>1, <2>1, <2>2, <2>3, <2>4 DEF Evicting, ValidHasSlot
<1>23. CASE Release(t)
  BY <1>1, <1>23 DEF Release
<1>24. QED
  BY <1>2, <1>3, <1>4, <1>5, <1>6, <1>7, <1>8, <1>9, <1>10, <1>11, <1>12,
     <1>13, <1>14, <1>15, <1>16, <1>17, <1>18, <1>19, <1>20, <1>21, <1>22,
     <1>23 DEF Step, AcquireStep, FindSlotStep, UseStep
==============================================================================
