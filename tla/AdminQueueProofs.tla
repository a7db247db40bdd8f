--------------------------- MODULE AdminQueueProofs ---------------------------
(***************************************************************************)
(* What holds of the admin queues for all sizes, callers and numbers of     *)
(* calls: the slots of the ASQ in use are counted right, and no completion  *)
(* is returned to two calls, however late the controller answers.           *)
(***************************************************************************)
EXTENDS AdminQueue, Remainders, FiniteSetTheorems

AdminNext == Fetch \/ Complete \/ \E c \in Callers : Rpc(c)

AdminSpec == AdminInit /\ [][AdminNext]_adminVars

\* Steps from a to b round a ring of n slots, and the slots passed on the way.
Steps(a, b, n) == IF a <= b THEN b - a ELSE b - a + n

Passed(a, b, n) ==
  {s \in 0 .. n - 1 : IF a <= b THEN a <= s /\ s < b ELSE a <= s \/ s < b}

\* Commands in the ASQ, not yet fetched; entries of the ACQ, not yet looked at.
Queued == Passed(ctrl.fetched, asq.tail, sq_size)
Posted == Passed(acq.head, ctrl.tail, cq_size)

Returned == {got[j] : j \in {k \in Calls : Answered(k)}}
Out      == {i \in 1 .. calls : got[i] # EAGAIN} \ Returned

Ends == [head : 0 .. sq_size - 1, tail : 0 .. sq_size - 1, last : 0 .. sq_size - 1]

AdminTypeOK ==
  /\ lock \in Callers \union {NoOne}
  /\ asq \in Ends
  /\ commands \in [0 .. sq_size - 1 -> 0 .. MaxCalls]
  /\ acq \in [head : 0 .. cq_size - 1, phase : {0, 1}, last : 0 .. cq_size - 1]
  /\ entries \in [0 .. cq_size - 1 -> [phase : {0, 1}, command : 0 .. MaxCalls]]
  /\ ctrl \in [fetched : 0 .. sq_size - 1, working : SUBSET Calls,
               tail : 0 .. cq_size - 1, phase : {0, 1}]
  /\ calls \in 0 .. MaxCalls
  /\ stage \in [Callers -> {"idle", "wait"}]
  /\ got \in [Calls -> Calls \union {0, EAGAIN, ETIME}]

\* One caller waits, the one with the lock, and the last call is its call.
LockInv ==
  /\ \A c \in Callers : stage[c] = "wait" <=> lock = c
  /\ lock # NoOne => calls > 0 /\ got[calls] = 0
  /\ \A i \in Calls : i > calls => got[i] = 0

\* The doorbells are rung with what the host has, and the phase of an entry tells
\* whether the controller wrote it in its present round of the ACQ.
PhaseInv ==
  /\ asq.last = asq.tail /\ acq.last = acq.head
  /\ \A s \in 0 .. cq_size - 1 :
       entries[s].phase = IF s < ctrl.tail THEN ctrl.phase ELSE 1 - ctrl.phase
  /\ acq.phase = IF acq.head <= ctrl.tail THEN ctrl.phase ELSE 1 - ctrl.phase

\* A command that no call has returned with is in one place: the ASQ, the
\* controller or the ACQ.
PlaceInv ==
  /\ Returned \subseteq 1 .. calls
  /\ ctrl.working \subseteq Out
  /\ \A s \in Queued : commands[s] \in Out \ ctrl.working
  /\ \A s \in Posted : entries[s].command \in Out \ ctrl.working
  /\ \A s, r \in Queued : commands[s] = commands[r] => s = r
  /\ \A s, r \in Posted : entries[s].command = entries[r].command => s = r
  /\ \A s \in Queued, r \in Posted : commands[s] # entries[r].command

\* The slots in use are those of the commands in the three places.
CountInv ==
  /\ Cardinality(Out) = Steps(asq.head, asq.tail, sq_size)
  /\ Steps(ctrl.fetched, asq.tail, sq_size) + Cardinality(ctrl.working)
       + Steps(acq.head, ctrl.tail, cq_size) = Steps(asq.head, asq.tail, sq_size)

OnceInv ==
  \A i, j \in Calls : Answered(i) /\ got[i] = got[j] => i = j

\* As long as no call has timed out, at most the call that waits is not answered.
OwnInv ==
  /\ (\A j \in 1 .. calls : got[j] # ETIME) =>
       Out = IF lock = NoOne THEN {} ELSE {calls}
  /\ OwnUnlessTimedOut

AdminInv ==
  AdminTypeOK /\ LockInv /\ PhaseInv /\ PlaceInv /\ CountInv /\ OnceInv /\ OwnInv
------------------------------------------------------------------------------
\* The place after place b of a ring of n places.
LEMMA NextPlace ==
  ASSUME NEW n \in Nat \ {0}, NEW b \in 0 .. n - 1
  PROVE  (b + 1) % n = IF b + 1 = n THEN 0 ELSE b + 1
<1>1. CASE b + 1 = n
  <2>1. (1 * n + 0) % n = 0
    BY Quotient
  <2>. QED  BY <1>1, <2>1
<1>2. CASE b + 1 # n
  <2>1. (0 * n + (b + 1)) % n = b + 1
    BY <1>2, Quotient
  <2>. QED  BY <1>2, <2>1
<1>. QED  BY <1>1, <1>2

\* The far end moves on: one more step, and the place it left is passed.
LEMMA RingGrows ==
  ASSUME NEW n \in Nat \ {0}, NEW a \in 0 .. n - 1, NEW b \in 0 .. n - 1,
         Steps(a, b, n) # n - 1
  PROVE  /\ (b + 1) % n \in 0 .. n - 1
         /\ Steps(a, (b + 1) % n, n) = Steps(a, b, n) + 1
         /\ Passed(a, (b + 1) % n, n) = Passed(a, b, n) \union {b}
         /\ b \notin Passed(a, b, n)
<1>1. (b + 1) % n = IF b + 1 = n THEN 0 ELSE b + 1
  BY NextPlace
<1>. QED  BY <1>1 DEF Steps, Passed

\* The near end moves on: one step less, and the place it left is not passed.
LEMMA RingShrinks ==
  ASSUME NEW n \in Nat \ {0}, NEW a \in 0 .. n - 1, NEW b \in 0 .. n - 1, a # b
  PROVE  /\ (a + 1) % n \in 0 .. n - 1
         /\ Steps((a + 1) % n, b, n) = Steps(a, b, n) - 1
         /\ Passed((a + 1) % n, b, n) = Passed(a, b, n) \ {a}
         /\ a \in Passed(a, b, n)
<1>1. (a + 1) % n = IF a + 1 = n THEN 0 ELSE a + 1
  BY NextPlace
<1>. QED  BY <1>1 DEF Steps, Passed

LEMMA StepsInRing ==
  ASSUME NEW n \in Nat \ {0}, NEW a \in 0 .. n - 1, NEW b \in 0 .. n - 1
  PROVE  Steps(a, b, n) \in 0 .. n - 1 /\ (Steps(a, b, n) = 0 <=> a = b)
BY DEF Steps

\* A difference in w places, taken modulo n, where n divides w.
LEMMA NarrowDifference ==
  ASSUME NEW w \in Nat \ {0}, NEW n \in Nat \ {0}, w % n = 0,
         NEW a \in 0 .. n - 1, NEW b \in 0 .. n - 1
  PROVE  ((b - a) % w) % n = Steps(a, b, n)
<1>0. PICK k \in Nat : w = k * n /\ k # 0
  <2> DEFINE q == w \div n
  <2>1. q \in Nat /\ w = q * n + (w % n)
    BY Division
  <2> HIDE DEF q
  <2>2. w = q * n /\ q # 0
    BY <2>1
  <2>. QED  BY <2>1, <2>2
<1>1. (k - 1) * n \in Nat /\ w = (k - 1) * n + n /\ w \in Nat \ {0}
  <2>1. (k - 1) * n >= 0
    BY <1>0, SMTT(30)
  <2>2. k * n = (k - 1) * n + n
    BY <1>0
  <2>. QED  BY <1>0, <2>1, <2>2
<1>2. CASE a <= b
  <2>1. (0 * w + (b - a)) % w = b - a
    BY <1>1, <1>2, Quotient
  <2>2. (0 * n + (b - a)) % n = b - a
    BY <1>2, Quotient
  <2>3. (b - a) % w = b - a /\ (b - a) % n = b - a
    BY <1>2, <2>1, <2>2
  <2>. QED  BY <1>2, <2>3 DEF Steps
<1>3. CASE b < a
  <2> DEFINE x == b - a
  <2>1. x % w = x + w
    <3>1. x \in Int /\ -w < x /\ x < 0 /\ w \in Nat \ {0}
      BY <1>1, <1>3
    <3>2. x = w * (x \div w) + (x % w) /\ x % w \in 0 .. w - 1 /\ x \div w \in Int
      BY <3>1
    <3> HIDE DEF x
    <3> DEFINE q == x \div w
    <3>3. q = -1
      <4>1. x = w * q + (x % w) /\ q \in Int
        BY <3>2
      <4> HIDE DEF q
      <4>2. CASE q >= 0
        <5>1. w * q >= 0
          BY <3>1, <4>1, <4>2, SMTT(30)
        <5>. QED  BY <3>1, <3>2, <4>1, <5>1
      <4>3. CASE q <= -2
        <5>1. w * q <= -w - w
          BY <3>1, <4>1, <4>3, SMTT(30)
        <5>. QED  BY <3>1, <3>2, <4>1, <5>1
      <4>. QED  BY <4>1, <4>2, <4>3
    <3>. QED  BY <3>1, <3>2, <3>3
  <2>2. x + w = (k - 1) * n + (n + b - a) /\ n + b - a \in 0 .. n - 1
    BY <1>1, <1>3
  <2>3. ((k - 1) * n + (n + b - a)) % n = n + b - a
    BY <1>0, <2>2, Quotient
  <2>. QED  BY <1>3, <2>1, <2>2, <2>3 DEF Steps
<1>. QED  BY <1>2, <1>3

\* nvm_sq_enqueue's count of the slots in use, in 16 bits, is the number of steps
\* from the head to the tail, because the size divides 2^16.
LEMMA UsedIsSteps ==
  ASSUME AdminTypeOK
  PROVE  Used = Steps(asq.head, asq.tail, sq_size)
<1>1. 2^16 = 65536
  OBVIOUS
<1>2. /\ 2^16 \in Nat \ {0} /\ sq_size \in Nat \ {0} /\ 2^16 % sq_size = 0
      /\ asq.head \in 0 .. sq_size - 1 /\ asq.tail \in 0 .. sq_size - 1
  BY <1>1, QueueAssumption DEF AdminTypeOK, Ends
<1>3. \A w \in Nat \ {0} : w % sq_size = 0 =>
        ((asq.tail - asq.head) % w) % sq_size = Steps(asq.head, asq.tail, sq_size)
  BY <1>2, NarrowDifference
<1>. QED  BY <1>2, <1>3 DEF Used
------------------------------------------------------------------------------
LEMMA SizesOfQueues == sq_size \in Nat \ {0} /\ cq_size \in Nat \ {0} /\ MaxCalls \in Nat
BY QueueAssumption

LEMMA ErrnoIsNoCall == EAGAIN \notin Calls /\ ETIME \notin Calls /\ 0 \notin Calls /\ EAGAIN # ETIME
                       /\ EAGAIN # 0 /\ ETIME # 0
BY SizesOfQueues DEF EAGAIN, ETIME, Calls

LEMMA FiniteParts ==
  ASSUME AdminTypeOK
  PROVE  /\ IsFiniteSet(Out) /\ Cardinality(Out) \in Nat
         /\ IsFiniteSet(ctrl.working) /\ Cardinality(ctrl.working) \in Nat
<1>1. calls \in Int /\ IsFiniteSet(1 .. calls)
  BY SizesOfQueues, FS_Interval DEF AdminTypeOK
<1>2. IsFiniteSet(Calls)
  BY SizesOfQueues, FS_Interval DEF Calls
<1>3. Out \subseteq 1 .. calls /\ ctrl.working \subseteq Calls
  BY DEF Out, AdminTypeOK
<1>. QED  BY <1>1, <1>2, <1>3, FS_Subset, FS_CardinalityType

LEMMA AdminInitInv ==
  ASSUME AdminInit  PROVE AdminInv
<1>1. AdminTypeOK
  BY SizesOfQueues DEF AdminInit, AdminTypeOK, Ends
<1>2. LockInv /\ PhaseInv
  BY QueueAssumption DEF AdminInit, LockInv, PhaseInv
<1>3. Queued = {} /\ Posted = {} /\ Returned = {} /\ Out = {} /\ calls = 0
  <2>1. Queued = {} /\ Posted = {}
    BY SizesOfQueues DEF AdminInit, Queued, Posted, Passed
  <2>2. Returned = {} /\ calls = 0
    BY ErrnoIsNoCall DEF AdminInit, Returned, Answered
  <2>. QED  BY <2>1, <2>2 DEF Out
<1>4. PlaceInv
  BY <1>3 DEF AdminInit, PlaceInv
<1>5. CountInv
  <2>1. Cardinality(Out) = 0 /\ Cardinality(ctrl.working) = 0
    BY <1>3, FS_EmptySet DEF AdminInit
  <2>. QED  BY <2>1 DEF AdminInit, CountInv, Steps
<1>6. OnceInv /\ OwnInv
  <2>1. \A i \in Calls : ~Answered(i)
    BY ErrnoIsNoCall DEF AdminInit, Answered
  <2>. QED  BY <1>3, <2>1 DEF AdminInit, OnceInv, OwnInv, OwnUnlessTimedOut
<1>. QED  BY <1>1, <1>2, <1>4, <1>5, <1>6 DEF AdminInv

\* The ends of the rings, and how far apart they are.
LEMMA EndsApart ==
  ASSUME AdminTypeOK
  PROVE  /\ asq.head \in 0 .. sq_size - 1 /\ asq.tail \in 0 .. sq_size - 1
         /\ ctrl.fetched \in 0 .. sq_size - 1 /\ acq.head \in 0 .. cq_size - 1
         /\ ctrl.tail \in 0 .. cq_size - 1
         /\ Steps(asq.head, asq.tail, sq_size) \in 0 .. sq_size - 1
         /\ Steps(ctrl.fetched, asq.tail, sq_size) \in 0 .. sq_size - 1
         /\ Steps(acq.head, ctrl.tail, cq_size) \in 0 .. cq_size - 1
<1>1. /\ asq.head \in 0 .. sq_size - 1 /\ asq.tail \in 0 .. sq_size - 1
      /\ ctrl.fetched \in 0 .. sq_size - 1 /\ acq.head \in 0 .. cq_size - 1
      /\ ctrl.tail \in 0 .. cq_size - 1
  BY DEF AdminTypeOK, Ends
<1>. QED  BY <1>1, SizesOfQueues, StepsInRing

\* A call on a full queue is counted, and changes nothing else.
LEMMA SubmitFullInv ==
  ASSUME AdminInv, NEW c \in Callers, Submit(c), Full
  PROVE  AdminInv'
<1>1. /\ lock = NoOne /\ calls' = calls + 1 /\ calls' \in Calls
      /\ got' = [got EXCEPT ![calls'] = EAGAIN]
      /\ UNCHANGED <<lock, asq, commands, stage, acq, entries, ctrl>>
      /\ got[calls'] = 0 /\ calls \in Nat
  BY SizesOfQueues DEF Submit, AdminInv, AdminTypeOK, LockInv, Calls
<1>2. AdminTypeOK'
  BY <1>1 DEF AdminInv, AdminTypeOK, Calls
<1>3. \A i \in Calls : (Answered(i)' <=> Answered(i)) /\ (Answered(i) => got'[i] = got[i])
  BY <1>1, ErrnoIsNoCall DEF Answered, AdminInv, AdminTypeOK
<1>4. Returned' = Returned
  BY <1>3 DEF Returned
<1>5. Out' = Out
  <2>1. got'[calls'] = EAGAIN /\ \A i \in 1 .. calls : got'[i] = got[i]
    BY <1>1 DEF AdminInv, AdminTypeOK, Calls
  <2>2. 1 .. calls' = (1 .. calls) \union {calls'}
    BY <1>1
  <2>. QED  BY <1>4, <2>1, <2>2 DEF Out
<1>6. Queued' = Queued /\ Posted' = Posted
  BY <1>1 DEF Queued, Posted
<1>7. LockInv'
  BY <1>1, ErrnoIsNoCall DEF AdminInv, AdminTypeOK, LockInv, Calls
<1>8. PhaseInv' /\ PlaceInv' /\ CountInv'
  BY <1>1, <1>4, <1>5, <1>6 DEF AdminInv, PhaseInv, PlaceInv, CountInv
<1>9. OnceInv'
  BY <1>1, <1>3 DEF AdminInv, OnceInv, Answered, AdminTypeOK
<1>10. OwnInv'
  <2>1. ASSUME \A j \in 1 .. calls' : got'[j] # ETIME
        PROVE  \A j \in 1 .. calls : got[j] # ETIME
    BY <1>1, <2>1 DEF AdminInv, AdminTypeOK, Calls
  <2>2. ASSUME NEW i \in Calls, Answered(i)', \A j \in 1 .. i - 1 : got'[j] # ETIME
        PROVE  got'[i] = i
    <3>1. \A j \in 1 .. i - 1 : got[j] # ETIME
      BY <1>1, <2>2, ErrnoIsNoCall DEF AdminInv, AdminTypeOK, Calls
    <3>. QED  BY <1>3, <2>2, <3>1 DEF AdminInv, OwnInv, OwnUnlessTimedOut
  <2>. QED  BY <1>1, <1>5, <2>1, <2>2 DEF AdminInv, OwnInv, OwnUnlessTimedOut
<1>. QED  BY <1>2, <1>7, <1>8, <1>9, <1>10 DEF AdminInv

\* A command that finds room is queued, and is not answered.
LEMMA SubmitInv ==
  ASSUME AdminInv, NEW c \in Callers, Submit(c), ~Full
  PROVE  AdminInv'
<1> DEFINE n == calls'
           next == (asq.tail + 1) % sq_size
<1>1. /\ lock = NoOne /\ calls' = calls + 1 /\ calls' \in Calls /\ lock' = c
      /\ commands' = [commands EXCEPT ![asq.tail] = n]
      /\ asq' = [asq EXCEPT !.tail = next, !.last = next]
      /\ stage' = [stage EXCEPT ![c] = "wait"]
      /\ UNCHANGED <<got, acq, entries, ctrl>>
      /\ got[n] = 0 /\ calls \in Nat
  <2>1. calls \in Nat /\ calls + 1 \in Calls /\ calls' = calls + 1
    BY SizesOfQueues DEF Submit, AdminInv, AdminTypeOK, Calls
  <2>2. got[calls + 1] = 0
    BY <2>1 DEF AdminInv, LockInv
  <2>. QED  BY <2>1, <2>2 DEF Submit
<1>2. /\ asq.head \in 0 .. sq_size - 1 /\ asq.tail \in 0 .. sq_size - 1
      /\ ctrl.fetched \in 0 .. sq_size - 1 /\ acq.head \in 0 .. cq_size - 1
      /\ ctrl.tail \in 0 .. cq_size - 1
  BY EndsApart DEF AdminInv
<1>3. /\ Steps(asq.head, asq.tail, sq_size) # sq_size - 1
      /\ Steps(ctrl.fetched, asq.tail, sq_size) # sq_size - 1
  <2>1. Steps(asq.head, asq.tail, sq_size) # sq_size - 1
    BY UsedIsSteps DEF Full, AdminInv
  <2>. QED  BY <2>1, SizesOfQueues, EndsApart, FiniteParts DEF AdminInv, CountInv
<1>4. /\ next \in 0 .. sq_size - 1
      /\ Steps(asq.head, next, sq_size) = Steps(asq.head, asq.tail, sq_size) + 1
      /\ Steps(ctrl.fetched, next, sq_size) = Steps(ctrl.fetched, asq.tail, sq_size) + 1
      /\ Queued' = Queued \union {asq.tail} /\ asq.tail \notin Queued
  <2>1. asq'.tail = next /\ asq'.head = asq.head /\ ctrl' = ctrl
    BY <1>1 DEF AdminInv, AdminTypeOK, Ends
  <2>. QED  BY <1>2, <1>3, <2>1, SizesOfQueues, RingGrows DEF Queued
<1> HIDE DEF next
<1>5. AdminTypeOK'
  <2>1. calls' \in 0 .. MaxCalls
    BY <1>1, SizesOfQueues DEF Calls
  <2>2. asq' \in Ends
    BY <1>1, <1>4 DEF AdminInv, AdminTypeOK, Ends
  <2>3. commands' \in [0 .. sq_size - 1 -> 0 .. MaxCalls]
    BY <1>1, <2>1 DEF AdminInv, AdminTypeOK
  <2>. QED  BY <1>1, <2>1, <2>2, <2>3 DEF AdminInv, AdminTypeOK
<1>6. Returned' = Returned /\ Out' = Out \union {n} /\ n \notin Out
  <2>1. Returned' = Returned
    BY <1>1 DEF Returned, Answered
  <2>2. n \notin Returned
    BY <1>1 DEF AdminInv, PlaceInv
  <2>3. 1 .. calls' = (1 .. calls) \union {n} /\ n \notin 1 .. calls
    BY <1>1
  <2>. QED  BY <1>1, <2>1, <2>2, <2>3, ErrnoIsNoCall DEF Out
<1>7. LockInv'
  <2>1. \A d \in Callers : stage'[d] = "wait" <=> lock' = d
    BY <1>1, QueueAssumption DEF AdminInv, AdminTypeOK, LockInv
  <2>. QED  BY <1>1, <2>1 DEF AdminInv, LockInv, Calls
<1>8. PhaseInv'
  BY <1>1 DEF AdminInv, AdminTypeOK, Ends, PhaseInv
<1>9. PlaceInv'
  <2>1. /\ \A s \in Queued : commands'[s] = commands[s] /\ commands'[s] \in Out
        /\ commands'[asq.tail] = n
        /\ Posted' = Posted
    <3>1. \A s \in Queued : s \in 0 .. sq_size - 1 /\ s # asq.tail
      BY <1>4 DEF Queued, Passed
    <3>. QED  BY <1>1, <1>2, <3>1 DEF AdminInv, AdminTypeOK, PlaceInv, Posted
  <2>2. n \notin ctrl.working /\ \A s \in Posted : entries[s].command # n
    BY <1>6 DEF AdminInv, PlaceInv
  <2>3. Returned' \subseteq 1 .. calls' /\ ctrl'.working \subseteq Out'
    BY <1>1, <1>6 DEF AdminInv, PlaceInv
  <2>4. \A s \in Queued' : commands'[s] \in Out' \ ctrl'.working
    BY <1>1, <1>4, <1>6, <2>1, <2>2 DEF AdminInv, PlaceInv
  <2>5. \A s, r \in Queued' : commands'[s] = commands'[r] => s = r
    BY <1>4, <1>6, <2>1 DEF AdminInv, PlaceInv
  <2>6. \A s \in Queued', r \in Posted' : commands'[s] # entries'[r].command
    BY <1>1, <1>4, <2>1, <2>2 DEF AdminInv, PlaceInv
  <2>. QED  BY <1>1, <1>6, <2>1, <2>3, <2>4, <2>5, <2>6 DEF AdminInv, PlaceInv
<1>10. CountInv'
  <2>1. Cardinality(Out') = Cardinality(Out) + 1
    BY <1>6, FiniteParts, FS_AddElement DEF AdminInv
  <2>2. asq'.tail = next /\ asq'.head = asq.head
    BY <1>1 DEF AdminInv, AdminTypeOK, Ends
  <2>. QED  BY <1>1, <1>2, <1>4, <2>1, <2>2, SizesOfQueues, StepsInRing, FiniteParts
            DEF AdminInv, CountInv
<1>11. OnceInv'
  BY <1>1 DEF AdminInv, OnceInv, Answered
<1>12. OwnInv'
  <2>1. ASSUME \A j \in 1 .. calls' : got'[j] # ETIME
        PROVE  Out' = {calls'}
    <3>1. \A j \in 1 .. calls : got[j] # ETIME
      BY <1>1, <2>1
    <3>2. Out = {}
      BY <1>1, <3>1 DEF AdminInv, OwnInv
    <3>. QED  BY <1>6, <3>2
  <2>2. lock' # NoOne
    BY <1>1, QueueAssumption
  <2>. QED  BY <1>1, <2>1, <2>2 DEF AdminInv, OwnInv, OwnUnlessTimedOut, Answered
<1>. QED  BY <1>5, <1>7, <1>8, <1>9, <1>10, <1>11, <1>12 DEF AdminInv

\* The controller takes a command out of the ASQ.
LEMMA FetchInv ==
  ASSUME AdminInv, Fetch
  PROVE  AdminInv'
<1> DEFINE i == commands[ctrl.fetched]
           next == (ctrl.fetched + 1) % sq_size
<1>1. /\ ctrl.fetched # asq.tail
      /\ ctrl' = [ctrl EXCEPT !.fetched = next, !.working = @ \union {i}]
      /\ UNCHANGED <<lock, asq, commands, acq, entries, calls, stage, got>>
  BY DEF Fetch, AdminInv, PhaseInv
<1>2. /\ ctrl'.fetched = next /\ ctrl'.working = ctrl.working \union {i}
      /\ ctrl'.tail = ctrl.tail /\ ctrl'.phase = ctrl.phase
  BY <1>1 DEF AdminInv, AdminTypeOK
<1>3. /\ next \in 0 .. sq_size - 1
      /\ Steps(next, asq.tail, sq_size) = Steps(ctrl.fetched, asq.tail, sq_size) - 1
      /\ Queued' = Queued \ {ctrl.fetched} /\ ctrl.fetched \in Queued
  BY <1>1, <1>2, SizesOfQueues, EndsApart, RingShrinks DEF Queued, AdminInv
<1> HIDE DEF next
<1>4. i \in Out \ ctrl.working /\ i \in Calls
  <2>1. Out \subseteq Calls
    BY SizesOfQueues DEF Out, AdminInv, AdminTypeOK, Calls
  <2>. QED  BY <1>3, <2>1 DEF AdminInv, PlaceInv
<1>5. AdminTypeOK'
  BY <1>1, <1>3, <1>4 DEF AdminInv, AdminTypeOK
<1>6. Returned' = Returned /\ Out' = Out /\ Posted' = Posted
  BY <1>1, <1>2 DEF Returned, Out, Answered, Posted
<1>7. LockInv' /\ PhaseInv'
  BY <1>1, <1>2 DEF AdminInv, LockInv, PhaseInv
<1>8. PlaceInv'
  <2>1. \A s \in Queued' : commands[s] # i /\ commands[s] \in Out \ ctrl.working
    BY <1>3 DEF AdminInv, PlaceInv
  <2>2. \A s \in Posted : entries[s].command # i
    BY <1>3 DEF AdminInv, PlaceInv
  <2>. QED  BY <1>1, <1>2, <1>3, <1>4, <1>6, <2>1, <2>2 DEF AdminInv, PlaceInv
<1>9. CountInv'
  <2>1. Cardinality(ctrl'.working) = Cardinality(ctrl.working) + 1
    BY <1>2, <1>4, FiniteParts, FS_AddElement DEF AdminInv
  <2>. QED  BY <1>1, <1>2, <1>3, <1>6, <2>1, FiniteParts, EndsApart, SizesOfQueues
            DEF AdminInv, CountInv
<1>10. OnceInv' /\ OwnInv'
  BY <1>1, <1>6 DEF AdminInv, OnceInv, OwnInv, OwnUnlessTimedOut, Answered
<1>. QED  BY <1>5, <1>7, <1>8, <1>9, <1>10 DEF AdminInv

\* The controller puts a completion in the ACQ.
LEMMA CompleteInv ==
  ASSUME AdminInv, Complete
  PROVE  AdminInv'
<1> DEFINE next == (ctrl.tail + 1) % cq_size
<1>1. PICK i \in ctrl.working :
        /\ next # acq.head
        /\ entries' = [entries EXCEPT ![ctrl.tail] = [phase |-> ctrl.phase, command |-> i]]
        /\ ctrl' = [ctrl EXCEPT !.working = @ \ {i}, !.tail = next,
                                !.phase = IF ctrl.tail + 1 = cq_size THEN 1 - @ ELSE @]
        /\ UNCHANGED <<lock, asq, commands, acq, calls, stage, got>>
  BY DEF Complete, AdminInv, PhaseInv
<1>2. /\ ctrl'.fetched = ctrl.fetched /\ ctrl'.working = ctrl.working \ {i}
      /\ ctrl'.tail = next
      /\ ctrl'.phase = IF ctrl.tail + 1 = cq_size THEN 1 - ctrl.phase ELSE ctrl.phase
  BY <1>1 DEF AdminInv, AdminTypeOK
<1>3. next = IF ctrl.tail + 1 = cq_size THEN 0 ELSE ctrl.tail + 1
  BY SizesOfQueues, EndsApart, NextPlace DEF AdminInv
<1>4. Steps(acq.head, ctrl.tail, cq_size) # cq_size - 1
  BY <1>1, <1>3, SizesOfQueues, EndsApart DEF AdminInv, Steps
<1>5. /\ next \in 0 .. cq_size - 1
      /\ Steps(acq.head, next, cq_size) = Steps(acq.head, ctrl.tail, cq_size) + 1
      /\ Posted' = Posted \union {ctrl.tail} /\ ctrl.tail \notin Posted
  BY <1>1, <1>2, <1>4, SizesOfQueues, EndsApart, RingGrows DEF Posted, AdminInv
<1>6. i \in Out /\ i \in Calls
  <2>1. Out \subseteq Calls
    BY SizesOfQueues DEF Out, AdminInv, AdminTypeOK, Calls
  <2>. QED  BY <2>1 DEF AdminInv, PlaceInv
<1>7. /\ entries'[ctrl.tail] = [phase |-> ctrl.phase, command |-> i]
      /\ \A s \in 0 .. cq_size - 1 : s # ctrl.tail => entries'[s] = entries[s]
  BY <1>1, EndsApart DEF AdminInv, AdminTypeOK
<1> HIDE DEF next
<1>8. AdminTypeOK'
  <2>1. entries' \in [0 .. cq_size - 1 -> [phase : {0, 1}, command : 0 .. MaxCalls]]
    BY <1>1, <1>6, SizesOfQueues DEF AdminInv, AdminTypeOK, Calls
  <2>2. ctrl' \in [fetched : 0 .. sq_size - 1, working : SUBSET Calls,
                   tail : 0 .. cq_size - 1, phase : {0, 1}]
    <3>1. ctrl.phase \in {0, 1} /\ 1 - ctrl.phase \in {0, 1}
      BY DEF AdminInv, AdminTypeOK
    <3> DEFINE p == IF ctrl.tail + 1 = cq_size THEN 1 - ctrl.phase ELSE ctrl.phase
    <3>2. p \in {0, 1}
      BY <3>1
    <3>3. ctrl' = [ctrl EXCEPT !.working = @ \ {i}, !.tail = next, !.phase = p]
      BY <1>1 DEF AdminInv, AdminTypeOK
    <3> HIDE DEF p
    <3>. QED  BY <1>5, <3>2, <3>3 DEF AdminInv, AdminTypeOK
  <2>. QED  BY <1>1, <2>1, <2>2 DEF AdminInv, AdminTypeOK
<1>9. Returned' = Returned /\ Out' = Out /\ Queued' = Queued
  BY <1>1, <1>2 DEF Returned, Out, Answered, Queued
<1>10. LockInv'
  BY <1>1 DEF AdminInv, LockInv
<1>11. PhaseInv'
  <2>1. ctrl.phase \in {0, 1}
    BY DEF AdminInv, AdminTypeOK
  <2>2. \A s \in 0 .. cq_size - 1 :
          entries'[s].phase = IF s < ctrl'.tail THEN ctrl'.phase ELSE 1 - ctrl'.phase
    <3>1. SUFFICES ASSUME NEW s \in 0 .. cq_size - 1
                   PROVE  entries'[s].phase = IF s < ctrl'.tail THEN ctrl'.phase
                                              ELSE 1 - ctrl'.phase
      OBVIOUS
    <3>2. CASE s = ctrl.tail
      BY <1>2, <1>3, <1>7, <2>1, <3>2, SizesOfQueues, EndsApart DEF AdminInv
    <3>3. CASE s # ctrl.tail
      <4>1. entries'[s].phase = IF s < ctrl.tail THEN ctrl.phase ELSE 1 - ctrl.phase
        BY <1>7, <3>3 DEF AdminInv, PhaseInv
      <4>. QED  BY <1>2, <1>3, <2>1, <3>3, <4>1, SizesOfQueues, EndsApart DEF AdminInv
    <3>. QED  BY <3>2, <3>3
  <2>3. acq'.phase = IF acq'.head <= ctrl'.tail THEN ctrl'.phase ELSE 1 - ctrl'.phase
    BY <1>1, <1>2, <1>3, <2>1, SizesOfQueues, EndsApart DEF AdminInv, PhaseInv
  <2>. QED  BY <1>1, <2>2, <2>3 DEF AdminInv, PhaseInv
<1>12. PlaceInv'
  <2>1. \A s \in Posted : /\ s \in 0 .. cq_size - 1 /\ s # ctrl.tail
                          /\ entries'[s] = entries[s] /\ entries[s].command # i
    BY <1>5, <1>7 DEF AdminInv, PlaceInv, Posted, Passed
  <2>2. entries'[ctrl.tail].command = i
    BY <1>7
  <2>3. \A s \in Queued : commands[s] # i
    BY DEF AdminInv, PlaceInv
  <2>4. \A s \in Posted' : entries'[s].command \in Out' \ ctrl'.working
    BY <1>2, <1>5, <1>6, <1>9, <2>1, <2>2 DEF AdminInv, PlaceInv
  <2>5. \A s, r \in Posted' : entries'[s].command = entries'[r].command => s = r
    BY <1>5, <2>1, <2>2 DEF AdminInv, PlaceInv
  <2>6. \A s \in Queued', r \in Posted' : commands'[s] # entries'[r].command
    BY <1>1, <1>5, <1>9, <2>1, <2>2, <2>3 DEF AdminInv, PlaceInv
  <2>. QED  BY <1>1, <1>2, <1>9, <2>4, <2>5, <2>6 DEF AdminInv, PlaceInv
<1>13. CountInv'
  <2>1. Cardinality(ctrl'.working) = Cardinality(ctrl.working) - 1
    BY <1>2, FiniteParts, FS_RemoveElement DEF AdminInv
  <2>. QED  BY <1>1, <1>2, <1>5, <1>9, <2>1, FiniteParts, EndsApart, SizesOfQueues
            DEF AdminInv, CountInv
<1>14. OnceInv' /\ OwnInv'
  BY <1>1, <1>9 DEF AdminInv, OnceInv, OwnInv, OwnUnlessTimedOut, Answered
<1>. QED  BY <1>8, <1>10, <1>11, <1>12, <1>13, <1>14 DEF AdminInv

\* A call gives up; its command keeps its slot.
LEMMA TimeOutInv ==
  ASSUME AdminInv, NEW c \in Callers, TimeOut(c)
  PROVE  AdminInv'
<1>1. /\ lock = c /\ lock' = NoOne /\ got' = [got EXCEPT ![calls] = ETIME]
      /\ stage' = [stage EXCEPT ![c] = "idle"]
      /\ UNCHANGED <<asq, commands, acq, entries, ctrl, calls>>
  BY DEF TimeOut, HeadAtTimeout, AdminInv, LockInv
<1>2. calls \in Calls /\ got[calls] = 0
  BY <1>1, QueueAssumption DEF AdminInv, AdminTypeOK, LockInv, Calls
<1>3. \A i \in Calls : /\ (Answered(i)' <=> Answered(i)) /\ (Answered(i) => got'[i] = got[i])
                       /\ (got'[i] = EAGAIN <=> got[i] = EAGAIN)
                       /\ (i # calls => got'[i] = got[i])
  BY <1>1, <1>2, ErrnoIsNoCall DEF Answered, AdminInv, AdminTypeOK
<1>4. Returned' = Returned
  BY <1>3 DEF Returned
<1>5. Out' = Out /\ Queued' = Queued /\ Posted' = Posted
  <2>1. 1 .. calls \subseteq Calls
    BY SizesOfQueues DEF AdminInv, AdminTypeOK, Calls
  <2>. QED  BY <1>1, <1>3, <1>4, <2>1 DEF Out, Queued, Posted
<1>6. AdminTypeOK'
  BY <1>1, <1>2 DEF AdminInv, AdminTypeOK
<1>7. LockInv'
  <2>1. \A d \in Callers : stage'[d] = "wait" <=> lock' = d
    BY <1>1, QueueAssumption DEF AdminInv, AdminTypeOK, LockInv
  <2>2. \A i \in Calls : i > calls' => got'[i] = 0
    BY <1>1, <1>2, <1>3 DEF AdminInv, LockInv, Calls
  <2>. QED  BY <1>1, <2>1, <2>2 DEF LockInv
<1>8. PhaseInv' /\ PlaceInv' /\ CountInv'
  BY <1>1, <1>4, <1>5 DEF AdminInv, PhaseInv, PlaceInv, CountInv
<1>9. OnceInv'
  BY <1>3 DEF AdminInv, OnceInv, Answered
<1>10. OwnInv'
  <2>1. ~(\A j \in 1 .. calls' : got'[j] # ETIME)
    BY <1>1, <1>2 DEF AdminInv, AdminTypeOK, Calls
  <2>2. ASSUME NEW i \in Calls, Answered(i)', \A j \in 1 .. i - 1 : got'[j] # ETIME
        PROVE  got'[i] = i
    <3>1. \A j \in 1 .. i - 1 : got[j] # ETIME
      BY <1>1, <1>2, <1>3, <2>2, ErrnoIsNoCall DEF Calls
    <3>. QED  BY <1>3, <2>2, <3>1 DEF AdminInv, OwnInv, OwnUnlessTimedOut
  <2>. QED  BY <2>1, <2>2 DEF OwnInv, OwnUnlessTimedOut
<1>. QED  BY <1>6, <1>7, <1>8, <1>9, <1>10 DEF AdminInv

\* An entry of the ACQ is of the present round exactly when it was not looked at.
LEMMA ReadyIsPosted ==
  ASSUME AdminInv
  PROVE  Ready <=> acq.head # ctrl.tail
<1>1. ctrl.phase \in {0, 1} /\ acq.head \in 0 .. cq_size - 1 /\ ctrl.tail \in 0 .. cq_size - 1
  BY EndsApart DEF AdminInv, AdminTypeOK
<1>2. entries[acq.head].phase = IF acq.head < ctrl.tail THEN ctrl.phase ELSE 1 - ctrl.phase
  BY <1>1 DEF AdminInv, PhaseInv
<1>3. acq.phase = IF acq.head <= ctrl.tail THEN ctrl.phase ELSE 1 - ctrl.phase
  BY DEF AdminInv, PhaseInv
<1>. QED  BY <1>1, <1>2, <1>3, SizesOfQueues DEF Ready

\* A call returns with the completion at the head of the ACQ.
LEMMA ReturnInv ==
  ASSUME AdminInv, NEW c \in Callers, Return(c)
  PROVE  AdminInv'
<1> DEFINE e == entries[acq.head].command
           next == (acq.head + 1) % cq_size
           after == (asq.head + 1) % sq_size
<1>1. /\ lock = c /\ lock' = NoOne /\ got' = [got EXCEPT ![calls] = e]
      /\ acq' = [Dequeued EXCEPT !.last = Dequeued.head]
      /\ asq' = [asq EXCEPT !.head = after]
      /\ stage' = [stage EXCEPT ![c] = "idle"]
      /\ UNCHANGED <<commands, entries, ctrl, calls>>
      /\ acq.head # ctrl.tail
  BY ReadyIsPosted DEF Return, AdminInv, LockInv
<1>2. calls \in Calls /\ got[calls] = 0
  BY <1>1, QueueAssumption DEF AdminInv, AdminTypeOK, LockInv, Calls
<1>3. /\ acq'.head = next /\ acq'.last = next
      /\ acq'.phase = IF acq.head + 1 = cq_size THEN 1 - acq.phase ELSE acq.phase
      /\ asq'.head = after /\ asq'.tail = asq.tail /\ asq'.last = asq.last
  BY <1>1 DEF AdminInv, AdminTypeOK, Ends, Dequeued
<1>4. /\ next = IF acq.head + 1 = cq_size THEN 0 ELSE acq.head + 1
      /\ next \in 0 .. cq_size - 1
      /\ Steps(next, ctrl.tail, cq_size) = Steps(acq.head, ctrl.tail, cq_size) - 1
      /\ Posted' = Posted \ {acq.head} /\ acq.head \in Posted
  BY <1>1, <1>3, SizesOfQueues, EndsApart, NextPlace, RingShrinks DEF Posted, AdminInv
<1>5. asq.head # asq.tail
  <2>1. Steps(acq.head, ctrl.tail, cq_size) # 0
    BY <1>1, SizesOfQueues, EndsApart, StepsInRing DEF AdminInv
  <2>2. Steps(asq.head, asq.tail, sq_size) # 0
    BY <2>1, FiniteParts, EndsApart, SizesOfQueues DEF AdminInv, CountInv
  <2>. QED  BY <2>2, SizesOfQueues, EndsApart, StepsInRing DEF AdminInv
<1>6. /\ after \in 0 .. sq_size - 1
      /\ Steps(after, asq.tail, sq_size) = Steps(asq.head, asq.tail, sq_size) - 1
  BY <1>5, SizesOfQueues, EndsApart, RingShrinks DEF AdminInv
<1>7. e \in Out \ ctrl.working /\ e \in Calls /\ e \in 1 .. calls
  <2>1. e \in Out \ ctrl.working
    BY <1>4 DEF AdminInv, PlaceInv
  <2>2. Out \subseteq Calls /\ Out \subseteq 1 .. calls
    BY SizesOfQueues DEF Out, AdminInv, AdminTypeOK, Calls
  <2>. QED  BY <2>1, <2>2
<1> HIDE DEF next, after, e
<1>8. /\ got'[calls] = e /\ Answered(calls)' /\ ~Answered(calls)
      /\ \A i \in Calls : i # calls => got'[i] = got[i] /\ (Answered(i)' <=> Answered(i))
  BY <1>1, <1>2, <1>7, ErrnoIsNoCall DEF Answered, AdminInv, AdminTypeOK
<1>9. Returned' = Returned \union {e} /\ e \notin Returned
  <2>1. Returned' = Returned \union {e}
    <3>1. ASSUME NEW x \in Returned'  PROVE x \in Returned \union {e}
      <4>1. PICK j \in Calls : Answered(j)' /\ x = got'[j]
        BY <3>1 DEF Returned
      <4>. QED  BY <1>8, <4>1 DEF Returned
    <3>2. ASSUME NEW x \in Returned  PROVE x \in Returned'
      <4>1. PICK j \in Calls : Answered(j) /\ x = got[j]
        BY <3>2 DEF Returned
      <4>2. j # calls
        BY <1>8, <4>1
      <4>. QED  BY <1>8, <4>1, <4>2 DEF Returned
    <3>3. e \in Returned'
      BY <1>1, <1>2, <1>8 DEF Returned
    <3>. QED  BY <3>1, <3>2, <3>3
  <2>. QED  BY <1>7, <2>1 DEF Out
<1>10. Out' = Out \ {e} /\ Queued' = Queued
  <2>1. 1 .. calls \subseteq Calls
    BY SizesOfQueues DEF AdminInv, AdminTypeOK, Calls
  <2>2. \A i \in 1 .. calls : got'[i] = EAGAIN <=> got[i] = EAGAIN
    BY <1>2, <1>7, <1>8, <2>1, ErrnoIsNoCall
  <2>. QED  BY <1>1, <1>3, <1>9, <2>2 DEF Out, Queued
<1>11. AdminTypeOK'
  <2>1. acq' \in [head : 0 .. cq_size - 1, phase : {0, 1}, last : 0 .. cq_size - 1]
    <3>1. acq.phase \in {0, 1} /\ 1 - acq.phase \in {0, 1}
      BY DEF AdminInv, AdminTypeOK
    <3> DEFINE p == IF acq.head + 1 = cq_size THEN 1 - acq.phase ELSE acq.phase
    <3>2. p \in {0, 1}
      BY <3>1
    <3>3. acq' = [acq EXCEPT !.head = next, !.phase = p, !.last = next]
      BY <1>1 DEF AdminInv, AdminTypeOK, Dequeued, next
    <3> HIDE DEF p
    <3>. QED  BY <1>4, <3>2, <3>3 DEF AdminInv, AdminTypeOK
  <2>2. asq' \in Ends
    BY <1>1, <1>6 DEF AdminInv, AdminTypeOK, Ends
  <2>3. got' \in [Calls -> Calls \union {0, EAGAIN, ETIME}]
    BY <1>1, <1>7 DEF AdminInv, AdminTypeOK
  <2>. QED  BY <1>1, <2>1, <2>2, <2>3 DEF AdminInv, AdminTypeOK
<1>12. LockInv'
  <2>1. \A d \in Callers : stage'[d] = "wait" <=> lock' = d
    BY <1>1, QueueAssumption DEF AdminInv, AdminTypeOK, LockInv
  <2>2. \A i \in Calls : i > calls' => got'[i] = 0
    BY <1>1, <1>2, <1>8 DEF AdminInv, LockInv, Calls
  <2>. QED  BY <1>1, <2>1, <2>2 DEF LockInv
<1>13. PhaseInv'
  <2>1. ctrl.phase \in {0, 1} /\ acq.phase \in {0, 1}
    BY DEF AdminInv, AdminTypeOK
  <2>2. acq'.phase = IF acq'.head <= ctrl'.tail THEN ctrl'.phase ELSE 1 - ctrl'.phase
    BY <1>1, <1>3, <1>4, <2>1, SizesOfQueues, EndsApart DEF AdminInv, PhaseInv
  <2>. QED  BY <1>1, <1>3, <2>2 DEF AdminInv, PhaseInv
<1>14. PlaceInv'
  <2>1. \A s \in Posted' : s \in Posted /\ entries[s].command # e
    BY <1>4 DEF AdminInv, PlaceInv, e
  <2>2. \A s \in Queued : commands[s] # e
    BY <1>4 DEF AdminInv, PlaceInv, e
  <2>3. Returned' \subseteq 1 .. calls'
    BY <1>1, <1>2, <1>7, <1>9 DEF AdminInv, PlaceInv, Calls
  <2>. QED  BY <1>1, <1>7, <1>10, <2>1, <2>2, <2>3 DEF AdminInv, PlaceInv
<1>15. CountInv'
  <2>1. Cardinality(Out') = Cardinality(Out) - 1
    BY <1>7, <1>10, FiniteParts, FS_RemoveElement DEF AdminInv
  <2>. QED  BY <1>1, <1>3, <1>4, <1>6, <2>1, FiniteParts, EndsApart, SizesOfQueues
            DEF AdminInv, CountInv
<1>16. OnceInv'
  <2>1. \A i \in Calls : Answered(i) => got[i] # e
    BY <1>9 DEF Returned
  <2>. QED  BY <1>2, <1>8, <2>1 DEF AdminInv, OnceInv, Answered
<1>17. OwnInv'
  <2>1. ASSUME \A j \in 1 .. calls - 1 : got'[j] # ETIME
        PROVE  e = calls /\ Out' = {}
    <3>1. \A j \in 1 .. calls : got[j] # ETIME
      BY <1>2, <1>8, <2>1, ErrnoIsNoCall, SizesOfQueues DEF Calls
    <3>2. Out = {calls}
      BY <1>1, <3>1, QueueAssumption DEF AdminInv, OwnInv
    <3>. QED  BY <1>7, <1>10, <3>2
  <2>2. (\A j \in 1 .. calls' : got'[j] # ETIME) => Out' = {}
    BY <1>1, <1>2, <2>1 DEF Calls
  <2>3. ASSUME NEW i \in Calls, Answered(i)', \A j \in 1 .. i - 1 : got'[j] # ETIME
        PROVE  got'[i] = i
    <3>1. CASE i = calls
      BY <1>8, <2>1, <2>3, <3>1
    <3>2. CASE i # calls
      <4>1. \A j \in 1 .. i - 1 : got[j] # ETIME
        BY <1>2, <1>8, <2>3, ErrnoIsNoCall, SizesOfQueues DEF Calls
      <4>. QED  BY <1>8, <2>3, <3>2, <4>1 DEF AdminInv, OwnInv, OwnUnlessTimedOut
    <3>. QED  BY <3>1, <3>2
  <2>. QED  BY <1>1, <2>2, <2>3 DEF OwnInv, OwnUnlessTimedOut
<1>. QED  BY <1>11, <1>12, <1>13, <1>14, <1>15, <1>16, <1>17 DEF AdminInv
------------------------------------------------------------------------------
\* The invariant of the admin queues, step by step.
THEOREM AdminStep ==
  ASSUME AdminInv, [AdminNext]_adminVars
  PROVE  AdminInv'
<1>1. CASE Fetch
  BY <1>1, FetchInv
<1>2. CASE Complete
  BY <1>2, CompleteInv
<1>3. ASSUME NEW c \in Callers, Rpc(c)  PROVE AdminInv'
  BY <1>3, SubmitInv, SubmitFullInv, ReturnInv, TimeOutInv DEF Rpc
<1>4. CASE UNCHANGED adminVars
  <2>1. UNCHANGED <<lock, asq, commands, acq, entries, ctrl, calls, stage, got>>
    BY <1>4 DEF adminVars
  <2>2. Returned' = Returned /\ Out' = Out /\ Queued' = Queued /\ Posted' = Posted
    BY <2>1 DEF Returned, Out, Queued, Posted, Answered
  <2>. QED  BY <2>1, <2>2 DEF AdminInv, AdminTypeOK, LockInv, PhaseInv, PlaceInv, CountInv,
                 OnceInv, OwnInv, OwnUnlessTimedOut, Answered
<1>. QED  BY <1>1, <1>2, <1>3, <1>4 DEF AdminNext

\* The admin queues keep their invariant, whatever the sizes, the callers and the
\* number of calls.
THEOREM AdminAlwaysInv == AdminSpec => []AdminInv
<1>1. AdminInit => AdminInv
  BY AdminInitInv
<1>2. AdminInv /\ [AdminNext]_adminVars => AdminInv'
  BY AdminStep
<1>. QED  BY <1>1, <1>2, PTL DEF AdminSpec

\* No completion is returned to two calls, although entries of earlier rounds stay
\* in the ACQ and the controller completes commands in any order.
THEOREM AdminCompletedOnce == AdminSpec => []CompletedOnce
<1>1. AdminInv => CompletedOnce
  BY DEF AdminInv, OnceInv, CompletedOnce
<1>. QED  BY <1>1, AdminAlwaysInv, PTL

\* The 16-bit difference nvm_sq_enqueue takes is the number of commands nobody
\* has returned with, timed out ones included.
THEOREM AdminSlotsInUse == AdminSpec => []SlotsInUse
<1>1. AdminInv => SlotsInUse
  BY UsedIsSteps DEF AdminInv, CountInv, Out, Returned, SlotsInUse
<1>. QED  BY <1>1, AdminAlwaysInv, PTL

\* Until a call times out, each call returns with its own completion.
THEOREM AdminOwnUnlessTimedOut == AdminSpec => []OwnUnlessTimedOut
<1>1. AdminInv => OwnUnlessTimedOut
  BY DEF AdminInv, OwnInv
<1>. QED  BY <1>1, AdminAlwaysInv, PTL
==============================================================================
