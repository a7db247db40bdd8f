------------------------------ MODULE QueueProofs ------------------------------
(***************************************************************************)
(* What holds of a queue pair and of the reads and writes through it, for   *)
(* all numbers of threads, queue sizes and command ids, as long as no       *)
(* thread falls asleep in cq_poll for two rounds of completions.            *)
(***************************************************************************)
EXTENDS ReadData, Remainders, FiniteSetTheorems

\* A thread that has loaded the head in cq_poll looks at an entry before the SSD has
\* posted over it twice: the phase bit cannot tell rounds two apart.
PromptPoll == \A t \in Threads : pc[t] = "entry" => posted <= loc[t] + 2 * CqSize

Num(b) == IF b THEN 1 ELSE 0
------------------------------------------------------------------------------
(***************************************************************************)
(* The queues as unbounded sequences.                                       *)
(***************************************************************************)

\* Round of the submission queue in which ticket n is used, and the rounds in which
\* the tickets below h use place p.
Round(n) == n \div SqSize
Turns(h, p) == IF p < SqPos(h) THEN Round(h) + 1 ELSE Round(h)

\* The number from a on that belongs to place p.
Index(a, p) == a + (IF p >= SqPos(a) THEN p - SqPos(a) ELSE p - SqPos(a) + SqSize)

TailMovers == {"movetail", "ring", "settail", "untail"}
HeadMovers == {"movehead", "sqhd", "free", "sqhead", "ringhead", "sethead", "unhead"}

\* Commands submitted, and told to the SSD; places given back by move_head_cq.
MovedTail == IF tail_lock = Nobody THEN sq_tail ELSE sq_tail + moved[tail_lock]
RungTail  == IF tail_lock # Nobody /\ pc[tail_lock] = "settail" THEN MovedTail ELSE sq_tail
FreedTo   == IF head_lock = Nobody THEN sq_head ELSE sq_head + freed[head_lock]
Fetched   == Index(sq_head, fetched)

\* Completions whose marks the head has moved over; those whose submission head may
\* still be read.
MovedHead == IF head_lock = Nobody THEN cq_head ELSE cq_head + moved[head_lock]
KnownFrom ==
  IF head_lock # Nobody /\ pc[head_lock] \in {"ringhead", "sethead"} THEN MovedHead ELSE cq_head

\* Commands fetched when completion m was posted.
FetchedAt(m) == Index(sq_head, cq_mem[CqPos(m)].sqhd)

IdOf(m) == cq_mem[CqPos(m)].cid

\* Of the events at place p (ts) when the places up to h were freed, those that were
\* a user's leaving.
LeftOf(ts, h, p) == ts[p] - Turns(h, p)
Left(p) == LeftOf(tickets, FreedTo, p)
------------------------------------------------------------------------------
(***************************************************************************)
(* Where a thread is with its command.                                      *)
(***************************************************************************)
Marked  == {"tail", "trytail"} \cup TailMovers
Holding == AtPlace \cup {"turn"}

\* At l with ticket n, when the tail was moved to mt: its command is in the submission
\* queue but not submitted, ...
WrittenAt(l, n, mt) == l = "mark" \/ (l \in Marked /\ n >= mt)
Written(t) == WrittenAt(pc[t], ticket[t], MovedTail)

\* ... or it is submitted and its completion not recognised.
SentAt(l, n, mt) == (l \in Marked /\ n < mt) \/ l \in {"leave", "poll", "entry"}
Sent(t) == SentAt(pc[t], ticket[t], MovedTail)

\* Its completion is recognised, and then marked.
MarkedHead == {"head", "tryhead"} \cup HeadMovers
PosHolders == {"markhead", "await", "posfree"} \cup MarkedHead
Recognised == {"poslock", "markhead", "await"} \cup MarkedHead

\* The command at place p is submitted, and its user has not left.
Submitted(p) == \E t \in Threads : pc[t] \in AtPlace /\ SqPos(ticket[t]) = p /\ ticket[t] < MovedTail

Own(t) == [owner |-> t, cid |-> cid[t]]
------------------------------------------------------------------------------
LockInv ==
  /\ \A t \in Threads : tail_lock = t <=> pc[t] \in TailMovers
  /\ \A t \in Threads : head_lock = t <=> pc[t] \in HeadMovers
  /\ \A t \in Threads :
       /\ pc[t] \notin {"movetail", "ring", "settail"} \cup (HeadMovers \ {"unhead"}) => moved[t] = 0
       /\ pc[t] \in HeadMovers \ {"movehead", "unhead"} => moved[t] > 0
       /\ pc[t] \notin {"free", "sqhead"} => freed[t] = 0

IdInv ==
  /\ \A t \in Threads : cid[t] = NoCid <=> pc[t] = "idle"
  /\ \A t \in Threads : pc[t] # "idle" => cid[t] \in cid_lock
  /\ \A t, u \in Threads : cid[t] = cid[u] /\ pc[t] # "idle" => t = u

\* A place is used in the order of the rounds: its user of round r has its turn when
\* r users have left it and it was freed r times.
TicketInv ==
  /\ \A t \in Threads : pc[t] \in Holding =>
       ticket[t] < in_ticket /\ Round(ticket[t]) >= Left(SqPos(ticket[t]))
  /\ \A t, u \in Threads :
       pc[t] \in Holding /\ pc[u] \in Holding /\ ticket[t] = ticket[u] => t = u
  /\ \A t \in Threads : pc[t] \in AtPlace =>
       /\ Round(ticket[t]) = Left(SqPos(ticket[t]))
       /\ Round(ticket[t]) <= Turns(FreedTo, SqPos(ticket[t]))
  /\ \A p \in 0 .. SqSize - 1 : Left(p) <= Turns(in_ticket, p)

\* The tail has moved over the commands of the rounds whose users have left, and
\* over those of users that find their mark gone.
SubmitInv ==
  /\ \A t \in Threads :
       /\ pc[t] \in {"copy", "mark"} => ticket[t] >= MovedTail
       /\ pc[t] \in Marked => (tail_mark[SqPos(ticket[t])] <=> ticket[t] >= MovedTail)
       /\ pc[t] = "leave" => ticket[t] < MovedTail
  /\ \A p \in 0 .. SqSize - 1 : tail_mark[p] =>
       \E t \in Threads : pc[t] \in Marked /\ SqPos(ticket[t]) = p /\ ticket[t] >= MovedTail
  /\ \A p \in 0 .. SqSize - 1 : Turns(MovedTail, p) = Left(p) + Num(Submitted(p))

\* Head, fetched and tail are in order, and less than a round apart.
WindowInv ==
  /\ FreedTo <= Fetched /\ Fetched <= RungTail
  /\ sq_tail <= MovedTail /\ MovedTail < sq_head + SqSize
  /\ sq_db = SqPos(RungTail)

\* Completions posted later know of no fewer commands fetched.
HeadsInv ==
  /\ MovedHead <= posted /\ posted < RungHead + CqSize
  /\ cq_db = CqPos(RungHead)
  /\ \A m \in KnownFrom .. posted - 1 : FetchedAt(m) <= Fetched
  /\ \A m, n \in KnownFrom .. posted - 1 : m <= n => FetchedAt(m) <= FetchedAt(n)
  /\ \A t \in Threads : pc[t] \in {"free", "sqhead"} =>
       /\ new_sq_head[t] = cq_mem[CqPos(MovedHead - 1)].sqhd
       /\ FreedTo <= FetchedAt(MovedHead - 1)
       /\ pc[t] = "sqhead" => SqPos(FreedTo) = new_sq_head[t]

\* The phase of an entry tells whether it is of the SSD's present round.
PhaseInv ==
  \A p \in 0 .. CqSize - 1 :
    cq_mem[p].phase = IF p < CqPos(posted) THEN Phase(posted) ELSE 1 - Phase(posted)

\* A submitted command is in one place: the submission queue, the SSD, or the
\* completion queue; and is that of a thread that waits for it.
OwnInv ==
  /\ \A t \in Threads : Written(t) => sq_mem[SqPos(ticket[t])] = Own(t)
  /\ \A n \in Fetched .. MovedTail - 1 : \E t \in Threads : Sent(t) /\ sq_mem[SqPos(n)] = Own(t)
  /\ \A w \in working : \E t \in Threads : Sent(t) /\ w.cmd = Own(t)
  /\ \A m \in cq_head .. posted - 1 : m >= posted - CqSize =>
       \E t \in Threads : /\ IdOf(m) = cid[t]
                          /\ (Sent(t) /\ m >= MovedHead) \/ (pc[t] \in Recognised /\ loc[t] = m)

OnceInv ==
  /\ \A n, k \in Fetched .. MovedTail - 1 :
       sq_mem[SqPos(n)].cid = sq_mem[SqPos(k)].cid => n = k
  /\ \A v, w \in working : v.cmd.cid = w.cmd.cid => v = w
  /\ \A m, k \in MovedHead .. posted - 1 : IdOf(m) = IdOf(k) => m = k
  /\ \A n \in Fetched .. MovedTail - 1, w \in working : sq_mem[SqPos(n)].cid # w.cmd.cid
  /\ \A n \in Fetched .. MovedTail - 1, m \in MovedHead .. posted - 1 :
       sq_mem[SqPos(n)].cid # IdOf(m)
  /\ \A w \in working, m \in MovedHead .. posted - 1 : w.cmd.cid # IdOf(m)

\* The place of a completion is its thread's until the head has passed it.
PosInv ==
  /\ \A t \in Threads : pc[t] \in PosHolders => pos_locks[CqPos(loc[t])]
  /\ \A t, u \in Threads :
       pc[t] \in PosHolders /\ pc[u] \in PosHolders /\ CqPos(loc[t]) = CqPos(loc[u]) => t = u

\* A recognised completion stays where it is until the head has moved over its mark.
RecogInv ==
  /\ \A t \in Threads :
       /\ pc[t] \in {"poslock", "markhead"} => MovedHead <= loc[t]
       /\ pc[t] \in {"poslock", "markhead"} \cup MarkedHead => loc[t] < posted
       /\ pc[t] \in {"poslock", "markhead"} \cup MarkedHead /\ MovedHead <= loc[t] =>
            IdOf(loc[t]) = cid[t]
       /\ pc[t] \in MarkedHead => (head_mark[CqPos(loc[t])] <=> MovedHead <= loc[t])
       /\ pc[t] = "await" => loc[t] < MovedHead
  /\ \A p \in 0 .. CqSize - 1 : head_mark[p] =>
       \E t \in Threads : pc[t] \in MarkedHead /\ CqPos(loc[t]) = p /\ MovedHead <= loc[t]

\* No completion that the head has passed since cq_poll loaded it has the thread's id.
SeenInv ==
  \A t \in Threads : pc[t] = "entry" =>
    /\ head[t] <= loc[t] /\ loc[t] < head[t] + CqSize - 1 /\ head[t] <= cq_head
    /\ \A m \in head[t] .. MovedHead - 1 : m >= posted - CqSize => IdOf(m) # cid[t]
------------------------------------------------------------------------------
(***************************************************************************)
(* Places, rounds and tickets.                                              *)
(***************************************************************************)
LEMMA Sizes == SqSize \in Nat \ {0} /\ CqSize \in Nat \ {0} /\ SqSize >= 2 /\ CqSize >= 2
BY QueueAssumption

LEMMA Places ==
  ASSUME NEW n \in Nat
  PROVE  /\ SqPos(n) \in 0 .. SqSize - 1 /\ Round(n) \in Nat
         /\ CqPos(n) \in 0 .. CqSize - 1
BY Sizes, Division DEF SqPos, Round, CqPos

LEMMA SqShift ==
  ASSUME NEW x \in Nat, NEW k \in 0 .. SqSize - 1
  PROVE  /\ SqPos(x + k) = IF SqPos(x) + k < SqSize THEN SqPos(x) + k ELSE SqPos(x) + k - SqSize
         /\ Round(x + k) = IF SqPos(x) + k < SqSize THEN Round(x) ELSE Round(x) + 1
BY Sizes, Shift DEF SqPos, Round

LEMMA NextSqPlace ==
  ASSUME NEW x \in Nat
  PROVE  /\ SqPos(x + 1) = IF SqPos(x) + 1 < SqSize THEN SqPos(x) + 1 ELSE 0
         /\ Round(x + 1) = IF SqPos(x) + 1 < SqSize THEN Round(x) ELSE Round(x) + 1
<1>1. 1 \in 0 .. SqSize - 1
  BY Sizes
<1>2. SqPos(x) \in 0 .. SqSize - 1
  BY Places
<1>3. /\ SqPos(x + 1) = IF SqPos(x) + 1 < SqSize THEN SqPos(x) + 1 ELSE SqPos(x) + 1 - SqSize
      /\ Round(x + 1) = IF SqPos(x) + 1 < SqSize THEN Round(x) ELSE Round(x) + 1
  BY <1>1, SqShift
<1>. QED  BY <1>2, <1>3, Sizes

LEMMA TurnsType ==
  ASSUME NEW h \in Nat, NEW p \in 0 .. SqSize - 1  PROVE Turns(h, p) \in Nat
BY Places, Sizes DEF Turns

\* The tickets below h at the place of n are those of the rounds below Turns.
LEMMA TurnIs ==
  ASSUME NEW n \in Nat, NEW h \in Nat
  PROVE  n < h <=> Round(n) < Turns(h, SqPos(n))
<1>1. n < h <=> Round(n) < Round(h) \/ (Round(n) = Round(h) /\ SqPos(n) < SqPos(h))
  BY Sizes, QuotientsOrder DEF Round, SqPos
<1>2. Round(n) \in Nat /\ Round(h) \in Nat /\ SqPos(n) \in Int /\ SqPos(h) \in Int
  BY Places, Sizes
<1>. QED  BY <1>1, <1>2 DEF Turns

LEMMA TurnsAt ==
  ASSUME NEW h \in Nat  PROVE Turns(h, SqPos(h)) = Round(h)
BY Places, Sizes DEF Turns

LEMMA NextTurn ==
  ASSUME NEW h \in Nat, NEW p \in 0 .. SqSize - 1
  PROVE  Turns(h + 1, p) = Turns(h, p) + Num(p = SqPos(h))
<1>1. SqPos(h) \in 0 .. SqSize - 1 /\ Round(h) \in Nat
  BY Places
<1>. QED  BY <1>1, NextSqPlace, Sizes DEF Turns, Num

LEMMA TurnsGrow ==
  ASSUME NEW h \in Nat, NEW k \in Nat, h <= k, NEW p \in 0 .. SqSize - 1
  PROVE  Turns(h, p) <= Turns(k, p)
<1>1. ~(k < h)
  OBVIOUS
<1>2. Round(h) < Round(k) \/ (Round(h) = Round(k) /\ SqPos(h) <= SqPos(k))
  <2>1. k < h <=> Round(k) < Round(h) \/ (Round(k) = Round(h) /\ SqPos(k) < SqPos(h))
    BY Sizes, QuotientsOrder DEF Round, SqPos
  <2>2. Round(h) \in Nat /\ Round(k) \in Nat /\ SqPos(h) \in Int /\ SqPos(k) \in Int
    BY Places, Sizes
  <2>. QED  BY <1>1, <2>1, <2>2
<1>. QED  BY <1>2, Places, Sizes DEF Turns

LEMMA SameTicket ==
  ASSUME NEW n \in Nat, NEW k \in Nat, Round(n) = Round(k), SqPos(n) = SqPos(k)
  PROVE  n = k
<1>1. /\ n < k <=> Round(n) < Round(k) \/ (Round(n) = Round(k) /\ SqPos(n) < SqPos(k))
      /\ k < n <=> Round(k) < Round(n) \/ (Round(k) = Round(n) /\ SqPos(k) < SqPos(n))
  BY Sizes, QuotientsOrder DEF Round, SqPos
<1>2. Round(n) \in Nat /\ SqPos(n) \in Int
  BY Places, Sizes
<1>3. ~(n < k) /\ ~(k < n)
  BY <1>1, <1>2
<1>. QED  BY <1>3

LEMMA IndexIs ==
  ASSUME NEW a \in Nat, NEW x \in Nat, a <= x, x < a + SqSize
  PROVE  Index(a, SqPos(x)) = x
<1> DEFINE k == x - a
<1>1. k \in 0 .. SqSize - 1 /\ x = a + k
  BY Sizes
<1> HIDE DEF k
<1>2. SqPos(a + k) = IF SqPos(a) + k < SqSize THEN SqPos(a) + k ELSE SqPos(a) + k - SqSize
  BY <1>1, Sizes, Shift DEF SqPos
<1>. QED  BY <1>1, <1>2, Places, Sizes DEF Index

LEMMA IndexIn ==
  ASSUME NEW a \in Nat, NEW p \in 0 .. SqSize - 1
  PROVE  /\ Index(a, p) \in Nat /\ a <= Index(a, p) /\ Index(a, p) < a + SqSize
         /\ SqPos(Index(a, p)) = p
<1> DEFINE k == IF p >= SqPos(a) THEN p - SqPos(a) ELSE p - SqPos(a) + SqSize
<1>1. k \in 0 .. SqSize - 1 /\ SqPos(a) \in 0 .. SqSize - 1
  BY Places, Sizes
<1>2. SqPos(a + k) = IF SqPos(a) + k < SqSize THEN SqPos(a) + k ELSE SqPos(a) + k - SqSize
  BY <1>1, Sizes, Shift DEF SqPos
<1>3. SqPos(a + k) = p
  BY <1>1, <1>2, Sizes
<1>. QED  BY <1>1, <1>3, Sizes DEF Index

\* Places in a window of one round are different.
LEMMA SamePlace ==
  ASSUME NEW a \in Nat, NEW x \in Nat, NEW y \in Nat, a <= x, x < a + SqSize,
         a <= y, y < a + SqSize, SqPos(x) = SqPos(y)
  PROVE  x = y
BY IndexIs

LEMMA NextPlace ==
  ASSUME NEW n \in Nat  PROVE SqPos(SqPos(n) + 1) = SqPos(n + 1)
<1>1. SqPos(n) \in 0 .. SqSize - 1 /\ SqPos(n) \in Nat
  BY Places, Sizes
<1>2. SqPos(SqPos(n)) = SqPos(n)
  BY <1>1, Sizes, SmallRemainder DEF SqPos
<1>. QED  BY <1>1, <1>2, NextSqPlace

\* The steps from one place to another are the difference of the numbers.
LEMMA Distance ==
  ASSUME NEW x \in Nat, NEW y \in Nat, y <= x, x < y + SqSize
  PROVE  (SqPos(x) - SqPos(y)) % SqSize = x - y
<1> DEFINE k == x - y
           r == SqPos(y)
<1>1. k \in 0 .. SqSize - 1 /\ x = y + k /\ r \in 0 .. SqSize - 1
  BY Sizes, Places
<1>2. SqPos(x) = IF r + k < SqSize THEN r + k ELSE r + k - SqSize
  BY <1>1, Sizes, Shift DEF SqPos
<1> HIDE DEF k, r
<1>3. CASE r + k < SqSize
  <2>1. k % SqSize = k
    BY <1>1, Sizes, SmallRemainder
  <2>2. SqPos(x) - r = k
    BY <1>1, <1>2, <1>3
  <2>. QED  BY <1>1, <2>1, <2>2 DEF r, k
<1>4. CASE ~(r + k < SqSize)
  <2> DEFINE z == k - SqSize
  <2>1. SqPos(x) - r = z /\ z \in Int /\ z < 0 /\ z >= -SqSize
    BY <1>1, <1>2, <1>4, Sizes
  <2>2. z % SqSize = k
    <3>1. /\ z \in Int /\ SqSize \in Nat \ {0}
          /\ z = SqSize * (z \div SqSize) + (z % SqSize)
          /\ z % SqSize \in 0 .. SqSize - 1 /\ z \div SqSize \in Int
      BY <2>1, Sizes
    <3> HIDE DEF z
    <3> DEFINE q == z \div SqSize
    <3>2. z = SqSize * q + (z % SqSize) /\ q \in Int
      BY <3>1
    <3> HIDE DEF q
    <3>3. q = -1
      <4>1. CASE q >= 0
        <5>1. SqSize * q >= 0
          BY <3>1, <3>2, <4>1, SMTT(30)
        <5>. QED  BY <2>1, <3>1, <3>2, <5>1
      <4>2. CASE q <= -2
        <5>1. SqSize * q <= -SqSize - SqSize
          BY <3>1, <3>2, <4>2, SMTT(30)
        <5>. QED  BY <2>1, <3>1, <3>2, <5>1
      <4>. QED  BY <3>2, <4>1, <4>2
    <3>4. z % SqSize = z + SqSize
      BY <3>1, <3>2, <3>3
    <3>. QED  BY <1>1, <3>1, <3>4, Sizes DEF z
  <2>. QED  BY <1>1, <2>1, <2>2 DEF r, k
<1>. QED  BY <1>3, <1>4

LEMMA SameCqPlace ==
  ASSUME NEW a \in Nat, NEW x \in Nat, NEW y \in Nat, a <= x, x < a + CqSize,
         a <= y, y < a + CqSize, CqPos(x) = CqPos(y)
  PROVE  x = y
<1>1. ASSUME NEW z \in Nat, a <= z, z < a + CqSize
      PROVE  z = a + (IF CqPos(z) >= CqPos(a) THEN CqPos(z) - CqPos(a)
                                              ELSE CqPos(z) - CqPos(a) + CqSize)
  <2> DEFINE k == z - a
  <2>1. k \in 0 .. CqSize - 1 /\ z = a + k
    BY <1>1, Sizes
  <2> HIDE DEF k
  <2>2. CqPos(a + k) = IF CqPos(a) + k < CqSize THEN CqPos(a) + k ELSE CqPos(a) + k - CqSize
    BY <2>1, Sizes, Shift DEF CqPos
  <2>. QED  BY <2>1, <2>2, Places, Sizes
<1>. QED  BY <1>1

\* Numbers a round apart.
LEMMA RoundLater ==
  ASSUME NEW n \in Nat
  PROVE  /\ SqPos(n + SqSize) = SqPos(n) /\ Round(n + SqSize) = Round(n) + 1
<1>1. Round(n) \in Nat /\ SqPos(n) \in 0 .. SqSize - 1 /\ n = Round(n) * SqSize + SqPos(n)
  BY Sizes, Division DEF Round, SqPos
<1> DEFINE r == Round(n)
           p == SqPos(n)
<1>2. r \in Nat /\ p \in 0 .. SqSize - 1 /\ n = r * SqSize + p
  BY <1>1
<1> HIDE DEF r, p
<1>3. n + SqSize = (r + 1) * SqSize + p
  BY <1>2, Sizes
<1>4. ((r + 1) * SqSize + p) \div SqSize = r + 1 /\ ((r + 1) * SqSize + p) % SqSize = p
  BY <1>2, Sizes, Quotient
<1>5. SqPos(n + SqSize) = p /\ Round(n + SqSize) = r + 1
  BY <1>3, <1>4 DEF SqPos, Round
<1>. QED  BY <1>5 DEF r, p

\* The next completion is of the same round, or the first of the next.
LEMMA NextCqPlace ==
  ASSUME NEW n \in Nat
  PROVE  IF CqPos(n) + 1 < CqSize
           THEN CqPos(n + 1) = CqPos(n) + 1 /\ Phase(n + 1) = Phase(n)
           ELSE CqPos(n + 1) = 0 /\ Phase(n + 1) = 1 - Phase(n)
<1>1. 1 \in 0 .. CqSize - 1 /\ CqPos(n) \in 0 .. CqSize - 1
  BY Sizes, Places
<1> DEFINE k == n \div CqSize
<1>2. /\ CqPos(n + 1) = IF CqPos(n) + 1 < CqSize THEN CqPos(n) + 1 ELSE CqPos(n) + 1 - CqSize
      /\ (n + 1) \div CqSize = IF CqPos(n) + 1 < CqSize THEN k ELSE k + 1
  BY <1>1, Sizes, Shift DEF CqPos
<1>3. k \in Nat
  BY Sizes, Division
<1>4. Phase(n) = 1 - (k % 2)
  BY DEF Phase
<1>5. CASE CqPos(n) + 1 < CqSize
  <2>1. (n + 1) \div CqSize = k
    BY <1>2, <1>5
  <2>2. Phase(n + 1) = 1 - (k % 2)
    BY <2>1 DEF Phase
  <2>. QED  BY <1>2, <1>4, <1>5, <2>2
<1>6. CASE ~(CqPos(n) + 1 < CqSize)
  <2>1. (n + 1) \div CqSize = k + 1
    BY <1>2, <1>6
  <2>2. Phase(n + 1) = 1 - ((k + 1) % 2)
    BY <2>1 DEF Phase
  <2> HIDE DEF k
  <2>3. (k + 1) % 2 = 1 - (k % 2)
    BY <1>3
  <2>4. k % 2 \in {0, 1}
    BY <1>3
  <2>5. Phase(n + 1) = 1 - Phase(n)
    BY <1>4, <2>2, <2>3, <2>4
  <2>6. CqPos(n + 1) = 0
    BY <1>1, <1>2, <1>6, Sizes
  <2>. QED  BY <1>6, <2>5, <2>6
<1>. QED  BY <1>5, <1>6

LEMMA PhaseType ==
  ASSUME NEW n \in Nat  PROVE Phase(n) \in {0, 1}
<1>1. n \div CqSize \in Nat
  BY Sizes, Division
<1>2. \A k \in Nat : 1 - (k % 2) \in {0, 1}
  OBVIOUS
<1>. QED  BY <1>1, <1>2 DEF Phase

\* An entry whose phase is that of its reader's round was posted last in that round,
\* if it was posted over once at the most since the reader came to it.
LEMMA InPhase ==
  ASSUME NEW n \in Nat, NEW m \in Nat, m < n + CqSize - 1, n <= m + 2 * CqSize,
         Phase(m) = IF CqPos(m) < CqPos(n) THEN Phase(n) ELSE 1 - Phase(n)
  PROVE  n - CqSize <= m /\ m < n
<1> DEFINE C == CqSize
           k == n \div CqSize
           p == CqPos(n)
           j == m \div CqSize
           q == CqPos(m)
<1>1. /\ C \in Nat /\ C >= 2
      /\ k \in Nat /\ p \in 0 .. C - 1 /\ n = k * C + p
      /\ j \in Nat /\ q \in 0 .. C - 1 /\ m = j * C + q
  BY Sizes, Division DEF CqPos
<1>2. Phase(n) = 1 - (k % 2) /\ Phase(m) = 1 - (j % 2)
  BY DEF Phase
<1>3. 1 - (j % 2) = IF q < p THEN 1 - (k % 2) ELSE k % 2
  <2>1. k % 2 \in Int
    BY <1>1
  <2>. QED  BY <1>2, <2>1
<1> HIDE DEF C, k, p, j, q
<1>4. /\ j % 2 = k % 2 <=> q < p
      /\ j # k + 1 \/ j % 2 # k % 2
      /\ k # j + 1 \/ j % 2 # k % 2
      /\ j # k \/ j % 2 = k % 2
      /\ k # j + 2 \/ j % 2 = k % 2
  BY <1>1, <1>3
<1>5. m < n + C - 1 /\ n <= m + 2 * C
  BY DEF C
<1>6. (k - j) * C = k * C - j * C /\ k * C \in Int /\ j * C \in Int
  BY <1>1
<1>7. k - j >= -1
  <2>1. SUFFICES ASSUME k - j <= -2 PROVE FALSE
    BY <1>1
  <2>2. (k - j) * C <= -C - C
    BY <1>1, <2>1, SMTT(30)
  <2>. QED  BY <1>1, <1>5, <1>6, <2>2
<1>8. k - j <= 2
  <2>1. SUFFICES ASSUME k - j >= 3 PROVE FALSE
    BY <1>1
  <2>2. (k - j) * C >= C + C + C
    BY <1>1, <2>1, SMTT(30)
  <2>. QED  BY <1>1, <1>5, <1>6, <2>2
<1>9. CASE k = j
  <2>1. q < p
    BY <1>4, <1>9
  <2>. QED  BY <1>1, <1>9, <2>1 DEF C
<1>10. CASE k = j + 1
  <2>1. ~(q < p)
    BY <1>4, <1>10
  <2>2. (k - j) * C = C
    BY <1>1, <1>10
  <2>. QED  BY <1>1, <1>6, <2>1, <2>2 DEF C
<1>11. CASE k = j - 1
  <2>1. ~(q < p)
    BY <1>1, <1>4, <1>11
  <2>2. (k - j) * C = -C
    BY <1>1, <1>11
  <2>. QED  BY <1>1, <1>5, <1>6, <2>1, <2>2
<1>12. CASE k = j + 2
  <2>1. q < p
    BY <1>4, <1>12
  <2>2. (k - j) * C = C + C
    BY <1>1, <1>12
  <2>. QED  BY <1>1, <1>5, <1>6, <2>1, <2>2
<1>. QED  BY <1>1, <1>7, <1>8, <1>9, <1>10, <1>11, <1>12
------------------------------------------------------------------------------
(***************************************************************************)
(* Types.                                                                   *)
(***************************************************************************)

\* TryQLock, for the queue pair: the second command, with the id of the first.
Again(t) ==
  /\ pc[t] = "putcid"
  /\ Goto(t, "ticket")
  /\ UNCHANGED <<sqVars, cqVars, ssdVars, idVars, moveVars, pollVars>>

QNext == (\E t \in Threads : Step(t) \/ Again(t)) \/ Ssd \/ UNCHANGED vars

\* The types of each of the parts.
SqTypes ==
  /\ in_ticket \in Nat /\ sq_tail \in Nat /\ sq_head \in Nat
  /\ tickets \in [0 .. SqSize - 1 -> Nat]
  /\ tail_mark \in [0 .. SqSize - 1 -> BOOLEAN]
  /\ tail_lock \in Threads \cup {Nobody}
  /\ sq_db \in 0 .. SqSize - 1
  /\ cid_lock \in SUBSET Cids

CqTypes ==
  /\ cq_head \in Nat
  /\ head_mark \in [0 .. CqSize - 1 -> BOOLEAN]
  /\ head_lock \in Threads \cup {Nobody}
  /\ pos_locks \in [0 .. CqSize - 1 -> BOOLEAN]
  /\ cq_db \in 0 .. CqSize - 1

MemTypes ==
  /\ sq_mem \in [0 .. SqSize - 1 -> Commands]
  /\ cq_mem \in [0 .. CqSize - 1 -> [cid : Cids \cup {NoCid}, phase : {0, 1}, sqhd : 0 .. SqSize - 1]]
  /\ fetched \in 0 .. SqSize - 1
  /\ working \in SUBSET [place : 0 .. SqSize - 1, cmd : Commands]
  /\ posted \in Nat
  /\ served \in [Threads -> Nat]

ThreadTypes ==
  /\ cid \in [Threads -> Cids \cup {NoCid}]
  /\ ticket \in [Threads -> Nat]
  /\ moved \in [Threads -> Nat]
  /\ freed \in [Threads -> Nat]
  /\ new_sq_head \in [Threads -> 0 .. SqSize - 1]
  /\ head \in [Threads -> Nat]
  /\ loc \in [Threads -> Nat]
  /\ todo \in [Threads -> Nat] /\ \A t \in Threads : todo[t] <= MaxOps[t]

LEMMA TypeParts ==
  /\ TypeOK <=> SqTypes /\ CqTypes /\ MemTypes /\ ThreadTypes /\ pc \in [Threads -> Labels]
  /\ TypeOK' <=> SqTypes' /\ CqTypes' /\ MemTypes' /\ ThreadTypes' /\ pc' \in [Threads -> Labels]
BY Zenon DEF TypeOK, SqTypes, CqTypes, MemTypes, ThreadTypes

LEMMA InitTypeOK == Init => TypeOK
<1> SUFFICES ASSUME Init PROVE TypeOK
  OBVIOUS
<1> USE Sizes, QueueAssumption
<1>1. /\ in_ticket \in Nat /\ sq_tail \in Nat /\ sq_head \in Nat /\ cq_head \in Nat /\ posted \in Nat
      /\ tickets \in [0 .. SqSize - 1 -> Nat]
      /\ tail_mark \in [0 .. SqSize - 1 -> BOOLEAN]
      /\ tail_lock \in Threads \cup {Nobody} /\ head_lock \in Threads \cup {Nobody}
      /\ sq_db \in 0 .. SqSize - 1 /\ cq_db \in 0 .. CqSize - 1 /\ fetched \in 0 .. SqSize - 1
  BY DEF Init
<1>2. sq_mem \in [0 .. SqSize - 1 -> Commands]
  BY DEF Init, Commands
<1>3. /\ cid_lock \in SUBSET Cids /\ working \in SUBSET [place : 0 .. SqSize - 1, cmd : Commands]
      /\ head_mark \in [0 .. CqSize - 1 -> BOOLEAN] /\ pos_locks \in [0 .. CqSize - 1 -> BOOLEAN]
  BY DEF Init
<1>4. cq_mem \in [0 .. CqSize - 1 -> [cid : Cids \cup {NoCid}, phase : {0, 1}, sqhd : 0 .. SqSize - 1]]
  <2>1. cq_mem \in [0 .. CqSize - 1 -> [cid : Stale, phase : {0}, sqhd : {0}]]
    BY DEF Init
  <2>2. 0 \in 0 .. SqSize - 1
    OBVIOUS
  <2>3. [cid : Stale, phase : {0}, sqhd : {0}]
          \subseteq [cid : Cids \cup {NoCid}, phase : {0, 1}, sqhd : 0 .. SqSize - 1]
    BY <2>2
  <2>. QED  BY <2>1, <2>3
<1>5. /\ served \in [Threads -> Nat] /\ pc \in [Threads -> Labels]
      /\ cid \in [Threads -> Cids \cup {NoCid}] /\ ticket \in [Threads -> Nat]
      /\ moved \in [Threads -> Nat] /\ freed \in [Threads -> Nat]
      /\ new_sq_head \in [Threads -> 0 .. SqSize - 1]
      /\ head \in [Threads -> Nat] /\ loc \in [Threads -> Nat]
  BY DEF Init, Labels
<1>6. todo \in [Threads -> Nat] /\ \A t \in Threads : todo[t] <= MaxOps[t]
  BY DEF Init
<1>. QED  BY <1>1, <1>2, <1>3, <1>4, <1>5, <1>6 DEF TypeOK

LEMMA CounterTypes ==
  ASSUME SqTypes, CqTypes, ThreadTypes, NEW t \in Threads
  PROVE  /\ sq_tail \in Nat /\ sq_head \in Nat /\ cq_head \in Nat
         /\ moved[t] \in Nat /\ freed[t] \in Nat
<1>1. sq_tail \in Nat /\ sq_head \in Nat
  BY Zenon DEF SqTypes
<1>2. cq_head \in Nat
  BY Zenon DEF CqTypes
<1>3. moved \in [Threads -> Nat] /\ freed \in [Threads -> Nat]
  BY Zenon DEF ThreadTypes
<1>4. moved[t] \in Nat /\ freed[t] \in Nat
  BY <1>3
<1>. QED  BY <1>1, <1>2, <1>4

LEMMA GotoType ==
  ASSUME NEW t \in Threads, NEW l \in Labels, pc \in [Threads -> Labels], Goto(t, l)
  PROVE  pc' \in [Threads -> Labels]
BY DEF Goto

\* Counting one more.
LEMMA OneMore ==
  ASSUME NEW S, NEW f \in [S -> Nat], NEW x \in S  PROVE [f EXCEPT ![x] = @ + 1] \in [S -> Nat]
OBVIOUS

LEMMA TypeStep == TypeOK /\ QNext => TypeOK'
<1> SUFFICES ASSUME TypeOK, QNext PROVE TypeOK'
  OBVIOUS
<1>0. SqTypes /\ CqTypes /\ MemTypes /\ ThreadTypes /\ pc \in [Threads -> Labels]
  BY TypeParts
<1>1. ASSUME NEW t \in Threads, NEW c \in Cids, GetCid(t, c) PROVE TypeOK'
  <2>1. pc' \in [Threads -> Labels]
    BY <1>1, <1>0, GotoType DEF GetCid, Labels
  <2>2. cid_lock' \in SUBSET Cids /\ cid' \in [Threads -> Cids \cup {NoCid}]
    BY <1>1, <1>0 DEF GetCid, SqTypes, ThreadTypes
  <2>3. todo' \in [Threads -> Nat] /\ \A u \in Threads : todo'[u] <= MaxOps[u]
    BY <1>1, QueueAssumption, <1>0 DEF GetCid, ThreadTypes
  <2>. QED
    BY TypeParts, <1>1, <2>1, <2>2, <2>3
    DEF GetCid, SqTypes, CqTypes, MemTypes, ThreadTypes,
        sqVars, cqVars, ssdVars, idVars, moveVars, pollVars
<1>2. ASSUME NEW t \in Threads, TakeTicket(t) PROVE TypeOK'
  <2>1. pc' \in [Threads -> Labels]
    BY <1>2, <1>0, GotoType DEF TakeTicket, Labels
  <2>2. in_ticket' \in Nat /\ ticket' \in [Threads -> Nat]
    BY <1>2, <1>0 DEF TakeTicket, SqTypes, ThreadTypes
  <2>. QED
    BY TypeParts, <1>2, <2>1, <2>2
    DEF TakeTicket, SqTypes, CqTypes, MemTypes, ThreadTypes,
        sqVars, cqVars, ssdVars, idVars, moveVars, pollVars
<1>3. ASSUME NEW t \in Threads, AwaitTurn(t) \/ LookTail(t) \/ LookHead(t) \/ AwaitHead(t) \/ Again(t) PROVE TypeOK'
  <2>1. pc' \in [Threads -> Labels]
    BY <1>3, <1>0, GotoType DEF AwaitTurn, LookTail, LookHead, AwaitHead, Again, Labels
  <2>. QED
    BY TypeParts, <1>3, <2>1
    DEF AwaitTurn, LookTail, LookHead, AwaitHead, Again, SqTypes, CqTypes, MemTypes, ThreadTypes,
        sqVars, cqVars, ssdVars, idVars, moveVars, pollVars
<1>4. ASSUME NEW t \in Threads, Copy(t) PROVE TypeOK'
  <2>1. pc' \in [Threads -> Labels]
    BY <1>4, <1>0, GotoType DEF Copy, Labels
  <2>2. sq_mem' \in [0 .. SqSize - 1 -> Commands]
    BY <1>4, <1>0 DEF Copy, MemTypes, ThreadTypes, Commands
  <2>. QED
    BY TypeParts, <1>4, <2>1, <2>2
    DEF Copy, SqTypes, CqTypes, MemTypes, ThreadTypes,
        sqVars, cqVars, ssdVars, idVars, moveVars, pollVars
<1>5. ASSUME NEW t \in Threads, MarkTail(t) PROVE TypeOK'
  <2>1. pc' \in [Threads -> Labels]
    BY <1>5, <1>0, GotoType DEF MarkTail, Labels
  <2>2. tail_mark' \in [0 .. SqSize - 1 -> BOOLEAN]
    BY <1>5, <1>0 DEF MarkTail, SqTypes, ThreadTypes
  <2>. QED
    BY TypeParts, <1>5, <2>1, <2>2
    DEF MarkTail, SqTypes, CqTypes, MemTypes, ThreadTypes,
        sqVars, cqVars, ssdVars, idVars, moveVars, pollVars
<1>6. ASSUME NEW t \in Threads, TryTail(t) \/ UnlockTail(t) PROVE TypeOK'
  <2>1. pc' \in [Threads -> Labels]
    BY <1>6, <1>0, GotoType DEF TryTail, UnlockTail, Labels
  <2>2. tail_lock' \in Threads \cup {Nobody}
    BY <1>6, <1>0 DEF TryTail, UnlockTail, SqTypes
  <2>. QED
    BY TypeParts, <1>6, <2>1, <2>2
    DEF TryTail, UnlockTail, SqTypes, CqTypes, MemTypes, ThreadTypes,
        sqVars, cqVars, ssdVars, idVars, moveVars, pollVars
<1>7. ASSUME NEW t \in Threads, MoveTail(t) PROVE TypeOK'
  <2>1. pc' \in [Threads -> Labels]
    BY <1>7, <1>0, GotoType DEF MoveTail, Labels
  <2>2. tail_mark' \in [0 .. SqSize - 1 -> BOOLEAN]
    BY <1>7, <1>0 DEF MoveTail, SqTypes
  <2>3. moved' \in [Threads -> Nat]
    BY <1>7, <1>0, OneMore DEF MoveTail, ThreadTypes
  <2>. QED
    BY TypeParts, <1>7, <2>1, <2>2, <2>3
    DEF MoveTail, SqTypes, CqTypes, MemTypes, ThreadTypes,
        sqVars, cqVars, ssdVars, idVars, moveVars, pollVars
<1>8. ASSUME NEW t \in Threads, RingTail(t) PROVE TypeOK'
  <2>1. pc' \in [Threads -> Labels]
    BY <1>8, <1>0, GotoType DEF RingTail, Labels
  <2>2. sq_tail + moved[t] \in Nat
    BY <1>0, CounterTypes
  <2>3. sq_db' \in 0 .. SqSize - 1
    BY <1>8, <2>2, Places DEF RingTail
  <2>. QED
    BY TypeParts, <1>8, <2>1, <2>3
    DEF RingTail, SqTypes, CqTypes, MemTypes, ThreadTypes,
        sqVars, cqVars, ssdVars, idVars, moveVars, pollVars
<1>9. ASSUME NEW t \in Threads, StoreTail(t) PROVE TypeOK'
  <2>1. pc' \in [Threads -> Labels]
    BY <1>9, <1>0, GotoType DEF StoreTail, Labels
  <2>2. sq_tail' \in Nat /\ moved' \in [Threads -> Nat]
    BY <1>9, <1>0 DEF StoreTail, SqTypes, ThreadTypes
  <2>. QED
    BY TypeParts, <1>9, <2>1, <2>2
    DEF StoreTail, SqTypes, CqTypes, MemTypes, ThreadTypes,
        sqVars, cqVars, ssdVars, idVars, moveVars, pollVars
<1>10. ASSUME NEW t \in Threads, Leave(t) PROVE TypeOK'
  <2>1. pc' \in [Threads -> Labels]
    BY <1>10, <1>0, GotoType DEF Leave, Labels
  <2>2. tickets' \in [0 .. SqSize - 1 -> Nat]
    <3>1. SqPos(ticket[t]) \in 0 .. SqSize - 1
      BY <1>0, Places DEF ThreadTypes
    <3>. QED  BY <1>10, <1>0, <3>1, OneMore DEF Leave, SqTypes
  <2>3. ticket' \in [Threads -> Nat]
    BY <1>10, <1>0 DEF Leave, ThreadTypes
  <2>. QED
    BY TypeParts, <1>10, <2>1, <2>2, <2>3
    DEF Leave, SqTypes, CqTypes, MemTypes, ThreadTypes,
        sqVars, cqVars, ssdVars, idVars, moveVars, pollVars
<1>11. ASSUME NEW t \in Threads, Poll(t) \/ Entry(t) PROVE TypeOK'
  <2>1. pc' \in [Threads -> Labels]
    BY <1>11, <1>0, GotoType DEF Poll, Entry, Labels
  <2>2. head' \in [Threads -> Nat]
    BY <1>11, <1>0 DEF Poll, Entry, CqTypes, ThreadTypes
  <2>3. loc' \in [Threads -> Nat]
    <3>1. CASE Poll(t)
      BY <1>0, <3>1 DEF Poll, CqTypes, ThreadTypes
    <3>2. CASE Entry(t)
      BY <1>0, <3>2, OneMore DEF Entry, ThreadTypes
    <3>. QED  BY <1>11, <3>1, <3>2
  <2>. QED
    BY TypeParts, <1>11, <2>1, <2>2, <2>3
    DEF Poll, Entry, SqTypes, CqTypes, MemTypes, ThreadTypes,
        sqVars, cqVars, ssdVars, idVars, moveVars, pollVars
<1>12. ASSUME NEW t \in Threads, PosLock(t) PROVE TypeOK'
  <2>1. pc' \in [Threads -> Labels]
    BY <1>12, <1>0, GotoType DEF PosLock, Labels
  <2>2. pos_locks' \in [0 .. CqSize - 1 -> BOOLEAN]
    BY <1>12, <1>0 DEF PosLock, CqTypes
  <2>. QED
    BY TypeParts, <1>12, <2>1, <2>2
    DEF PosLock, SqTypes, CqTypes, MemTypes, ThreadTypes,
        sqVars, cqVars, ssdVars, idVars, moveVars, pollVars
<1>13. ASSUME NEW t \in Threads, MarkHead(t) PROVE TypeOK'
  <2>1. pc' \in [Threads -> Labels]
    BY <1>13, <1>0, GotoType DEF MarkHead, Labels
  <2>2. head_mark' \in [0 .. CqSize - 1 -> BOOLEAN]
    BY <1>13, <1>0 DEF MarkHead, CqTypes, ThreadTypes
  <2>. QED
    BY TypeParts, <1>13, <2>1, <2>2
    DEF MarkHead, SqTypes, CqTypes, MemTypes, ThreadTypes,
        sqVars, cqVars, ssdVars, idVars, moveVars, pollVars
<1>14. ASSUME NEW t \in Threads, TryHead(t) \/ UnlockHead(t) PROVE TypeOK'
  <2>1. pc' \in [Threads -> Labels]
    BY <1>14, <1>0, GotoType DEF TryHead, UnlockHead, Labels
  <2>2. head_lock' \in Threads \cup {Nobody}
    BY <1>14, <1>0 DEF TryHead, UnlockHead, CqTypes
  <2>. QED
    BY TypeParts, <1>14, <2>1, <2>2
    DEF TryHead, UnlockHead, SqTypes, CqTypes, MemTypes, ThreadTypes,
        sqVars, cqVars, ssdVars, idVars, moveVars, pollVars
<1>15. ASSUME NEW t \in Threads, MoveHead(t) PROVE TypeOK'
  <2>1. pc' \in [Threads -> Labels]
    BY <1>15, <1>0, GotoType DEF MoveHead, Labels
  <2>2. head_mark' \in [0 .. CqSize - 1 -> BOOLEAN]
    BY <1>15, <1>0 DEF MoveHead, CqTypes
  <2>3. moved' \in [Threads -> Nat]
    BY <1>15, <1>0, OneMore DEF MoveHead, ThreadTypes
  <2>. QED
    BY TypeParts, <1>15, <2>1, <2>2, <2>3
    DEF MoveHead, SqTypes, CqTypes, MemTypes, ThreadTypes,
        sqVars, cqVars, ssdVars, idVars, moveVars, pollVars
<1>16. ASSUME NEW t \in Threads, ReadSqHead(t) PROVE TypeOK'
  <2>1. pc' \in [Threads -> Labels]
    BY <1>16, <1>0, GotoType DEF ReadSqHead, Labels
  <2>2. CqPos(cq_head + moved[t] - 1) \in 0 .. CqSize - 1
    <3>1. cq_head + moved[t] - 1 \in Int
      BY <1>0, CounterTypes
    <3>2. CqSize \in Nat \ {0}
      BY Sizes
    <3>. QED  BY <3>1, <3>2 DEF CqPos
  <2>3. new_sq_head' \in [Threads -> 0 .. SqSize - 1]
    BY <1>16, <2>2, <1>0 DEF ReadSqHead, MemTypes, ThreadTypes
  <2>. QED
    BY TypeParts, <1>16, <2>1, <2>2, <2>3
    DEF ReadSqHead, SqTypes, CqTypes, MemTypes, ThreadTypes,
        sqVars, cqVars, ssdVars, idVars, moveVars, pollVars
<1>17. ASSUME NEW t \in Threads, Free(t) PROVE TypeOK'
  <2>1. pc' \in [Threads -> Labels]
    BY <1>17, <1>0, GotoType DEF Free, Labels
  <2>2. tickets' \in [0 .. SqSize - 1 -> Nat]
    <3>1. sq_head + freed[t] \in Nat
      BY <1>0, CounterTypes
    <3>2. SqPos(sq_head + freed[t]) \in 0 .. SqSize - 1
      BY <3>1, Places
    <3>. QED  BY <1>17, <1>0, <3>2, OneMore DEF Free, SqTypes
  <2>3. freed' \in [Threads -> Nat]
    BY <1>17, <1>0, OneMore DEF Free, ThreadTypes
  <2>. QED
    BY TypeParts, <1>17, <2>1, <2>2, <2>3
    DEF Free, SqTypes, CqTypes, MemTypes, ThreadTypes,
        sqVars, cqVars, ssdVars, idVars, moveVars, pollVars
<1>18. ASSUME NEW t \in Threads, MoveSqHead(t) PROVE TypeOK'
  <2>1. pc' \in [Threads -> Labels]
    BY <1>18, <1>0, GotoType DEF MoveSqHead, Labels
  <2>2. sq_head' \in Nat
    BY <1>18, <1>0, CounterTypes DEF MoveSqHead
  <2>4. freed' \in [Threads -> Nat]
    BY <1>18, <1>0 DEF MoveSqHead, ThreadTypes
  <2>3. new_sq_head' \in [Threads -> 0 .. SqSize - 1]
    <3>1. 0 \in 0 .. SqSize - 1
      BY Sizes
    <3>. QED  BY <1>18, <1>0, <3>1 DEF MoveSqHead, ThreadTypes
  <2>. QED
    BY TypeParts, <1>18, <2>1, <2>2, <2>3, <2>4
    DEF MoveSqHead, SqTypes, CqTypes, MemTypes, ThreadTypes,
        sqVars, cqVars, ssdVars, idVars, moveVars, pollVars
<1>19. ASSUME NEW t \in Threads, RingHead(t) PROVE TypeOK'
  <2>1. pc' \in [Threads -> Labels]
    BY <1>19, <1>0, GotoType DEF RingHead, Labels
  <2>2. cq_head + moved[t] \in Nat
    BY <1>0, CounterTypes
  <2>3. cq_db' \in 0 .. CqSize - 1
    BY <1>19, <2>2, Places DEF RingHead
  <2>. QED
    BY TypeParts, <1>19, <2>1, <2>3
    DEF RingHead, SqTypes, CqTypes, MemTypes, ThreadTypes,
        sqVars, cqVars, ssdVars, idVars, moveVars, pollVars
<1>20. ASSUME NEW t \in Threads, StoreHead(t) PROVE TypeOK'
  <2>1. pc' \in [Threads -> Labels]
    BY <1>20, <1>0, GotoType DEF StoreHead, Labels
  <2>2. cq_head' \in Nat /\ moved' \in [Threads -> Nat]
    BY <1>20, <1>0 DEF StoreHead, CqTypes, ThreadTypes
  <2>. QED
    BY TypeParts, <1>20, <2>1, <2>2
    DEF StoreHead, SqTypes, CqTypes, MemTypes, ThreadTypes,
        sqVars, cqVars, ssdVars, idVars, moveVars, pollVars
<1>21. ASSUME NEW t \in Threads, PosFree(t) PROVE TypeOK'
  <2>1. pc' \in [Threads -> Labels]
    BY <1>21, <1>0, GotoType DEF PosFree, Labels
  <2>2. /\ pos_locks' \in [0 .. CqSize - 1 -> BOOLEAN]
        /\ head' \in [Threads -> Nat] /\ loc' \in [Threads -> Nat]
    BY <1>21, <1>0 DEF PosFree, CqTypes, ThreadTypes
  <2>. QED
    BY TypeParts, <1>21, <2>1, <2>2
    DEF PosFree, SqTypes, CqTypes, MemTypes, ThreadTypes,
        sqVars, cqVars, ssdVars, idVars, moveVars, pollVars
<1>22. ASSUME NEW t \in Threads, PutCid(t) PROVE TypeOK'
  <2>1. pc' \in [Threads -> Labels]
    BY <1>22, <1>0, GotoType DEF PutCid, Labels
  <2>2. cid_lock' \in SUBSET Cids /\ cid' \in [Threads -> Cids \cup {NoCid}]
    BY <1>22, <1>0 DEF PutCid, SqTypes, ThreadTypes
  <2>. QED
    BY TypeParts, <1>22, <2>1, <2>2
    DEF PutCid, SqTypes, CqTypes, MemTypes, ThreadTypes,
        sqVars, cqVars, ssdVars, idVars, moveVars, pollVars
<1>30. ASSUME Fetch PROVE TypeOK'
  <2>1. fetched' \in 0 .. SqSize - 1
    BY <1>30, Places, <1>0 DEF Fetch, MemTypes
  <2>2. working' \in SUBSET [place : 0 .. SqSize - 1, cmd : Commands]
    BY <1>30, <1>0 DEF Fetch, MemTypes
  <2>. QED
    BY TypeParts, <1>30, <2>1, <2>2
    DEF Fetch, SqTypes, CqTypes, MemTypes, ThreadTypes,
        sqVars, cqVars, ssdVars, idVars, moveVars, pollVars
<1>31. ASSUME NEW c \in working, Complete(c) PROVE TypeOK'
  <2>1. /\ c.cmd.cid \in Cids \cup {NoCid} /\ CqPos(posted) \in 0 .. CqSize - 1
        /\ Phase(posted) \in {0, 1} /\ fetched \in 0 .. SqSize - 1
    BY Places, PhaseType, <1>0 DEF MemTypes, ThreadTypes, Commands
  <2>2. cq_mem' \in [0 .. CqSize - 1 -> [cid : Cids \cup {NoCid}, phase : {0, 1}, sqhd : 0 .. SqSize - 1]]
    BY <1>31, <2>1, <1>0 DEF Complete, MemTypes, ThreadTypes
  <2>3. served' \in [Threads -> Nat] /\ posted' \in Nat
        /\ working' \in SUBSET [place : 0 .. SqSize - 1, cmd : Commands]
    BY <1>31, <1>0 DEF Complete, MemTypes
  <2>. QED
    BY TypeParts, <1>31, <2>2, <2>3
    DEF Complete, SqTypes, CqTypes, MemTypes, ThreadTypes,
        sqVars, cqVars, ssdVars, idVars, moveVars, pollVars
<1>32. CASE UNCHANGED vars
  BY <1>32, TypeParts DEF vars, SqTypes, CqTypes, MemTypes, ThreadTypes,
      sqVars, cqVars, ssdVars, idVars, moveVars, pollVars
<1>. QED
  BY <1>1, <1>2, <1>3, <1>4, <1>5, <1>6, <1>7, <1>8, <1>9, <1>10, <1>11, <1>12, <1>13, <1>14, <1>15, <1>16, <1>17, <1>18, <1>19, <1>20, <1>21, <1>22, <1>30, <1>31, <1>32
  DEF QNext, Step, EnqueueStep, DequeueStep, Ssd
------------------------------------------------------------------------------
(***************************************************************************)
(* Locks and ids.                                                           *)
(***************************************************************************)
LEMMA PcIs ==
  ASSUME TypeOK, NEW t \in Threads, NEW l, Goto(t, l)
  PROVE  \A u \in Threads : pc'[u] = IF u = t THEN l ELSE pc[u]
BY DEF TypeOK, Goto

\* A thread that holds no lock, and takes none.
LEMMA LockSame ==
  ASSUME TypeOK, LockInv, NEW t \in Threads,
         UNCHANGED <<tail_lock, head_lock, moved, freed>>,
         \A u \in Threads : u # t => pc'[u] = pc[u],
         pc[t] \notin TailMovers \cup HeadMovers, pc'[t] \notin TailMovers \cup HeadMovers
  PROVE  LockInv'
<1>1. \A u \in Threads : /\ pc'[u] \in TailMovers <=> pc[u] \in TailMovers
                         /\ pc'[u] \in HeadMovers <=> pc[u] \in HeadMovers
  OBVIOUS
<1>2. \A u \in Threads : tail_lock' = u <=> pc'[u] \in TailMovers
  BY <1>1 DEF LockInv
<1>3. \A u \in Threads : head_lock' = u <=> pc'[u] \in HeadMovers
  BY <1>1 DEF LockInv
<1>4. ASSUME NEW u \in Threads
      PROVE  /\ pc'[u] \notin {"movetail", "ring", "settail"} \cup (HeadMovers \ {"unhead"}) => moved'[u] = 0
             /\ pc'[u] \in HeadMovers \ {"movehead", "unhead"} => moved'[u] > 0
             /\ pc'[u] \notin {"free", "sqhead"} => freed'[u] = 0
  <2>1. CASE u # t
    BY <2>1 DEF LockInv
  <2>2. CASE u = t
    BY <2>2 DEF LockInv, TailMovers, HeadMovers
  <2>. QED  BY <2>1, <2>2
<1>. QED  BY <1>2, <1>3, <1>4 DEF LockInv

LEMMA LockStep ==
  ASSUME TypeOK, LockInv, QNext  PROVE LockInv'
<1>0. /\ tail_lock \in Threads \cup {Nobody} /\ head_lock \in Threads \cup {Nobody}
      /\ moved \in [Threads -> Nat] /\ freed \in [Threads -> Nat]
      /\ pc \in [Threads -> Labels] /\ Nobody \notin Threads
  BY QueueAssumption DEF TypeOK
<1>1. ASSUME NEW t \in Threads,
             \/ \E c \in Cids : GetCid(t, c)
             \/ TakeTicket(t) \/ AwaitTurn(t) \/ Copy(t) \/ MarkTail(t) \/ LookTail(t) \/ Leave(t)
             \/ Poll(t) \/ Entry(t) \/ PosLock(t) \/ MarkHead(t) \/ LookHead(t)
             \/ AwaitHead(t) \/ PosFree(t) \/ PutCid(t) \/ Again(t)
      PROVE  LockInv'
  <2>1. /\ UNCHANGED <<tail_lock, head_lock, moved, freed>>
        /\ \A u \in Threads : u # t => pc'[u] = pc[u]
        /\ pc[t] \notin TailMovers \cup HeadMovers
        /\ pc'[t] \notin TailMovers \cup HeadMovers
    BY <1>0, <1>1 DEF GetCid, TakeTicket, AwaitTurn, Copy, MarkTail, LookTail, Leave, Poll, Entry,
       PosLock, MarkHead, LookHead, AwaitHead, PosFree, PutCid, Again, Goto, TailMovers, HeadMovers,
       sqVars, cqVars, moveVars
  <2>. QED  BY <2>1, LockSame
<1>2. ASSUME NEW t \in Threads, TryTail(t) PROVE LockInv'
  <2>1. CASE tail_lock # Nobody
    <3>1. /\ UNCHANGED <<tail_lock, head_lock, moved, freed>>
          /\ \A u \in Threads : u # t => pc'[u] = pc[u]
          /\ pc[t] \notin TailMovers \cup HeadMovers
          /\ pc'[t] \notin TailMovers \cup HeadMovers
      BY <1>0, <1>2, <2>1 DEF TryTail, Goto, TailMovers, HeadMovers, cqVars, moveVars
    <3>. QED  BY <3>1, LockSame
  <2>2. CASE tail_lock = Nobody
    BY <1>0, <1>2, <2>2 DEF LockInv, TryTail, Goto, TailMovers, HeadMovers, cqVars, moveVars
  <2>. QED  BY <2>1, <2>2
<1>3. ASSUME NEW t \in Threads, MoveTail(t) PROVE LockInv'
  BY <1>0, <1>3 DEF LockInv, MoveTail, Goto, TailMovers, HeadMovers, cqVars
<1>4. ASSUME NEW t \in Threads, RingTail(t) \/ StoreTail(t) PROVE LockInv'
  BY <1>0, <1>4 DEF LockInv, RingTail, StoreTail, Goto, TailMovers, HeadMovers, cqVars, moveVars
<1>5. ASSUME NEW t \in Threads, UnlockTail(t) PROVE LockInv'
  BY <1>0, <1>5 DEF LockInv, UnlockTail, Goto, TailMovers, HeadMovers, cqVars, moveVars
<1>6. ASSUME NEW t \in Threads, TryHead(t) PROVE LockInv'
  <2>1. CASE head_lock # Nobody
    <3>1. /\ UNCHANGED <<tail_lock, head_lock, moved, freed>>
          /\ \A u \in Threads : u # t => pc'[u] = pc[u]
          /\ pc[t] \notin TailMovers \cup HeadMovers
          /\ pc'[t] \notin TailMovers \cup HeadMovers
      BY <1>0, <1>6, <2>1 DEF TryHead, Goto, TailMovers, HeadMovers, sqVars, moveVars
    <3>. QED  BY <3>1, LockSame
  <2>2. CASE head_lock = Nobody
    BY <1>0, <1>6, <2>2 DEF LockInv, TryHead, Goto, TailMovers, HeadMovers, sqVars, moveVars
  <2>. QED  BY <2>1, <2>2
<1>7. ASSUME NEW t \in Threads, MoveHead(t) PROVE LockInv'
  BY <1>0, <1>7 DEF LockInv, MoveHead, Goto, TailMovers, HeadMovers, sqVars
<1>8. ASSUME NEW t \in Threads, ReadSqHead(t) \/ Free(t) PROVE LockInv'
  BY <1>0, <1>8 DEF LockInv, ReadSqHead, Free, Goto, TailMovers, HeadMovers, sqVars, cqVars
<1>9. ASSUME NEW t \in Threads, MoveSqHead(t) \/ RingHead(t) PROVE LockInv'
  BY <1>0, <1>9 DEF LockInv, MoveSqHead, RingHead, Goto, TailMovers, HeadMovers, sqVars, cqVars, moveVars
<1>10. ASSUME NEW t \in Threads, StoreHead(t) \/ UnlockHead(t) PROVE LockInv'
  BY <1>0, <1>10 DEF LockInv, StoreHead, UnlockHead, Goto, TailMovers, HeadMovers, sqVars, moveVars
<1>11. CASE Ssd \/ UNCHANGED vars
  <2>1. UNCHANGED <<tail_lock, head_lock, moved, freed, pc>>
    BY <1>11 DEF Ssd, Fetch, Complete, vars, sqVars, cqVars, moveVars
  <2>. QED  BY <2>1 DEF LockInv
<1>. QED
  BY <1>1, <1>2, <1>3, <1>4, <1>5, <1>6, <1>7, <1>8, <1>9, <1>10, <1>11
  DEF QNext, Step, EnqueueStep, DequeueStep
------------------------------------------------------------------------------
(***************************************************************************)
(* What the steps do to the cursors of both queues.                         *)
(***************************************************************************)
TailCursors == <<MovedTail, RungTail, sq_tail>>
HeadCursors == <<FreedTo, MovedHead, KnownFrom, RungHead, sq_head, cq_head>>

LEMMA CursorTypes ==
  ASSUME TypeOK
  PROVE  /\ MovedTail \in Nat /\ RungTail \in Nat /\ sq_tail \in Nat
         /\ sq_tail <= RungTail /\ RungTail <= MovedTail
         /\ FreedTo \in Nat /\ sq_head \in Nat /\ sq_head <= FreedTo
         /\ MovedHead \in Nat /\ KnownFrom \in Nat /\ RungHead \in Nat /\ cq_head \in Nat
         /\ cq_head <= RungHead /\ RungHead <= KnownFrom /\ KnownFrom <= MovedHead
         /\ posted \in Nat /\ in_ticket \in Nat
<1>1. /\ sq_tail \in Nat /\ sq_head \in Nat /\ cq_head \in Nat /\ posted \in Nat /\ in_ticket \in Nat
      /\ tail_lock # Nobody => moved[tail_lock] \in Nat
      /\ head_lock # Nobody => moved[head_lock] \in Nat /\ freed[head_lock] \in Nat
  BY DEF TypeOK
<1>. QED  BY <1>1 DEF MovedTail, RungTail, FreedTo, MovedHead, KnownFrom, RungHead

LEMMA FetchedType ==
  ASSUME TypeOK
  PROVE  /\ Fetched \in Nat /\ sq_head <= Fetched /\ Fetched < sq_head + SqSize
         /\ SqPos(Fetched) = fetched
BY IndexIn DEF TypeOK, Fetched

LEMMA FetchedAtType ==
  ASSUME TypeOK, NEW m \in Nat
  PROVE  /\ FetchedAt(m) \in Nat /\ sq_head <= FetchedAt(m) /\ FetchedAt(m) < sq_head + SqSize
         /\ SqPos(FetchedAt(m)) = cq_mem[CqPos(m)].sqhd
<1>1. cq_mem[CqPos(m)].sqhd \in 0 .. SqSize - 1 /\ sq_head \in Nat
  BY Places DEF TypeOK
<1>. QED  BY <1>1, IndexIn DEF FetchedAt

\* The cursors at the tail are moved by the holder of tail_lock alone, ...
LEMMA TailKept ==
  ASSUME TypeOK, LockInv, NEW t \in Threads, pc[t] \notin TailMovers,
         UNCHANGED <<tail_lock, sq_tail>>,
         \A u \in Threads : u # t => pc'[u] = pc[u] /\ moved'[u] = moved[u]
  PROVE  UNCHANGED TailCursors
<1>1. tail_lock # t /\ (tail_lock # Nobody => tail_lock \in Threads)
  BY DEF TypeOK, LockInv
<1>. QED  BY <1>1 DEF TailCursors, MovedTail, RungTail

\* ... and those at the head by that of head_lock.
LEMMA HeadKept ==
  ASSUME TypeOK, LockInv, NEW t \in Threads, pc[t] \notin HeadMovers,
         UNCHANGED <<head_lock, sq_head, cq_head>>,
         \A u \in Threads : u # t => pc'[u] = pc[u] /\ moved'[u] = moved[u] /\ freed'[u] = freed[u]
  PROVE  UNCHANGED HeadCursors
<1>1. head_lock # t /\ (head_lock # Nobody => head_lock \in Threads)
  BY DEF TypeOK, LockInv
<1>. QED  BY <1>1 DEF HeadCursors, FreedTo, MovedHead, KnownFrom, RungHead

Users(t) ==
  \/ \E c \in Cids : GetCid(t, c)
  \/ TakeTicket(t) \/ AwaitTurn(t) \/ Copy(t) \/ MarkTail(t) \/ LookTail(t) \/ Leave(t)
  \/ Poll(t) \/ Entry(t) \/ PosLock(t) \/ MarkHead(t) \/ LookHead(t)
  \/ AwaitHead(t) \/ PosFree(t) \/ PutCid(t) \/ Again(t)

AtTail(t) == TryTail(t) \/ MoveTail(t) \/ RingTail(t) \/ StoreTail(t) \/ UnlockTail(t)

AtHead(t) ==
  \/ TryHead(t) \/ MoveHead(t) \/ ReadSqHead(t) \/ Free(t)
  \/ MoveSqHead(t) \/ RingHead(t) \/ StoreHead(t) \/ UnlockHead(t)

LEMMA StepsAre ==
  ASSUME QNext
  PROVE  \/ \E t \in Threads : Users(t) \/ AtTail(t) \/ AtHead(t)
         \/ Fetch
         \/ \E c \in working : Complete(c)
         \/ UNCHANGED vars
BY DEF QNext, Step, EnqueueStep, DequeueStep, Ssd, Users, AtTail, AtHead

LEMMA UsersLeaveCursors ==
  ASSUME TypeOK, LockInv, NEW t \in Threads, Users(t)
  PROVE  UNCHANGED <<TailCursors, HeadCursors>>
<1>1. /\ UNCHANGED <<tail_lock, head_lock, sq_tail, sq_head, cq_head, moved, freed>>
      /\ pc[t] \notin TailMovers \cup HeadMovers
      /\ \A u \in Threads : u # t => pc'[u] = pc[u]
  BY DEF TypeOK, Users, GetCid, TakeTicket, AwaitTurn, Copy, MarkTail, LookTail, Leave, Poll, Entry,
     PosLock, MarkHead, LookHead, AwaitHead, PosFree, PutCid, Again, Goto, TailMovers, HeadMovers,
     sqVars, cqVars, moveVars
<1>. QED  BY <1>1, TailKept, HeadKept

LEMMA AtTailLeavesHead ==
  ASSUME TypeOK, LockInv, NEW t \in Threads, AtTail(t)
  PROVE  UNCHANGED HeadCursors
<1>1. /\ UNCHANGED <<head_lock, sq_head, cq_head, freed>>
      /\ pc[t] \notin HeadMovers
      /\ \A u \in Threads : u # t => pc'[u] = pc[u] /\ moved'[u] = moved[u]
  BY DEF TypeOK, AtTail, TryTail, MoveTail, RingTail, StoreTail, UnlockTail, Goto, HeadMovers,
     sqVars, cqVars, moveVars
<1>. QED  BY <1>1, HeadKept

LEMMA AtHeadLeavesTail ==
  ASSUME TypeOK, LockInv, NEW t \in Threads, AtHead(t)
  PROVE  UNCHANGED TailCursors
<1>1. /\ UNCHANGED <<tail_lock, sq_tail>>
      /\ pc[t] \notin TailMovers
      /\ \A u \in Threads : u # t => pc'[u] = pc[u] /\ moved'[u] = moved[u]
  BY DEF TypeOK, AtHead, TryHead, MoveHead, ReadSqHead, Free, MoveSqHead, RingHead, StoreHead,
     UnlockHead, Goto, TailMovers, sqVars, cqVars, moveVars
<1>. QED  BY <1>1, TailKept

LEMMA SsdLeavesCursors ==
  ASSUME Fetch \/ (\E c \in working : Complete(c)) \/ UNCHANGED vars
  PROVE  UNCHANGED <<TailCursors, HeadCursors, pc>>
<1>1. UNCHANGED <<tail_lock, head_lock, sq_tail, sq_head, cq_head, moved, freed, pc>>
  BY DEF Fetch, Complete, vars, sqVars, cqVars, moveVars
<1>. QED  BY <1>1 DEF TailCursors, HeadCursors, MovedTail, RungTail, FreedTo, MovedHead, KnownFrom, RungHead


LEMMA TailCursorSteps ==
  ASSUME TypeOK, LockInv, NEW t \in Threads
  PROVE  /\ TryTail(t) \/ UnlockTail(t) => UNCHANGED TailCursors
         /\ MoveTail(t) =>
              /\ tail_lock = t /\ MovedTail = sq_tail + moved[t] /\ RungTail = sq_tail
              /\ UNCHANGED <<RungTail, sq_tail>>
              /\ MovedTail' = sq_tail + moved'[t]
         /\ RingTail(t) => MovedTail = sq_tail + moved[t] /\ RungTail' = MovedTail
                           /\ UNCHANGED <<MovedTail, sq_tail>>
         /\ StoreTail(t) => RungTail = MovedTail /\ sq_tail' = MovedTail
                            /\ UNCHANGED <<MovedTail, RungTail>>
<1>1. /\ tail_lock \in Threads \cup {Nobody} /\ Nobody \notin Threads /\ sq_tail \in Nat
      /\ moved \in [Threads -> Nat] /\ pc \in [Threads -> Labels]
  BY QueueAssumption DEF TypeOK
<1>2. TryTail(t) => UNCHANGED TailCursors
  <2>1. SUFFICES ASSUME TryTail(t) PROVE UNCHANGED TailCursors
    OBVIOUS
  <2>2. CASE tail_lock # Nobody
    BY <2>1, <2>2, <1>1, TailKept DEF TryTail, Goto, TailMovers, moveVars
  <2>3. CASE tail_lock = Nobody
    <3>1. moved[t] = 0 /\ sq_tail + 0 = sq_tail
      BY <1>1, <2>1 DEF LockInv, TryTail, HeadMovers
    <3>2. tail_lock' = t /\ pc'[t] = "movetail" /\ moved' = moved /\ sq_tail' = sq_tail
      BY <1>1, <2>1, <2>3 DEF TryTail, Goto, moveVars
    <3>. QED  BY <1>1, <2>3, <3>1, <3>2 DEF TailCursors, MovedTail, RungTail
  <2>. QED  BY <2>2, <2>3
<1>3. UnlockTail(t) => UNCHANGED TailCursors
  <2>1. SUFFICES ASSUME UnlockTail(t) PROVE UNCHANGED TailCursors
    OBVIOUS
  <2>2. tail_lock = t /\ pc[t] = "untail" /\ moved[t] = 0 /\ sq_tail + 0 = sq_tail
    BY <1>1, <2>1 DEF LockInv, UnlockTail, TailMovers, HeadMovers
  <2>3. tail_lock' = Nobody /\ sq_tail' = sq_tail
    BY <2>1 DEF UnlockTail
  <2>. QED  BY <1>1, <2>2, <2>3 DEF TailCursors, MovedTail, RungTail
<1>4. ASSUME MoveTail(t)
      PROVE  /\ tail_lock = t /\ MovedTail = sq_tail + moved[t] /\ RungTail = sq_tail
             /\ UNCHANGED <<RungTail, sq_tail>>
             /\ MovedTail' = sq_tail + moved'[t]
  <2>1. tail_lock = t /\ pc[t] = "movetail"
    BY <1>4 DEF LockInv, MoveTail, TailMovers
  <2>2. tail_lock' = t /\ sq_tail' = sq_tail /\ pc'[t] # "settail"
    BY <1>1, <1>4, <2>1 DEF MoveTail, Goto
  <2>. QED  BY <1>1, <2>1, <2>2 DEF MovedTail, RungTail
<1>5. ASSUME RingTail(t)
      PROVE  MovedTail = sq_tail + moved[t] /\ RungTail' = MovedTail /\ UNCHANGED <<MovedTail, sq_tail>>
  <2>1. tail_lock = t
    BY <1>5 DEF LockInv, RingTail, TailMovers
  <2>2. UNCHANGED <<tail_lock, sq_tail, moved>> /\ pc'[t] = "settail"
    BY <1>1, <1>5 DEF RingTail, Goto, moveVars
  <2>. QED  BY <1>1, <2>1, <2>2 DEF MovedTail, RungTail
<1>6. ASSUME StoreTail(t)
      PROVE  RungTail = MovedTail /\ sq_tail' = MovedTail /\ UNCHANGED <<MovedTail, RungTail>>
  <2>1. tail_lock = t /\ pc[t] = "settail"
    BY <1>6 DEF LockInv, StoreTail, TailMovers
  <2>2. /\ tail_lock' = t /\ sq_tail' = sq_tail + moved[t] /\ moved'[t] = 0 /\ pc'[t] = "untail"
    BY <1>1, <1>6, <2>1 DEF StoreTail, Goto
  <2>3. sq_tail' + moved'[t] = sq_tail + moved[t]
    BY <1>1, <2>2
  <2>. QED  BY <1>1, <2>1, <2>2, <2>3 DEF MovedTail, RungTail
<1>. QED  BY <1>2, <1>3, <1>4, <1>5, <1>6

LEMMA HeadCursorSteps ==
  ASSUME TypeOK, LockInv, NEW t \in Threads
  PROVE  /\ TryHead(t) \/ ReadSqHead(t) \/ UnlockHead(t) => UNCHANGED HeadCursors
         /\ MoveHead(t) =>
              /\ head_lock = t /\ MovedHead = cq_head + moved[t] /\ RungHead = cq_head
              /\ UNCHANGED <<FreedTo, KnownFrom, RungHead, sq_head, cq_head>>
              /\ MovedHead' = cq_head + moved'[t]
         /\ Free(t) => /\ head_lock = t /\ FreedTo = sq_head + freed[t]
                       /\ UNCHANGED <<MovedHead, KnownFrom, RungHead, sq_head, cq_head>>
                       /\ FreedTo' = sq_head + freed'[t]
         /\ MoveSqHead(t) => /\ head_lock = t /\ KnownFrom = cq_head /\ KnownFrom' = MovedHead
                             /\ sq_head' = FreedTo
                             /\ UNCHANGED <<FreedTo, MovedHead, RungHead, cq_head>>
         /\ RingHead(t) => /\ MovedHead = cq_head + moved[t] /\ RungHead' = MovedHead
                           /\ UNCHANGED <<FreedTo, MovedHead, KnownFrom, sq_head, cq_head>>
         /\ StoreHead(t) => /\ cq_head' = MovedHead
                            /\ UNCHANGED <<FreedTo, MovedHead, KnownFrom, RungHead, sq_head>>
<1>1. /\ head_lock \in Threads \cup {Nobody} /\ Nobody \notin Threads
      /\ sq_head \in Nat /\ cq_head \in Nat
      /\ moved \in [Threads -> Nat] /\ freed \in [Threads -> Nat] /\ pc \in [Threads -> Labels]
  BY QueueAssumption DEF TypeOK
<1>2. ASSUME TryHead(t) PROVE UNCHANGED HeadCursors
  <2>1. CASE head_lock # Nobody
    BY <2>1, <1>1, <1>2, HeadKept DEF TryHead, Goto, HeadMovers, sqVars, moveVars
  <2>2. CASE head_lock = Nobody
    <3>1. moved[t] = 0 /\ freed[t] = 0 /\ cq_head + 0 = cq_head /\ sq_head + 0 = sq_head
      BY <1>1, <1>2 DEF LockInv, TryHead, HeadMovers
    <3>2. /\ head_lock' = t /\ pc'[t] = "movehead"
          /\ UNCHANGED <<moved, freed, sq_head, cq_head>>
      BY <1>1, <1>2, <2>2 DEF TryHead, Goto, sqVars, moveVars
    <3>. QED  BY <1>1, <2>2, <3>1, <3>2 DEF HeadCursors, FreedTo, MovedHead, KnownFrom, RungHead
  <2>. QED  BY <2>1, <2>2
<1>3. ASSUME UnlockHead(t) PROVE UNCHANGED HeadCursors
  <2>1. head_lock = t /\ pc[t] = "unhead" /\ moved[t] = 0 /\ freed[t] = 0
    BY <1>1, <1>3 DEF LockInv, UnlockHead, HeadMovers
  <2>2. head_lock' = Nobody /\ sq_head' = sq_head /\ cq_head' = cq_head
    BY <1>3 DEF UnlockHead, sqVars
  <2>3. cq_head + 0 = cq_head /\ sq_head + 0 = sq_head
    BY <1>1
  <2>. QED  BY <1>1, <2>1, <2>2, <2>3 DEF HeadCursors, FreedTo, MovedHead, KnownFrom, RungHead
<1>4. ASSUME ReadSqHead(t) PROVE UNCHANGED HeadCursors
  <2>1. head_lock = t /\ pc[t] = "sqhd"
    BY <1>4 DEF LockInv, ReadSqHead, HeadMovers
  <2>2. UNCHANGED <<head_lock, moved, freed, sq_head, cq_head>> /\ pc'[t] = "free"
    BY <1>1, <1>4 DEF ReadSqHead, Goto, sqVars, cqVars
  <2>. QED  BY <1>1, <2>1, <2>2 DEF HeadCursors, FreedTo, MovedHead, KnownFrom, RungHead
<1>5. ASSUME MoveHead(t)
      PROVE  /\ head_lock = t /\ MovedHead = cq_head + moved[t] /\ RungHead = cq_head
             /\ UNCHANGED <<FreedTo, KnownFrom, RungHead, sq_head, cq_head>>
             /\ MovedHead' = cq_head + moved'[t]
  <2>1. head_lock = t /\ pc[t] = "movehead"
    BY <1>5 DEF LockInv, MoveHead, HeadMovers
  <2>2. /\ UNCHANGED <<head_lock, freed, sq_head, cq_head>>
        /\ pc'[t] \notin {"ringhead", "sethead"}
    BY <1>1, <1>5 DEF MoveHead, Goto, sqVars
  <2>. QED  BY <1>1, <2>1, <2>2 DEF FreedTo, MovedHead, KnownFrom, RungHead
<1>6. ASSUME Free(t)
      PROVE  /\ head_lock = t /\ FreedTo = sq_head + freed[t]
             /\ UNCHANGED <<MovedHead, KnownFrom, RungHead, sq_head, cq_head>>
             /\ FreedTo' = sq_head + freed'[t]
  <2>1. head_lock = t /\ pc[t] = "free"
    BY <1>6 DEF LockInv, Free, HeadMovers
  <2>2. /\ UNCHANGED <<head_lock, moved, sq_head, cq_head>>
        /\ pc'[t] \notin {"ringhead", "sethead"}
    BY <1>1, <1>6 DEF Free, Goto, cqVars
  <2>. QED  BY <1>1, <2>1, <2>2 DEF FreedTo, MovedHead, KnownFrom, RungHead
<1>7. ASSUME MoveSqHead(t)
      PROVE  /\ head_lock = t /\ KnownFrom = cq_head /\ KnownFrom' = MovedHead
             /\ sq_head' = FreedTo
             /\ UNCHANGED <<FreedTo, MovedHead, RungHead, cq_head>>
  <2>1. head_lock = t /\ pc[t] = "sqhead"
    BY <1>7 DEF LockInv, MoveSqHead, HeadMovers
  <2>2. /\ UNCHANGED <<head_lock, moved, cq_head>> /\ freed'[t] = 0
        /\ pc'[t] = "ringhead" /\ sq_head' = sq_head + freed[t]
    BY <1>1, <1>7 DEF MoveSqHead, Goto, cqVars
  <2>3. sq_head' + freed'[t] = sq_head + freed[t]
    BY <1>1, <2>2
  <2>. QED  BY <1>1, <2>1, <2>2, <2>3 DEF FreedTo, MovedHead, KnownFrom, RungHead
<1>8. ASSUME RingHead(t)
      PROVE  /\ MovedHead = cq_head + moved[t] /\ RungHead' = MovedHead
             /\ UNCHANGED <<FreedTo, MovedHead, KnownFrom, sq_head, cq_head>>
  <2>1. head_lock = t /\ pc[t] = "ringhead"
    BY <1>8 DEF LockInv, RingHead, HeadMovers
  <2>2. UNCHANGED <<head_lock, moved, freed, sq_head, cq_head>> /\ pc'[t] = "sethead"
    BY <1>1, <1>8 DEF RingHead, Goto, sqVars, moveVars
  <2>. QED  BY <1>1, <2>1, <2>2 DEF FreedTo, MovedHead, KnownFrom, RungHead
<1>9. ASSUME StoreHead(t)
      PROVE  /\ cq_head' = MovedHead
             /\ UNCHANGED <<FreedTo, MovedHead, KnownFrom, RungHead, sq_head>>
  <2>1. head_lock = t /\ pc[t] = "sethead"
    BY <1>9 DEF LockInv, StoreHead, HeadMovers
  <2>2. /\ UNCHANGED <<head_lock, freed, sq_head>> /\ moved'[t] = 0
        /\ pc'[t] = "unhead" /\ cq_head' = cq_head + moved[t]
    BY <1>1, <1>9 DEF StoreHead, Goto, sqVars
  <2>3. cq_head' + moved'[t] = cq_head + moved[t]
    BY <1>1, <2>2
  <2>. QED  BY <1>1, <2>1, <2>2, <2>3 DEF FreedTo, MovedHead, KnownFrom, RungHead
<1>. QED  BY <1>2, <1>3, <1>4, <1>5, <1>6, <1>7, <1>8, <1>9
------------------------------------------------------------------------------
(***************************************************************************)
(* Ids, the phases of the completions, and their places.                    *)
(***************************************************************************)
LEMMA IdSame ==
  ASSUME IdInv, UNCHANGED <<cid, cid_lock>>,
         \A u \in Threads : pc'[u] = "idle" <=> pc[u] = "idle"
  PROVE  IdInv'
BY DEF IdInv

LEMMA IdStep ==
  ASSUME TypeOK, IdInv, QNext  PROVE IdInv'
<1>0. /\ pc \in [Threads -> Labels] /\ cid \in [Threads -> Cids \cup {NoCid}]
      /\ NoCid \notin Cids
  BY QueueAssumption DEF TypeOK
<1>1. ASSUME NEW t \in Threads, NEW c \in Cids, GetCid(t, c) PROVE IdInv'
  <2>1. /\ pc[t] = "idle" /\ c \notin cid_lock /\ cid_lock' = cid_lock \cup {c}
        /\ \A u \in Threads : cid'[u] = IF u = t THEN c ELSE cid[u]
        /\ \A u \in Threads : pc'[u] = IF u = t THEN "ticket" ELSE pc[u]
    BY <1>0, <1>1 DEF GetCid, Goto
  <2>. QED  BY <1>0, <2>1 DEF IdInv
<1>2. ASSUME NEW t \in Threads, PutCid(t) PROVE IdInv'
  <2>1. /\ pc[t] = "putcid" /\ cid_lock' = cid_lock \ {cid[t]}
        /\ \A u \in Threads : cid'[u] = IF u = t THEN NoCid ELSE cid[u]
        /\ \A u \in Threads : pc'[u] = IF u = t THEN "idle" ELSE pc[u]
    BY <1>0, <1>2 DEF PutCid, Goto
  <2>. QED  BY <1>0, <2>1 DEF IdInv
<1>3. ASSUME NEW t \in Threads,
             \/ TakeTicket(t) \/ AwaitTurn(t) \/ Copy(t) \/ MarkTail(t) \/ LookTail(t) \/ Leave(t)
             \/ Poll(t) \/ Entry(t) \/ PosLock(t) \/ MarkHead(t) \/ LookHead(t)
             \/ AwaitHead(t) \/ PosFree(t) \/ Again(t) \/ AtTail(t) \/ AtHead(t)
      PROVE  IdInv'
  <2>1. /\ UNCHANGED <<cid, cid_lock>>
        /\ \A u \in Threads : pc'[u] = "idle" <=> pc[u] = "idle"
    BY <1>0, <1>3 DEF TakeTicket, AwaitTurn, Copy, MarkTail, LookTail, Leave, Poll, Entry, PosLock,
       MarkHead, LookHead, AwaitHead, PosFree, Again, AtTail, TryTail, MoveTail, RingTail, StoreTail,
       UnlockTail, AtHead, TryHead, MoveHead, ReadSqHead, Free, MoveSqHead, RingHead, StoreHead,
       UnlockHead, Goto, sqVars, idVars
  <2>. QED  BY <2>1, IdSame
<1>4. CASE Fetch \/ (\E c \in working : Complete(c)) \/ UNCHANGED vars
  BY <1>4, IdSame DEF Fetch, Complete, vars, sqVars, idVars
<1>. QED  BY <1>1, <1>2, <1>3, <1>4, StepsAre DEF Users

LEMMA PhaseStep ==
  ASSUME TypeOK, PhaseInv, QNext  PROVE PhaseInv'
<1>1. CASE \E c \in working : Complete(c)
  <2>1. PICK c \in working : Complete(c)
    BY <1>1
  <2>2. /\ posted \in Nat /\ cq_mem \in [0 .. CqSize - 1 -> [cid : Cids \cup {NoCid}, phase : {0, 1},
                                                            sqhd : 0 .. SqSize - 1]]
    BY DEF TypeOK
  <2>3. CqPos(posted) \in 0 .. CqSize - 1 /\ Phase(posted) \in {0, 1}
    BY <2>2, Places, PhaseType
  <2>4. /\ posted' = posted + 1
        /\ \A p \in 0 .. CqSize - 1 :
             cq_mem'[p].phase = IF p = CqPos(posted) THEN Phase(posted) ELSE cq_mem[p].phase
    BY <2>1, <2>2, <2>3 DEF Complete
  <2>5. IF CqPos(posted) + 1 < CqSize
          THEN CqPos(posted') = CqPos(posted) + 1 /\ Phase(posted') = Phase(posted)
          ELSE CqPos(posted') = 0 /\ Phase(posted') = 1 - Phase(posted)
    BY <2>2, <2>4, NextCqPlace
  <2>6. ASSUME NEW p \in 0 .. CqSize - 1
        PROVE  cq_mem'[p].phase = IF p < CqPos(posted') THEN Phase(posted') ELSE 1 - Phase(posted')
    <3>1. cq_mem[p].phase = IF p < CqPos(posted) THEN Phase(posted) ELSE 1 - Phase(posted)
      BY DEF PhaseInv
    <3>. QED  BY <2>3, <2>4, <2>5, <3>1, Sizes
  <2>. QED  BY <2>6 DEF PhaseInv, CqPos, Phase
<1>2. ASSUME UNCHANGED <<posted, cq_mem>>  PROVE PhaseInv'
  BY <1>2 DEF PhaseInv, CqPos, Phase
<1>3. ASSUME NEW t \in Threads, Users(t) \/ AtTail(t) \/ AtHead(t)  PROVE UNCHANGED <<posted, cq_mem>>
  BY <1>3 DEF Users, GetCid, TakeTicket, AwaitTurn, Copy, MarkTail, LookTail, Leave, Poll, Entry, PosLock,
     MarkHead, LookHead, AwaitHead, PosFree, PutCid, Again, AtTail, TryTail, MoveTail, RingTail,
     StoreTail, UnlockTail, AtHead, TryHead, MoveHead, ReadSqHead, Free, MoveSqHead, RingHead,
     StoreHead, UnlockHead, cqVars, ssdVars
<1>4. Fetch \/ UNCHANGED vars => UNCHANGED <<posted, cq_mem>>
  BY DEF Fetch, vars, cqVars, ssdVars
<1>. QED  BY <1>1, <1>2, <1>3, <1>4, StepsAre

LEMMA PosSame ==
  ASSUME PosInv, UNCHANGED pos_locks,
         \A u \in Threads : pc'[u] \in PosHolders => pc[u] \in PosHolders /\ loc'[u] = loc[u]
  PROVE  PosInv'
BY DEF PosInv, CqPos

LEMMA PosStep ==
  ASSUME TypeOK, PosInv, QNext  PROVE PosInv'
<1>0. /\ pc \in [Threads -> Labels] /\ loc \in [Threads -> Nat]
      /\ pos_locks \in [0 .. CqSize - 1 -> BOOLEAN]
  BY DEF TypeOK
<1>a. \A u \in Threads : CqPos(loc[u]) \in 0 .. CqSize - 1
  BY <1>0, Places
<1>1. ASSUME NEW t \in Threads, PosLock(t) PROVE PosInv'
  <2>1. /\ pc[t] = "poslock" /\ ~pos_locks[CqPos(loc[t])] /\ loc' = loc
        /\ \A p \in 0 .. CqSize - 1 : pos_locks'[p] = IF p = CqPos(loc[t]) THEN TRUE ELSE pos_locks[p]
        /\ \A u \in Threads : pc'[u] = IF u = t THEN "markhead" ELSE pc[u]
    BY <1>0, <1>a, <1>1 DEF PosLock, Goto, pollVars
  <2>2. \A u \in Threads : u # t /\ pc'[u] \in PosHolders =>
          pc[u] \in PosHolders /\ CqPos(loc[u]) # CqPos(loc[t])
    BY <2>1 DEF PosInv
  <2>. QED  BY <1>a, <2>1, <2>2 DEF PosInv, CqPos
<1>2. ASSUME NEW t \in Threads, PosFree(t) PROVE PosInv'
  <2>1. /\ pc[t] = "posfree"
        /\ \A p \in 0 .. CqSize - 1 : pos_locks'[p] = IF p = CqPos(loc[t]) THEN FALSE ELSE pos_locks[p]
        /\ \A u \in Threads : loc'[u] = IF u = t THEN 0 ELSE loc[u]
        /\ \A u \in Threads : pc'[u] = IF u = t THEN "putcid" ELSE pc[u]
    BY <1>0, <1>a, <1>2 DEF PosFree, Goto
  <2>2. \A u \in Threads : pc'[u] \in PosHolders =>
          u # t /\ pc[u] \in PosHolders /\ CqPos(loc[u]) # CqPos(loc[t])
    BY <2>1 DEF PosInv, PosHolders, MarkedHead, HeadMovers
  <2>. QED  BY <1>a, <2>1, <2>2 DEF PosInv, CqPos
<1>3. ASSUME NEW t \in Threads,
             \/ \E c \in Cids : GetCid(t, c)
             \/ TakeTicket(t) \/ AwaitTurn(t) \/ Copy(t) \/ MarkTail(t) \/ LookTail(t) \/ Leave(t)
             \/ Poll(t) \/ MarkHead(t) \/ LookHead(t)
             \/ AwaitHead(t) \/ PutCid(t) \/ Again(t) \/ AtTail(t) \/ AtHead(t)
      PROVE  PosInv'
  <2>1. /\ UNCHANGED pos_locks
        /\ \A u \in Threads : pc'[u] \in PosHolders => pc[u] \in PosHolders /\ loc'[u] = loc[u]
    BY <1>0, <1>3 DEF GetCid, TakeTicket, AwaitTurn, Copy, MarkTail, LookTail, Leave, Poll,
       MarkHead, LookHead, AwaitHead, PutCid, Again, AtTail, TryTail, MoveTail, RingTail, StoreTail,
       UnlockTail, AtHead, TryHead, MoveHead, ReadSqHead, Free, MoveSqHead, RingHead, StoreHead,
       UnlockHead, Goto, cqVars, pollVars, PosHolders, MarkedHead, HeadMovers
  <2>. QED  BY <2>1, PosSame
<1>4. ASSUME NEW t \in Threads, Entry(t) PROVE PosInv'
  <2>1. /\ UNCHANGED pos_locks /\ pc'[t] \in {"poslock", "entry", "poll"}
        /\ \A u \in Threads : u # t => pc'[u] = pc[u] /\ loc'[u] = loc[u]
    BY <1>0, <1>4 DEF Entry, Goto, cqVars
  <2>. QED  BY <2>1, PosSame DEF PosHolders, MarkedHead, HeadMovers
<1>5. CASE Fetch \/ (\E c \in working : Complete(c)) \/ UNCHANGED vars
  BY <1>5, PosSame DEF Fetch, Complete, vars, cqVars, pollVars
<1>. QED  BY <1>1, <1>2, <1>3, <1>4, <1>5, StepsAre DEF Users
------------------------------------------------------------------------------
(***************************************************************************)
(* Tickets.                                                                 *)
(***************************************************************************)
LEMMA LeftType ==
  ASSUME TypeOK, NEW p \in 0 .. SqSize - 1
  PROVE  Left(p) \in Int /\ tickets[p] = Left(p) + Turns(FreedTo, p) /\ Turns(FreedTo, p) \in Nat
<1>1. tickets[p] \in Nat /\ FreedTo \in Nat
  BY CursorTypes DEF TypeOK
<1>2. Turns(FreedTo, p) \in Nat
  BY <1>1, TurnsType
<1>. QED  BY <1>1, <1>2 DEF Left, LeftOf

LEMMA TicketType ==
  ASSUME TypeOK, NEW t \in Threads
  PROVE  /\ ticket[t] \in Nat /\ Round(ticket[t]) \in Nat
         /\ SqPos(ticket[t]) \in 0 .. SqSize - 1
BY Places DEF TypeOK

\* Two threads are never at one place.
LEMMA AloneAtPlace ==
  ASSUME TypeOK, TicketInv, NEW t \in Threads, NEW u \in Threads,
         pc[t] \in AtPlace, pc[u] \in AtPlace, SqPos(ticket[t]) = SqPos(ticket[u])
  PROVE  t = u
<1>1. Round(ticket[t]) = Left(SqPos(ticket[t])) /\ Round(ticket[u]) = Left(SqPos(ticket[u]))
  BY DEF TicketInv
<1>2. ticket[t] = ticket[u]
  BY <1>1, SameTicket, TicketType
<1>. QED  BY <1>2 DEF TicketInv, Holding

\* A user's place was freed in the round before its own.
LEMMA TicketFits ==
  ASSUME TypeOK, TicketInv, NEW t \in Threads, pc[t] \in AtPlace
  PROVE  ticket[t] < FreedTo + SqSize
<1>1. /\ FreedTo \in Nat /\ ticket[t] \in Nat /\ SqSize \in Nat
      /\ Round(ticket[t]) <= Turns(FreedTo, SqPos(ticket[t]))
  BY CursorTypes, TicketType, Sizes DEF TicketInv
<1>2. SUFFICES ASSUME ticket[t] >= FreedTo + SqSize PROVE FALSE
  BY <1>1
<1> DEFINE y == ticket[t] - SqSize
<1>3. y \in Nat /\ y >= FreedTo /\ ticket[t] = y + SqSize
  BY <1>1, <1>2
<1> HIDE DEF y
<1>4. SqPos(ticket[t]) = SqPos(y) /\ Round(ticket[t]) = Round(y) + 1 /\ Round(y) \in Nat
  BY <1>3, RoundLater, Places
<1>5. ~(Round(y) < Turns(FreedTo, SqPos(y)))
  BY <1>1, <1>3, TurnIs
<1>6. Turns(FreedTo, SqPos(y)) \in Nat
  BY <1>1, <1>3, Places, TurnsType
<1>. QED  BY <1>1, <1>4, <1>5, <1>6

LEMMA TicketInvNext ==
  ASSUME \A u \in Threads : pc'[u] \in Holding =>
           ticket'[u] < in_ticket' /\ Round(ticket'[u]) >= LeftOf(tickets', FreedTo', SqPos(ticket'[u])),
         \A u, v \in Threads :
           pc'[u] \in Holding /\ pc'[v] \in Holding /\ ticket'[u] = ticket'[v] => u = v,
         \A u \in Threads : pc'[u] \in AtPlace =>
           /\ Round(ticket'[u]) = LeftOf(tickets', FreedTo', SqPos(ticket'[u]))
           /\ Round(ticket'[u]) <= Turns(FreedTo', SqPos(ticket'[u])),
         \A p \in 0 .. SqSize - 1 : LeftOf(tickets', FreedTo', p) <= Turns(in_ticket', p)
  PROVE  TicketInv'
BY DEF TicketInv, Left, LeftOf, Turns, SqPos, Round

LEMMA TicketSame ==
  ASSUME TicketInv, UNCHANGED <<in_ticket, tickets, FreedTo>>,
         \A u \in Threads : /\ pc'[u] \in Holding => pc[u] \in Holding /\ ticket'[u] = ticket[u]
                            /\ pc'[u] \in AtPlace => pc[u] \in AtPlace
  PROVE  TicketInv'
<1>1. AtPlace \subseteq Holding
  BY DEF Holding
<1>2. \A u \in Threads : pc'[u] \in Holding =>
        ticket'[u] < in_ticket' /\ Round(ticket'[u]) >= LeftOf(tickets', FreedTo', SqPos(ticket'[u]))
  BY DEF TicketInv, Left
<1>3. \A u, v \in Threads :
        pc'[u] \in Holding /\ pc'[v] \in Holding /\ ticket'[u] = ticket'[v] => u = v
  BY DEF TicketInv
<1>4. \A u \in Threads : pc'[u] \in AtPlace =>
        /\ Round(ticket'[u]) = LeftOf(tickets', FreedTo', SqPos(ticket'[u]))
        /\ Round(ticket'[u]) <= Turns(FreedTo', SqPos(ticket'[u]))
  BY <1>1 DEF TicketInv, Left
<1>5. \A p \in 0 .. SqSize - 1 : LeftOf(tickets', FreedTo', p) <= Turns(in_ticket', p)
  BY DEF TicketInv, Left
<1>. QED  BY <1>2, <1>3, <1>4, <1>5, TicketInvNext

LEMMA TakeTicketStep ==
  ASSUME TypeOK, LockInv, TicketInv, NEW t \in Threads, TakeTicket(t)  PROVE TicketInv'
<1>0. /\ pc \in [Threads -> Labels] /\ ticket \in [Threads -> Nat] /\ in_ticket \in Nat
  BY DEF TypeOK
<1>1. /\ pc[t] = "ticket" /\ in_ticket' = in_ticket + 1 /\ tickets' = tickets
      /\ \A u \in Threads : ticket'[u] = IF u = t THEN in_ticket ELSE ticket[u]
      /\ \A u \in Threads : pc'[u] = IF u = t THEN "turn" ELSE pc[u]
  BY <1>0 DEF TakeTicket, Goto
<1>2. FreedTo' = FreedTo
  BY UsersLeaveCursors DEF Users, HeadCursors
<1>3. \A p \in 0 .. SqSize - 1 : LeftOf(tickets', FreedTo', p) = Left(p) /\ Left(p) <= Turns(in_ticket, p)
  BY <1>1, <1>2 DEF Left, TicketInv
<1>4. SqPos(in_ticket) \in 0 .. SqSize - 1 /\ Turns(in_ticket, SqPos(in_ticket)) = Round(in_ticket)
      /\ Round(in_ticket) \in Nat
  BY <1>0, Places, TurnsAt
<1>5. ASSUME NEW u \in Threads, pc'[u] \in Holding
      PROVE  ticket'[u] < in_ticket' /\ Round(ticket'[u]) >= LeftOf(tickets', FreedTo', SqPos(ticket'[u]))
  <2>1. CASE u = t
    <3>1. Left(SqPos(in_ticket)) <= Round(in_ticket) /\ Left(SqPos(in_ticket)) \in Int
      BY <1>3, <1>4, LeftType
    <3>. QED  BY <1>0, <1>1, <1>3, <1>4, <2>1, <3>1
  <2>2. CASE u # t
    <3>1. pc[u] \in Holding /\ ticket'[u] = ticket[u] /\ SqPos(ticket[u]) \in 0 .. SqSize - 1
          /\ ticket[u] \in Nat
      BY <1>1, <1>5, <2>2, TicketType
    <3>2. ticket[u] < in_ticket /\ Round(ticket[u]) >= Left(SqPos(ticket[u]))
      BY <3>1 DEF TicketInv
    <3>. QED  BY <1>0, <1>1, <1>3, <3>1, <3>2
  <2>. QED  BY <2>1, <2>2
<1>6. ASSUME NEW u \in Threads, NEW v \in Threads,
             pc'[u] \in Holding, pc'[v] \in Holding, ticket'[u] = ticket'[v]
      PROVE  u = v
  <2>1. \A w \in Threads : w # t /\ pc'[w] \in Holding =>
          pc[w] \in Holding /\ ticket'[w] = ticket[w] /\ ticket[w] < in_ticket /\ ticket[w] \in Nat
    BY <1>1, TicketType DEF TicketInv
  <2>2. ticket'[t] = in_ticket
    BY <1>1
  <2>3. CASE u # t /\ v # t
    BY <1>6, <2>1, <2>3 DEF TicketInv
  <2>4. CASE u = t /\ v # t
    BY <1>0, <1>6, <2>1, <2>2, <2>4
  <2>5. CASE u # t /\ v = t
    BY <1>0, <1>6, <2>1, <2>2, <2>5
  <2>. QED  BY <2>3, <2>4, <2>5
<1>7. ASSUME NEW u \in Threads, pc'[u] \in AtPlace
      PROVE  /\ Round(ticket'[u]) = LeftOf(tickets', FreedTo', SqPos(ticket'[u]))
             /\ Round(ticket'[u]) <= Turns(FreedTo', SqPos(ticket'[u]))
  <2>1. u # t /\ pc[u] \in AtPlace /\ ticket'[u] = ticket[u] /\ SqPos(ticket[u]) \in 0 .. SqSize - 1
    BY <1>1, <1>7, TicketType DEF AtPlace
  <2>2. /\ Round(ticket[u]) = Left(SqPos(ticket[u]))
        /\ Round(ticket[u]) <= Turns(FreedTo, SqPos(ticket[u]))
    BY <2>1 DEF TicketInv
  <2>. QED  BY <1>2, <1>3, <2>1, <2>2
<1>8. ASSUME NEW p \in 0 .. SqSize - 1  PROVE LeftOf(tickets', FreedTo', p) <= Turns(in_ticket', p)
  <2>1. Turns(in_ticket + 1, p) = Turns(in_ticket, p) + Num(p = SqPos(in_ticket))
    BY <1>0, NextTurn
  <2>2. Turns(in_ticket, p) \in Nat /\ Left(p) \in Int /\ Left(p) <= Turns(in_ticket, p)
    BY <1>0, <1>3, TurnsType, LeftType
  <2>3. Num(p = SqPos(in_ticket)) \in {0, 1}
    BY DEF Num
  <2>. QED  BY <1>1, <1>3, <2>1, <2>2, <2>3
<1>. QED  BY <1>5, <1>6, <1>7, <1>8, TicketInvNext

\* A thread whose turn it is finds its place empty, and it freed in the round before.
LEMMA TurnComes ==
  ASSUME TypeOK, TicketInv, SubmitInv, WindowInv, NEW t \in Threads, AwaitTurn(t)
  PROVE  /\ Round(ticket[t]) = Left(SqPos(ticket[t]))
         /\ Round(ticket[t]) <= Turns(FreedTo, SqPos(ticket[t]))
         /\ ticket[t] >= MovedTail
         /\ \A u \in Threads : pc[u] \in AtPlace => SqPos(ticket[u]) # SqPos(ticket[t])
<1> DEFINE n == ticket[t]
           p == SqPos(n)
<1>1. /\ n \in Nat /\ Round(n) \in Nat /\ p \in 0 .. SqSize - 1 /\ MovedTail \in Nat /\ FreedTo \in Nat
      /\ FreedTo <= MovedTail
  <2>1. Fetched \in Nat
    BY FetchedType
  <2>. QED  BY <2>1, TicketType, CursorTypes DEF WindowInv
<1>2. pc[t] = "turn" /\ tickets[p] = 2 * Round(n)
  BY DEF AwaitTurn, get_id, Round
<1>3. /\ Left(p) \in Int /\ tickets[p] = Left(p) + Turns(FreedTo, p)
      /\ Turns(FreedTo, p) \in Nat /\ Turns(MovedTail, p) \in Nat
  BY <1>1, LeftType, TurnsType
<1>4. Left(p) <= Round(n)
  BY <1>1, <1>2, <1>3 DEF TicketInv, Holding
<1>5. Turns(MovedTail, p) = Left(p) + Num(Submitted(p))
  BY <1>1 DEF SubmitInv
<1>6. Turns(FreedTo, p) <= Turns(MovedTail, p)
  BY <1>1, TurnsGrow
<1>7. Num(Submitted(p)) \in {0, 1}
  BY DEF Num
<1>8. Round(n) = Left(p) /\ Round(n) <= Turns(FreedTo, p)
  BY <1>1, <1>2, <1>3, <1>4, <1>5, <1>6, <1>7
<1>9. ASSUME NEW u \in Threads, pc[u] \in AtPlace, SqPos(ticket[u]) = p  PROVE FALSE
  <2>1. Round(ticket[u]) = Round(n) /\ ticket[u] \in Nat
    BY <1>8, <1>9, TicketType DEF TicketInv
  <2>2. ticket[u] = n
    BY <1>1, <1>9, <2>1, SameTicket
  <2>3. u = t
    BY <1>2, <1>9, <2>2 DEF TicketInv, Holding
  <2>. QED  BY <1>2, <1>9, <2>3 DEF AtPlace
<1>10. Num(Submitted(p)) = 0
  BY <1>9 DEF Num, Submitted
<1>11. ~(n < MovedTail)
  BY <1>1, <1>3, <1>5, <1>8, <1>10, TurnIs
<1>. QED  BY <1>1, <1>8, <1>9, <1>11

LEMMA AwaitTurnTicket ==
  ASSUME TypeOK, LockInv, TicketInv, SubmitInv, WindowInv, NEW t \in Threads, AwaitTurn(t)
  PROVE  TicketInv'
<1>1. /\ pc[t] = "turn" /\ in_ticket' = in_ticket /\ tickets' = tickets /\ ticket' = ticket
      /\ \A u \in Threads : pc'[u] = IF u = t THEN "copy" ELSE pc[u]
  BY DEF TypeOK, AwaitTurn, Goto, sqVars, idVars
<1>2. FreedTo' = FreedTo
  BY UsersLeaveCursors DEF Users, HeadCursors
<1>3. \A u \in Threads : /\ pc'[u] \in Holding <=> pc[u] \in Holding
                         /\ pc'[u] \in AtPlace => u = t \/ pc[u] \in AtPlace
  BY <1>1 DEF Holding, AtPlace
<1>4. ASSUME NEW u \in Threads, pc'[u] \in AtPlace
      PROVE  /\ Round(ticket'[u]) = LeftOf(tickets', FreedTo', SqPos(ticket'[u]))
             /\ Round(ticket'[u]) <= Turns(FreedTo', SqPos(ticket'[u]))
  BY <1>1, <1>2, <1>3, <1>4, TurnComes DEF TicketInv, Left
<1>5. \A p \in 0 .. SqSize - 1 : LeftOf(tickets', FreedTo', p) <= Turns(in_ticket', p)
  BY <1>1, <1>2 DEF TicketInv, Left
<1>6. \A u \in Threads : pc'[u] \in Holding =>
        ticket'[u] < in_ticket' /\ Round(ticket'[u]) >= LeftOf(tickets', FreedTo', SqPos(ticket'[u]))
  BY <1>1, <1>2, <1>3 DEF TicketInv, Left
<1>7. \A u, v \in Threads :
        pc'[u] \in Holding /\ pc'[v] \in Holding /\ ticket'[u] = ticket'[v] => u = v
  BY <1>1, <1>3 DEF TicketInv
<1>. QED  BY <1>4, <1>5, <1>6, <1>7, TicketInvNext

\* What Leave does to the events at each place.
LEMMA LeaveIs ==
  ASSUME TypeOK, LockInv, NEW t \in Threads, Leave(t)
  PROVE  /\ pc[t] = "leave" /\ in_ticket' = in_ticket /\ FreedTo' = FreedTo /\ MovedTail' = MovedTail
         /\ \A u \in Threads : pc'[u] = IF u = t THEN "poll" ELSE pc[u]
         /\ \A u \in Threads : u # t => ticket'[u] = ticket[u]
         /\ \A p \in 0 .. SqSize - 1 :
              LeftOf(tickets', FreedTo', p) = Left(p) + Num(p = SqPos(ticket[t]))
<1>1. /\ pc[t] = "leave" /\ in_ticket' = in_ticket
      /\ \A u \in Threads : pc'[u] = IF u = t THEN "poll" ELSE pc[u]
      /\ \A u \in Threads : u # t => ticket'[u] = ticket[u]
  BY DEF TypeOK, Leave, Goto
<1>2. FreedTo' = FreedTo /\ MovedTail' = MovedTail
  BY UsersLeaveCursors DEF Users, HeadCursors, TailCursors
<1>3. ASSUME NEW p \in 0 .. SqSize - 1
      PROVE  LeftOf(tickets', FreedTo', p) = Left(p) + Num(p = SqPos(ticket[t]))
  <2>1. tickets'[p] = tickets[p] + Num(p = SqPos(ticket[t])) /\ tickets[p] \in Nat
    <3>1. tickets \in [0 .. SqSize - 1 -> Nat] /\ SqPos(ticket[t]) \in 0 .. SqSize - 1
      BY TicketType DEF TypeOK
    <3>2. tickets' = [tickets EXCEPT ![SqPos(ticket[t])] = @ + 1]
      BY DEF Leave
    <3>. QED  BY <3>1, <3>2 DEF Num
  <2>2. Turns(FreedTo, p) \in Nat
    BY LeftType
  <2>3. Num(p = SqPos(ticket[t])) \in {0, 1}
    BY DEF Num
  <2>. QED  BY <1>2, <2>1, <2>2, <2>3 DEF Left, LeftOf
<1>. QED  BY <1>1, <1>2, <1>3

LEMMA LeaveTicket ==
  ASSUME TypeOK, LockInv, TicketInv, NEW t \in Threads, Leave(t)  PROVE TicketInv'
<1> DEFINE q == SqPos(ticket[t])
<1>1. /\ pc[t] = "leave" /\ in_ticket' = in_ticket /\ FreedTo' = FreedTo
      /\ \A u \in Threads : pc'[u] = IF u = t THEN "poll" ELSE pc[u]
      /\ \A u \in Threads : u # t => ticket'[u] = ticket[u]
      /\ \A p \in 0 .. SqSize - 1 : LeftOf(tickets', FreedTo', p) = Left(p) + Num(p = q)
  BY LeaveIs
<1>2. /\ Round(ticket[t]) = Left(q) /\ ticket[t] < in_ticket /\ q \in 0 .. SqSize - 1
      /\ Left(q) \in Int
  BY <1>1, TicketType, LeftType DEF TicketInv, AtPlace, Holding
<1>3. \A u \in Threads : /\ pc'[u] \in Holding => u # t /\ pc[u] \in Holding
                         /\ pc'[u] \in AtPlace => u # t /\ pc[u] \in AtPlace
  BY <1>1 DEF Holding, AtPlace
<1> HIDE DEF q
<1>4. ASSUME NEW u \in Threads, pc'[u] \in Holding
      PROVE  ticket'[u] < in_ticket' /\ Round(ticket'[u]) >= LeftOf(tickets', FreedTo', SqPos(ticket'[u]))
  <2>1. /\ u # t /\ pc[u] \in Holding /\ ticket'[u] = ticket[u] /\ ticket[u] \in Nat
        /\ Round(ticket[u]) \in Nat /\ SqPos(ticket[u]) \in 0 .. SqSize - 1
    BY <1>1, <1>3, <1>4, TicketType
  <2>2. ticket[u] < in_ticket /\ Round(ticket[u]) >= Left(SqPos(ticket[u])) /\ Left(SqPos(ticket[u])) \in Int
    BY <2>1, LeftType DEF TicketInv
  <2>3. CASE SqPos(ticket[u]) # q
    BY <1>1, <2>1, <2>2, <2>3 DEF Num
  <2>4. CASE SqPos(ticket[u]) = q
    <3>1. Round(ticket[u]) # Left(q)
      <4>1. SUFFICES ASSUME Round(ticket[u]) = Left(q) PROVE FALSE
        OBVIOUS
      <4>2. ticket[u] = ticket[t]
        BY <1>2, <2>1, <2>4, <4>1, SameTicket, TicketType DEF q
      <4>. QED  BY <1>1, <2>1, <4>2 DEF TicketInv, Holding, AtPlace
    <3>. QED  BY <1>1, <1>2, <2>1, <2>2, <2>4, <3>1 DEF Num
  <2>. QED  BY <2>3, <2>4
<1>5. \A u, v \in Threads :
        pc'[u] \in Holding /\ pc'[v] \in Holding /\ ticket'[u] = ticket'[v] => u = v
  BY <1>1, <1>3 DEF TicketInv
<1>6. ASSUME NEW u \in Threads, pc'[u] \in AtPlace
      PROVE  /\ Round(ticket'[u]) = LeftOf(tickets', FreedTo', SqPos(ticket'[u]))
             /\ Round(ticket'[u]) <= Turns(FreedTo', SqPos(ticket'[u]))
  <2>1. /\ u # t /\ pc[u] \in AtPlace /\ ticket'[u] = ticket[u]
        /\ SqPos(ticket[u]) \in 0 .. SqSize - 1 /\ pc[t] \in AtPlace
    BY <1>1, <1>3, <1>6, TicketType DEF AtPlace
  <2>2. SqPos(ticket[u]) # q
    BY <2>1, AloneAtPlace DEF q
  <2>3. /\ Round(ticket[u]) = Left(SqPos(ticket[u])) /\ Round(ticket[u]) <= Turns(FreedTo, SqPos(ticket[u]))
        /\ Left(SqPos(ticket[u])) \in Int
    BY <2>1, LeftType DEF TicketInv
  <2>. QED  BY <1>1, <2>1, <2>2, <2>3 DEF Num
<1>7. ASSUME NEW p \in 0 .. SqSize - 1  PROVE LeftOf(tickets', FreedTo', p) <= Turns(in_ticket', p)
  <2>1. /\ Left(p) <= Turns(in_ticket, p) /\ Left(p) \in Int /\ Turns(in_ticket, p) \in Nat
        /\ in_ticket \in Nat
    BY LeftType, TurnsType, CursorTypes DEF TicketInv
  <2>2. CASE p # q
    BY <1>1, <2>1, <2>2 DEF Num
  <2>3. CASE p = q
    <3>1. Round(ticket[t]) < Turns(in_ticket, q)
      BY <1>2, <2>1, TurnIs, TicketType DEF q
    <3>. QED  BY <1>1, <1>2, <2>1, <2>3, <3>1 DEF Num
  <2>. QED  BY <2>2, <2>3
<1>. QED  BY <1>4, <1>5, <1>6, <1>7, TicketInvNext

\* Freeing a place counts there for the rounds and not for the users that left.
LEMMA FreeIs ==
  ASSUME TypeOK, LockInv, NEW t \in Threads, Free(t)
  PROVE  /\ pc[t] = "free"
         /\ FreedTo' = FreedTo \/ FreedTo' = FreedTo + 1
         /\ \A u \in Threads : pc'[u] = pc[u] \/ (u = t /\ pc'[u] = "sqhead")
         /\ FreedTo' = FreedTo + 1 <=> SqPos(FreedTo) # new_sq_head[t]
         /\ FreedTo' = FreedTo + 1 <=> pc'[t] = "free"
         /\ \A p \in 0 .. SqSize - 1 : LeftOf(tickets', FreedTo', p) = Left(p)
<1>0. /\ pc \in [Threads -> Labels] /\ freed \in [Threads -> Nat] /\ sq_head \in Nat
      /\ tickets \in [0 .. SqSize - 1 -> Nat] /\ FreedTo \in Nat
  BY CursorTypes DEF TypeOK
<1>1. FreedTo = sq_head + freed[t] /\ FreedTo' = sq_head + freed'[t] /\ pc[t] = "free"
  BY HeadCursorSteps DEF Free
<1>2. CASE SqPos(FreedTo) # new_sq_head[t]
  <2>1. /\ freed'[t] = freed[t] + 1 /\ pc' = pc
        /\ tickets' = [tickets EXCEPT ![SqPos(FreedTo)] = @ + 1]
    BY <1>0, <1>1, <1>2 DEF Free
  <2>2. FreedTo' = FreedTo + 1
    BY <1>0, <1>1, <2>1
  <2>3. ASSUME NEW p \in 0 .. SqSize - 1  PROVE LeftOf(tickets', FreedTo', p) = Left(p)
    <3>1. Turns(FreedTo + 1, p) = Turns(FreedTo, p) + Num(p = SqPos(FreedTo))
      BY <1>0, NextTurn
    <3>2. tickets'[p] = tickets[p] + Num(p = SqPos(FreedTo)) /\ tickets[p] \in Nat
      BY <1>0, <2>1 DEF Num
    <3>3. Turns(FreedTo, p) \in Nat /\ Num(p = SqPos(FreedTo)) \in {0, 1}
      BY <1>0, TurnsType DEF Num
    <3>. QED  BY <2>2, <3>1, <3>2, <3>3 DEF Left, LeftOf
  <2>. QED  BY <1>0, <1>1, <1>2, <2>1, <2>2, <2>3
<1>3. CASE SqPos(FreedTo) = new_sq_head[t]
  <2>1. /\ freed' = freed /\ tickets' = tickets
        /\ \A u \in Threads : pc'[u] = IF u = t THEN "sqhead" ELSE pc[u]
    BY <1>0, <1>1, <1>3 DEF Free, Goto
  <2>2. FreedTo' = FreedTo /\ FreedTo # FreedTo + 1
    BY <1>0, <1>1, <2>1
  <2>3. \A p \in 0 .. SqSize - 1 : LeftOf(tickets', FreedTo', p) = Left(p)
    BY <2>1, <2>2 DEF Left
  <2>. QED  BY <1>1, <1>3, <2>1, <2>2, <2>3
<1>. QED  BY <1>2, <1>3

LEMMA FreeTicket ==
  ASSUME TypeOK, LockInv, TicketInv, NEW t \in Threads, Free(t)  PROVE TicketInv'
<1>1. /\ FreedTo' = FreedTo \/ FreedTo' = FreedTo + 1
      /\ \A u \in Threads : /\ pc'[u] \in Holding => pc[u] \in Holding
                            /\ pc'[u] \in AtPlace => pc[u] \in AtPlace
      /\ \A p \in 0 .. SqSize - 1 : LeftOf(tickets', FreedTo', p) = Left(p)
      /\ UNCHANGED <<in_ticket, ticket>>
  <2>1. UNCHANGED <<in_ticket, ticket>>
    BY DEF Free, idVars
  <2>. QED  BY <2>1, FreeIs DEF Holding, AtPlace
<1>2. FreedTo \in Nat
  BY CursorTypes
<1>3. \A u \in Threads : /\ ticket[u] \in Nat /\ Round(ticket[u]) \in Nat
                         /\ SqPos(ticket[u]) \in 0 .. SqSize - 1
  BY TicketType
<1>4. \A u \in Threads : pc'[u] \in Holding =>
        ticket'[u] < in_ticket' /\ Round(ticket'[u]) >= LeftOf(tickets', FreedTo', SqPos(ticket'[u]))
  BY <1>1, <1>3 DEF TicketInv
<1>5. \A u, v \in Threads :
        pc'[u] \in Holding /\ pc'[v] \in Holding /\ ticket'[u] = ticket'[v] => u = v
  BY <1>1 DEF TicketInv
<1>6. ASSUME NEW u \in Threads, pc'[u] \in AtPlace
      PROVE  /\ Round(ticket'[u]) = LeftOf(tickets', FreedTo', SqPos(ticket'[u]))
             /\ Round(ticket'[u]) <= Turns(FreedTo', SqPos(ticket'[u]))
  <2>1. /\ Round(ticket[u]) = Left(SqPos(ticket[u])) /\ Round(ticket[u]) <= Turns(FreedTo, SqPos(ticket[u]))
    BY <1>1, <1>6 DEF TicketInv
  <2>2. /\ Turns(FreedTo, SqPos(ticket[u])) <= Turns(FreedTo', SqPos(ticket[u]))
        /\ Turns(FreedTo, SqPos(ticket[u])) \in Nat /\ Turns(FreedTo', SqPos(ticket[u])) \in Nat
    <3>1. FreedTo' \in Nat /\ FreedTo <= FreedTo'
      BY <1>1, <1>2
    <3>. QED  BY <1>2, <1>3, <3>1, TurnsGrow, TurnsType
  <2>. QED  BY <1>1, <1>3, <2>1, <2>2
<1>7. \A p \in 0 .. SqSize - 1 : LeftOf(tickets', FreedTo', p) <= Turns(in_ticket', p)
  BY <1>1 DEF TicketInv
<1>. QED  BY <1>4, <1>5, <1>6, <1>7, TicketInvNext

LEMMA TicketStep ==
  ASSUME TypeOK, LockInv, TicketInv, SubmitInv, WindowInv, QNext  PROVE TicketInv'
<1>0. pc \in [Threads -> Labels]
  BY DEF TypeOK
<1>1. ASSUME NEW t \in Threads,
             \/ \E c \in Cids : GetCid(t, c)
             \/ Copy(t) \/ MarkTail(t) \/ LookTail(t)
             \/ Poll(t) \/ Entry(t) \/ PosLock(t) \/ MarkHead(t) \/ LookHead(t)
             \/ AwaitHead(t) \/ PosFree(t) \/ PutCid(t) \/ Again(t)
      PROVE  TicketInv'
  <2>1. /\ UNCHANGED <<in_ticket, tickets, ticket>>
        /\ \A u \in Threads : /\ pc'[u] \in Holding => pc[u] \in Holding
                              /\ pc'[u] \in AtPlace => pc[u] \in AtPlace
    BY <1>0, <1>1 DEF GetCid, Copy, MarkTail, LookTail, Poll, Entry, PosLock, MarkHead, LookHead,
       AwaitHead, PosFree, PutCid, Again, Goto, sqVars, idVars, Holding, AtPlace
  <2>2. FreedTo' = FreedTo
    BY <1>1, UsersLeaveCursors DEF Users, HeadCursors
  <2>. QED  BY <2>1, <2>2, TicketSame
<1>2. ASSUME NEW t \in Threads, AtTail(t)  PROVE TicketInv'
  <2>1. /\ UNCHANGED <<in_ticket, tickets, ticket>>
        /\ \A u \in Threads : /\ pc'[u] \in Holding => pc[u] \in Holding
                              /\ pc'[u] \in AtPlace => pc[u] \in AtPlace
    BY <1>0, <1>2 DEF AtTail, TryTail, MoveTail, RingTail, StoreTail, UnlockTail, Goto, idVars,
       Holding, AtPlace
  <2>2. FreedTo' = FreedTo
    BY <1>2, AtTailLeavesHead DEF HeadCursors
  <2>. QED  BY <2>1, <2>2, TicketSame
<1>3. ASSUME NEW t \in Threads,
             \/ TryHead(t) \/ MoveHead(t) \/ ReadSqHead(t)
             \/ MoveSqHead(t) \/ RingHead(t) \/ StoreHead(t) \/ UnlockHead(t)
      PROVE  TicketInv'
  <2>1. /\ UNCHANGED <<in_ticket, tickets, ticket>>
        /\ \A u \in Threads : /\ pc'[u] \in Holding => pc[u] \in Holding
                              /\ pc'[u] \in AtPlace => pc[u] \in AtPlace
    BY <1>0, <1>3 DEF TryHead, MoveHead, ReadSqHead, MoveSqHead, RingHead, StoreHead, UnlockHead,
       Goto, sqVars, idVars, Holding, AtPlace
  <2>2. FreedTo' = FreedTo
    BY <1>3, HeadCursorSteps DEF HeadCursors
  <2>. QED  BY <2>1, <2>2, TicketSame
<1>4. CASE Fetch \/ (\E c \in working : Complete(c)) \/ UNCHANGED vars
  <2>1. UNCHANGED <<in_ticket, tickets, ticket, pc>>
    BY <1>4 DEF Fetch, Complete, vars, sqVars, idVars
  <2>2. FreedTo' = FreedTo
    BY <1>4, SsdLeavesCursors DEF HeadCursors
  <2>. QED  BY <2>1, <2>2, TicketSame
<1>5. ASSUME NEW t \in Threads, TakeTicket(t) \/ AwaitTurn(t) \/ Leave(t) \/ Free(t)  PROVE TicketInv'
  BY <1>5, TakeTicketStep, AwaitTurnTicket, LeaveTicket, FreeTicket
<1>. QED  BY <1>1, <1>2, <1>3, <1>4, <1>5, StepsAre DEF Users, AtHead
------------------------------------------------------------------------------
(***************************************************************************)
(* The tail.                                                                *)
(***************************************************************************)
LEMMA SubmitInvNext ==
  ASSUME \A u \in Threads :
           /\ pc'[u] \in {"copy", "mark"} => ticket'[u] >= MovedTail'
           /\ pc'[u] \in Marked => (tail_mark'[SqPos(ticket'[u])] <=> ticket'[u] >= MovedTail')
           /\ pc'[u] = "leave" => ticket'[u] < MovedTail',
         \A p \in 0 .. SqSize - 1 : tail_mark'[p] =>
           \E u \in Threads : pc'[u] \in Marked /\ SqPos(ticket'[u]) = p /\ ticket'[u] >= MovedTail',
         \A p \in 0 .. SqSize - 1 :
           Turns(MovedTail', p) =
             LeftOf(tickets', FreedTo', p)
             + Num(\E u \in Threads :
                     pc'[u] \in AtPlace /\ SqPos(ticket'[u]) = p /\ ticket'[u] < MovedTail')
  PROVE  SubmitInv'
BY DEF SubmitInv, Submitted, Left, LeftOf, Turns, SqPos, Round, Num

LEMMA SubmitSame ==
  ASSUME TypeOK, SubmitInv, UNCHANGED <<MovedTail, tail_mark>>,
         \A p \in 0 .. SqSize - 1 : LeftOf(tickets', FreedTo', p) = Left(p),
         \A u \in Threads :
           /\ pc'[u] \in AtPlace <=> pc[u] \in AtPlace
           /\ pc[u] \in AtPlace => ticket'[u] = ticket[u]
           /\ pc'[u] \in {"copy", "mark"} => pc[u] \in {"copy", "mark"}
           /\ pc'[u] \in Marked => pc[u] \in Marked
           /\ pc[u] \in Marked /\ ticket[u] >= MovedTail => pc'[u] \in Marked
           /\ pc'[u] = "leave" => ticket[u] < MovedTail
  PROVE  SubmitInv'
<1>0. Marked \subseteq AtPlace /\ {"copy", "mark", "leave"} \subseteq AtPlace
  BY DEF Marked, AtPlace, TailMovers
<1>1. \A u \in Threads :
        /\ pc'[u] \in {"copy", "mark"} => ticket'[u] >= MovedTail'
        /\ pc'[u] \in Marked => (tail_mark'[SqPos(ticket'[u])] <=> ticket'[u] >= MovedTail')
        /\ pc'[u] = "leave" => ticket'[u] < MovedTail'
  BY <1>0 DEF SubmitInv
<1>2. \A p \in 0 .. SqSize - 1 : tail_mark'[p] =>
        \E u \in Threads : pc'[u] \in Marked /\ SqPos(ticket'[u]) = p /\ ticket'[u] >= MovedTail'
  BY <1>0 DEF SubmitInv
<1>3. ASSUME NEW p \in 0 .. SqSize - 1
      PROVE  Turns(MovedTail', p) =
               LeftOf(tickets', FreedTo', p)
               + Num(\E u \in Threads :
                       pc'[u] \in AtPlace /\ SqPos(ticket'[u]) = p /\ ticket'[u] < MovedTail')
  <2>1. Submitted(p) <=>
          \E u \in Threads : pc'[u] \in AtPlace /\ SqPos(ticket'[u]) = p /\ ticket'[u] < MovedTail'
    BY DEF Submitted
  <2>. QED  BY <2>1 DEF SubmitInv, Num
<1>. QED  BY <1>1, <1>2, <1>3, SubmitInvNext

LEMMA AwaitTurnSubmit ==
  ASSUME TypeOK, LockInv, TicketInv, SubmitInv, WindowInv, NEW t \in Threads, AwaitTurn(t)
  PROVE  SubmitInv'
<1>1. /\ pc[t] = "turn" /\ UNCHANGED <<tail_mark, tickets, ticket>>
      /\ \A u \in Threads : pc'[u] = IF u = t THEN "copy" ELSE pc[u]
  BY DEF TypeOK, AwaitTurn, Goto, sqVars, idVars
<1>2. FreedTo' = FreedTo /\ MovedTail' = MovedTail
  BY UsersLeaveCursors DEF Users, HeadCursors, TailCursors
<1>3. ticket[t] >= MovedTail /\ ticket[t] \in Nat /\ MovedTail \in Nat
  BY TurnComes, TicketType, CursorTypes
<1>4. \A u \in Threads : /\ pc'[u] \in AtPlace <=> u = t \/ pc[u] \in AtPlace
                         /\ pc'[u] \in {"copy", "mark"} => u = t \/ pc[u] \in {"copy", "mark"}
                         /\ pc'[u] \in Marked <=> pc[u] \in Marked
                         /\ pc'[u] = "leave" <=> pc[u] = "leave"
  BY <1>1 DEF AtPlace, Marked, TailMovers
<1>5. \A u \in Threads :
        /\ pc'[u] \in {"copy", "mark"} => ticket'[u] >= MovedTail'
        /\ pc'[u] \in Marked => (tail_mark'[SqPos(ticket'[u])] <=> ticket'[u] >= MovedTail')
        /\ pc'[u] = "leave" => ticket'[u] < MovedTail'
  BY <1>1, <1>2, <1>3, <1>4 DEF SubmitInv
<1>6. \A p \in 0 .. SqSize - 1 : tail_mark'[p] =>
        \E u \in Threads : pc'[u] \in Marked /\ SqPos(ticket'[u]) = p /\ ticket'[u] >= MovedTail'
  BY <1>1, <1>2, <1>4 DEF SubmitInv
<1>7. ASSUME NEW p \in 0 .. SqSize - 1
      PROVE  Turns(MovedTail', p) =
               LeftOf(tickets', FreedTo', p)
               + Num(\E u \in Threads :
                       pc'[u] \in AtPlace /\ SqPos(ticket'[u]) = p /\ ticket'[u] < MovedTail')
  <2>1. ~(ticket[t] < MovedTail)
    BY <1>3
  <2>2. Submitted(p) <=>
          \E u \in Threads : pc'[u] \in AtPlace /\ SqPos(ticket'[u]) = p /\ ticket'[u] < MovedTail'
    BY <1>1, <1>2, <1>4, <2>1 DEF Submitted
  <2>. QED  BY <1>1, <1>2, <2>2 DEF SubmitInv, Num, Left
<1>. QED  BY <1>5, <1>6, <1>7, SubmitInvNext

LEMMA MarkTailSubmit ==
  ASSUME TypeOK, LockInv, TicketInv, SubmitInv, NEW t \in Threads, MarkTail(t)
  PROVE  SubmitInv'
<1> DEFINE q == SqPos(ticket[t])
<1>1. /\ pc[t] = "mark" /\ UNCHANGED <<tickets, ticket>>
      /\ \A p \in 0 .. SqSize - 1 : tail_mark'[p] = IF p = q THEN TRUE ELSE tail_mark[p]
      /\ \A u \in Threads : pc'[u] = IF u = t THEN "tail" ELSE pc[u]
  <2>1. tail_mark \in [0 .. SqSize - 1 -> BOOLEAN] /\ q \in 0 .. SqSize - 1
    BY TicketType DEF TypeOK
  <2>2. \A p \in 0 .. SqSize - 1 : tail_mark'[p] = IF p = q THEN TRUE ELSE tail_mark[p]
    BY <2>1 DEF MarkTail
  <2>. QED  BY <2>2 DEF TypeOK, MarkTail, Goto, idVars
<1>2. FreedTo' = FreedTo /\ MovedTail' = MovedTail
  BY UsersLeaveCursors DEF Users, HeadCursors, TailCursors
<1>3. ticket[t] >= MovedTail /\ ticket[t] \in Nat /\ MovedTail \in Nat /\ q \in 0 .. SqSize - 1
  BY <1>1, TicketType, CursorTypes DEF SubmitInv
<1>4. \A u \in Threads : /\ pc'[u] \in AtPlace <=> pc[u] \in AtPlace
                         /\ pc'[u] \in {"copy", "mark"} => pc[u] \in {"copy", "mark"}
                         /\ pc'[u] \in Marked <=> u = t \/ pc[u] \in Marked
                         /\ pc'[u] = "leave" <=> pc[u] = "leave"
                         /\ pc[u] \in Marked => u # t
  BY <1>1 DEF AtPlace, Marked, TailMovers
<1>5. \A u \in Threads : pc[u] \in Marked => SqPos(ticket[u]) # q
  BY <1>1, <1>4, AloneAtPlace DEF AtPlace, Marked, TailMovers
<1>6. \A u \in Threads : SqPos(ticket[u]) \in 0 .. SqSize - 1
  BY TicketType
<1>7. \A u \in Threads :
        /\ pc'[u] \in {"copy", "mark"} => ticket'[u] >= MovedTail'
        /\ pc'[u] \in Marked => (tail_mark'[SqPos(ticket'[u])] <=> ticket'[u] >= MovedTail')
        /\ pc'[u] = "leave" => ticket'[u] < MovedTail'
  BY <1>1, <1>2, <1>3, <1>4, <1>5, <1>6 DEF SubmitInv
<1>8. \A p \in 0 .. SqSize - 1 : tail_mark'[p] =>
        \E u \in Threads : pc'[u] \in Marked /\ SqPos(ticket'[u]) = p /\ ticket'[u] >= MovedTail'
  BY <1>1, <1>2, <1>3, <1>4 DEF SubmitInv
<1>9. ASSUME NEW p \in 0 .. SqSize - 1
      PROVE  Turns(MovedTail', p) =
               LeftOf(tickets', FreedTo', p)
               + Num(\E u \in Threads :
                       pc'[u] \in AtPlace /\ SqPos(ticket'[u]) = p /\ ticket'[u] < MovedTail')
  <2>1. Submitted(p) <=>
          \E u \in Threads : pc'[u] \in AtPlace /\ SqPos(ticket'[u]) = p /\ ticket'[u] < MovedTail'
    BY <1>1, <1>2, <1>4 DEF Submitted
  <2>. QED  BY <1>1, <1>2, <2>1 DEF SubmitInv, Num, Left
<1>. QED  BY <1>7, <1>8, <1>9, SubmitInvNext

\* move_tail goes on over a marked place: the ticket of the place's user is the tail.
LEMMA TailUser ==
  ASSUME TypeOK, LockInv, TicketInv, SubmitInv, tail_mark[SqPos(MovedTail)]
  PROVE  \E u \in Threads : pc[u] \in Marked /\ ticket[u] = MovedTail
<1> DEFINE p == SqPos(MovedTail)
<1>1. MovedTail \in Nat /\ p \in 0 .. SqSize - 1 /\ Round(MovedTail) \in Nat
  BY CursorTypes, Places
<1>2. PICK u \in Threads : pc[u] \in Marked /\ SqPos(ticket[u]) = p /\ ticket[u] >= MovedTail
  BY <1>1 DEF SubmitInv
<1>3. pc[u] \in AtPlace /\ ticket[u] \in Nat /\ Left(p) \in Int
  BY <1>1, <1>2, TicketType, LeftType DEF Marked, AtPlace, TailMovers
<1>4. ~Submitted(p)
  <2>1. ASSUME NEW v \in Threads, pc[v] \in AtPlace, SqPos(ticket[v]) = p, ticket[v] < MovedTail
        PROVE  FALSE
    <3>1. v = u
      BY <1>2, <1>3, <2>1, AloneAtPlace
    <3>. QED  BY <1>1, <1>2, <1>3, <2>1, <3>1
  <2>. QED  BY <2>1 DEF Submitted
<1>5. Turns(MovedTail, p) = Left(p) + 0
  BY <1>1, <1>4 DEF SubmitInv, Num
<1>6. Round(MovedTail) = Left(p)
  BY <1>1, <1>3, <1>5, TurnsAt
<1>7. Round(ticket[u]) = Left(p)
  BY <1>2, <1>3 DEF TicketInv
<1>8. ticket[u] = MovedTail
  BY <1>1, <1>2, <1>3, <1>6, <1>7, SameTicket
<1>. QED  BY <1>2, <1>8

\* One round of move_tail: it goes over the mark of a place, or stops.
LEMMA MoveTailIs ==
  ASSUME TypeOK, LockInv, NEW t \in Threads, MoveTail(t)
  PROVE  \/ /\ MovedTail' = MovedTail + 1 /\ tail_mark[SqPos(MovedTail)] /\ pc' = pc
            /\ SqPos(MovedTail + 1) # SqPos(sq_head)
            /\ tail_mark' = [tail_mark EXCEPT ![SqPos(MovedTail)] = FALSE]
         \/ /\ MovedTail' = MovedTail /\ tail_mark' = tail_mark
            /\ \A u \in Threads : pc'[u] = pc[u] \/ (u = t /\ pc'[u] \in {"untail", "ring"})
<1>0. moved \in [Threads -> Nat] /\ pc \in [Threads -> Labels] /\ sq_tail \in Nat
  BY DEF TypeOK
<1>1. MovedTail = sq_tail + moved[t] /\ MovedTail' = sq_tail + moved'[t]
  BY TailCursorSteps
<1>2. CASE SqPos(MovedTail + 1) # SqPos(sq_head) /\ tail_mark[SqPos(MovedTail)]
  <2>1. /\ moved'[t] = moved[t] + 1 /\ pc' = pc
        /\ tail_mark' = [tail_mark EXCEPT ![SqPos(MovedTail)] = FALSE]
    BY <1>0, <1>1, <1>2 DEF MoveTail
  <2>. QED  BY <1>0, <1>1, <1>2, <2>1
<1>3. CASE ~(SqPos(MovedTail + 1) # SqPos(sq_head) /\ tail_mark[SqPos(MovedTail)])
  <2>1. /\ moved' = moved /\ tail_mark' = tail_mark
        /\ \A u \in Threads : pc'[u] = pc[u] \/ (u = t /\ pc'[u] \in {"untail", "ring"})
    BY <1>0, <1>1, <1>3 DEF MoveTail, Goto
  <2>. QED  BY <1>1, <2>1
<1>. QED  BY <1>2, <1>3

LEMMA MoveTailSubmit ==
  ASSUME TypeOK, LockInv, TicketInv, SubmitInv, NEW t \in Threads, MoveTail(t),
         MovedTail' = MovedTail + 1, tail_mark[SqPos(MovedTail)], pc' = pc,
         tail_mark' = [tail_mark EXCEPT ![SqPos(MovedTail)] = FALSE]
  PROVE  SubmitInv'
<1> DEFINE q == SqPos(MovedTail)
<1>1. /\ UNCHANGED <<tickets, ticket, pc>> /\ MovedTail \in Nat /\ q \in 0 .. SqSize - 1
      /\ \A p \in 0 .. SqSize - 1 : tail_mark'[p] = IF p = q THEN FALSE ELSE tail_mark[p]
  <2>1. tail_mark \in [0 .. SqSize - 1 -> BOOLEAN] /\ MovedTail \in Nat /\ q \in 0 .. SqSize - 1
    BY CursorTypes, Places DEF TypeOK
  <2>2. \A p \in 0 .. SqSize - 1 : tail_mark'[p] = IF p = q THEN FALSE ELSE tail_mark[p]
    BY <2>1
  <2>. QED  BY <2>1, <2>2 DEF MoveTail, idVars
<1>2. FreedTo' = FreedTo
  BY AtTailLeavesHead DEF AtTail, HeadCursors
<1>3. PICK w \in Threads : pc[w] \in Marked /\ ticket[w] = MovedTail
  BY TailUser
<1>4. \A u \in Threads : pc[u] \in AtPlace /\ SqPos(ticket[u]) = q => u = w
  BY <1>3, AloneAtPlace DEF Marked, AtPlace, TailMovers
<1>5. \A u \in Threads : pc[u] \in AtPlace /\ u # w =>
        ticket[u] # MovedTail /\ (ticket[u] >= MovedTail <=> ticket[u] >= MovedTail')
  <2>1. ASSUME NEW u \in Threads, pc[u] \in AtPlace, u # w
        PROVE  ticket[u] # MovedTail /\ (ticket[u] >= MovedTail <=> ticket[u] >= MovedTail')
    <3>1. ticket[u] # MovedTail /\ ticket[u] \in Nat
      BY <1>4, <2>1, TicketType
    <3>. QED  BY <1>1, <3>1
  <2>. QED  BY <2>1
<1>6. \A u \in Threads : SqPos(ticket[u]) \in 0 .. SqSize - 1
  BY TicketType
<1>7. Marked \subseteq AtPlace /\ {"copy", "mark", "leave"} \subseteq AtPlace
      /\ Marked \cap {"copy", "mark", "leave"} = {}
  BY DEF Marked, AtPlace, TailMovers
<1>8. ASSUME NEW u \in Threads
      PROVE  /\ pc'[u] \in {"copy", "mark"} => ticket'[u] >= MovedTail'
             /\ pc'[u] \in Marked => (tail_mark'[SqPos(ticket'[u])] <=> ticket'[u] >= MovedTail')
             /\ pc'[u] = "leave" => ticket'[u] < MovedTail'
  <2>1. CASE u = w
    <3>1. ~(ticket[w] >= MovedTail') /\ ticket[w] < MovedTail'
      BY <1>1, <1>3
    <3>2. ~tail_mark'[SqPos(ticket[w])]
      BY <1>1, <1>3
    <3>. QED  BY <1>1, <1>3, <1>7, <2>1, <3>1, <3>2
  <2>2. CASE u # w
    <3>1. pc[u] = "leave" => ticket[u] < MovedTail'
      <4>1. pc[u] = "leave" => ticket[u] < MovedTail /\ ticket[u] \in Nat
        BY TicketType DEF SubmitInv
      <4>. QED  BY <1>1, <4>1
    <3>2. pc[u] \in {"copy", "mark"} => ticket[u] >= MovedTail'
      BY <1>5, <1>7, <2>2 DEF SubmitInv
    <3>3. pc[u] \in Marked => (tail_mark'[SqPos(ticket[u])] <=> ticket[u] >= MovedTail')
      BY <1>1, <1>4, <1>5, <1>6, <1>7, <2>2 DEF SubmitInv
    <3>. QED  BY <1>1, <3>1, <3>2, <3>3
  <2>. QED  BY <2>1, <2>2
<1>9. ASSUME NEW p \in 0 .. SqSize - 1, tail_mark'[p]
      PROVE  \E u \in Threads : pc'[u] \in Marked /\ SqPos(ticket'[u]) = p /\ ticket'[u] >= MovedTail'
  <2>1. tail_mark[p] /\ p # q
    BY <1>1, <1>9
  <2>2. PICK u \in Threads : pc[u] \in Marked /\ SqPos(ticket[u]) = p /\ ticket[u] >= MovedTail
    BY <2>1 DEF SubmitInv
  <2>3. u # w
    BY <1>3, <2>1, <2>2
  <2>. QED  BY <1>1, <1>5, <1>7, <2>2, <2>3
<1>10. ASSUME NEW p \in 0 .. SqSize - 1
      PROVE  Turns(MovedTail', p) =
               LeftOf(tickets', FreedTo', p)
               + Num(\E u \in Threads :
                       pc'[u] \in AtPlace /\ SqPos(ticket'[u]) = p /\ ticket'[u] < MovedTail')
  <2> DEFINE S == \E u \in Threads :
                    pc'[u] \in AtPlace /\ SqPos(ticket'[u]) = p /\ ticket'[u] < MovedTail'
  <2>1. Turns(MovedTail', p) = Turns(MovedTail, p) + Num(p = q)
    BY <1>1, NextTurn
  <2>2. /\ Turns(MovedTail, p) = Left(p) + Num(Submitted(p)) /\ Left(p) \in Int
        /\ LeftOf(tickets', FreedTo', p) = Left(p)
    BY <1>1, <1>2, LeftType DEF SubmitInv, Left
  <2>3. CASE p = q
    <3>1. ~Submitted(p)
      <4>1. ~(ticket[w] < MovedTail)
        BY <1>1, <1>3
      <4>. QED  BY <1>4, <2>3, <4>1 DEF Submitted
    <3>2. S
      <4>1. ticket'[w] < MovedTail' /\ pc'[w] \in AtPlace /\ SqPos(ticket'[w]) = p
        BY <1>1, <1>3, <1>7, <2>3
      <4>. QED  BY <4>1
    <3> HIDE DEF S
    <3>3. Num(p = q) = 1 /\ Num(Submitted(p)) = 0 /\ Num(S) = 1
      BY <2>3, <3>1, <3>2 DEF Num
    <3>4. Turns(MovedTail', p) = LeftOf(tickets', FreedTo', p) + Num(S)
      BY <2>1, <2>2, <3>3
    <3>. QED  BY <3>4 DEF S
  <2>4. CASE p # q
    <3>1. \A u \in Threads : pc[u] \in AtPlace /\ SqPos(ticket[u]) = p =>
            (ticket[u] < MovedTail <=> ticket[u] < MovedTail')
      <4>1. ASSUME NEW u \in Threads, pc[u] \in AtPlace, SqPos(ticket[u]) = p
            PROVE  ticket[u] < MovedTail <=> ticket[u] < MovedTail'
        <5>1. u # w /\ ticket[u] \in Nat
          BY <1>3, <2>4, <4>1, TicketType
        <5>. QED  BY <1>1, <1>5, <4>1, <5>1
      <4>. QED  BY <4>1
    <3>2. Submitted(p) <=> S
      BY <1>1, <3>1 DEF Submitted
    <3> HIDE DEF S
    <3>3. Num(p = q) = 0 /\ Num(Submitted(p)) = Num(S) /\ Num(S) \in {0, 1}
      BY <2>4, <3>2 DEF Num
    <3>4. Turns(MovedTail', p) = LeftOf(tickets', FreedTo', p) + Num(S)
      BY <2>1, <2>2, <3>3
    <3>. QED  BY <3>4 DEF S
  <2>. QED  BY <2>3, <2>4
<1>. QED  BY <1>8, <1>9, <1>10, SubmitInvNext

LEMMA LeaveSubmit ==
  ASSUME TypeOK, LockInv, TicketInv, SubmitInv, NEW t \in Threads, Leave(t)  PROVE SubmitInv'
<1> DEFINE q == SqPos(ticket[t])
<1>1. /\ pc[t] = "leave" /\ FreedTo' = FreedTo /\ MovedTail' = MovedTail /\ tail_mark' = tail_mark
      /\ \A u \in Threads : pc'[u] = IF u = t THEN "poll" ELSE pc[u]
      /\ \A u \in Threads : u # t => ticket'[u] = ticket[u]
      /\ \A p \in 0 .. SqSize - 1 : LeftOf(tickets', FreedTo', p) = Left(p) + Num(p = q)
  BY LeaveIs DEF Leave
<1>2. ticket[t] < MovedTail /\ pc[t] \in AtPlace
  BY <1>1 DEF SubmitInv, AtPlace
<1>3. \A u \in Threads : pc[u] \in AtPlace /\ SqPos(ticket[u]) = q => u = t
  BY <1>2, AloneAtPlace
<1> HIDE DEF q
<1>4. \A u \in Threads : /\ pc'[u] \in AtPlace <=> u # t /\ pc[u] \in AtPlace
                         /\ pc'[u] \in {"copy", "mark"} <=> pc[u] \in {"copy", "mark"}
                         /\ pc'[u] \in Marked <=> pc[u] \in Marked
                         /\ pc[u] \in {"copy", "mark"} \cup Marked => u # t
                         /\ pc'[u] = "leave" => u # t /\ pc[u] = "leave"
  BY <1>1 DEF AtPlace, Marked, TailMovers
<1>5. \A u \in Threads :
        /\ pc'[u] \in {"copy", "mark"} => ticket'[u] >= MovedTail'
        /\ pc'[u] \in Marked => (tail_mark'[SqPos(ticket'[u])] <=> ticket'[u] >= MovedTail')
        /\ pc'[u] = "leave" => ticket'[u] < MovedTail'
  BY <1>1, <1>4 DEF SubmitInv
<1>6. \A p \in 0 .. SqSize - 1 : tail_mark'[p] =>
        \E u \in Threads : pc'[u] \in Marked /\ SqPos(ticket'[u]) = p /\ ticket'[u] >= MovedTail'
  BY <1>1, <1>4 DEF SubmitInv
<1>7. ASSUME NEW p \in 0 .. SqSize - 1
      PROVE  Turns(MovedTail', p) =
               LeftOf(tickets', FreedTo', p)
               + Num(\E u \in Threads :
                       pc'[u] \in AtPlace /\ SqPos(ticket'[u]) = p /\ ticket'[u] < MovedTail')
  <2> DEFINE S == \E u \in Threads :
                    pc'[u] \in AtPlace /\ SqPos(ticket'[u]) = p /\ ticket'[u] < MovedTail'
  <2>1. /\ Turns(MovedTail, p) = Left(p) + Num(Submitted(p)) /\ Left(p) \in Int
        /\ LeftOf(tickets', FreedTo', p) = Left(p) + Num(p = q)
    BY <1>1, LeftType DEF SubmitInv
  <2>2. CASE p = q
    <3>1. Submitted(p)
      BY <1>2, <2>2 DEF Submitted, q
    <3>2. ~S
      BY <1>1, <1>3, <1>4, <2>2
    <3> HIDE DEF S
    <3>3. Num(p = q) = 1 /\ Num(Submitted(p)) = 1 /\ Num(S) = 0
      BY <2>2, <3>1, <3>2 DEF Num
    <3>4. Turns(MovedTail', p) = LeftOf(tickets', FreedTo', p) + Num(S)
      BY <1>1, <2>1, <3>3
    <3>. QED  BY <3>4 DEF S
  <2>3. CASE p # q
    <3>1. Submitted(p) <=> S
      <4>1. \A u \in Threads : /\ pc[u] \in AtPlace /\ SqPos(ticket[u]) = p
                               <=> pc'[u] \in AtPlace /\ SqPos(ticket'[u]) = p
        BY <1>1, <1>4, <2>3 DEF q
      <4>2. \A u \in Threads : pc'[u] \in AtPlace => ticket'[u] = ticket[u]
        BY <1>1, <1>4
      <4>. QED  BY <1>1, <4>1, <4>2 DEF Submitted
    <3> HIDE DEF S
    <3>2. Num(p = q) = 0 /\ Num(Submitted(p)) = Num(S) /\ Num(S) \in {0, 1}
      BY <2>3, <3>1 DEF Num
    <3>3. Turns(MovedTail', p) = LeftOf(tickets', FreedTo', p) + Num(S)
      BY <1>1, <2>1, <3>2
    <3>. QED  BY <3>3 DEF S
  <2>. QED  BY <2>2, <2>3
<1>. QED  BY <1>5, <1>6, <1>7, SubmitInvNext

LEMMA SubmitStep ==
  ASSUME TypeOK, LockInv, TicketInv, SubmitInv, WindowInv, QNext  PROVE SubmitInv'
<1>0. /\ pc \in [Threads -> Labels] /\ ticket \in [Threads -> Nat]
  BY DEF TypeOK
<1> DEFINE LeftSame == \A p \in 0 .. SqSize - 1 : LeftOf(tickets', FreedTo', p) = Left(p)
           PcSame == \A u \in Threads :
             /\ pc'[u] \in AtPlace <=> pc[u] \in AtPlace
             /\ pc[u] \in AtPlace => ticket'[u] = ticket[u]
             /\ pc'[u] \in {"copy", "mark"} => pc[u] \in {"copy", "mark"}
             /\ pc'[u] \in Marked => pc[u] \in Marked
             /\ pc[u] \in Marked /\ ticket[u] >= MovedTail => pc'[u] \in Marked
             /\ pc'[u] = "leave" => ticket[u] < MovedTail
<1>s. ASSUME LeftSame, PcSame, MovedTail' = MovedTail, tail_mark' = tail_mark  PROVE SubmitInv'
  BY <1>s, SubmitSame
<1>l. ASSUME FreedTo' = FreedTo, tickets' = tickets  PROVE LeftSame
  BY <1>l DEF Left
<1>p. \A u \in Threads : pc[u] = "leave" => ticket[u] < MovedTail
  BY DEF SubmitInv
<1>1. ASSUME NEW t \in Threads,
             \/ \E c \in Cids : GetCid(t, c)
             \/ TakeTicket(t) \/ Copy(t)
             \/ Poll(t) \/ Entry(t) \/ PosLock(t) \/ MarkHead(t) \/ LookHead(t)
             \/ AwaitHead(t) \/ PosFree(t) \/ PutCid(t) \/ Again(t)
      PROVE  SubmitInv'
  <2>1. UNCHANGED <<tickets, tail_mark>>
    BY <1>1 DEF GetCid, TakeTicket, Copy, Poll, Entry, PosLock, MarkHead, LookHead,
       AwaitHead, PosFree, PutCid, Again, sqVars
  <2>2. PcSame
    BY <1>0, <1>1, <1>p DEF GetCid, TakeTicket, Copy, Poll, Entry, PosLock, MarkHead, LookHead,
       AwaitHead, PosFree, PutCid, Again, Goto, idVars, AtPlace, Marked, TailMovers
  <2>3. FreedTo' = FreedTo /\ MovedTail' = MovedTail
    BY <1>1, UsersLeaveCursors DEF Users, HeadCursors, TailCursors
  <2> HIDE DEF LeftSame, PcSame
  <2>. QED  BY <1>s, <1>l, <2>1, <2>2, <2>3
<1>2. ASSUME NEW t \in Threads, LookTail(t)  PROVE SubmitInv'
  <2>1. UNCHANGED <<tickets, tail_mark, ticket>> /\ pc[t] = "tail"
    BY <1>2 DEF LookTail, sqVars, idVars
  <2>2. /\ \A u \in Threads : u # t => pc'[u] = pc[u]
        /\ IF tail_mark[SqPos(ticket[t])] THEN pc'[t] = "trytail" ELSE pc'[t] = "leave"
    BY <1>0, <1>2 DEF LookTail, Goto
  <2>3. tail_mark[SqPos(ticket[t])] <=> ticket[t] >= MovedTail
    BY <2>1 DEF SubmitInv, Marked
  <2>4. ticket[t] \in Nat /\ MovedTail \in Nat
    BY CursorTypes, TicketType
  <2>5. PcSame
    BY <1>p, <2>1, <2>2, <2>3, <2>4 DEF AtPlace, Marked, TailMovers
  <2>6. FreedTo' = FreedTo /\ MovedTail' = MovedTail
    BY <1>2, UsersLeaveCursors DEF Users, HeadCursors, TailCursors
  <2> HIDE DEF LeftSame, PcSame
  <2>. QED  BY <1>s, <1>l, <2>1, <2>5, <2>6
<1>3. ASSUME NEW t \in Threads, TryTail(t) \/ RingTail(t) \/ StoreTail(t) \/ UnlockTail(t)
      PROVE  SubmitInv'
  <2>1. UNCHANGED <<tickets, tail_mark>>
    BY <1>3 DEF TryTail, RingTail, StoreTail, UnlockTail
  <2>2. PcSame
    BY <1>0, <1>3, <1>p DEF TryTail, RingTail, StoreTail, UnlockTail, Goto, idVars, AtPlace, Marked,
       TailMovers
  <2>3. FreedTo' = FreedTo /\ MovedTail' = MovedTail
    BY <1>3, AtTailLeavesHead, TailCursorSteps DEF AtTail, HeadCursors, TailCursors
  <2> HIDE DEF LeftSame, PcSame
  <2>. QED  BY <1>s, <1>l, <2>1, <2>2, <2>3
<1>4. ASSUME NEW t \in Threads, MoveTail(t)  PROVE SubmitInv'
  <2>1. CASE /\ MovedTail' = MovedTail + 1 /\ tail_mark[SqPos(MovedTail)] /\ pc' = pc
             /\ tail_mark' = [tail_mark EXCEPT ![SqPos(MovedTail)] = FALSE]
    BY <1>4, <2>1, MoveTailSubmit
  <2>2. CASE /\ MovedTail' = MovedTail /\ tail_mark' = tail_mark
             /\ \A u \in Threads : pc'[u] = pc[u] \/ (u = t /\ pc'[u] \in {"untail", "ring"})
    <3>1. UNCHANGED <<tickets, ticket>> /\ pc[t] = "movetail"
      BY <1>4 DEF MoveTail, idVars
    <3>2. PcSame
      BY <1>p, <2>2, <3>1 DEF AtPlace, Marked, TailMovers
    <3>3. FreedTo' = FreedTo
      BY <1>4, AtTailLeavesHead DEF AtTail, HeadCursors
    <3> HIDE DEF LeftSame, PcSame
    <3>. QED  BY <1>s, <1>l, <2>2, <3>1, <3>2, <3>3
  <2>. QED  BY <1>4, <2>1, <2>2, MoveTailIs
<1>5. ASSUME NEW t \in Threads,
             \/ TryHead(t) \/ MoveHead(t) \/ ReadSqHead(t)
             \/ MoveSqHead(t) \/ RingHead(t) \/ StoreHead(t) \/ UnlockHead(t)
      PROVE  SubmitInv'
  <2>1. UNCHANGED <<tickets, tail_mark>>
    BY <1>5 DEF TryHead, MoveHead, ReadSqHead, MoveSqHead, RingHead, StoreHead, UnlockHead, sqVars
  <2>2. PcSame
    BY <1>0, <1>5, <1>p DEF TryHead, MoveHead, ReadSqHead, MoveSqHead, RingHead, StoreHead, UnlockHead,
       Goto, idVars, AtPlace, Marked, TailMovers
  <2>3. FreedTo' = FreedTo
    BY <1>5, HeadCursorSteps DEF HeadCursors
  <2>4. MovedTail' = MovedTail
    BY <1>5, AtHeadLeavesTail DEF AtHead, TailCursors
  <2> HIDE DEF LeftSame, PcSame
  <2>. QED  BY <1>s, <1>l, <2>1, <2>2, <2>3, <2>4
<1>6. ASSUME NEW t \in Threads, Free(t)  PROVE SubmitInv'
  <2>1. UNCHANGED <<tail_mark, ticket>>
    BY <1>6 DEF Free, idVars
  <2>2. PcSame
    BY <1>6, <1>p, <2>1, FreeIs DEF AtPlace, Marked, TailMovers
  <2>3. LeftSame
    BY <1>6, FreeIs
  <2>4. MovedTail' = MovedTail
    BY <1>6, AtHeadLeavesTail DEF AtHead, TailCursors
  <2> HIDE DEF LeftSame, PcSame
  <2>. QED  BY <1>s, <2>1, <2>2, <2>3, <2>4
<1>7. CASE Fetch \/ (\E c \in working : Complete(c)) \/ UNCHANGED vars
  <2>1. UNCHANGED <<tickets, tail_mark, ticket>>
    BY <1>7 DEF Fetch, Complete, vars, sqVars, idVars
  <2>2. FreedTo' = FreedTo /\ MovedTail' = MovedTail /\ pc' = pc
    BY <1>7, SsdLeavesCursors DEF HeadCursors, TailCursors
  <2>3. PcSame
    BY <1>p, <2>1, <2>2
  <2> HIDE DEF LeftSame, PcSame
  <2>. QED  BY <1>s, <1>l, <2>1, <2>2, <2>3
<1>8. ASSUME NEW t \in Threads, AwaitTurn(t) \/ MarkTail(t) \/ Leave(t)  PROVE SubmitInv'
  BY <1>8, AwaitTurnSubmit, MarkTailSubmit, LeaveSubmit
<1>. QED
  BY <1>1, <1>2, <1>3, <1>4, <1>5, <1>6, <1>7, <1>8, StepsAre DEF Users, AtTail, AtHead
------------------------------------------------------------------------------
(***************************************************************************)
(* The window of the submission queue.                                      *)
(***************************************************************************)
LEMMA WindowNext ==
  ASSUME FreedTo' <= Fetched', Fetched' <= RungTail', sq_tail' <= MovedTail',
         MovedTail' < sq_head' + SqSize, sq_db' = SqPos(RungTail')
  PROVE  WindowInv'
BY DEF WindowInv, SqPos

\* What the SSD has fetched does not depend on where the count starts from.
LEMMA FetchedKept ==
  ASSUME TypeOK, WindowInv, fetched' = fetched, sq_head' = sq_head \/ sq_head' = FreedTo
  PROVE  Fetched' = Fetched
<1>1. /\ Fetched \in Nat /\ sq_head <= Fetched /\ Fetched < sq_head + SqSize
      /\ SqPos(Fetched) = fetched
  BY FetchedType
<1>2. FreedTo \in Nat /\ sq_head \in Nat /\ sq_head <= FreedTo /\ FreedTo <= Fetched
  BY CursorTypes DEF WindowInv
<1>3. Fetched' = Index(sq_head', fetched)
  BY DEF Fetched, Index, SqPos
<1>4. CASE sq_head' = sq_head
  BY <1>3, <1>4 DEF Fetched
<1>5. CASE sq_head' = FreedTo
  <2>1. Fetched < FreedTo + SqSize
    BY <1>1, <1>2, Sizes
  <2>2. Index(FreedTo, SqPos(Fetched)) = Fetched
    BY <1>1, <1>2, <2>1, IndexIs
  <2>. QED  BY <1>1, <1>3, <1>5, <2>2
<1>. QED  BY <1>4, <1>5

LEMMA FetchIs ==
  ASSUME TypeOK, WindowInv, Fetch
  PROVE  Fetched' = Fetched + 1 /\ Fetched < RungTail
<1>1. /\ Fetched \in Nat /\ sq_head <= Fetched /\ Fetched < sq_head + SqSize
      /\ SqPos(Fetched) = fetched
  BY FetchedType
<1>2. /\ RungTail \in Nat /\ MovedTail \in Nat /\ sq_head \in Nat /\ SqSize \in Nat
      /\ RungTail <= MovedTail /\ MovedTail < sq_head + SqSize /\ Fetched <= RungTail
      /\ sq_db = SqPos(RungTail)
  BY CursorTypes, Sizes DEF WindowInv
<1>3. /\ fetched # sq_db /\ fetched' = SqPos(fetched + 1) /\ sq_head' = sq_head
  BY DEF Fetch, sqVars
<1>4. Fetched < RungTail
  BY <1>1, <1>2, <1>3
<1>5. fetched' = SqPos(Fetched + 1)
  BY <1>1, <1>3, NextPlace
<1>6. Index(sq_head, SqPos(Fetched + 1)) = Fetched + 1
  <2>1. Fetched + 1 \in Nat /\ sq_head <= Fetched + 1 /\ Fetched + 1 < sq_head + SqSize
    BY <1>1, <1>2, <1>4
  <2>. QED  BY <1>2, <2>1, IndexIs
<1>7. Fetched' = Index(sq_head', fetched')
  BY DEF Fetched, Index, SqPos
<1>. QED  BY <1>3, <1>4, <1>5, <1>6, <1>7

\* The places move_head_cq frees were fetched when the completion it read was posted.
LEMMA FreeBelow ==
  ASSUME TypeOK, LockInv, HeadsInv, NEW t \in Threads, pc[t] \in {"free", "sqhead"}
  PROVE  /\ MovedHead - 1 \in Nat /\ KnownFrom <= MovedHead - 1 /\ MovedHead - 1 < posted
         /\ FreedTo <= FetchedAt(MovedHead - 1) /\ FetchedAt(MovedHead - 1) <= Fetched
         /\ FetchedAt(MovedHead - 1) \in Nat
         /\ SqPos(FetchedAt(MovedHead - 1)) = new_sq_head[t]
<1>1. head_lock = t /\ moved[t] > 0 /\ moved[t] \in Nat /\ cq_head \in Nat /\ Nobody \notin Threads
  BY QueueAssumption DEF TypeOK, LockInv, HeadMovers
<1>2. MovedHead = cq_head + moved[t] /\ KnownFrom = cq_head
  BY <1>1 DEF MovedHead, KnownFrom
<1>3. MovedHead <= posted /\ posted \in Nat
  BY CursorTypes DEF HeadsInv
<1>4. MovedHead - 1 \in Nat /\ KnownFrom <= MovedHead - 1 /\ MovedHead - 1 < posted
  BY <1>1, <1>2, <1>3
<1>5. MovedHead - 1 \in KnownFrom .. posted - 1
  BY <1>1, <1>2, <1>3
<1>6. FreedTo <= FetchedAt(MovedHead - 1) /\ FetchedAt(MovedHead - 1) <= Fetched
  BY <1>5 DEF HeadsInv
<1>7. /\ FetchedAt(MovedHead - 1) \in Nat
      /\ SqPos(FetchedAt(MovedHead - 1)) = cq_mem[CqPos(MovedHead - 1)].sqhd
  BY <1>4, FetchedAtType
<1>. QED  BY <1>4, <1>6, <1>7 DEF HeadsInv

LEMMA WindowStep ==
  ASSUME TypeOK, LockInv, WindowInv, HeadsInv, QNext  PROVE WindowInv'
<1>0. /\ FreedTo \in Nat /\ Fetched \in Nat /\ RungTail \in Nat /\ MovedTail \in Nat
      /\ sq_tail \in Nat /\ sq_head \in Nat /\ SqSize \in Nat
      /\ FreedTo <= Fetched /\ Fetched <= RungTail /\ sq_tail <= MovedTail
      /\ RungTail <= MovedTail /\ MovedTail < sq_head + SqSize /\ sq_db = SqPos(RungTail)
      /\ sq_head <= FreedTo
  BY CursorTypes, FetchedType, Sizes DEF WindowInv
<1>s. ASSUME UNCHANGED <<FreedTo, Fetched, TailCursors, sq_head, sq_db>>  PROVE WindowInv'
  BY <1>0, <1>s, WindowNext DEF TailCursors
<1>1. ASSUME NEW t \in Threads, Users(t)  PROVE WindowInv'
  <2>1. UNCHANGED <<fetched, sq_head, sq_db>>
    BY <1>1 DEF Users, GetCid, TakeTicket, AwaitTurn, Copy, MarkTail, LookTail, Leave, Poll, Entry,
       PosLock, MarkHead, LookHead, AwaitHead, PosFree, PutCid, Again, sqVars, ssdVars
  <2>2. UNCHANGED <<FreedTo, TailCursors>>
    BY <1>1, UsersLeaveCursors DEF HeadCursors
  <2>. QED  BY <1>s, <2>1, <2>2, FetchedKept
<1>2. ASSUME NEW t \in Threads, AtTail(t)  PROVE WindowInv'
  <2>1. UNCHANGED <<FreedTo, sq_head>>
    BY <1>2, AtTailLeavesHead DEF HeadCursors
  <2>2. UNCHANGED fetched
    BY <1>2 DEF AtTail, TryTail, MoveTail, RingTail, StoreTail, UnlockTail, ssdVars
  <2>3. UNCHANGED Fetched
    BY <2>1, <2>2, FetchedKept
  <2>4. CASE TryTail(t) \/ UnlockTail(t)
    <3>1. UNCHANGED sq_db
      BY <2>4 DEF TryTail, UnlockTail
    <3>. QED  BY <1>s, <2>1, <2>3, <2>4, <3>1, TailCursorSteps
  <2>5. CASE MoveTail(t)
    <3>1. UNCHANGED <<sq_db, sq_tail, RungTail>>
      BY <2>5, TailCursorSteps DEF MoveTail
    <3>2. sq_tail <= MovedTail' /\ MovedTail' < sq_head + SqSize
      <4>1. CASE MovedTail' = MovedTail
        BY <1>0, <4>1
      <4>2. CASE MovedTail' = MovedTail + 1 /\ SqPos(MovedTail + 1) # SqPos(sq_head)
        <5>1. SqPos(sq_head + SqSize) = SqPos(sq_head)
          BY <1>0, RoundLater
        <5>2. MovedTail + 1 # sq_head + SqSize
          BY <4>2, <5>1
        <5>. QED  BY <1>0, <4>2, <5>2
      <4>. QED  BY <2>5, <4>1, <4>2, MoveTailIs
    <3>. QED  BY <1>0, <2>1, <2>3, <3>1, <3>2, WindowNext
  <2>6. CASE RingTail(t)
    <3>1. MovedTail = sq_tail + moved[t] /\ RungTail' = MovedTail /\ UNCHANGED <<MovedTail, sq_tail>>
      BY <2>6, TailCursorSteps
    <3>2. sq_db' = SqPos(RungTail')
      BY <2>6, <3>1 DEF RingTail
    <3>. QED  BY <1>0, <2>1, <2>3, <3>1, <3>2, WindowNext
  <2>7. CASE StoreTail(t)
    <3>1. RungTail = MovedTail /\ sq_tail' = MovedTail /\ UNCHANGED <<MovedTail, RungTail>>
      BY <2>7, TailCursorSteps
    <3>2. UNCHANGED sq_db
      BY <2>7 DEF StoreTail
    <3>. QED  BY <1>0, <2>1, <2>3, <3>1, <3>2, WindowNext
  <2>. QED  BY <1>2, <2>4, <2>5, <2>6, <2>7 DEF AtTail
<1>3. ASSUME NEW t \in Threads, AtHead(t)  PROVE WindowInv'
  <2>1. UNCHANGED TailCursors
    BY <1>3, AtHeadLeavesTail
  <2>2. UNCHANGED <<fetched, sq_db>>
    BY <1>3 DEF AtHead, TryHead, MoveHead, ReadSqHead, Free, MoveSqHead, RingHead, StoreHead,
       UnlockHead, sqVars, ssdVars
  <2>3. CASE TryHead(t) \/ MoveHead(t) \/ ReadSqHead(t) \/ RingHead(t) \/ StoreHead(t) \/ UnlockHead(t)
    <3>1. UNCHANGED <<FreedTo, sq_head>>
      BY <2>3, HeadCursorSteps DEF HeadCursors
    <3>. QED  BY <1>s, <2>1, <2>2, <3>1, FetchedKept
  <2>4. CASE Free(t)
    <3>1. UNCHANGED sq_head
      BY <2>4, HeadCursorSteps
    <3>2. UNCHANGED Fetched
      BY <2>2, <3>1, FetchedKept
    <3>3. FreedTo' <= Fetched
      <4>1. /\ pc[t] = "free"
            /\ FreedTo' = FreedTo \/ FreedTo' = FreedTo + 1
            /\ FreedTo' = FreedTo + 1 => SqPos(FreedTo) # new_sq_head[t]
        BY <2>4, FreeIs
      <4>2. /\ FreedTo <= FetchedAt(MovedHead - 1) /\ FetchedAt(MovedHead - 1) <= Fetched
            /\ FetchedAt(MovedHead - 1) \in Nat /\ SqPos(FetchedAt(MovedHead - 1)) = new_sq_head[t]
        BY <4>1, FreeBelow
      <4>3. CASE FreedTo' = FreedTo + 1
        <5>1. FreedTo # FetchedAt(MovedHead - 1)
          BY <4>1, <4>2, <4>3
        <5>. QED  BY <1>0, <4>2, <4>3, <5>1
      <4>. QED  BY <1>0, <4>1, <4>3
    <3>. QED  BY <1>0, <2>1, <2>2, <3>1, <3>2, <3>3, WindowNext DEF TailCursors
  <2>5. CASE MoveSqHead(t)
    <3>1. sq_head' = FreedTo /\ UNCHANGED FreedTo
      BY <2>5, HeadCursorSteps
    <3>2. UNCHANGED Fetched
      BY <2>2, <3>1, FetchedKept
    <3>3. MovedTail < FreedTo + SqSize
      BY <1>0
    <3>. QED  BY <1>0, <2>1, <2>2, <3>1, <3>2, <3>3, WindowNext DEF TailCursors
  <2>. QED  BY <1>3, <2>3, <2>4, <2>5 DEF AtHead
<1>4. CASE Fetch
  <2>1. UNCHANGED <<TailCursors, FreedTo, sq_head, sq_db>>
    BY <1>4, SsdLeavesCursors DEF HeadCursors, Fetch, sqVars
  <2>2. Fetched' = Fetched + 1 /\ Fetched < RungTail
    BY <1>4, FetchIs
  <2>. QED  BY <1>0, <2>1, <2>2, WindowNext DEF TailCursors
<1>5. CASE (\E c \in working : Complete(c)) \/ UNCHANGED vars
  <2>1. UNCHANGED <<TailCursors, FreedTo, sq_head, sq_db, fetched>>
    BY <1>5, SsdLeavesCursors DEF HeadCursors, Complete, vars, sqVars, ssdVars
  <2>. QED  BY <1>s, <2>1, FetchedKept
<1>. QED  BY <1>1, <1>2, <1>3, <1>4, <1>5, StepsAre
------------------------------------------------------------------------------
(***************************************************************************)
(* The completions between the heads and the last one posted.               *)
(***************************************************************************)
LEMMA CqRoundLater ==
  ASSUME NEW n \in Nat  PROVE CqPos(n + CqSize) = CqPos(n)
<1> DEFINE r == n \div CqSize
           p == CqPos(n)
<1>1. r \in Nat /\ p \in 0 .. CqSize - 1 /\ n = r * CqSize + p
  BY Sizes, Division DEF CqPos
<1> HIDE DEF r, p
<1>2. n + CqSize = (r + 1) * CqSize + p
  BY <1>1, Sizes
<1>3. ((r + 1) * CqSize + p) % CqSize = p
  BY <1>1, Sizes, Quotient
<1>4. CqPos(n + CqSize) = p
  BY <1>2, <1>3 DEF CqPos
<1>. QED  BY <1>4 DEF p

\* A completion is posted at a free place: those of the round before stay as they are.
LEMMA CompleteIs ==
  ASSUME TypeOK, HeadsInv, NEW c \in working, Complete(c)
  PROVE  /\ posted' = posted + 1 /\ posted + 1 < RungHead + CqSize
         /\ cq_mem'[CqPos(posted)] = [cid |-> c.cmd.cid, phase |-> Phase(posted), sqhd |-> fetched]
         /\ \A m \in Nat : posted - CqSize < m /\ m < posted => cq_mem'[CqPos(m)] = cq_mem[CqPos(m)]
<1>0. /\ posted \in Nat /\ RungHead \in Nat /\ CqSize \in Nat
      /\ DOMAIN cq_mem = 0 .. CqSize - 1
  BY CursorTypes, Sizes DEF TypeOK
<1>1. /\ CqPos(posted + 1) # cq_db /\ posted' = posted + 1
      /\ cq_mem' = [cq_mem EXCEPT ![CqPos(posted)] =
                      [cid |-> c.cmd.cid, phase |-> Phase(posted), sqhd |-> fetched]]
  BY DEF Complete
<1>2. posted < RungHead + CqSize /\ cq_db = CqPos(RungHead)
  BY DEF HeadsInv
<1>3. posted + 1 # RungHead + CqSize
  BY <1>0, <1>1, <1>2, CqRoundLater
<1>4. CqPos(posted) \in 0 .. CqSize - 1
  BY <1>0, Places
<1>5. ASSUME NEW m \in Nat, posted - CqSize < m, m < posted
      PROVE  cq_mem'[CqPos(m)] = cq_mem[CqPos(m)]
  <2>1. posted < m + CqSize /\ m <= posted /\ m < m + CqSize /\ m # posted
    BY <1>0, <1>5, Sizes
  <2>2. CqPos(m) # CqPos(posted)
    BY <1>0, <2>1, SameCqPlace
  <2>3. CqPos(m) \in 0 .. CqSize - 1
    BY Places
  <2>. QED  BY <1>0, <1>1, <2>2, <2>3
<1>. QED  BY <1>0, <1>1, <1>2, <1>3, <1>4, <1>5

\* move_head_cq goes on over a marked place: it holds the completion at the head.
LEMMA HeadUser ==
  ASSUME TypeOK, HeadsInv, RecogInv, head_mark[CqPos(MovedHead)]
  PROVE  MovedHead < posted /\ \E u \in Threads : pc[u] \in MarkedHead /\ loc[u] = MovedHead
<1>1. /\ MovedHead \in Nat /\ posted \in Nat /\ RungHead \in Nat /\ CqSize \in Nat
      /\ RungHead <= MovedHead /\ posted < RungHead + CqSize
  BY CursorTypes, Sizes DEF HeadsInv
<1>2. CqPos(MovedHead) \in 0 .. CqSize - 1
  BY <1>1, Places
<1>3. PICK u \in Threads : /\ pc[u] \in MarkedHead /\ CqPos(loc[u]) = CqPos(MovedHead)
                           /\ MovedHead <= loc[u]
  BY <1>2 DEF RecogInv
<1>4. loc[u] < posted /\ loc[u] \in Nat
  BY <1>3 DEF RecogInv, TypeOK
<1>5. loc[u] = MovedHead
  <2>1. MovedHead < MovedHead + CqSize /\ loc[u] < MovedHead + CqSize
    BY <1>1, <1>4, Sizes
  <2>. QED  BY <1>1, <1>3, <1>4, <2>1, SameCqPlace
<1>. QED  BY <1>3, <1>4, <1>5

\* One round of move_head_cq: it goes over a marked completion, or stops.
LEMMA MoveHeadIs ==
  ASSUME TypeOK, LockInv, NEW t \in Threads, MoveHead(t)
  PROVE  /\ pc[t] = "movehead" /\ head_lock = t
         /\ \/ /\ MovedHead' = MovedHead + 1 /\ head_mark[CqPos(MovedHead)] /\ pc' = pc
               /\ head_mark' = [head_mark EXCEPT ![CqPos(MovedHead)] = FALSE]
            \/ /\ MovedHead' = MovedHead /\ head_mark' = head_mark
               /\ \A u \in Threads : pc'[u] = pc[u] \/ (u = t /\ pc'[u] \in {"unhead", "sqhd"})
<1>0. /\ moved \in [Threads -> Nat] /\ pc \in [Threads -> Labels] /\ cq_head \in Nat
      /\ head_mark \in [0 .. CqSize - 1 -> BOOLEAN]
  BY DEF TypeOK
<1>1. MovedHead = cq_head + moved[t] /\ MovedHead' = cq_head + moved'[t] /\ head_lock = t
  BY HeadCursorSteps
<1>2. pc[t] = "movehead" /\ MovedHead \in Nat
  BY CursorTypes DEF MoveHead
<1>3. CASE head_mark[CqPos(MovedHead)]
  <2>1. /\ moved'[t] = moved[t] + 1 /\ pc' = pc
        /\ head_mark' = [head_mark EXCEPT ![CqPos(MovedHead)] = FALSE]
    BY <1>0, <1>1, <1>3 DEF MoveHead
  <2>. QED  BY <1>0, <1>1, <1>2, <1>3, <2>1
<1>4. CASE ~head_mark[CqPos(MovedHead)]
  <2>1. /\ moved' = moved /\ head_mark' = [head_mark EXCEPT ![CqPos(MovedHead)] = FALSE]
        /\ \A u \in Threads : pc'[u] = pc[u] \/ (u = t /\ pc'[u] \in {"unhead", "sqhd"})
    BY <1>0, <1>1, <1>4 DEF MoveHead, Goto
  <2>2. CqPos(MovedHead) \in 0 .. CqSize - 1 /\ head_mark[CqPos(MovedHead)] = FALSE
    BY <1>0, <1>2, <1>4, Places
  <2>3. head_mark' = head_mark
    BY <1>0, <2>1, <2>2
  <2>. QED  BY <1>1, <1>2, <2>1, <2>3
<1>. QED  BY <1>3, <1>4

LEMMA HeadsInvNext ==
  ASSUME MovedHead' <= posted', posted' < RungHead' + CqSize, cq_db' = CqPos(RungHead'),
         \A m \in KnownFrom' .. posted' - 1 : Index(sq_head', cq_mem'[CqPos(m)].sqhd) <= Fetched',
         \A m, n \in KnownFrom' .. posted' - 1 : m <= n =>
           Index(sq_head', cq_mem'[CqPos(m)].sqhd) <= Index(sq_head', cq_mem'[CqPos(n)].sqhd),
         \A u \in Threads : pc'[u] \in {"free", "sqhead"} =>
           /\ new_sq_head'[u] = cq_mem'[CqPos(MovedHead' - 1)].sqhd
           /\ FreedTo' <= Index(sq_head', cq_mem'[CqPos(MovedHead' - 1)].sqhd)
           /\ pc'[u] = "sqhead" => SqPos(FreedTo') = new_sq_head'[u]
  PROVE  HeadsInv'
BY DEF HeadsInv, FetchedAt, Index, SqPos, CqPos

\* A step that posts nothing and does not store sq_head.
LEMMA HeadsKept ==
  ASSUME TypeOK, HeadsInv, UNCHANGED <<posted, cq_mem, sq_head, KnownFrom>>,
         Fetched' \in Nat, Fetched <= Fetched',
         MovedHead' <= posted, posted < RungHead' + CqSize, cq_db' = CqPos(RungHead'),
         \A u \in Threads : pc'[u] \in {"free", "sqhead"} =>
           /\ new_sq_head'[u] = cq_mem[CqPos(MovedHead' - 1)].sqhd
           /\ FreedTo' <= Index(sq_head, cq_mem[CqPos(MovedHead' - 1)].sqhd)
           /\ pc'[u] = "sqhead" => SqPos(FreedTo') = new_sq_head'[u]
  PROVE  HeadsInv'
<1>1. KnownFrom \in Nat /\ posted \in Nat /\ Fetched \in Nat
  BY CursorTypes, FetchedType
<1>2. ASSUME NEW m \in KnownFrom' .. posted' - 1
      PROVE  Index(sq_head', cq_mem'[CqPos(m)].sqhd) <= Fetched'
  <2>1. m \in Nat /\ m \in KnownFrom .. posted - 1
    BY <1>1, <1>2
  <2>2. FetchedAt(m) <= Fetched /\ FetchedAt(m) \in Nat
    BY <2>1, FetchedAtType DEF HeadsInv
  <2>. QED  BY <1>1, <2>2 DEF FetchedAt
<1>3. \A m, n \in KnownFrom' .. posted' - 1 : m <= n =>
        Index(sq_head', cq_mem'[CqPos(m)].sqhd) <= Index(sq_head', cq_mem'[CqPos(n)].sqhd)
  BY DEF HeadsInv, FetchedAt
<1>. QED  BY <1>2, <1>3, HeadsInvNext

LEMMA HeadsSame ==
  ASSUME TypeOK, HeadsInv, UNCHANGED <<posted, cq_mem, sq_head, cq_db>>,
         UNCHANGED <<FreedTo, MovedHead, KnownFrom, RungHead>>,
         Fetched' \in Nat, Fetched <= Fetched',
         \A u \in Threads : pc'[u] \in {"free", "sqhead"} =>
           pc'[u] = pc[u] /\ new_sq_head'[u] = new_sq_head[u]
  PROVE  HeadsInv'
<1>1. \A u \in Threads : pc'[u] \in {"free", "sqhead"} =>
        /\ new_sq_head'[u] = cq_mem[CqPos(MovedHead' - 1)].sqhd
        /\ FreedTo' <= Index(sq_head, cq_mem[CqPos(MovedHead' - 1)].sqhd)
        /\ pc'[u] = "sqhead" => SqPos(FreedTo') = new_sq_head'[u]
  BY DEF HeadsInv, FetchedAt
<1>2. MovedHead' <= posted /\ posted < RungHead' + CqSize /\ cq_db' = CqPos(RungHead')
  BY DEF HeadsInv
<1>. QED  BY <1>1, <1>2, HeadsKept

\* No other thread is in move_head_cq.
LEMMA HeadAlone ==
  ASSUME TypeOK, LockInv, NEW t \in Threads, pc[t] \in HeadMovers
  PROVE  \A u \in Threads : u # t => pc[u] \notin HeadMovers
BY DEF LockInv

LEMMA FreeHeads ==
  ASSUME TypeOK, LockInv, WindowInv, HeadsInv, NEW t \in Threads, Free(t)  PROVE HeadsInv'
<1>1. UNCHANGED <<posted, cq_mem, cq_db, new_sq_head, fetched>>
  BY DEF Free, cqVars, ssdVars
<1>2. UNCHANGED <<MovedHead, KnownFrom, RungHead, sq_head>>
  BY HeadCursorSteps
<1>3. UNCHANGED Fetched /\ Fetched \in Nat
  BY <1>1, <1>2, FetchedKept, FetchedType
<1>4. /\ pc[t] = "free"
      /\ FreedTo' = FreedTo \/ FreedTo' = FreedTo + 1
      /\ \A u \in Threads : pc'[u] = pc[u] \/ (u = t /\ pc'[u] = "sqhead")
      /\ FreedTo' = FreedTo + 1 <=> SqPos(FreedTo) # new_sq_head[t]
      /\ FreedTo' = FreedTo + 1 <=> pc'[t] = "free"
  BY FreeIs
<1>5. /\ FreedTo <= FetchedAt(MovedHead - 1) /\ FetchedAt(MovedHead - 1) \in Nat
      /\ SqPos(FetchedAt(MovedHead - 1)) = new_sq_head[t] /\ FreedTo \in Nat
  BY <1>4, FreeBelow, CursorTypes
<1>6. FreedTo' <= FetchedAt(MovedHead - 1)
  <2>1. CASE FreedTo' = FreedTo + 1
    <3>1. FreedTo # FetchedAt(MovedHead - 1)
      BY <1>4, <1>5, <2>1
    <3>. QED  BY <1>5, <2>1, <3>1
  <2>. QED  BY <1>4, <1>5, <2>1
<1>7. \A u \in Threads : u # t => pc'[u] \notin {"free", "sqhead"}
  BY <1>4, HeadAlone DEF HeadMovers
<1>8. new_sq_head[t] = cq_mem[CqPos(MovedHead - 1)].sqhd
  BY <1>4 DEF HeadsInv
<1>9. pc'[t] = "sqhead" => SqPos(FreedTo') = new_sq_head[t]
  BY <1>4, <1>5
<1>10. \A u \in Threads : pc'[u] \in {"free", "sqhead"} =>
         /\ new_sq_head'[u] = cq_mem[CqPos(MovedHead' - 1)].sqhd
         /\ FreedTo' <= Index(sq_head, cq_mem[CqPos(MovedHead' - 1)].sqhd)
         /\ pc'[u] = "sqhead" => SqPos(FreedTo') = new_sq_head'[u]
  BY <1>1, <1>2, <1>6, <1>7, <1>8, <1>9 DEF FetchedAt
<1>11. MovedHead' <= posted /\ posted < RungHead' + CqSize /\ cq_db' = CqPos(RungHead')
  BY <1>1, <1>2 DEF HeadsInv
<1>. QED  BY <1>1, <1>2, <1>3, <1>10, <1>11, HeadsKept

\* Before it frees, move_head_cq has passed a completion and read its head.
LEMMA ReadSqHeadHeads ==
  ASSUME TypeOK, LockInv, HeadsInv, NEW t \in Threads, ReadSqHead(t)  PROVE HeadsInv'
<1>0. /\ pc \in [Threads -> Labels] /\ new_sq_head \in [Threads -> 0 .. SqSize - 1]
      /\ moved \in [Threads -> Nat] /\ cq_head \in Nat
  BY DEF TypeOK
<1>1. /\ UNCHANGED <<posted, cq_mem, cq_db, fetched>> /\ pc[t] = "sqhd"
      /\ \A u \in Threads : pc'[u] = IF u = t THEN "free" ELSE pc[u]
      /\ new_sq_head'[t] = cq_mem[CqPos(cq_head + moved[t] - 1)].sqhd
  BY <1>0 DEF ReadSqHead, Goto, cqVars, ssdVars
<1>2. UNCHANGED <<FreedTo, MovedHead, KnownFrom, RungHead, sq_head>>
  BY HeadCursorSteps DEF HeadCursors
<1>3. UNCHANGED Fetched /\ Fetched \in Nat
  BY <1>1, <1>2, FetchedType DEF Fetched, Index, SqPos
<1>4. head_lock = t /\ freed[t] = 0 /\ moved[t] > 0 /\ Nobody \notin Threads
  BY <1>1, QueueAssumption DEF LockInv, HeadMovers
<1>5. MovedHead = cq_head + moved[t] /\ FreedTo = sq_head + 0
  BY <1>4 DEF MovedHead, FreedTo
<1>6. MovedHead - 1 \in Nat /\ FreedTo = sq_head
  BY <1>0, <1>4, <1>5, CursorTypes
<1>7. FreedTo <= FetchedAt(MovedHead - 1)
  BY <1>6, FetchedAtType
<1>8. \A u \in Threads : u # t => pc'[u] \notin {"free", "sqhead"}
  BY <1>1, HeadAlone DEF HeadMovers
<1>9. \A u \in Threads : pc'[u] \in {"free", "sqhead"} =>
         /\ new_sq_head'[u] = cq_mem[CqPos(MovedHead' - 1)].sqhd
         /\ FreedTo' <= Index(sq_head, cq_mem[CqPos(MovedHead' - 1)].sqhd)
         /\ pc'[u] = "sqhead" => SqPos(FreedTo') = new_sq_head'[u]
  <2>1. new_sq_head'[t] = cq_mem[CqPos(MovedHead - 1)].sqhd
    <3>1. cq_head + moved[t] - 1 = MovedHead - 1
      BY <1>0, <1>5
    <3>. QED  BY <1>0, <3>1 DEF ReadSqHead
  <2>2. pc'[t] = "free"
    BY <1>1
  <2>3. FreedTo <= Index(sq_head, cq_mem[CqPos(MovedHead - 1)].sqhd)
    BY <1>7 DEF FetchedAt
  <2>. QED  BY <1>2, <1>8, <2>1, <2>2, <2>3
<1>10. MovedHead' <= posted /\ posted < RungHead' + CqSize /\ cq_db' = CqPos(RungHead')
  BY <1>1, <1>2 DEF HeadsInv
<1>. QED  BY <1>1, <1>2, <1>3, <1>9, <1>10, HeadsKept

\* All that the last of the completions told of is freed: the head stored is its own.
LEMMA MoveSqHeadHeads ==
  ASSUME TypeOK, LockInv, WindowInv, HeadsInv, NEW t \in Threads, MoveSqHead(t)  PROVE HeadsInv'
<1>0. /\ pc \in [Threads -> Labels] /\ sq_head \in Nat /\ MovedHead \in Nat /\ posted \in Nat
      /\ FreedTo \in Nat /\ sq_head <= FreedTo /\ KnownFrom \in Nat /\ SqSize \in Nat
      /\ KnownFrom <= MovedHead
  BY CursorTypes, Sizes DEF TypeOK
<1>1. /\ UNCHANGED <<posted, cq_mem, cq_db, fetched>> /\ pc[t] = "sqhead"
      /\ \A u \in Threads : pc'[u] = IF u = t THEN "ringhead" ELSE pc[u]
  BY <1>0 DEF MoveSqHead, Goto, cqVars, ssdVars
<1>2. KnownFrom' = MovedHead /\ sq_head' = FreedTo /\ UNCHANGED <<FreedTo, MovedHead, RungHead>>
  BY HeadCursorSteps
<1>3. UNCHANGED Fetched
  BY <1>1, <1>2, FetchedKept
<1> DEFINE k == MovedHead - 1
<1>4. /\ k \in Nat /\ KnownFrom <= k /\ k < posted
      /\ FreedTo <= FetchedAt(k) /\ SqPos(FetchedAt(k)) = new_sq_head[t]
      /\ FetchedAt(k) \in Nat /\ FetchedAt(k) < sq_head + SqSize
  BY <1>1, FreeBelow, FetchedAtType
<1>5. SqPos(FreedTo) = new_sq_head[t]
  BY <1>1 DEF HeadsInv
<1>6. FreedTo = FetchedAt(k)
  <2>1. sq_head <= FetchedAt(k) /\ FreedTo < sq_head + SqSize
    BY <1>0, <1>4
  <2>. QED  BY <1>0, <1>4, <1>5, <2>1, SamePlace
<1>7. ASSUME NEW m \in MovedHead .. posted - 1
      PROVE  Index(FreedTo, cq_mem[CqPos(m)].sqhd) = FetchedAt(m)
  <2>1. m \in Nat /\ k \in KnownFrom .. posted - 1 /\ m \in KnownFrom .. posted - 1 /\ k <= m
    BY <1>0, <1>4
  <2>2. FetchedAt(k) <= FetchedAt(m)
    BY <2>1 DEF HeadsInv
  <2>3. /\ FetchedAt(m) \in Nat /\ FetchedAt(m) < sq_head + SqSize
        /\ SqPos(FetchedAt(m)) = cq_mem[CqPos(m)].sqhd
    BY <2>1, FetchedAtType
  <2>4. FreedTo <= FetchedAt(m) /\ FetchedAt(m) < FreedTo + SqSize
    BY <1>0, <1>6, <2>2, <2>3
  <2>5. Index(FreedTo, SqPos(FetchedAt(m))) = FetchedAt(m)
    BY <1>0, <2>3, <2>4, IndexIs
  <2>. QED  BY <2>3, <2>5
<1>8. \A m \in MovedHead .. posted - 1 : m \in KnownFrom .. posted - 1
  BY <1>0
<1>9. \A m \in KnownFrom' .. posted' - 1 : Index(sq_head', cq_mem'[CqPos(m)].sqhd) <= Fetched'
  BY <1>1, <1>2, <1>3, <1>7, <1>8 DEF HeadsInv
<1>10. \A m, n \in KnownFrom' .. posted' - 1 : m <= n =>
         Index(sq_head', cq_mem'[CqPos(m)].sqhd) <= Index(sq_head', cq_mem'[CqPos(n)].sqhd)
  BY <1>1, <1>2, <1>7, <1>8 DEF HeadsInv
<1>11. \A u \in Threads : pc'[u] \notin {"free", "sqhead"}
  BY <1>1, HeadAlone DEF HeadMovers
<1>12. MovedHead' <= posted' /\ posted' < RungHead' + CqSize /\ cq_db' = CqPos(RungHead')
  BY <1>1, <1>2 DEF HeadsInv
<1>. QED  BY <1>9, <1>10, <1>11, <1>12, HeadsInvNext

\* A new completion knows of all commands fetched.
LEMMA CompleteHeads ==
  ASSUME TypeOK, LockInv, WindowInv, HeadsInv, NEW c \in working, Complete(c)  PROVE HeadsInv'
<1>0. /\ posted \in Nat /\ RungHead \in Nat /\ KnownFrom \in Nat /\ MovedHead \in Nat
      /\ RungHead <= KnownFrom /\ KnownFrom <= MovedHead /\ CqSize \in Nat
      /\ MovedHead <= posted /\ posted < RungHead + CqSize
  BY CursorTypes, Sizes DEF HeadsInv
<1>1. UNCHANGED <<sq_head, cq_db, fetched, pc, new_sq_head>>
  BY DEF Complete, sqVars, moveVars
<1>2. UNCHANGED <<FreedTo, MovedHead, KnownFrom, RungHead>>
  BY SsdLeavesCursors DEF HeadCursors
<1>3. UNCHANGED Fetched /\ Fetched \in Nat
  BY <1>1, FetchedType DEF Fetched, Index, SqPos
<1>4. /\ posted' = posted + 1 /\ posted + 1 < RungHead + CqSize
      /\ cq_mem'[CqPos(posted)] = [cid |-> c.cmd.cid, phase |-> Phase(posted), sqhd |-> fetched]
      /\ \A m \in Nat : posted - CqSize < m /\ m < posted => cq_mem'[CqPos(m)] = cq_mem[CqPos(m)]
  BY CompleteIs
<1> DEFINE At(m) == Index(sq_head', cq_mem'[CqPos(m)].sqhd)
<1>5. At(posted) = Fetched
  BY <1>1, <1>4 DEF Fetched
<1>6. ASSUME NEW m \in Nat, RungHead <= m, m < posted  PROVE At(m) = FetchedAt(m)
  <2>1. posted - CqSize < m
    BY <1>0, <1>6
  <2>2. cq_mem'[CqPos(m)] = cq_mem[CqPos(m)]
    BY <1>4, <1>6, <2>1
  <2>. QED  BY <1>1, <2>2 DEF FetchedAt
<1>7. \A m \in KnownFrom .. posted - 1 : /\ m \in Nat /\ At(m) = FetchedAt(m)
                                         /\ FetchedAt(m) <= Fetched
  BY <1>0, <1>6 DEF HeadsInv
<1>8. \A m \in KnownFrom' .. posted' - 1 : m \in KnownFrom .. posted - 1 \/ m = posted
  BY <1>0, <1>2, <1>4
<1>9. \A m \in KnownFrom' .. posted' - 1 : At(m) <= Fetched'
  BY <1>3, <1>5, <1>7, <1>8
<1>10. ASSUME NEW m \in KnownFrom' .. posted' - 1, NEW n \in KnownFrom' .. posted' - 1, m <= n
       PROVE  At(m) <= At(n)
  <2>1. CASE n = posted
    BY <1>3, <1>5, <1>9, <2>1
  <2>2. CASE n # posted
    <3>1. n \in KnownFrom .. posted - 1 /\ m \in KnownFrom .. posted - 1
      BY <1>0, <1>8, <1>10, <2>2
    <3>2. FetchedAt(m) <= FetchedAt(n)
      BY <1>10, <3>1 DEF HeadsInv
    <3>. QED  BY <1>7, <3>1, <3>2
  <2>. QED  BY <2>1, <2>2
<1>11. ASSUME NEW u \in Threads, pc'[u] \in {"free", "sqhead"}
       PROVE  /\ new_sq_head'[u] = cq_mem'[CqPos(MovedHead' - 1)].sqhd
              /\ FreedTo' <= Index(sq_head', cq_mem'[CqPos(MovedHead' - 1)].sqhd)
              /\ pc'[u] = "sqhead" => SqPos(FreedTo') = new_sq_head'[u]
  <2>1. MovedHead - 1 \in Nat /\ KnownFrom <= MovedHead - 1 /\ MovedHead - 1 < posted
    BY <1>1, <1>11, FreeBelow
  <2>2. posted - CqSize < MovedHead - 1
    BY <1>0, <2>1
  <2>3. cq_mem'[CqPos(MovedHead - 1)] = cq_mem[CqPos(MovedHead - 1)]
    BY <1>4, <2>1, <2>2
  <2>. QED  BY <1>1, <1>2, <1>11, <2>3 DEF HeadsInv, FetchedAt
<1>12. MovedHead' <= posted' /\ posted' < RungHead' + CqSize /\ cq_db' = CqPos(RungHead')
  <2>1. cq_db = CqPos(RungHead)
    BY DEF HeadsInv
  <2>. QED  BY <1>0, <1>1, <1>2, <1>4, <2>1
<1>. QED  BY <1>9, <1>10, <1>11, <1>12, HeadsInvNext

LEMMA HeadsStep ==
  ASSUME TypeOK, LockInv, WindowInv, HeadsInv, RecogInv, QNext  PROVE HeadsInv'
<1>0. /\ pc \in [Threads -> Labels] /\ cq_head \in Nat
      /\ posted \in Nat /\ MovedHead \in Nat /\ RungHead \in Nat /\ CqSize \in Nat
      /\ RungHead <= MovedHead /\ MovedHead <= posted /\ posted < RungHead + CqSize
      /\ cq_db = CqPos(RungHead)
  <2>1. pc \in [Threads -> Labels]
    BY DEF TypeOK
  <2>. QED  BY <2>1, CursorTypes, Sizes DEF HeadsInv
<1>f. Fetched \in Nat /\ Fetched <= Fetched
  BY FetchedType
<1>1. ASSUME NEW t \in Threads, Users(t) \/ AtTail(t)  PROVE HeadsInv'
  <2>1. UNCHANGED <<posted, cq_mem, sq_head, cq_db, fetched, new_sq_head>>
    BY <1>1 DEF Users, GetCid, TakeTicket, AwaitTurn, Copy, MarkTail, LookTail, Leave, Poll, Entry,
       PosLock, MarkHead, LookHead, AwaitHead, PosFree, PutCid, Again, AtTail, TryTail, MoveTail,
       RingTail, StoreTail, UnlockTail, sqVars, cqVars, ssdVars, moveVars
  <2>2. UNCHANGED <<FreedTo, MovedHead, KnownFrom, RungHead>>
    BY <1>1, UsersLeaveCursors, AtTailLeavesHead DEF HeadCursors
  <2>3. UNCHANGED Fetched
    BY <2>1, FetchedKept
  <2>4. \A u \in Threads : pc'[u] \in {"free", "sqhead"} => pc'[u] = pc[u]
    BY <1>0, <1>1 DEF Users, GetCid, TakeTicket, AwaitTurn, Copy, MarkTail, LookTail, Leave, Poll, Entry,
       PosLock, MarkHead, LookHead, AwaitHead, PosFree, PutCid, Again, AtTail, TryTail, MoveTail,
       RingTail, StoreTail, UnlockTail, Goto
  <2>. QED  BY <1>f, <2>1, <2>2, <2>3, <2>4, HeadsSame
<1>2. CASE Fetch \/ UNCHANGED vars
  <2>1. UNCHANGED <<posted, cq_mem, sq_head, cq_db, new_sq_head, pc>>
    BY <1>2 DEF Fetch, vars, sqVars, cqVars, ssdVars, moveVars
  <2>2. UNCHANGED <<FreedTo, MovedHead, KnownFrom, RungHead>>
    BY <1>2, SsdLeavesCursors DEF HeadCursors
  <2>3. Fetched' \in Nat /\ Fetched <= Fetched'
    <3>1. CASE Fetch
      BY <1>f, <3>1, FetchIs
    <3>2. CASE UNCHANGED vars
      BY <1>f, <2>1, <3>2, FetchedKept DEF vars, ssdVars
    <3>. QED  BY <1>2, <3>1, <3>2
  <2>. QED  BY <2>1, <2>2, <2>3, HeadsSame
<1>3. ASSUME NEW t \in Threads, TryHead(t) \/ UnlockHead(t)  PROVE HeadsInv'
  <2>1. UNCHANGED <<posted, cq_mem, sq_head, cq_db, fetched, new_sq_head>>
    BY <1>3 DEF TryHead, UnlockHead, sqVars, cqVars, ssdVars, moveVars
  <2>2. UNCHANGED <<FreedTo, MovedHead, KnownFrom, RungHead>>
    BY <1>3, HeadCursorSteps DEF HeadCursors
  <2>3. UNCHANGED Fetched
    BY <2>1, FetchedKept
  <2>4. \A u \in Threads : pc'[u] \in {"free", "sqhead"} => pc'[u] = pc[u]
    BY <1>0, <1>3 DEF TryHead, UnlockHead, Goto
  <2>. QED  BY <1>f, <2>1, <2>2, <2>3, <2>4, HeadsSame
<1>4. ASSUME NEW t \in Threads, MoveHead(t) \/ RingHead(t) \/ StoreHead(t)  PROVE HeadsInv'
  <2>1. UNCHANGED <<posted, cq_mem, sq_head, fetched>> /\ pc[t] \in HeadMovers
    BY <1>4 DEF MoveHead, RingHead, StoreHead, sqVars, cqVars, ssdVars, HeadMovers
  <2>2. UNCHANGED KnownFrom
    BY <1>4, HeadCursorSteps
  <2>3. UNCHANGED Fetched
    BY <2>1, FetchedKept
  <2>4. pc'[t] \notin {"free", "sqhead"} /\ \A u \in Threads : u # t => pc'[u] = pc[u]
    BY <1>0, <1>4 DEF MoveHead, RingHead, StoreHead, Goto
  <2>5. \A u \in Threads : pc'[u] \notin {"free", "sqhead"}
    BY <2>1, <2>4, HeadAlone DEF HeadMovers
  <2>6. MovedHead' <= posted /\ posted < RungHead' + CqSize /\ cq_db' = CqPos(RungHead')
    <3>1. CASE MoveHead(t)
      <4>1. UNCHANGED <<RungHead, cq_db>>
        BY <3>1, HeadCursorSteps DEF MoveHead
      <4>2. MovedHead' <= posted
        <5>1. CASE MovedHead' = MovedHead
          BY <1>0, <5>1
        <5>2. CASE MovedHead' = MovedHead + 1 /\ head_mark[CqPos(MovedHead)]
          <6>1. MovedHead < posted
            BY <5>2, HeadUser
          <6>. QED  BY <1>0, <5>2, <6>1
        <5>. QED  BY <3>1, <5>1, <5>2, MoveHeadIs
      <4>. QED  BY <1>0, <4>1, <4>2
    <3>2. CASE RingHead(t)
      <4>1. MovedHead = cq_head + moved[t] /\ RungHead' = MovedHead /\ UNCHANGED MovedHead
        BY <3>2, HeadCursorSteps
      <4>2. cq_db' = CqPos(MovedHead)
        BY <3>2, <4>1 DEF RingHead
      <4>. QED  BY <1>0, <4>1, <4>2
    <3>3. CASE StoreHead(t)
      <4>1. UNCHANGED <<MovedHead, RungHead, cq_db>>
        BY <3>3, HeadCursorSteps DEF StoreHead
      <4>. QED  BY <1>0, <4>1
    <3>. QED  BY <1>4, <3>1, <3>2, <3>3
  <2>. QED  BY <1>f, <2>1, <2>2, <2>3, <2>5, <2>6, HeadsKept
<1>5. ASSUME NEW t \in Threads, ReadSqHead(t) \/ Free(t) \/ MoveSqHead(t)  PROVE HeadsInv'
  BY <1>5, ReadSqHeadHeads, FreeHeads, MoveSqHeadHeads
<1>6. CASE \E c \in working : Complete(c)
  BY <1>6, CompleteHeads
<1>. QED  BY <1>1, <1>2, <1>3, <1>4, <1>5, <1>6, StepsAre DEF AtHead
------------------------------------------------------------------------------
(***************************************************************************)
(* Whose commands and completions there are.                                *)
(***************************************************************************)

\* What cq_poll recognises was posted and is still there, provided it looks before
\* the SSD has posted there twice.
LEMMA EntryFound ==
  ASSUME TypeOK, HeadsInv, PhaseInv, SeenInv, PromptPoll, NEW t \in Threads, pc[t] = "entry",
         cq_mem[CqPos(loc[t])].phase = Phase(loc[t]), cq_mem[CqPos(loc[t])].cid = cid[t]
  PROVE  MovedHead <= loc[t] /\ loc[t] < posted
<1>0. /\ posted \in Nat /\ MovedHead \in Nat /\ cq_head \in Nat /\ CqSize \in Nat /\ CqSize >= 2
      /\ cq_head <= MovedHead /\ MovedHead <= posted
  BY CursorTypes, Sizes DEF HeadsInv
<1>1. loc[t] \in Nat /\ head[t] \in Nat
  BY DEF TypeOK
<1>2. /\ head[t] <= loc[t] /\ loc[t] < head[t] + CqSize - 1 /\ head[t] <= cq_head
      /\ \A m \in head[t] .. MovedHead - 1 : m >= posted - CqSize => IdOf(m) # cid[t]
  BY DEF SeenInv
<1>3. posted <= loc[t] + 2 * CqSize /\ loc[t] < posted + CqSize - 1
  BY <1>0, <1>1, <1>2 DEF PromptPoll
<1>4. Phase(loc[t]) = IF CqPos(loc[t]) < CqPos(posted) THEN Phase(posted) ELSE 1 - Phase(posted)
  BY <1>1, Places DEF PhaseInv
<1>5. posted - CqSize <= loc[t] /\ loc[t] < posted
  BY <1>0, <1>1, <1>3, <1>4, InPhase
<1>6. SUFFICES ASSUME loc[t] < MovedHead  PROVE FALSE
  BY <1>0, <1>1, <1>5
<1>7. loc[t] \in head[t] .. MovedHead - 1 /\ loc[t] >= posted - CqSize
  BY <1>0, <1>1, <1>2, <1>5, <1>6
<1>. QED  BY <1>2, <1>7 DEF IdOf

LEMMA OwnInvNext ==
  ASSUME \A u \in Threads : WrittenAt(pc'[u], ticket'[u], MovedTail') =>
           sq_mem'[SqPos(ticket'[u])] = [owner |-> u, cid |-> cid'[u]],
         \A n \in Fetched' .. MovedTail' - 1 : \E u \in Threads :
           /\ SentAt(pc'[u], ticket'[u], MovedTail')
           /\ sq_mem'[SqPos(n)] = [owner |-> u, cid |-> cid'[u]],
         \A w \in working' : \E u \in Threads :
           /\ SentAt(pc'[u], ticket'[u], MovedTail')
           /\ w.cmd = [owner |-> u, cid |-> cid'[u]],
         \A m \in cq_head' .. posted' - 1 : m >= posted' - CqSize => \E u \in Threads :
           /\ cq_mem'[CqPos(m)].cid = cid'[u]
           /\ \/ SentAt(pc'[u], ticket'[u], MovedTail') /\ m >= MovedHead'
              \/ pc'[u] \in Recognised /\ loc'[u] = m
  PROVE  OwnInv'
BY DEF OwnInv, Written, Sent, Own, IdOf, WrittenAt, SentAt, SqPos, CqPos, Marked, Recognised,
   MarkedHead, TailMovers, HeadMovers

\* A step that moves no command.
LEMMA OwnCompletions ==
  ASSUME OwnInv, UNCHANGED <<sq_mem, working, Fetched, MovedTail>>,
         \A u \in Threads :
           /\ WrittenAt(pc'[u], ticket'[u], MovedTail) =>
                Written(u) /\ ticket'[u] = ticket[u] /\ cid'[u] = cid[u]
           /\ Sent(u) /\ pc[u] # "entry" => SentAt(pc'[u], ticket'[u], MovedTail)
           /\ Sent(u) => cid'[u] = cid[u],
         \A u \in Threads : pc[u] = "entry" /\ ~SentAt(pc'[u], ticket'[u], MovedTail) =>
           /\ \A n \in Fetched .. MovedTail - 1 : sq_mem[SqPos(n)] # Own(u)
           /\ \A w \in working : w.cmd # Own(u),
         \A m \in cq_head' .. posted' - 1 : m >= posted' - CqSize => \E u \in Threads :
           /\ cq_mem'[CqPos(m)].cid = cid'[u]
           /\ \/ SentAt(pc'[u], ticket'[u], MovedTail') /\ m >= MovedHead'
              \/ pc'[u] \in Recognised /\ loc'[u] = m
  PROVE  OwnInv'
<1>1. \A u \in Threads : WrittenAt(pc'[u], ticket'[u], MovedTail') =>
        sq_mem'[SqPos(ticket'[u])] = [owner |-> u, cid |-> cid'[u]]
  BY DEF OwnInv, Own
<1>2. ASSUME NEW n \in Fetched' .. MovedTail' - 1
      PROVE  \E u \in Threads : /\ SentAt(pc'[u], ticket'[u], MovedTail')
                                /\ sq_mem'[SqPos(n)] = [owner |-> u, cid |-> cid'[u]]
  <2>1. PICK u \in Threads : Sent(u) /\ sq_mem[SqPos(n)] = Own(u)
    BY DEF OwnInv
  <2>2. SentAt(pc'[u], ticket'[u], MovedTail)
    BY <2>1
  <2>. QED  BY <2>1, <2>2 DEF Own
<1>3. ASSUME NEW w \in working'
      PROVE  \E u \in Threads : /\ SentAt(pc'[u], ticket'[u], MovedTail')
                                /\ w.cmd = [owner |-> u, cid |-> cid'[u]]
  <2>1. PICK u \in Threads : Sent(u) /\ w.cmd = Own(u)
    BY DEF OwnInv
  <2>2. SentAt(pc'[u], ticket'[u], MovedTail)
    BY <2>1
  <2>. QED  BY <2>1, <2>2 DEF Own
<1>. QED  BY <1>1, <1>2, <1>3, OwnInvNext

\* A step that moves no command and no completion.
LEMMA OwnSame ==
  ASSUME TypeOK, OwnInv, UNCHANGED <<sq_mem, working, cq_mem, posted>>,
         UNCHANGED <<Fetched, MovedTail, MovedHead>>, cq_head' \in Nat, cq_head <= cq_head',
         \A u \in Threads :
           /\ WrittenAt(pc'[u], ticket'[u], MovedTail) =>
                Written(u) /\ ticket'[u] = ticket[u] /\ cid'[u] = cid[u]
           /\ Sent(u) => SentAt(pc'[u], ticket'[u], MovedTail) /\ cid'[u] = cid[u]
           /\ pc[u] \in Recognised => \/ pc'[u] \in Recognised /\ loc'[u] = loc[u] /\ cid'[u] = cid[u]
                                      \/ loc[u] < cq_head
  PROVE  OwnInv'
<1>1. ASSUME NEW m \in cq_head' .. posted' - 1, m >= posted' - CqSize
      PROVE  \E u \in Threads :
               /\ cq_mem'[CqPos(m)].cid = cid'[u]
               /\ \/ SentAt(pc'[u], ticket'[u], MovedTail') /\ m >= MovedHead'
                  \/ pc'[u] \in Recognised /\ loc'[u] = m
  <2>0. cq_head \in Nat /\ posted \in Nat
    BY CursorTypes
  <2>1. m \in cq_head .. posted - 1 /\ m >= posted - CqSize /\ m \in Nat /\ ~(m < cq_head)
    BY <1>1, <2>0
  <2>2. PICK u \in Threads : /\ IdOf(m) = cid[u]
                             /\ (Sent(u) /\ m >= MovedHead) \/ (pc[u] \in Recognised /\ loc[u] = m)
    BY <2>1 DEF OwnInv
  <2>. QED  BY <2>1, <2>2 DEF IdOf
<1>2. \A u \in Threads : pc[u] = "entry" => SentAt(pc'[u], ticket'[u], MovedTail)
  BY DEF Sent, SentAt
<1>. QED  BY <1>1, <1>2, OwnCompletions

\* A copy is at none of the places of submitted commands.
LEMMA CopyOutside ==
  ASSUME TypeOK, TicketInv, SubmitInv, WindowInv, NEW t \in Threads, pc[t] = "copy",
         NEW n \in Fetched .. MovedTail - 1
  PROVE  n \in Nat /\ SqPos(n) # SqPos(ticket[t])
<1>1. /\ FreedTo \in Nat /\ Fetched \in Nat /\ MovedTail \in Nat /\ ticket[t] \in Nat /\ SqSize \in Nat
      /\ FreedTo <= Fetched
  BY CursorTypes, FetchedType, TicketType, Sizes DEF WindowInv
<1>2. ticket[t] >= MovedTail
  BY DEF SubmitInv
<1>3. ticket[t] < FreedTo + SqSize
  BY TicketFits DEF AtPlace
<1>4. n \in Nat /\ FreedTo <= n /\ n < FreedTo + SqSize /\ FreedTo <= ticket[t] /\ n # ticket[t]
  BY <1>1, <1>2, <1>3
<1>. QED  BY <1>1, <1>3, <1>4, SamePlace

\* A copy goes to a place of no submitted command and of no other thread.
LEMMA CopyOwn ==
  ASSUME TypeOK, LockInv, TicketInv, SubmitInv, WindowInv, OwnInv, NEW t \in Threads, Copy(t)
  PROVE  OwnInv'
<1> DEFINE q == SqPos(ticket[t])
<1>0. /\ pc \in [Threads -> Labels] /\ DOMAIN sq_mem = 0 .. SqSize - 1
  BY DEF TypeOK
<1>1. /\ pc[t] = "copy" /\ UNCHANGED <<working, cq_mem, posted, cq_head, ticket, cid, loc, sq_head, fetched>>
      /\ sq_mem' = [sq_mem EXCEPT ![q] = [owner |-> t, cid |-> cid[t]]]
      /\ \A u \in Threads : pc'[u] = IF u = t THEN "mark" ELSE pc[u]
  BY <1>0 DEF Copy, Goto, cqVars, ssdVars, idVars, pollVars
<1>2. UNCHANGED <<MovedTail, MovedHead>>
  BY UsersLeaveCursors DEF Users, TailCursors, HeadCursors
<1>3. UNCHANGED Fetched
  BY <1>1, FetchedKept
<1>4. q \in 0 .. SqSize - 1 /\ \A p \in 0 .. SqSize - 1 :
        sq_mem'[p] = IF p = q THEN Own(t) ELSE sq_mem[p]
  BY <1>0, <1>1, TicketType DEF Own
<1>5. \A u \in Threads : u # t /\ WrittenAt(pc[u], ticket[u], MovedTail) => SqPos(ticket[u]) # q
  <2>1. \A u \in Threads : WrittenAt(pc[u], ticket[u], MovedTail) => pc[u] \in AtPlace
    BY DEF WrittenAt, AtPlace, Marked, TailMovers
  <2>2. pc[t] \in AtPlace
    BY <1>1 DEF AtPlace
  <2>. QED  BY <2>1, <2>2, AloneAtPlace
<1>6. \A n \in Fetched .. MovedTail - 1 : n \in Nat /\ SqPos(n) # q
  BY <1>1, CopyOutside
<1>s. \A u \in Threads : SentAt(pc[u], ticket[u], MovedTail) => u # t
  BY <1>1 DEF SentAt, Marked, TailMovers
<1>r. "copy" \notin Recognised
  BY DEF Recognised, MarkedHead, HeadMovers
<1> HIDE DEF q
<1>7. ASSUME NEW u \in Threads, WrittenAt(pc'[u], ticket'[u], MovedTail')
      PROVE  sq_mem'[SqPos(ticket'[u])] = [owner |-> u, cid |-> cid'[u]]
  <2>1. CASE u = t
    BY <1>1, <1>4, <2>1 DEF Own, q
  <2>2. CASE u # t
    <3>1. WrittenAt(pc[u], ticket[u], MovedTail)
      BY <1>1, <1>2, <1>7, <2>2
    <3>2. sq_mem[SqPos(ticket[u])] = Own(u) /\ SqPos(ticket[u]) \in 0 .. SqSize - 1
      BY <3>1, TicketType DEF OwnInv, Written
    <3>. QED  BY <1>1, <1>4, <1>5, <2>2, <3>1, <3>2 DEF Own
  <2>. QED  BY <2>1, <2>2
<1>8. ASSUME NEW n \in Fetched' .. MovedTail' - 1
      PROVE  \E u \in Threads : /\ SentAt(pc'[u], ticket'[u], MovedTail')
                                /\ sq_mem'[SqPos(n)] = [owner |-> u, cid |-> cid'[u]]
  <2>1. PICK u \in Threads : SentAt(pc[u], ticket[u], MovedTail) /\ sq_mem[SqPos(n)] = Own(u)
    BY <1>2, <1>3 DEF OwnInv, Sent
  <2>2. n \in Nat /\ SqPos(n) # q
    BY <1>2, <1>3, <1>6
  <2>3. SqPos(n) \in 0 .. SqSize - 1
    BY <2>2, Places
  <2>4. sq_mem'[SqPos(n)] = Own(u)
    BY <1>4, <2>1, <2>2, <2>3
  <2>. QED  BY <1>1, <1>2, <1>s, <2>1, <2>4 DEF Own
<1>9. ASSUME NEW w \in working'
      PROVE  \E u \in Threads : /\ SentAt(pc'[u], ticket'[u], MovedTail')
                                /\ w.cmd = [owner |-> u, cid |-> cid'[u]]
  <2>1. PICK u \in Threads : SentAt(pc[u], ticket[u], MovedTail) /\ w.cmd = Own(u)
    BY <1>1 DEF OwnInv, Sent
  <2>. QED  BY <1>1, <1>2, <1>s, <2>1 DEF Own
<1>10. ASSUME NEW m \in cq_head' .. posted' - 1, m >= posted' - CqSize
       PROVE  \E u \in Threads :
                /\ cq_mem'[CqPos(m)].cid = cid'[u]
                /\ \/ SentAt(pc'[u], ticket'[u], MovedTail') /\ m >= MovedHead'
                   \/ pc'[u] \in Recognised /\ loc'[u] = m
  <2>1. PICK u \in Threads :
          /\ IdOf(m) = cid[u]
          /\ (Sent(u) /\ m >= MovedHead) \/ (pc[u] \in Recognised /\ loc[u] = m)
    BY <1>1, <1>10 DEF OwnInv
  <2>2. u # t
    BY <1>1, <1>s, <1>r, <2>1 DEF Sent
  <2>. QED  BY <1>1, <1>2, <2>1, <2>2 DEF IdOf, Sent
<1>. QED  BY <1>7, <1>8, <1>9, <1>10, OwnInvNext

\* The tail moves over the command of the thread whose ticket it is.
LEMMA MoveTailOwn ==
  ASSUME TypeOK, LockInv, TicketInv, SubmitInv, WindowInv, OwnInv, NEW t \in Threads, MoveTail(t),
         MovedTail' = MovedTail + 1, tail_mark[SqPos(MovedTail)], pc' = pc
  PROVE  OwnInv'
<1>1. UNCHANGED <<sq_mem, working, cq_mem, posted, cq_head, ticket, cid, loc, pc, sq_head, fetched>>
  BY DEF MoveTail, cqVars, ssdVars, idVars, pollVars
<1>2. UNCHANGED MovedHead
  BY AtTailLeavesHead DEF AtTail, HeadCursors
<1>3. UNCHANGED Fetched
  BY <1>1, FetchedKept
<1>0. MovedTail \in Nat /\ Fetched \in Nat /\ \A u \in Threads : ticket[u] \in Nat
  BY CursorTypes, FetchedType, TicketType
<1>4. \A u \in Threads : /\ WrittenAt(pc[u], ticket[u], MovedTail + 1) => Written(u)
                         /\ Sent(u) => SentAt(pc[u], ticket[u], MovedTail + 1)
  BY <1>0 DEF WrittenAt, SentAt, Written, Sent
<1>5. \A u \in Threads : WrittenAt(pc'[u], ticket'[u], MovedTail') =>
        sq_mem'[SqPos(ticket'[u])] = [owner |-> u, cid |-> cid'[u]]
  BY <1>1, <1>4 DEF OwnInv, Own
<1>6. ASSUME NEW n \in Fetched' .. MovedTail' - 1
      PROVE  \E u \in Threads : /\ SentAt(pc'[u], ticket'[u], MovedTail')
                                /\ sq_mem'[SqPos(n)] = [owner |-> u, cid |-> cid'[u]]
  <2>1. CASE n = MovedTail
    <3>1. PICK w \in Threads : pc[w] \in Marked /\ ticket[w] = MovedTail
      BY TailUser
    <3>2. Written(w) /\ SentAt(pc[w], ticket[w], MovedTail + 1)
      BY <1>0, <3>1 DEF Written, WrittenAt, SentAt
    <3>3. sq_mem[SqPos(MovedTail)] = Own(w)
      BY <3>1, <3>2 DEF OwnInv
    <3>. QED  BY <1>1, <2>1, <3>2, <3>3 DEF Own
  <2>2. CASE n # MovedTail
    <3>1. n \in Fetched .. MovedTail - 1
      BY <1>0, <1>3, <1>6, <2>2
    <3>2. PICK u \in Threads : Sent(u) /\ sq_mem[SqPos(n)] = Own(u)
      BY <3>1 DEF OwnInv
    <3>. QED  BY <1>1, <1>4, <3>2 DEF Own
  <2>. QED  BY <2>1, <2>2
<1>7. ASSUME NEW w \in working'
      PROVE  \E u \in Threads : /\ SentAt(pc'[u], ticket'[u], MovedTail')
                                /\ w.cmd = [owner |-> u, cid |-> cid'[u]]
  <2>1. PICK u \in Threads : Sent(u) /\ w.cmd = Own(u)
    BY <1>1 DEF OwnInv
  <2>. QED  BY <1>1, <1>4, <2>1 DEF Own
<1>8. ASSUME NEW m \in cq_head' .. posted' - 1, m >= posted' - CqSize
      PROVE  \E u \in Threads :
               /\ cq_mem'[CqPos(m)].cid = cid'[u]
               /\ \/ SentAt(pc'[u], ticket'[u], MovedTail') /\ m >= MovedHead'
                  \/ pc'[u] \in Recognised /\ loc'[u] = m
  <2>1. PICK u \in Threads :
          /\ IdOf(m) = cid[u]
          /\ (Sent(u) /\ m >= MovedHead) \/ (pc[u] \in Recognised /\ loc[u] = m)
    BY <1>1, <1>8 DEF OwnInv
  <2>. QED  BY <1>1, <1>2, <1>4, <2>1 DEF IdOf
<1>. QED  BY <1>5, <1>6, <1>7, <1>8, OwnInvNext

\* The thread that recognises a completion is the one that it is for, and has no
\* other command.
LEMMA EntryOwn ==
  ASSUME TypeOK, LockInv, WindowInv, HeadsInv, PhaseInv, OwnInv, OnceInv, SeenInv, PromptPoll,
         NEW t \in Threads, Entry(t)
  PROVE  OwnInv'
<1>0. /\ pc \in [Threads -> Labels] /\ loc \in [Threads -> Nat]
      /\ posted \in Nat /\ MovedHead \in Nat /\ cq_head \in Nat
  <2>1. pc \in [Threads -> Labels] /\ loc \in [Threads -> Nat]
    BY DEF TypeOK
  <2>. QED  BY <2>1, CursorTypes
<1>1. /\ UNCHANGED <<sq_mem, working, cq_mem, posted, cq_head, ticket, cid, sq_head, fetched>>
      /\ pc[t] = "entry" /\ \A u \in Threads : u # t => pc'[u] = pc[u] /\ loc'[u] = loc[u]
  BY <1>0 DEF Entry, Goto, sqVars, cqVars, ssdVars, idVars
<1>2. UNCHANGED <<MovedTail, MovedHead>>
  BY UsersLeaveCursors DEF Users, TailCursors, HeadCursors
<1>3. UNCHANGED Fetched
  BY <1>1, FetchedKept
<1>4. "entry" \notin Recognised
  BY DEF Recognised, MarkedHead, HeadMovers
<1>5. CASE pc'[t] \in {"entry", "poll"}
  <2>1. \A u \in Threads :
          /\ WrittenAt(pc'[u], ticket'[u], MovedTail) =>
               Written(u) /\ ticket'[u] = ticket[u] /\ cid'[u] = cid[u]
          /\ Sent(u) => SentAt(pc'[u], ticket'[u], MovedTail) /\ cid'[u] = cid[u]
    BY <1>1, <1>5 DEF Written, Sent, WrittenAt, SentAt, Marked, TailMovers
  <2>2. \A u \in Threads : pc[u] \in Recognised =>
          pc'[u] \in Recognised /\ loc'[u] = loc[u] /\ cid'[u] = cid[u]
    BY <1>1, <1>4
  <2>3. cq_head' \in Nat /\ cq_head <= cq_head'
    BY <1>0, <1>1
  <2>. QED  BY <1>1, <1>2, <1>3, <2>1, <2>2, <2>3, OwnSame
<1>6. CASE pc'[t] \notin {"entry", "poll"}
  <2>1. /\ cq_mem[CqPos(loc[t])].phase = Phase(loc[t]) /\ cq_mem[CqPos(loc[t])].cid = cid[t]
        /\ pc'[t] = "poslock" /\ loc' = loc
    BY <1>0, <1>1, <1>6 DEF Entry, Goto
  <2>2. MovedHead <= loc[t] /\ loc[t] < posted
    BY <1>1, <2>1, EntryFound
  <2>3. loc[t] \in MovedHead .. posted - 1 /\ IdOf(loc[t]) = cid[t]
    BY <1>0, <2>1, <2>2 DEF IdOf
  <2>4. /\ \A n \in Fetched .. MovedTail - 1 : sq_mem[SqPos(n)] # Own(t)
        /\ \A w \in working : w.cmd # Own(t)
        /\ \A m \in MovedHead .. posted - 1 : IdOf(m) = cid[t] => m = loc[t]
    BY <2>3 DEF OnceInv, Own
  <2>5. \A u \in Threads :
          /\ WrittenAt(pc'[u], ticket'[u], MovedTail) =>
               Written(u) /\ ticket'[u] = ticket[u] /\ cid'[u] = cid[u]
          /\ Sent(u) /\ u # t => SentAt(pc'[u], ticket'[u], MovedTail)
          /\ Sent(u) => cid'[u] = cid[u]
    BY <1>1, <2>1 DEF Written, Sent, WrittenAt, SentAt, Marked, TailMovers
  <2>6. \A u \in Threads : pc[u] = "entry" /\ u # t => SentAt(pc'[u], ticket'[u], MovedTail)
    BY <1>1 DEF SentAt
  <2>7. ASSUME NEW m \in cq_head' .. posted' - 1, m >= posted' - CqSize
        PROVE  \E u \in Threads :
                 /\ cq_mem'[CqPos(m)].cid = cid'[u]
                 /\ \/ SentAt(pc'[u], ticket'[u], MovedTail') /\ m >= MovedHead'
                    \/ pc'[u] \in Recognised /\ loc'[u] = m
    <3>1. PICK u \in Threads :
            /\ IdOf(m) = cid[u]
            /\ (Sent(u) /\ m >= MovedHead) \/ (pc[u] \in Recognised /\ loc[u] = m)
      BY <1>1, <2>7 DEF OwnInv
    <3>2. CASE u = t
      <4>1. m \in MovedHead .. posted - 1 /\ IdOf(m) = cid[t]
        BY <1>0, <1>1, <1>4, <2>7, <3>1, <3>2
      <4>2. m = loc[t]
        BY <2>4, <4>1
      <4>3. pc'[t] \in Recognised
        BY <2>1 DEF Recognised
      <4>. QED  BY <1>1, <2>1, <4>1, <4>2, <4>3 DEF IdOf
    <3>3. CASE u # t
      BY <1>1, <1>2, <2>5, <3>1, <3>3 DEF IdOf
    <3>. QED  BY <3>2, <3>3
  <2>8. \A u \in Threads : pc[u] = "entry" /\ ~SentAt(pc'[u], ticket'[u], MovedTail) =>
          /\ \A n \in Fetched .. MovedTail - 1 : sq_mem[SqPos(n)] # Own(u)
          /\ \A w \in working : w.cmd # Own(u)
    BY <2>4, <2>6
  <2>9. \A u \in Threads : Sent(u) /\ pc[u] # "entry" => SentAt(pc'[u], ticket'[u], MovedTail)
    BY <1>1, <2>5
  <2>. QED  BY <1>1, <1>2, <1>3, <2>5, <2>7, <2>8, <2>9, OwnCompletions
<1>. QED  BY <1>5, <1>6

\* The completion that the head moves over is that of the thread that marked it.
LEMMA MoveHeadOwn ==
  ASSUME TypeOK, LockInv, WindowInv, HeadsInv, OwnInv, RecogInv, NEW t \in Threads, MoveHead(t),
         MovedHead' = MovedHead + 1, head_mark[CqPos(MovedHead)], pc' = pc
  PROVE  OwnInv'
<1>1. UNCHANGED <<sq_mem, working, cq_mem, posted, cq_head, ticket, cid, loc, sq_head, fetched>>
  BY DEF MoveHead, sqVars, ssdVars, idVars, pollVars
<1>2. UNCHANGED MovedTail
  BY AtHeadLeavesTail DEF AtHead, TailCursors
<1>3. UNCHANGED Fetched
  BY <1>1, FetchedKept
<1>4. \A u \in Threads :
        /\ WrittenAt(pc'[u], ticket'[u], MovedTail) =>
             Written(u) /\ ticket'[u] = ticket[u] /\ cid'[u] = cid[u]
        /\ Sent(u) => SentAt(pc'[u], ticket'[u], MovedTail) /\ cid'[u] = cid[u]
  BY <1>1 DEF Written, Sent
<1>5. MovedHead \in Nat /\ cq_head \in Nat /\ posted \in Nat
  BY CursorTypes
<1>6. PICK h \in Threads : pc[h] \in MarkedHead /\ loc[h] = MovedHead
  BY HeadUser
<1>7. IdOf(MovedHead) = cid[h] /\ pc[h] \in Recognised
  <2>1. MovedHead <= loc[h]
    BY <1>5, <1>6
  <2>. QED  BY <1>6, <2>1 DEF RecogInv, Recognised
<1>8. ASSUME NEW m \in cq_head' .. posted' - 1, m >= posted' - CqSize
      PROVE  \E u \in Threads :
               /\ cq_mem'[CqPos(m)].cid = cid'[u]
               /\ \/ SentAt(pc'[u], ticket'[u], MovedTail') /\ m >= MovedHead'
                  \/ pc'[u] \in Recognised /\ loc'[u] = m
  <2>1. PICK u \in Threads :
          /\ IdOf(m) = cid[u]
          /\ (Sent(u) /\ m >= MovedHead) \/ (pc[u] \in Recognised /\ loc[u] = m)
    BY <1>1, <1>8 DEF OwnInv
  <2>2. CASE m = MovedHead
    BY <1>1, <1>6, <1>7, <2>2 DEF IdOf
  <2>3. CASE m # MovedHead
    <3>1. m >= MovedHead => m >= MovedHead'
      BY <1>1, <1>5, <1>8, <2>3
    <3>. QED  BY <1>1, <1>2, <1>4, <2>1, <3>1 DEF IdOf
  <2>. QED  BY <2>2, <2>3
<1>9. \A u \in Threads : pc[u] = "entry" => SentAt(pc'[u], ticket'[u], MovedTail)
  BY DEF SentAt
<1>. QED  BY <1>1, <1>2, <1>3, <1>4, <1>8, <1>9, OwnCompletions

\* The SSD fetches a submitted command, ...
LEMMA FetchOwn ==
  ASSUME TypeOK, LockInv, WindowInv, OwnInv, Fetch  PROVE OwnInv'
<1>1. /\ UNCHANGED <<sq_mem, cq_mem, posted, cq_head, ticket, cid, loc, pc>>
      /\ working' = working \cup {[place |-> fetched, cmd |-> sq_mem[fetched]]}
  BY DEF Fetch, sqVars, cqVars, idVars, pollVars
<1>2. UNCHANGED <<MovedTail, MovedHead>>
  BY SsdLeavesCursors DEF TailCursors, HeadCursors
<1>3. /\ Fetched' = Fetched + 1 /\ Fetched < RungTail /\ Fetched \in Nat /\ SqPos(Fetched) = fetched
      /\ MovedTail \in Nat /\ RungTail \in Nat /\ RungTail <= MovedTail
  BY FetchIs, FetchedType, CursorTypes
<1>4. \A u \in Threads : WrittenAt(pc'[u], ticket'[u], MovedTail') =>
        sq_mem'[SqPos(ticket'[u])] = [owner |-> u, cid |-> cid'[u]]
  BY <1>1, <1>2 DEF OwnInv, Own, Written
<1>5. ASSUME NEW n \in Fetched' .. MovedTail' - 1
      PROVE  \E u \in Threads : /\ SentAt(pc'[u], ticket'[u], MovedTail')
                                /\ sq_mem'[SqPos(n)] = [owner |-> u, cid |-> cid'[u]]
  <2>1. n \in Fetched .. MovedTail - 1
    BY <1>2, <1>3, <1>5
  <2>2. PICK u \in Threads : Sent(u) /\ sq_mem[SqPos(n)] = Own(u)
    BY <2>1 DEF OwnInv
  <2>. QED  BY <1>1, <1>2, <2>2 DEF Own, Sent
<1>6. ASSUME NEW w \in working'
      PROVE  \E u \in Threads : /\ SentAt(pc'[u], ticket'[u], MovedTail')
                                /\ w.cmd = [owner |-> u, cid |-> cid'[u]]
  <2>1. CASE w \in working
    <3>1. PICK u \in Threads : Sent(u) /\ w.cmd = Own(u)
      BY <2>1 DEF OwnInv
    <3>. QED  BY <1>1, <1>2, <3>1 DEF Own, Sent
  <2>2. CASE w = [place |-> fetched, cmd |-> sq_mem[fetched]]
    <3>1. Fetched \in Fetched .. MovedTail - 1
      BY <1>3
    <3>2. PICK u \in Threads : Sent(u) /\ sq_mem[SqPos(Fetched)] = Own(u)
      BY <3>1 DEF OwnInv
    <3>3. w.cmd = Own(u)
      BY <1>3, <2>2, <3>2
    <3>. QED  BY <1>1, <1>2, <3>2, <3>3 DEF Own, Sent
  <2>. QED  BY <1>1, <1>6, <2>1, <2>2
<1>7. \A m \in cq_head' .. posted' - 1 : m >= posted' - CqSize => \E u \in Threads :
        /\ cq_mem'[CqPos(m)].cid = cid'[u]
        /\ \/ SentAt(pc'[u], ticket'[u], MovedTail') /\ m >= MovedHead'
           \/ pc'[u] \in Recognised /\ loc'[u] = m
  BY <1>1, <1>2 DEF OwnInv, IdOf, Sent
<1>. QED  BY <1>4, <1>5, <1>6, <1>7, OwnInvNext

\* ... and the completion it posts has the id of a command it has fetched.
LEMMA CompleteOwn ==
  ASSUME TypeOK, LockInv, WindowInv, HeadsInv, OwnInv, NEW c \in working, Complete(c)  PROVE OwnInv'
<1>1. /\ UNCHANGED <<sq_mem, cq_head, ticket, cid, loc, pc, sq_head, fetched>>
      /\ working' = working \ {c}
  BY DEF Complete, sqVars, idVars, pollVars
<1>2. UNCHANGED <<MovedTail, MovedHead>>
  BY SsdLeavesCursors DEF TailCursors, HeadCursors
<1>3. UNCHANGED Fetched
  BY <1>1, FetchedKept
<1>4. /\ posted' = posted + 1
      /\ cq_mem'[CqPos(posted)] = [cid |-> c.cmd.cid, phase |-> Phase(posted), sqhd |-> fetched]
      /\ \A m \in Nat : posted - CqSize < m /\ m < posted => cq_mem'[CqPos(m)] = cq_mem[CqPos(m)]
  BY CompleteIs
<1>5. posted \in Nat /\ cq_head \in Nat /\ CqSize \in Nat /\ MovedHead \in Nat /\ MovedHead <= posted
  BY CursorTypes, Sizes DEF HeadsInv
<1>6. \A u \in Threads : WrittenAt(pc'[u], ticket'[u], MovedTail') =>
        sq_mem'[SqPos(ticket'[u])] = [owner |-> u, cid |-> cid'[u]]
  BY <1>1, <1>2 DEF OwnInv, Own, Written
<1>7. \A n \in Fetched' .. MovedTail' - 1 : \E u \in Threads :
        /\ SentAt(pc'[u], ticket'[u], MovedTail')
        /\ sq_mem'[SqPos(n)] = [owner |-> u, cid |-> cid'[u]]
  BY <1>1, <1>2, <1>3 DEF OwnInv, Own, Sent
<1>8. \A w \in working' : \E u \in Threads :
        /\ SentAt(pc'[u], ticket'[u], MovedTail')
        /\ w.cmd = [owner |-> u, cid |-> cid'[u]]
  BY <1>1, <1>2 DEF OwnInv, Own, Sent
<1>9. ASSUME NEW m \in cq_head' .. posted' - 1, m >= posted' - CqSize
      PROVE  \E u \in Threads :
               /\ cq_mem'[CqPos(m)].cid = cid'[u]
               /\ \/ SentAt(pc'[u], ticket'[u], MovedTail') /\ m >= MovedHead'
                  \/ pc'[u] \in Recognised /\ loc'[u] = m
  <2>1. CASE m = posted
    <3>1. PICK u \in Threads : Sent(u) /\ c.cmd = Own(u)
      BY DEF OwnInv
    <3>2. cq_mem'[CqPos(m)].cid = cid[u]
      BY <1>4, <2>1, <3>1 DEF Own
    <3>. QED  BY <1>1, <1>2, <1>5, <2>1, <3>1, <3>2 DEF Sent
  <2>2. CASE m # posted
    <3>1. m \in Nat /\ m \in cq_head .. posted - 1 /\ m < posted /\ m > posted - CqSize
      BY <1>1, <1>4, <1>5, <1>9, <2>2
    <3>2. PICK u \in Threads :
            /\ IdOf(m) = cid[u]
            /\ (Sent(u) /\ m >= MovedHead) \/ (pc[u] \in Recognised /\ loc[u] = m)
      <4>1. m >= posted - CqSize
        BY <1>5, <3>1
      <4>. QED  BY <3>1, <4>1 DEF OwnInv
    <3>3. cq_mem'[CqPos(m)] = cq_mem[CqPos(m)]
      BY <1>4, <1>5, <3>1
    <3>. QED  BY <1>1, <1>2, <3>2, <3>3 DEF IdOf, Sent
  <2>. QED  BY <2>1, <2>2
<1>. QED  BY <1>6, <1>7, <1>8, <1>9, OwnInvNext

LEMMA OwnStep ==
  ASSUME TypeOK, LockInv, TicketInv, SubmitInv, WindowInv, HeadsInv, PhaseInv, OwnInv, OnceInv,
         RecogInv, SeenInv, PromptPoll, QNext
  PROVE  OwnInv'
<1>0. pc \in [Threads -> Labels] /\ loc \in [Threads -> Nat]
  BY DEF TypeOK
<1>h. cq_head \in Nat /\ MovedHead \in Nat /\ cq_head <= MovedHead
  BY CursorTypes
<1> DEFINE MemSame == UNCHANGED <<sq_mem, working, cq_mem, posted>>
           CursorSame == UNCHANGED <<Fetched, MovedTail, MovedHead>>
           OwnedSame == \A u \in Threads :
             /\ WrittenAt(pc'[u], ticket'[u], MovedTail) =>
                  Written(u) /\ ticket'[u] = ticket[u] /\ cid'[u] = cid[u]
             /\ Sent(u) => SentAt(pc'[u], ticket'[u], MovedTail) /\ cid'[u] = cid[u]
             /\ pc[u] \in Recognised =>
                  \/ pc'[u] \in Recognised /\ loc'[u] = loc[u] /\ cid'[u] = cid[u]
                  \/ loc[u] < cq_head
<1>s. ASSUME MemSame, CursorSame, OwnedSame, cq_head' = cq_head \/ cq_head' = MovedHead  PROVE OwnInv'
  <2>1. cq_head' \in Nat /\ cq_head <= cq_head'
    BY <1>h, <1>s
  <2>. QED  BY <1>s, <2>1, OwnSame
<1>1. ASSUME NEW t \in Threads,
             \/ \E c \in Cids : GetCid(t, c)
             \/ TakeTicket(t) \/ AwaitTurn(t) \/ MarkTail(t) \/ LookTail(t) \/ Leave(t)
             \/ Poll(t) \/ PosLock(t) \/ MarkHead(t) \/ LookHead(t)
             \/ AwaitHead(t) \/ PosFree(t) \/ PutCid(t) \/ Again(t)
      PROVE  OwnInv'
  <2>1. MemSame /\ UNCHANGED <<cq_head, sq_head, fetched>>
    BY <1>1 DEF GetCid, TakeTicket, AwaitTurn, MarkTail, LookTail, Leave, Poll, PosLock, MarkHead,
       LookHead, AwaitHead, PosFree, PutCid, Again, sqVars, cqVars, ssdVars
  <2>2. CursorSame
    BY <1>1, <2>1, UsersLeaveCursors, FetchedKept DEF Users, TailCursors, HeadCursors
  <2>3. OwnedSame
    <3>0. ticket \in [Threads -> Nat] /\ cid \in [Threads -> Cids \cup {NoCid}]
      BY DEF TypeOK
    <3>1. \A u \in Threads : u # t =>
            pc'[u] = pc[u] /\ ticket'[u] = ticket[u] /\ cid'[u] = cid[u] /\ loc'[u] = loc[u]
      BY <1>0, <1>1, <3>0 DEF GetCid, TakeTicket, AwaitTurn, MarkTail, LookTail, Leave, Poll, PosLock, MarkHead,
         LookHead, AwaitHead, PosFree, PutCid, Again, Goto, idVars, pollVars
    <3>2. \/ pc[t] \in {"idle", "ticket", "turn", "posfree", "putcid"}
             /\ pc'[t] \in {"ticket", "turn", "copy", "putcid", "idle"}
          \/ pc[t] = "mark" /\ pc'[t] = "tail" /\ UNCHANGED <<ticket, cid>>
          \/ pc[t] = "tail" /\ pc'[t] \in {"trytail", "leave"} /\ UNCHANGED <<ticket, cid>>
          \/ pc[t] \in {"leave", "poll"} /\ pc'[t] \in {"poll", "entry"} /\ UNCHANGED cid
          \/ pc[t] \in {"poslock", "markhead", "head"} /\ pc'[t] \in {"markhead", "head", "tryhead", "await"}
             /\ UNCHANGED <<cid, loc>>
          \/ pc[t] = "await" /\ pc'[t] = "posfree" /\ loc[t] < cq_head
      BY <1>0, <1>1 DEF GetCid, TakeTicket, AwaitTurn, MarkTail, LookTail, Leave, Poll, PosLock, MarkHead,
         LookHead, AwaitHead, PosFree, PutCid, Again, Goto, idVars, pollVars
    <3>3. ASSUME NEW u \in Threads
          PROVE  WrittenAt(pc'[u], ticket'[u], MovedTail) =>
                   Written(u) /\ ticket'[u] = ticket[u] /\ cid'[u] = cid[u]
      BY <3>1, <3>2 DEF Written, WrittenAt, Marked, TailMovers
    <3>4. ASSUME NEW u \in Threads
          PROVE  Sent(u) => SentAt(pc'[u], ticket'[u], MovedTail) /\ cid'[u] = cid[u]
      BY <3>1, <3>2 DEF Sent, SentAt, Marked, TailMovers
    <3>5. ASSUME NEW u \in Threads, pc[u] \in Recognised
          PROVE  \/ pc'[u] \in Recognised /\ loc'[u] = loc[u] /\ cid'[u] = cid[u]
                 \/ loc[u] < cq_head
      BY <3>1, <3>2, <3>5 DEF Recognised, MarkedHead, HeadMovers
    <3>. QED  BY <3>3, <3>4, <3>5
  <2> HIDE DEF MemSame, CursorSame, OwnedSame
  <2>. QED  BY <1>s, <2>1, <2>2, <2>3
<1>2. ASSUME NEW t \in Threads, AtTail(t),
             \A u \in Threads : pc'[u] = pc[u] \/ (pc[u] \in Marked /\ pc'[u] \in Marked),
             UNCHANGED MovedTail
      PROVE  OwnInv'
  <2>1. MemSame /\ UNCHANGED <<cq_head, sq_head, fetched, ticket, cid, loc>>
    BY <1>2 DEF AtTail, TryTail, MoveTail, RingTail, StoreTail, UnlockTail, sqVars, cqVars, ssdVars,
       idVars, pollVars
  <2>2. CursorSame
    BY <1>2, <2>1, AtTailLeavesHead, FetchedKept DEF HeadCursors
  <2>3. Marked \cap Recognised = {} /\ Marked \cap {"mark", "leave", "poll", "entry"} = {}
    BY DEF Marked, TailMovers, Recognised, MarkedHead, HeadMovers
  <2>4. OwnedSame
    BY <1>2, <2>1, <2>3 DEF Written, Sent, WrittenAt, SentAt
  <2> HIDE DEF MemSame, CursorSame, OwnedSame
  <2>. QED  BY <1>s, <2>1, <2>2, <2>4
<1>3. ASSUME NEW t \in Threads, TryTail(t) \/ RingTail(t) \/ StoreTail(t) \/ UnlockTail(t)
      PROVE  OwnInv'
  <2>1. \A u \in Threads : pc'[u] = pc[u] \/ (pc[u] \in Marked /\ pc'[u] \in Marked)
    BY <1>0, <1>3 DEF TryTail, RingTail, StoreTail, UnlockTail, Goto, Marked, TailMovers
  <2>2. UNCHANGED MovedTail
    BY <1>3, TailCursorSteps DEF TailCursors
  <2>. QED  BY <1>2, <1>3, <2>1, <2>2 DEF AtTail
<1>4. ASSUME NEW t \in Threads, MoveTail(t)  PROVE OwnInv'
  <2>1. CASE MovedTail' = MovedTail + 1 /\ tail_mark[SqPos(MovedTail)] /\ pc' = pc
    BY <1>4, <2>1, MoveTailOwn
  <2>2. CASE /\ MovedTail' = MovedTail
             /\ \A u \in Threads : pc'[u] = pc[u] \/ (u = t /\ pc'[u] \in {"untail", "ring"})
    <3>1. pc[t] = "movetail"
      BY <1>4 DEF MoveTail
    <3>2. \A u \in Threads : pc'[u] = pc[u] \/ (pc[u] \in Marked /\ pc'[u] \in Marked)
      BY <2>2, <3>1 DEF Marked, TailMovers
    <3>. QED  BY <1>2, <1>4, <2>2, <3>2 DEF AtTail
  <2>. QED  BY <1>4, <2>1, <2>2, MoveTailIs
<1>5. ASSUME NEW t \in Threads, AtHead(t), UNCHANGED MovedHead,
             \A u \in Threads : pc'[u] = pc[u] \/ (pc[u] \in MarkedHead /\ pc'[u] \in MarkedHead),
             cq_head' = cq_head \/ cq_head' = MovedHead
      PROVE  OwnInv'
  <2>1. MemSame /\ UNCHANGED <<fetched, ticket, cid, loc>>
    BY <1>5 DEF AtHead, TryHead, MoveHead, ReadSqHead, Free, MoveSqHead, RingHead, StoreHead, UnlockHead,
       sqVars, cqVars, ssdVars, idVars, pollVars
  <2>2. sq_head' = sq_head \/ sq_head' = FreedTo
    BY <1>5, HeadCursorSteps DEF AtHead, HeadCursors
  <2>3. CursorSame
    BY <1>5, <2>1, <2>2, AtHeadLeavesTail, FetchedKept DEF TailCursors
  <2>4. MarkedHead \subseteq Recognised /\ MarkedHead \cap (Marked \cup {"mark", "leave", "poll", "entry"}) = {}
    BY DEF Marked, TailMovers, Recognised, MarkedHead, HeadMovers
  <2>5. OwnedSame
    BY <1>5, <2>1, <2>4 DEF Written, Sent, WrittenAt, SentAt
  <2> HIDE DEF MemSame, CursorSame, OwnedSame
  <2>. QED  BY <1>s, <1>5, <2>1, <2>3, <2>5
<1>6. ASSUME NEW t \in Threads,
             \/ TryHead(t) \/ ReadSqHead(t) \/ Free(t) \/ MoveSqHead(t) \/ RingHead(t)
             \/ StoreHead(t) \/ UnlockHead(t)
      PROVE  OwnInv'
  <2>1. \A u \in Threads : pc'[u] = pc[u] \/ (pc[u] \in MarkedHead /\ pc'[u] \in MarkedHead)
    BY <1>0, <1>6 DEF TryHead, ReadSqHead, Free, MoveSqHead, RingHead, StoreHead, UnlockHead, Goto,
       MarkedHead, HeadMovers
  <2>2. UNCHANGED MovedHead /\ (cq_head' = cq_head \/ cq_head' = MovedHead)
    BY <1>6, HeadCursorSteps DEF HeadCursors
  <2>. QED  BY <1>5, <1>6, <2>1, <2>2 DEF AtHead
<1>7. ASSUME NEW t \in Threads, MoveHead(t)  PROVE OwnInv'
  <2>1. CASE MovedHead' = MovedHead + 1 /\ head_mark[CqPos(MovedHead)] /\ pc' = pc
    BY <1>7, <2>1, MoveHeadOwn
  <2>2. CASE /\ MovedHead' = MovedHead
             /\ \A u \in Threads : pc'[u] = pc[u] \/ (u = t /\ pc'[u] \in {"unhead", "sqhd"})
    <3>1. pc[t] = "movehead" /\ cq_head' = cq_head
      BY <1>7 DEF MoveHead
    <3>2. \A u \in Threads : pc'[u] = pc[u] \/ (pc[u] \in MarkedHead /\ pc'[u] \in MarkedHead)
      BY <2>2, <3>1 DEF MarkedHead, HeadMovers
    <3>. QED  BY <1>5, <1>7, <2>2, <3>1, <3>2 DEF AtHead
  <2>. QED  BY <1>7, <2>1, <2>2, MoveHeadIs
<1>8. CASE UNCHANGED vars
  <2>1. MemSame /\ UNCHANGED <<cq_head, sq_head, fetched, pc, ticket, cid, loc>>
    BY <1>8 DEF vars, sqVars, cqVars, ssdVars, idVars, pollVars
  <2>2. CursorSame
    BY <1>8, <2>1, SsdLeavesCursors, FetchedKept DEF TailCursors, HeadCursors
  <2>3. OwnedSame
    BY <2>1 DEF Written, Sent
  <2> HIDE DEF MemSame, CursorSame, OwnedSame
  <2>. QED  BY <1>s, <2>1, <2>2, <2>3
<1>9. ASSUME NEW t \in Threads, Copy(t) \/ Entry(t)  PROVE OwnInv'
  BY <1>9, CopyOwn, EntryOwn
<1>10. CASE Fetch \/ \E c \in working : Complete(c)
  BY <1>10, FetchOwn, CompleteOwn
<1>. QED
  BY <1>1, <1>3, <1>4, <1>6, <1>7, <1>8, <1>9, <1>10, StepsAre DEF Users, AtTail, AtHead
------------------------------------------------------------------------------
(***************************************************************************)
(* No id is in two places.                                                  *)
(***************************************************************************)
LEMMA OnceInvNext ==
  ASSUME \A n, k \in Fetched' .. MovedTail' - 1 :
           sq_mem'[SqPos(n)].cid = sq_mem'[SqPos(k)].cid => n = k,
         \A v, w \in working' : v.cmd.cid = w.cmd.cid => v = w,
         \A m, k \in MovedHead' .. posted' - 1 : cq_mem'[CqPos(m)].cid = cq_mem'[CqPos(k)].cid => m = k,
         \A n \in Fetched' .. MovedTail' - 1, w \in working' : sq_mem'[SqPos(n)].cid # w.cmd.cid,
         \A n \in Fetched' .. MovedTail' - 1, m \in MovedHead' .. posted' - 1 :
           sq_mem'[SqPos(n)].cid # cq_mem'[CqPos(m)].cid,
         \A w \in working', m \in MovedHead' .. posted' - 1 : w.cmd.cid # cq_mem'[CqPos(m)].cid
  PROVE  OnceInv'
BY DEF OnceInv, IdOf, SqPos, CqPos

\* A step that submits, fetches and posts nothing.
LEMMA OnceSame ==
  ASSUME TypeOK, OnceInv, UNCHANGED <<working, cq_mem, posted, Fetched, MovedTail>>,
         \A n \in Fetched .. MovedTail - 1 : sq_mem'[SqPos(n)] = sq_mem[SqPos(n)],
         MovedHead' = MovedHead \/ MovedHead' = MovedHead + 1
  PROVE  OnceInv'
<1>1. \A m \in MovedHead' .. posted' - 1 : m \in MovedHead .. posted - 1
  <2>1. MovedHead \in Nat /\ posted \in Nat
    BY CursorTypes
  <2>. QED  BY <2>1
<1>2. \A n, k \in Fetched' .. MovedTail' - 1 :
        sq_mem'[SqPos(n)].cid = sq_mem'[SqPos(k)].cid => n = k
  BY DEF OnceInv
<1>3. /\ \A v, w \in working' : v.cmd.cid = w.cmd.cid => v = w
      /\ \A m, k \in MovedHead' .. posted' - 1 : cq_mem'[CqPos(m)].cid = cq_mem'[CqPos(k)].cid => m = k
  BY <1>1 DEF OnceInv, IdOf
<1>4. /\ \A n \in Fetched' .. MovedTail' - 1, w \in working' : sq_mem'[SqPos(n)].cid # w.cmd.cid
      /\ \A n \in Fetched' .. MovedTail' - 1, m \in MovedHead' .. posted' - 1 :
           sq_mem'[SqPos(n)].cid # cq_mem'[CqPos(m)].cid
      /\ \A w \in working', m \in MovedHead' .. posted' - 1 : w.cmd.cid # cq_mem'[CqPos(m)].cid
  BY <1>1 DEF OnceInv, IdOf
<1>. QED  BY <1>2, <1>3, <1>4, OnceInvNext

\* A thread whose command is not submitted waits for no other: its id is nowhere.
LEMMA MoveTailOnce ==
  ASSUME TypeOK, LockInv, IdInv, TicketInv, SubmitInv, WindowInv, HeadsInv, OwnInv, OnceInv,
         NEW t \in Threads, MoveTail(t), MovedTail' = MovedTail + 1, tail_mark[SqPos(MovedTail)]
  PROVE  OnceInv'
<1>1. UNCHANGED <<sq_mem, working, cq_mem, posted, cq_head, sq_head, fetched>>
  BY DEF MoveTail, cqVars, ssdVars
<1>2. UNCHANGED MovedHead
  BY AtTailLeavesHead DEF AtTail, HeadCursors
<1>3. UNCHANGED Fetched
  BY <1>1, FetchedKept
<1>0. /\ MovedTail \in Nat /\ Fetched \in Nat /\ MovedHead \in Nat /\ posted \in Nat /\ CqSize \in Nat
      /\ cq_head \in Nat /\ cq_head <= MovedHead /\ posted < MovedHead + CqSize
  <2>1. RungHead \in Nat /\ RungHead <= MovedHead /\ posted < RungHead + CqSize
    BY CursorTypes DEF HeadsInv
  <2>. QED  BY <2>1, CursorTypes, FetchedType, Sizes
<1>4. PICK w \in Threads : pc[w] \in Marked /\ ticket[w] = MovedTail
  BY TailUser
<1> DEFINE id == sq_mem[SqPos(MovedTail)].cid
<1>5. Written(w) /\ ~Sent(w) /\ pc[w] \notin Recognised /\ pc[w] # "idle"
  BY <1>0, <1>4 DEF Written, Sent, WrittenAt, SentAt, Marked, TailMovers, Recognised, MarkedHead, HeadMovers
<1>6. id = cid[w]
  <2>1. sq_mem[SqPos(ticket[w])] = Own(w)
    BY <1>5 DEF OwnInv
  <2>. QED  BY <1>4, <2>1 DEF Own
<1>7. \A u \in Threads : Sent(u) \/ pc[u] \in Recognised => cid[u] # id
  <2>1. \A u \in Threads : Sent(u) \/ pc[u] \in Recognised => u # w
    BY <1>5
  <2>. QED  BY <1>5, <1>6, <2>1 DEF IdInv
<1> HIDE DEF id
<1>8. \A n \in Fetched .. MovedTail - 1 : sq_mem[SqPos(n)].cid # id
  <2>1. SUFFICES ASSUME NEW n \in Fetched .. MovedTail - 1  PROVE sq_mem[SqPos(n)].cid # id
    OBVIOUS
  <2>2. PICK u \in Threads : Sent(u) /\ sq_mem[SqPos(n)] = Own(u)
    BY DEF OwnInv
  <2>3. sq_mem[SqPos(n)].cid = cid[u]
    BY <2>2 DEF Own
  <2>. QED  BY <1>7, <2>2, <2>3
<1>9. \A v \in working : v.cmd.cid # id
  <2>1. SUFFICES ASSUME NEW v \in working  PROVE v.cmd.cid # id
    OBVIOUS
  <2>2. PICK u \in Threads : Sent(u) /\ v.cmd = Own(u)
    BY DEF OwnInv
  <2>3. v.cmd.cid = cid[u]
    BY <2>2 DEF Own
  <2>. QED  BY <1>7, <2>2, <2>3
<1>10. ASSUME NEW m \in MovedHead .. posted - 1  PROVE cq_mem[CqPos(m)].cid # id
  <2>1. m \in cq_head .. posted - 1 /\ m >= posted - CqSize
    BY <1>0
  <2>2. PICK u \in Threads : IdOf(m) = cid[u] /\ (Sent(u) \/ pc[u] \in Recognised)
    BY <2>1 DEF OwnInv
  <2>. QED  BY <1>7, <2>2 DEF IdOf
<1>11. \A n \in Fetched' .. MovedTail' - 1 :
         n \in Fetched .. MovedTail - 1 \/ (n = MovedTail /\ sq_mem'[SqPos(n)].cid = id)
  BY <1>0, <1>1, <1>3 DEF id
<1>12. \A n, k \in Fetched' .. MovedTail' - 1 :
         sq_mem'[SqPos(n)].cid = sq_mem'[SqPos(k)].cid => n = k
  BY <1>1, <1>8, <1>11 DEF OnceInv
<1>13. /\ \A v, x \in working' : v.cmd.cid = x.cmd.cid => v = x
       /\ \A m, k \in MovedHead' .. posted' - 1 : cq_mem'[CqPos(m)].cid = cq_mem'[CqPos(k)].cid => m = k
       /\ \A x \in working', m \in MovedHead' .. posted' - 1 : x.cmd.cid # cq_mem'[CqPos(m)].cid
  BY <1>1, <1>2 DEF OnceInv, IdOf
<1>14. \A n \in Fetched' .. MovedTail' - 1, x \in working' : sq_mem'[SqPos(n)].cid # x.cmd.cid
  BY <1>1, <1>9, <1>11 DEF OnceInv
<1>15. \A n \in Fetched' .. MovedTail' - 1, m \in MovedHead' .. posted' - 1 :
         sq_mem'[SqPos(n)].cid # cq_mem'[CqPos(m)].cid
  BY <1>1, <1>2, <1>10, <1>11 DEF OnceInv, IdOf
<1>. QED  BY <1>12, <1>13, <1>14, <1>15, OnceInvNext

LEMMA FetchOnce ==
  ASSUME TypeOK, LockInv, WindowInv, OnceInv, Fetch  PROVE OnceInv'
<1> DEFINE new == [place |-> fetched, cmd |-> sq_mem[fetched]]
<1>1. UNCHANGED <<sq_mem, cq_mem, posted>> /\ working' = working \cup {new}
  BY DEF Fetch, sqVars, cqVars
<1>2. UNCHANGED <<MovedTail, MovedHead>>
  BY SsdLeavesCursors DEF TailCursors, HeadCursors
<1>3. /\ Fetched' = Fetched + 1 /\ Fetched < RungTail /\ Fetched \in Nat /\ SqPos(Fetched) = fetched
      /\ MovedTail \in Nat /\ RungTail \in Nat /\ RungTail <= MovedTail
  BY FetchIs, FetchedType, CursorTypes
<1>4. Fetched \in Fetched .. MovedTail - 1 /\ new.cmd.cid = sq_mem[SqPos(Fetched)].cid
  BY <1>3
<1> HIDE DEF new
<1>5. \A n \in Fetched' .. MovedTail' - 1 : n \in Fetched .. MovedTail - 1 /\ n # Fetched
  BY <1>2, <1>3
<1>6. \A n, k \in Fetched' .. MovedTail' - 1 :
        sq_mem'[SqPos(n)].cid = sq_mem'[SqPos(k)].cid => n = k
  BY <1>1, <1>5 DEF OnceInv
<1>7. \A v \in working : v.cmd.cid # new.cmd.cid
  BY <1>4 DEF OnceInv
<1>8. \A v, w \in working' : v.cmd.cid = w.cmd.cid => v = w
  BY <1>1, <1>7 DEF OnceInv
<1>9. \A m, k \in MovedHead' .. posted' - 1 : cq_mem'[CqPos(m)].cid = cq_mem'[CqPos(k)].cid => m = k
  BY <1>1, <1>2 DEF OnceInv, IdOf
<1>10. \A n \in Fetched' .. MovedTail' - 1 : sq_mem[SqPos(n)].cid # new.cmd.cid
  BY <1>4, <1>5 DEF OnceInv
<1>11. \A n \in Fetched' .. MovedTail' - 1, w \in working' : sq_mem'[SqPos(n)].cid # w.cmd.cid
  BY <1>1, <1>5, <1>10 DEF OnceInv
<1>12. \A n \in Fetched' .. MovedTail' - 1, m \in MovedHead' .. posted' - 1 :
         sq_mem'[SqPos(n)].cid # cq_mem'[CqPos(m)].cid
  BY <1>1, <1>2, <1>5 DEF OnceInv, IdOf
<1>13. \A m \in MovedHead .. posted - 1 : new.cmd.cid # IdOf(m)
  BY <1>4 DEF OnceInv
<1>14. \A w \in working', m \in MovedHead' .. posted' - 1 : w.cmd.cid # cq_mem'[CqPos(m)].cid
  BY <1>1, <1>2, <1>13 DEF OnceInv, IdOf
<1>. QED  BY <1>6, <1>8, <1>9, <1>11, <1>12, <1>14, OnceInvNext

LEMMA CompleteOnce ==
  ASSUME TypeOK, LockInv, WindowInv, HeadsInv, OnceInv, NEW c \in working, Complete(c)  PROVE OnceInv'
<1>1. UNCHANGED <<sq_mem, sq_head, fetched>> /\ working' = working \ {c}
  BY DEF Complete, sqVars
<1>2. UNCHANGED <<MovedTail, MovedHead>>
  BY SsdLeavesCursors DEF TailCursors, HeadCursors
<1>3. UNCHANGED Fetched
  BY <1>1, FetchedKept
<1>4. /\ posted' = posted + 1
      /\ cq_mem'[CqPos(posted)].cid = c.cmd.cid
      /\ \A m \in Nat : posted - CqSize < m /\ m < posted => cq_mem'[CqPos(m)] = cq_mem[CqPos(m)]
  <2>1. /\ posted' = posted + 1
        /\ cq_mem'[CqPos(posted)] = [cid |-> c.cmd.cid, phase |-> Phase(posted), sqhd |-> fetched]
        /\ \A m \in Nat : posted - CqSize < m /\ m < posted => cq_mem'[CqPos(m)] = cq_mem[CqPos(m)]
    BY CompleteIs
  <2>. QED  BY <2>1
<1>0. /\ MovedHead \in Nat /\ posted \in Nat /\ CqSize \in Nat /\ MovedHead <= posted
      /\ posted < MovedHead + CqSize
  <2>1. RungHead \in Nat /\ RungHead <= MovedHead /\ posted < RungHead + CqSize /\ MovedHead <= posted
    BY CursorTypes DEF HeadsInv
  <2>. QED  BY <2>1, CursorTypes, Sizes
<1>5. ASSUME NEW m \in MovedHead' .. posted' - 1
      PROVE  \/ m \in MovedHead .. posted - 1 /\ cq_mem'[CqPos(m)].cid = IdOf(m)
             \/ m = posted /\ cq_mem'[CqPos(m)].cid = c.cmd.cid
  <2>1. CASE m = posted
    BY <1>4, <2>1
  <2>2. CASE m # posted
    <3>1. m \in Nat /\ m \in MovedHead .. posted - 1 /\ posted - CqSize < m /\ m < posted
      BY <1>0, <1>2, <1>4, <1>5, <2>2
    <3>2. cq_mem'[CqPos(m)] = cq_mem[CqPos(m)]
      BY <1>4, <3>1
    <3>. QED  BY <3>1, <3>2 DEF IdOf
  <2>. QED  BY <2>1, <2>2
<1>6. /\ \A m \in MovedHead .. posted - 1 : c.cmd.cid # IdOf(m)
      /\ \A n \in Fetched .. MovedTail - 1 : sq_mem[SqPos(n)].cid # c.cmd.cid
      /\ \A w \in working : w # c => w.cmd.cid # c.cmd.cid
  BY DEF OnceInv
<1>7. \A n, k \in Fetched' .. MovedTail' - 1 :
        sq_mem'[SqPos(n)].cid = sq_mem'[SqPos(k)].cid => n = k
  BY <1>1, <1>2, <1>3 DEF OnceInv
<1>8. /\ \A v, w \in working' : v.cmd.cid = w.cmd.cid => v = w
      /\ \A n \in Fetched' .. MovedTail' - 1, w \in working' : sq_mem'[SqPos(n)].cid # w.cmd.cid
  BY <1>1, <1>2, <1>3 DEF OnceInv
<1>9. \A m, k \in MovedHead' .. posted' - 1 : cq_mem'[CqPos(m)].cid = cq_mem'[CqPos(k)].cid => m = k
  BY <1>5, <1>6 DEF OnceInv
<1>10. \A n \in Fetched' .. MovedTail' - 1, m \in MovedHead' .. posted' - 1 :
         sq_mem'[SqPos(n)].cid # cq_mem'[CqPos(m)].cid
  BY <1>1, <1>2, <1>3, <1>5, <1>6 DEF OnceInv
<1>11. \A w \in working', m \in MovedHead' .. posted' - 1 : w.cmd.cid # cq_mem'[CqPos(m)].cid
  BY <1>1, <1>5, <1>6 DEF OnceInv
<1>. QED  BY <1>7, <1>8, <1>9, <1>10, <1>11, OnceInvNext

LEMMA OnceStep ==
  ASSUME TypeOK, LockInv, IdInv, TicketInv, SubmitInv, WindowInv, HeadsInv, OwnInv, OnceInv, QNext
  PROVE  OnceInv'
<1>1. ASSUME NEW t \in Threads, Users(t)  PROVE OnceInv'
  <2>1. UNCHANGED <<working, cq_mem, posted, sq_head, fetched>>
    BY <1>1 DEF Users, GetCid, TakeTicket, AwaitTurn, Copy, MarkTail, LookTail, Leave, Poll, Entry,
       PosLock, MarkHead, LookHead, AwaitHead, PosFree, PutCid, Again, sqVars, cqVars, ssdVars
  <2>2. UNCHANGED <<MovedTail, MovedHead>>
    BY <1>1, UsersLeaveCursors DEF TailCursors, HeadCursors
  <2>3. UNCHANGED Fetched
    BY <2>1, FetchedKept
  <2>4. ASSUME NEW n \in Fetched .. MovedTail - 1  PROVE sq_mem'[SqPos(n)] = sq_mem[SqPos(n)]
    <3>1. CASE Copy(t)
      <4>1. n \in Nat /\ SqPos(n) # SqPos(ticket[t])
        BY <3>1, CopyOutside DEF Copy
      <4>2. SqPos(n) \in DOMAIN sq_mem
        BY <4>1, Places DEF TypeOK
      <4>. QED  BY <3>1, <4>1, <4>2 DEF Copy
    <3>2. CASE ~Copy(t)
      BY <1>1, <3>2 DEF Users, GetCid, TakeTicket, AwaitTurn, MarkTail, LookTail, Leave, Poll, Entry,
         PosLock, MarkHead, LookHead, AwaitHead, PosFree, PutCid, Again, sqVars
    <3>. QED  BY <3>1, <3>2
  <2>. QED  BY <2>1, <2>2, <2>3, <2>4, OnceSame
<1>2. ASSUME NEW t \in Threads, AtTail(t), UNCHANGED MovedTail  PROVE OnceInv'
  <2>1. UNCHANGED <<sq_mem, working, cq_mem, posted, sq_head, fetched>>
    BY <1>2 DEF AtTail, TryTail, MoveTail, RingTail, StoreTail, UnlockTail, cqVars, ssdVars
  <2>2. UNCHANGED MovedHead
    BY <1>2, AtTailLeavesHead DEF HeadCursors
  <2>. QED  BY <1>2, <2>1, <2>2, FetchedKept, OnceSame
<1>3. ASSUME NEW t \in Threads, AtTail(t)  PROVE OnceInv'
  <2>1. CASE MoveTail(t)
    BY <1>2, <1>3, <2>1, MoveTailIs, MoveTailOnce
  <2>2. CASE TryTail(t) \/ RingTail(t) \/ StoreTail(t) \/ UnlockTail(t)
    <3>1. UNCHANGED MovedTail
      BY <2>2, TailCursorSteps DEF TailCursors
    <3>. QED  BY <1>2, <1>3, <3>1
  <2>. QED  BY <1>3, <2>1, <2>2 DEF AtTail
<1>4. ASSUME NEW t \in Threads, AtHead(t)  PROVE OnceInv'
  <2>1. UNCHANGED <<sq_mem, working, cq_mem, posted, fetched>>
    BY <1>4 DEF AtHead, TryHead, MoveHead, ReadSqHead, Free, MoveSqHead, RingHead, StoreHead, UnlockHead,
       sqVars, cqVars, ssdVars
  <2>2. sq_head' = sq_head \/ sq_head' = FreedTo
    BY <1>4, HeadCursorSteps DEF AtHead, HeadCursors
  <2>3. UNCHANGED <<Fetched, MovedTail>>
    BY <1>4, <2>1, <2>2, AtHeadLeavesTail, FetchedKept DEF TailCursors
  <2>4. MovedHead' = MovedHead \/ MovedHead' = MovedHead + 1
    BY <1>4, HeadCursorSteps, MoveHeadIs DEF AtHead, HeadCursors
  <2>. QED  BY <2>1, <2>3, <2>4, OnceSame
<1>5. CASE UNCHANGED vars
  <2>1. UNCHANGED <<sq_mem, working, cq_mem, posted, sq_head, fetched>>
    BY <1>5 DEF vars, sqVars, cqVars, ssdVars
  <2>2. UNCHANGED <<MovedTail, MovedHead>>
    BY <1>5, SsdLeavesCursors DEF TailCursors, HeadCursors
  <2>. QED  BY <2>1, <2>2, FetchedKept, OnceSame
<1>6. CASE Fetch \/ \E c \in working : Complete(c)
  BY <1>6, FetchOnce, CompleteOnce
<1>. QED  BY <1>1, <1>3, <1>4, <1>5, <1>6, StepsAre
------------------------------------------------------------------------------
(***************************************************************************)
(* Recognised completions.                                                  *)
(***************************************************************************)
Recognising == {"poslock", "markhead"}

LEMMA RecogInvNext ==
  ASSUME \A u \in Threads :
           /\ pc'[u] \in Recognising => MovedHead' <= loc'[u]
           /\ pc'[u] \in Recognising \cup MarkedHead => loc'[u] < posted'
           /\ pc'[u] \in Recognising \cup MarkedHead /\ MovedHead' <= loc'[u] =>
                cq_mem'[CqPos(loc'[u])].cid = cid'[u]
           /\ pc'[u] \in MarkedHead => (head_mark'[CqPos(loc'[u])] <=> MovedHead' <= loc'[u])
           /\ pc'[u] = "await" => loc'[u] < MovedHead',
         \A p \in 0 .. CqSize - 1 : head_mark'[p] => \E u \in Threads :
           pc'[u] \in MarkedHead /\ CqPos(loc'[u]) = p /\ MovedHead' <= loc'[u]
  PROVE  RecogInv'
BY DEF RecogInv, Recognising, IdOf, CqPos, MarkedHead, HeadMovers

\* A step that recognises, marks and passes no completion, and posts none.
LEMMA RecogSame ==
  ASSUME RecogInv, UNCHANGED <<cq_mem, posted, head_mark, MovedHead>>,
         \A u \in Threads :
           /\ pc'[u] \in Recognising => pc[u] \in Recognising
           /\ pc'[u] \in MarkedHead => pc[u] \in MarkedHead
           /\ pc'[u] \in Recognising \cup MarkedHead => loc'[u] = loc[u] /\ cid'[u] = cid[u]
           /\ pc[u] \in MarkedHead /\ MovedHead <= loc[u] => pc'[u] \in MarkedHead
           /\ pc'[u] = "await" => loc'[u] < MovedHead
  PROVE  RecogInv'
<1>1. ASSUME NEW u \in Threads
      PROVE  /\ pc'[u] \in Recognising => MovedHead' <= loc'[u]
             /\ pc'[u] \in Recognising \cup MarkedHead => loc'[u] < posted'
             /\ pc'[u] \in Recognising \cup MarkedHead /\ MovedHead' <= loc'[u] =>
                  cq_mem'[CqPos(loc'[u])].cid = cid'[u]
             /\ pc'[u] \in MarkedHead => (head_mark'[CqPos(loc'[u])] <=> MovedHead' <= loc'[u])
             /\ pc'[u] = "await" => loc'[u] < MovedHead'
  BY DEF RecogInv, Recognising, IdOf
<1>2. \A p \in 0 .. CqSize - 1 : head_mark'[p] => \E u \in Threads :
        pc'[u] \in MarkedHead /\ CqPos(loc'[u]) = p /\ MovedHead' <= loc'[u]
  BY DEF RecogInv
<1>. QED  BY <1>1, <1>2, RecogInvNext

LEMMA EntryRecog ==
  ASSUME TypeOK, LockInv, HeadsInv, PhaseInv, RecogInv, SeenInv, PromptPoll, NEW t \in Threads, Entry(t)
  PROVE  RecogInv'
<1>0. pc \in [Threads -> Labels] /\ loc \in [Threads -> Nat]
  BY DEF TypeOK
<1>1. /\ UNCHANGED <<cq_mem, posted, head_mark, cid>> /\ pc[t] = "entry"
      /\ \A u \in Threads : u # t => pc'[u] = pc[u] /\ loc'[u] = loc[u]
  BY <1>0 DEF Entry, Goto, cqVars, ssdVars, idVars
<1>2. UNCHANGED MovedHead
  BY UsersLeaveCursors DEF Users, HeadCursors
<1>3. Recognising = {"poslock", "markhead"} /\ "poslock" \notin MarkedHead /\ "entry" \notin MarkedHead
      /\ "poll" \notin MarkedHead /\ "await" \notin MarkedHead
  BY DEF Recognising, MarkedHead, HeadMovers
<1>4. CASE pc'[t] \in {"entry", "poll"}
  <2>1. \A u \in Threads : pc'[u] = "await" => loc'[u] < MovedHead
    BY <1>1, <1>4 DEF RecogInv
  <2>. QED  BY <1>1, <1>2, <1>3, <1>4, <2>1, RecogSame
<1>5. CASE pc'[t] \notin {"entry", "poll"}
  <2>1. /\ cq_mem[CqPos(loc[t])].phase = Phase(loc[t]) /\ cq_mem[CqPos(loc[t])].cid = cid[t]
        /\ pc'[t] = "poslock" /\ loc' = loc
    BY <1>0, <1>1, <1>5 DEF Entry, Goto
  <2>2. MovedHead <= loc[t] /\ loc[t] < posted
    BY <1>1, <2>1, EntryFound
  <2>3. ASSUME NEW u \in Threads
        PROVE  /\ pc'[u] \in Recognising => MovedHead' <= loc'[u]
               /\ pc'[u] \in Recognising \cup MarkedHead => loc'[u] < posted'
               /\ pc'[u] \in Recognising \cup MarkedHead /\ MovedHead' <= loc'[u] =>
                    cq_mem'[CqPos(loc'[u])].cid = cid'[u]
               /\ pc'[u] \in MarkedHead => (head_mark'[CqPos(loc'[u])] <=> MovedHead' <= loc'[u])
               /\ pc'[u] = "await" => loc'[u] < MovedHead'
    <3>1. CASE u = t
      BY <1>1, <1>2, <1>3, <2>1, <2>2, <3>1
    <3>2. CASE u # t
      BY <1>1, <1>2, <1>3, <2>1, <3>2 DEF RecogInv, IdOf
    <3>. QED  BY <3>1, <3>2
  <2>4. \A p \in 0 .. CqSize - 1 : head_mark'[p] => \E u \in Threads :
          pc'[u] \in MarkedHead /\ CqPos(loc'[u]) = p /\ MovedHead' <= loc'[u]
    <3>1. \A u \in Threads : pc[u] \in MarkedHead => pc'[u] \in MarkedHead
      BY <1>1, <1>3
    <3>. QED  BY <1>1, <1>2, <2>1, <3>1 DEF RecogInv
  <2>. QED  BY <2>3, <2>4, RecogInvNext
<1>. QED  BY <1>4, <1>5

\* A thread marks a place that is its own.
LEMMA MarkHeadRecog ==
  ASSUME TypeOK, LockInv, PosInv, RecogInv, NEW t \in Threads, MarkHead(t)
  PROVE  RecogInv'
<1> DEFINE q == CqPos(loc[t])
<1>0. /\ pc \in [Threads -> Labels] /\ head_mark \in [0 .. CqSize - 1 -> BOOLEAN]
      /\ \A u \in Threads : CqPos(loc[u]) \in 0 .. CqSize - 1
  BY Places DEF TypeOK
<1>1. /\ UNCHANGED <<cq_mem, posted, cid, loc>> /\ pc[t] = "markhead"
      /\ \A u \in Threads : pc'[u] = IF u = t THEN "head" ELSE pc[u]
      /\ \A p \in 0 .. CqSize - 1 : head_mark'[p] = IF p = q THEN TRUE ELSE head_mark[p]
  BY <1>0 DEF MarkHead, Goto, ssdVars, idVars, pollVars
<1>2. UNCHANGED MovedHead
  BY UsersLeaveCursors DEF Users, HeadCursors
<1>3. Recognising = {"poslock", "markhead"} /\ "head" \in MarkedHead /\ "markhead" \notin MarkedHead
  BY DEF Recognising, MarkedHead, HeadMovers
<1>4. \A u \in Threads : u # t /\ pc[u] \in MarkedHead => CqPos(loc[u]) # q
  BY <1>1 DEF PosInv, PosHolders
<1> HIDE DEF q
<1>5. MovedHead <= loc[t] /\ loc[t] < posted /\ cq_mem[CqPos(loc[t])].cid = cid[t]
  BY <1>1 DEF RecogInv, IdOf
<1>6. ASSUME NEW u \in Threads
      PROVE  /\ pc'[u] \in Recognising => MovedHead' <= loc'[u]
             /\ pc'[u] \in Recognising \cup MarkedHead => loc'[u] < posted'
             /\ pc'[u] \in Recognising \cup MarkedHead /\ MovedHead' <= loc'[u] =>
                  cq_mem'[CqPos(loc'[u])].cid = cid'[u]
             /\ pc'[u] \in MarkedHead => (head_mark'[CqPos(loc'[u])] <=> MovedHead' <= loc'[u])
             /\ pc'[u] = "await" => loc'[u] < MovedHead'
  <2>1. CASE u = t
    <3>1. head_mark'[CqPos(loc[t])]
      BY <1>0, <1>1 DEF q
    <3>. QED  BY <1>1, <1>2, <1>3, <1>5, <2>1, <3>1
  <2>2. CASE u # t
    <3>1. pc[u] \in MarkedHead => head_mark'[CqPos(loc[u])] = head_mark[CqPos(loc[u])]
      BY <1>0, <1>1, <1>4, <2>2
    <3>. QED  BY <1>1, <1>2, <1>3, <2>2, <3>1 DEF RecogInv, IdOf
  <2>. QED  BY <2>1, <2>2
<1>7. ASSUME NEW p \in 0 .. CqSize - 1, head_mark'[p]
      PROVE  \E u \in Threads : pc'[u] \in MarkedHead /\ CqPos(loc'[u]) = p /\ MovedHead' <= loc'[u]
  <2>1. CASE p = q
    BY <1>1, <1>2, <1>3, <1>5, <2>1 DEF q
  <2>2. CASE p # q
    <3>1. PICK u \in Threads : pc[u] \in MarkedHead /\ CqPos(loc[u]) = p /\ MovedHead <= loc[u]
      BY <1>1, <1>7, <2>2 DEF RecogInv
    <3>. QED  BY <1>1, <1>2, <1>3, <3>1
  <2>. QED  BY <2>1, <2>2
<1>. QED  BY <1>6, <1>7, RecogInvNext

\* The head moves over a completion of a thread that has marked it; no thread is
\* between recognising that completion and marking it.
LEMMA MoveHeadRecog ==
  ASSUME TypeOK, LockInv, IdInv, HeadsInv, PosInv, RecogInv, NEW t \in Threads, MoveHead(t),
         MovedHead' = MovedHead + 1, head_mark[CqPos(MovedHead)], pc' = pc,
         head_mark' = [head_mark EXCEPT ![CqPos(MovedHead)] = FALSE]
  PROVE  RecogInv'
<1> DEFINE q == CqPos(MovedHead)
<1>0. /\ head_mark \in [0 .. CqSize - 1 -> BOOLEAN] /\ MovedHead \in Nat
      /\ q \in 0 .. CqSize - 1
      /\ \A u \in Threads : loc[u] \in Nat /\ CqPos(loc[u]) \in 0 .. CqSize - 1
  <2>1. head_mark \in [0 .. CqSize - 1 -> BOOLEAN] /\ \A u \in Threads : loc[u] \in Nat
    BY DEF TypeOK
  <2>. QED  BY <2>1, CursorTypes, Places
<1>1. UNCHANGED <<cq_mem, posted, cid, loc, pc>>
  BY DEF MoveHead, ssdVars, idVars, pollVars
<1>2. \A p \in 0 .. CqSize - 1 : head_mark'[p] = IF p = q THEN FALSE ELSE head_mark[p]
  BY <1>0
<1>3. PICK h \in Threads : pc[h] \in MarkedHead /\ loc[h] = MovedHead
  BY HeadUser
<1>4. \A u \in Threads : pc[u] \in MarkedHead /\ CqPos(loc[u]) = q => u = h
  BY <1>3 DEF PosInv, PosHolders
<1> HIDE DEF q
<1>5. \A u \in Threads : pc[u] \in Recognising => MovedHead < loc[u]
  <2>1. SUFFICES ASSUME NEW u \in Threads, pc[u] \in Recognising  PROVE loc[u] # MovedHead /\ MovedHead <= loc[u]
    BY <1>0
  <2>2. MovedHead <= loc[u] /\ IdOf(loc[u]) = cid[u] /\ pc[u] # "idle"
    BY <2>1 DEF RecogInv, Recognising
  <2>3. MovedHead <= loc[h] /\ u # h
    BY <1>0, <1>3, <2>1 DEF Recognising, MarkedHead, HeadMovers
  <2>4. IdOf(loc[h]) = cid[h]
    BY <1>3, <2>3 DEF RecogInv
  <2>. QED  BY <1>3, <2>2, <2>3, <2>4 DEF IdInv
<1>6. ASSUME NEW u \in Threads
      PROVE  /\ pc'[u] \in Recognising => MovedHead' <= loc'[u]
             /\ pc'[u] \in Recognising \cup MarkedHead => loc'[u] < posted'
             /\ pc'[u] \in Recognising \cup MarkedHead /\ MovedHead' <= loc'[u] =>
                  cq_mem'[CqPos(loc'[u])].cid = cid'[u]
             /\ pc'[u] \in MarkedHead => (head_mark'[CqPos(loc'[u])] <=> MovedHead' <= loc'[u])
             /\ pc'[u] = "await" => loc'[u] < MovedHead'
  <2>1. pc'[u] \in Recognising => MovedHead' <= loc'[u]
    BY <1>0, <1>1, <1>5
  <2>2. pc'[u] \in Recognising \cup MarkedHead => loc'[u] < posted'
    BY <1>1 DEF RecogInv, Recognising
  <2>3. MovedHead' <= loc'[u] => MovedHead <= loc[u]
    BY <1>0, <1>1
  <2>4. pc'[u] \in Recognising \cup MarkedHead /\ MovedHead' <= loc'[u] =>
          cq_mem'[CqPos(loc'[u])].cid = cid'[u]
    BY <1>1, <2>3 DEF RecogInv, Recognising, IdOf
  <2>5. pc'[u] \in MarkedHead => (head_mark'[CqPos(loc'[u])] <=> MovedHead' <= loc'[u])
    <3>1. CASE CqPos(loc[u]) = q
      BY <1>0, <1>1, <1>2, <1>3, <1>4, <3>1
    <3>2. CASE CqPos(loc[u]) # q
      <4>1. loc[u] # MovedHead
        BY <3>2 DEF q
      <4>2. MovedHead <= loc[u] <=> MovedHead' <= loc'[u]
        BY <1>0, <1>1, <4>1
      <4>3. head_mark'[CqPos(loc'[u])] = head_mark[CqPos(loc[u])]
        BY <1>0, <1>1, <1>2, <3>2
      <4>. QED  BY <1>1, <4>2, <4>3 DEF RecogInv
    <3>. QED  BY <3>1, <3>2
  <2>6. pc'[u] = "await" => loc'[u] < MovedHead'
    <3>1. pc[u] = "await" => loc[u] < MovedHead
      BY DEF RecogInv
    <3>. QED  BY <1>0, <1>1, <3>1
  <2>. QED  BY <2>1, <2>2, <2>4, <2>5, <2>6
<1>7. ASSUME NEW p \in 0 .. CqSize - 1, head_mark'[p]
      PROVE  \E u \in Threads : pc'[u] \in MarkedHead /\ CqPos(loc'[u]) = p /\ MovedHead' <= loc'[u]
  <2>1. head_mark[p] /\ p # q
    BY <1>2, <1>7
  <2>2. PICK u \in Threads : pc[u] \in MarkedHead /\ CqPos(loc[u]) = p /\ MovedHead <= loc[u]
    BY <2>1 DEF RecogInv
  <2>3. loc[u] # MovedHead
    BY <2>1, <2>2 DEF q
  <2>4. MovedHead' <= loc'[u]
    BY <1>0, <1>1, <2>2, <2>3
  <2>. QED  BY <1>1, <2>2, <2>4
<1>. QED  BY <1>6, <1>7, RecogInvNext

LEMMA CompleteRecog ==
  ASSUME TypeOK, LockInv, HeadsInv, RecogInv, NEW c \in working, Complete(c)  PROVE RecogInv'
<1>1. UNCHANGED <<head_mark, cid, loc, pc>>
  BY DEF Complete, idVars, pollVars
<1>2. UNCHANGED MovedHead
  BY SsdLeavesCursors DEF HeadCursors
<1>3. /\ posted' = posted + 1
      /\ \A m \in Nat : posted - CqSize < m /\ m < posted => cq_mem'[CqPos(m)] = cq_mem[CqPos(m)]
  BY CompleteIs
<1>0. /\ MovedHead \in Nat /\ posted \in Nat /\ CqSize \in Nat /\ posted < MovedHead + CqSize
      /\ \A u \in Threads : loc[u] \in Nat
  <2>1. RungHead \in Nat /\ RungHead <= MovedHead /\ posted < RungHead + CqSize
    BY CursorTypes DEF HeadsInv
  <2>2. \A u \in Threads : loc[u] \in Nat
    BY DEF TypeOK
  <2>. QED  BY <2>1, <2>2, CursorTypes, Sizes
<1>4. ASSUME NEW u \in Threads
      PROVE  /\ pc'[u] \in Recognising => MovedHead' <= loc'[u]
             /\ pc'[u] \in Recognising \cup MarkedHead => loc'[u] < posted'
             /\ pc'[u] \in Recognising \cup MarkedHead /\ MovedHead' <= loc'[u] =>
                  cq_mem'[CqPos(loc'[u])].cid = cid'[u]
             /\ pc'[u] \in MarkedHead => (head_mark'[CqPos(loc'[u])] <=> MovedHead' <= loc'[u])
             /\ pc'[u] = "await" => loc'[u] < MovedHead'
  <2>1. pc[u] \in Recognising \cup MarkedHead => loc[u] < posted
    BY DEF RecogInv, Recognising
  <2>2. pc'[u] \in Recognising \cup MarkedHead => loc'[u] < posted'
    BY <1>0, <1>1, <1>3, <2>1
  <2>3. pc'[u] \in Recognising \cup MarkedHead /\ MovedHead' <= loc'[u] =>
          cq_mem'[CqPos(loc'[u])].cid = cid'[u]
    <3>1. SUFFICES ASSUME pc[u] \in Recognising \cup MarkedHead, MovedHead <= loc[u]
                   PROVE  cq_mem'[CqPos(loc[u])].cid = cid[u]
      BY <1>1, <1>2
    <3>2. posted - CqSize < loc[u] /\ loc[u] < posted
      BY <1>0, <2>1, <3>1
    <3>3. cq_mem'[CqPos(loc[u])] = cq_mem[CqPos(loc[u])]
      BY <1>0, <1>3, <3>2
    <3>. QED  BY <3>1, <3>3 DEF RecogInv, Recognising, IdOf
  <2>. QED  BY <1>1, <1>2, <2>2, <2>3 DEF RecogInv, Recognising
<1>5. \A p \in 0 .. CqSize - 1 : head_mark'[p] => \E u \in Threads :
        pc'[u] \in MarkedHead /\ CqPos(loc'[u]) = p /\ MovedHead' <= loc'[u]
  BY <1>1, <1>2 DEF RecogInv
<1>. QED  BY <1>4, <1>5, RecogInvNext

LEMMA RecogStep ==
  ASSUME TypeOK, LockInv, IdInv, HeadsInv, PhaseInv, PosInv, RecogInv, SeenInv, PromptPoll, QNext
  PROVE  RecogInv'
<1>0. pc \in [Threads -> Labels] /\ loc \in [Threads -> Nat] /\ cid \in [Threads -> Cids \cup {NoCid}]
  BY DEF TypeOK
<1> DEFINE MarksSame == UNCHANGED <<cq_mem, posted, head_mark, MovedHead>>
           RecognisedSame == \A u \in Threads :
             /\ pc'[u] \in Recognising => pc[u] \in Recognising
             /\ pc'[u] \in MarkedHead => pc[u] \in MarkedHead
             /\ pc'[u] \in Recognising \cup MarkedHead => loc'[u] = loc[u] /\ cid'[u] = cid[u]
             /\ pc[u] \in MarkedHead /\ MovedHead <= loc[u] => pc'[u] \in MarkedHead
             /\ pc'[u] = "await" => loc'[u] < MovedHead
<1>s. ASSUME MarksSame, RecognisedSame  PROVE RecogInv'
  BY <1>s, RecogSame
<1>a. Recognising = {"poslock", "markhead"} /\ MarkedHead = {"head", "tryhead"} \cup HeadMovers
  BY DEF Recognising, MarkedHead
<1>1. ASSUME NEW t \in Threads,
             \/ \E c \in Cids : GetCid(t, c)
             \/ TakeTicket(t) \/ AwaitTurn(t) \/ Copy(t) \/ MarkTail(t) \/ LookTail(t) \/ Leave(t)
             \/ Poll(t) \/ PosLock(t) \/ LookHead(t)
             \/ AwaitHead(t) \/ PosFree(t) \/ PutCid(t) \/ Again(t)
      PROVE  RecogInv'
  <2>1. MarksSame
    <3>1. UNCHANGED <<cq_mem, posted, head_mark>>
      BY <1>1 DEF GetCid, TakeTicket, AwaitTurn, Copy, MarkTail, LookTail, Leave, Poll, PosLock,
         LookHead, AwaitHead, PosFree, PutCid, Again, cqVars, ssdVars
    <3>. QED  BY <1>1, <3>1, UsersLeaveCursors DEF Users, HeadCursors
  <2>2. \A u \in Threads : u # t => pc'[u] = pc[u] /\ cid'[u] = cid[u] /\ loc'[u] = loc[u]
    BY <1>0, <1>1 DEF GetCid, TakeTicket, AwaitTurn, Copy, MarkTail, LookTail, Leave, Poll, PosLock,
       LookHead, AwaitHead, PosFree, PutCid, Again, Goto, idVars, pollVars
  <2>3. \/ pc[t] \in {"idle", "ticket", "turn", "copy", "mark", "tail", "leave", "poll", "await", "posfree",
                      "putcid"}
           /\ pc'[t] \in {"ticket", "turn", "copy", "mark", "tail", "trytail", "leave", "poll", "entry",
                          "posfree", "putcid", "idle"}
        \/ pc[t] = "poslock" /\ pc'[t] = "markhead" /\ UNCHANGED <<cid, loc>>
        \/ pc[t] = "head" /\ pc'[t] = "tryhead" /\ UNCHANGED <<cid, loc>>
        \/ pc[t] = "head" /\ pc'[t] = "await" /\ UNCHANGED <<cid, loc>> /\ ~head_mark[CqPos(loc[t])]
    BY <1>0, <1>1 DEF GetCid, TakeTicket, AwaitTurn, Copy, MarkTail, LookTail, Leave, Poll, PosLock,
       LookHead, AwaitHead, PosFree, PutCid, Again, Goto, idVars, pollVars
  <2>4. pc[t] = "head" /\ ~head_mark[CqPos(loc[t])] => ~(MovedHead <= loc[t])
    BY <1>a DEF RecogInv
  <2>5. MovedHead \in Nat /\ loc[t] \in Nat
    BY <1>0, CursorTypes
  <2>6. \A u \in Threads : pc[u] = "await" => loc[u] < MovedHead
    BY DEF RecogInv
  <2>7. ASSUME NEW u \in Threads, u # t
        PROVE  /\ pc'[u] \in Recognising => pc[u] \in Recognising
               /\ pc'[u] \in MarkedHead => pc[u] \in MarkedHead
               /\ pc'[u] \in Recognising \cup MarkedHead => loc'[u] = loc[u] /\ cid'[u] = cid[u]
               /\ pc[u] \in MarkedHead /\ MovedHead <= loc[u] => pc'[u] \in MarkedHead
               /\ pc'[u] = "await" => loc'[u] < MovedHead
    BY <2>2, <2>6, <2>7
  <2>8. /\ pc'[t] \in Recognising => pc[t] \in Recognising
        /\ pc'[t] \in MarkedHead => pc[t] \in MarkedHead
        /\ pc'[t] \in Recognising \cup MarkedHead => loc'[t] = loc[t] /\ cid'[t] = cid[t]
        /\ pc[t] \in MarkedHead /\ MovedHead <= loc[t] => pc'[t] \in MarkedHead
        /\ pc'[t] = "await" => loc'[t] < MovedHead
    BY <1>a, <2>3, <2>4, <2>5 DEF HeadMovers
  <2>9. RecognisedSame
    BY <2>7, <2>8
  <2> HIDE DEF MarksSame, RecognisedSame
  <2>. QED  BY <1>s, <2>1, <2>9
<1>2. ASSUME NEW t \in Threads, AtTail(t)  PROVE RecogInv'
  <2>1. UNCHANGED <<cq_mem, posted, head_mark, cid, loc>>
    BY <1>2 DEF AtTail, TryTail, MoveTail, RingTail, StoreTail, UnlockTail, cqVars, ssdVars, idVars, pollVars
  <2>2. MarksSame
    BY <1>2, <2>1, AtTailLeavesHead DEF HeadCursors
  <2>3. \A u \in Threads : pc'[u] = pc[u] \/ (pc[u] \in Marked /\ pc'[u] \in Marked)
    BY <1>0, <1>2 DEF AtTail, TryTail, MoveTail, RingTail, StoreTail, UnlockTail, Goto, Marked, TailMovers
  <2>4. Marked \cap (Recognising \cup MarkedHead \cup {"await"}) = {}
    BY <1>a DEF Marked, TailMovers, HeadMovers
  <2>5. RecognisedSame
    BY <2>1, <2>3, <2>4 DEF RecogInv
  <2> HIDE DEF MarksSame, RecognisedSame
  <2>. QED  BY <1>s, <2>2, <2>5
<1>3. ASSUME NEW t \in Threads, AtHead(t), MarksSame,
             \A u \in Threads : pc'[u] = pc[u] \/ (pc[u] \in MarkedHead /\ pc'[u] \in MarkedHead)
      PROVE  RecogInv'
  <2>1. UNCHANGED <<cid, loc>>
    BY <1>3 DEF AtHead, TryHead, MoveHead, ReadSqHead, Free, MoveSqHead, RingHead, StoreHead, UnlockHead,
       idVars, pollVars
  <2>2. MarkedHead \cap (Recognising \cup {"await"}) = {}
    BY <1>a DEF HeadMovers
  <2>3. RecognisedSame
    BY <1>3, <2>1, <2>2 DEF RecogInv
  <2> HIDE DEF MarksSame, RecognisedSame
  <2>. QED  BY <1>s, <1>3, <2>3
<1>4. ASSUME NEW t \in Threads,
             \/ TryHead(t) \/ ReadSqHead(t) \/ Free(t) \/ MoveSqHead(t) \/ RingHead(t)
             \/ StoreHead(t) \/ UnlockHead(t)
      PROVE  RecogInv'
  <2>1. \A u \in Threads : pc'[u] = pc[u] \/ (pc[u] \in MarkedHead /\ pc'[u] \in MarkedHead)
    BY <1>0, <1>4 DEF TryHead, ReadSqHead, Free, MoveSqHead, RingHead, StoreHead, UnlockHead, Goto,
       MarkedHead, HeadMovers
  <2>2. UNCHANGED MovedHead
    BY <1>4, HeadCursorSteps DEF HeadCursors
  <2>3. UNCHANGED <<cq_mem, posted, head_mark>>
    BY <1>4 DEF TryHead, ReadSqHead, Free, MoveSqHead, RingHead, StoreHead, UnlockHead, cqVars, ssdVars
  <2>. QED  BY <1>3, <1>4, <2>1, <2>2, <2>3 DEF AtHead
<1>5. ASSUME NEW t \in Threads, MoveHead(t)  PROVE RecogInv'
  <2>1. CASE /\ MovedHead' = MovedHead + 1 /\ head_mark[CqPos(MovedHead)] /\ pc' = pc
             /\ head_mark' = [head_mark EXCEPT ![CqPos(MovedHead)] = FALSE]
    BY <1>5, <2>1, MoveHeadRecog
  <2>2. CASE /\ MovedHead' = MovedHead /\ head_mark' = head_mark
             /\ \A u \in Threads : pc'[u] = pc[u] \/ (u = t /\ pc'[u] \in {"unhead", "sqhd"})
    <3>1. pc[t] = "movehead" /\ UNCHANGED <<cq_mem, posted>>
      BY <1>5 DEF MoveHead, ssdVars
    <3>2. \A u \in Threads : pc'[u] = pc[u] \/ (pc[u] \in MarkedHead /\ pc'[u] \in MarkedHead)
      BY <2>2, <3>1 DEF MarkedHead, HeadMovers
    <3>. QED  BY <1>3, <1>5, <2>2, <3>1, <3>2 DEF AtHead
  <2>. QED  BY <1>5, <2>1, <2>2, MoveHeadIs
<1>6. CASE Fetch \/ UNCHANGED vars
  <2>1. UNCHANGED <<cq_mem, posted, head_mark, pc, cid, loc>>
    BY <1>6 DEF Fetch, vars, cqVars, ssdVars, idVars, pollVars
  <2>2. MarksSame
    BY <1>6, <2>1, SsdLeavesCursors DEF HeadCursors
  <2>3. RecognisedSame
    BY <2>1 DEF RecogInv
  <2> HIDE DEF MarksSame, RecognisedSame
  <2>. QED  BY <1>s, <2>2, <2>3
<1>7. ASSUME NEW t \in Threads, Entry(t) \/ MarkHead(t)  PROVE RecogInv'
  BY <1>7, EntryRecog, MarkHeadRecog
<1>8. ASSUME NEW c \in working, Complete(c)  PROVE RecogInv'
  BY <1>8, CompleteRecog
<1>. QED
  BY <1>1, <1>2, <1>4, <1>5, <1>6, <1>7, <1>8, StepsAre DEF Users, AtHead
------------------------------------------------------------------------------
(***************************************************************************)
(* What a thread in cq_poll has passed.                                     *)
(***************************************************************************)
LEMMA SeenInvNext ==
  ASSUME \A u \in Threads : pc'[u] = "entry" =>
           /\ head'[u] <= loc'[u] /\ loc'[u] < head'[u] + CqSize - 1 /\ head'[u] <= cq_head'
           /\ \A m \in head'[u] .. MovedHead' - 1 : m >= posted' - CqSize =>
                cq_mem'[CqPos(m)].cid # cid'[u]
  PROVE  SeenInv'
BY DEF SeenInv, IdOf, CqPos

LEMMA SeenTypes ==
  ASSUME TypeOK
  PROVE  /\ head \in [Threads -> Nat] /\ loc \in [Threads -> Nat] /\ cq_head \in Nat
         /\ MovedHead \in Nat /\ posted \in Nat /\ CqSize \in Nat /\ cq_head <= MovedHead
<1>1. head \in [Threads -> Nat] /\ loc \in [Threads -> Nat]
  BY DEF TypeOK
<1>. QED  BY <1>1, CursorTypes, Sizes

\* A step after which no more threads are in cq_poll, and that moves the head over no
\* completion.
LEMMA SeenSame ==
  ASSUME TypeOK, SeenInv, UNCHANGED <<cq_mem, posted, MovedHead>>,
         cq_head' = cq_head \/ cq_head' = MovedHead,
         \A u \in Threads : pc'[u] = "entry" =>
           /\ pc[u] = "entry" /\ head'[u] = head[u] /\ cid'[u] = cid[u]
           /\ head[u] <= loc'[u] /\ loc'[u] < head[u] + CqSize - 1
  PROVE  SeenInv'
<1>1. ASSUME NEW u \in Threads, pc'[u] = "entry"
      PROVE  /\ head'[u] <= loc'[u] /\ loc'[u] < head'[u] + CqSize - 1 /\ head'[u] <= cq_head'
             /\ \A m \in head'[u] .. MovedHead' - 1 : m >= posted' - CqSize =>
                  cq_mem'[CqPos(m)].cid # cid'[u]
  <2>1. head[u] <= cq_head /\ head[u] \in Nat
    BY <1>1, SeenTypes DEF SeenInv
  <2>2. head[u] <= cq_head'
    BY <2>1, SeenTypes
  <2>3. \A m \in head[u] .. MovedHead - 1 : m >= posted - CqSize => IdOf(m) # cid[u]
    BY <1>1 DEF SeenInv
  <2>. QED  BY <1>1, <2>2, <2>3 DEF IdOf
<1>. QED  BY <1>1, SeenInvNext

\* A completion that the head has moved over, and that is not dequeued, is another
\* thread's.
LEMMA PollSeen ==
  ASSUME TypeOK, LockInv, IdInv, HeadsInv, OwnInv, SeenInv, NEW t \in Threads, Poll(t)
  PROVE  SeenInv'
<1>0. pc \in [Threads -> Labels]
  BY DEF TypeOK
<1>1. /\ UNCHANGED <<cq_mem, posted, cid, cq_head>> /\ pc[t] = "poll"
      /\ head'[t] = cq_head /\ loc'[t] = cq_head
      /\ \A u \in Threads : u # t => pc'[u] = pc[u] /\ loc'[u] = loc[u] /\ head'[u] = head[u]
  BY <1>0, SeenTypes DEF Poll, Goto, cqVars, ssdVars, idVars
<1>2. UNCHANGED MovedHead
  BY UsersLeaveCursors DEF Users, HeadCursors
<1>3. "poll" \notin Recognised
  BY DEF Recognised, MarkedHead, HeadMovers
<1>4. MovedHead <= posted
  BY DEF HeadsInv
<1>5. ASSUME NEW m \in cq_head .. MovedHead - 1, m >= posted - CqSize  PROVE IdOf(m) # cid[t]
  <2>1. m \in cq_head .. posted - 1 /\ ~(m >= MovedHead)
    BY <1>4, SeenTypes
  <2>2. PICK u \in Threads : IdOf(m) = cid[u] /\ pc[u] \in Recognised
    BY <1>5, <2>1 DEF OwnInv
  <2>3. u # t
    BY <1>1, <1>3, <2>2
  <2>. QED  BY <1>1, <2>2, <2>3 DEF IdInv
<1>6. cq_head <= cq_head /\ cq_head < cq_head + CqSize - 1
  BY SeenTypes, Sizes
<1>7. ASSUME NEW u \in Threads, pc'[u] = "entry"
      PROVE  /\ head'[u] <= loc'[u] /\ loc'[u] < head'[u] + CqSize - 1 /\ head'[u] <= cq_head'
             /\ \A m \in head'[u] .. MovedHead' - 1 : m >= posted' - CqSize =>
                  cq_mem'[CqPos(m)].cid # cid'[u]
  <2>1. CASE u = t
    BY <1>1, <1>2, <1>5, <1>6, <2>1 DEF IdOf
  <2>2. CASE u # t
    BY <1>1, <1>2, <1>7, <2>2 DEF SeenInv, IdOf
  <2>. QED  BY <2>1, <2>2
<1>. QED  BY <1>7, SeenInvNext

LEMMA EntrySeen ==
  ASSUME TypeOK, LockInv, SeenInv, NEW t \in Threads, Entry(t)
  PROVE  SeenInv'
<1>0. pc \in [Threads -> Labels]
  BY DEF TypeOK
<1>1. /\ UNCHANGED <<cq_mem, posted, cid, cq_head, head>> /\ pc[t] = "entry"
      /\ \A u \in Threads : u # t => pc'[u] = pc[u] /\ loc'[u] = loc[u]
  BY <1>0, SeenTypes DEF Entry, Goto, cqVars, ssdVars, idVars
<1>2. UNCHANGED MovedHead
  BY UsersLeaveCursors DEF Users, HeadCursors
<1>3. pc'[t] = "entry" => loc'[t] = loc[t] \/ (loc'[t] = loc[t] + 1 /\ loc[t] + 1 < head[t] + CqSize - 1)
  BY <1>0, SeenTypes DEF Entry, Goto
<1>4. head[t] <= loc[t] /\ loc[t] < head[t] + CqSize - 1
  BY <1>1 DEF SeenInv
<1>5. pc'[t] = "entry" => head[t] <= loc'[t] /\ loc'[t] < head[t] + CqSize - 1
  BY <1>3, <1>4, SeenTypes
<1>6. \A u \in Threads : u # t /\ pc[u] = "entry" => head[u] <= loc[u] /\ loc[u] < head[u] + CqSize - 1
  BY DEF SeenInv
<1>. QED  BY <1>1, <1>2, <1>5, <1>6, SeenSame

\* The head moves over a completion of a thread that has marked it.
LEMMA MoveHeadSeen ==
  ASSUME TypeOK, LockInv, IdInv, HeadsInv, RecogInv, SeenInv, NEW t \in Threads, MoveHead(t),
         MovedHead' = MovedHead + 1, head_mark[CqPos(MovedHead)], pc' = pc
  PROVE  SeenInv'
<1>1. UNCHANGED <<cq_mem, posted, cid, loc, head, cq_head>>
  BY DEF MoveHead, ssdVars, idVars, pollVars
<1>2. PICK h \in Threads : pc[h] \in MarkedHead /\ loc[h] = MovedHead
  BY HeadUser
<1>3. IdOf(MovedHead) = cid[h]
  <2>1. MovedHead <= loc[h]
    BY <1>2, SeenTypes
  <2>. QED  BY <1>2, <2>1 DEF RecogInv
<1>4. "entry" \notin MarkedHead
  BY DEF MarkedHead, HeadMovers
<1>5. ASSUME NEW u \in Threads, pc'[u] = "entry"
      PROVE  /\ head'[u] <= loc'[u] /\ loc'[u] < head'[u] + CqSize - 1 /\ head'[u] <= cq_head'
             /\ \A m \in head'[u] .. MovedHead' - 1 : m >= posted' - CqSize =>
                  cq_mem'[CqPos(m)].cid # cid'[u]
  <2>1. u # h /\ cid[u] # cid[h]
    BY <1>2, <1>4, <1>5 DEF IdInv
  <2>2. ASSUME NEW m \in head'[u] .. MovedHead' - 1, m >= posted' - CqSize
        PROVE  cq_mem'[CqPos(m)].cid # cid'[u]
    <3>1. CASE m = MovedHead
      BY <1>1, <1>3, <2>1, <3>1 DEF IdOf
    <3>2. CASE m # MovedHead
      <4>1. m \in head[u] .. MovedHead - 1
        BY <1>1, <2>2, <3>2, SeenTypes
      <4>. QED  BY <1>1, <1>5, <2>2, <4>1 DEF SeenInv, IdOf
    <3>. QED  BY <3>1, <3>2
  <2>. QED  BY <1>1, <1>5, <2>2 DEF SeenInv
<1>. QED  BY <1>5, SeenInvNext

\* The SSD posts over a completion of the round before.
LEMMA CompleteSeen ==
  ASSUME TypeOK, HeadsInv, SeenInv, NEW c \in working, Complete(c)  PROVE SeenInv'
<1>1. UNCHANGED <<pc, cid, loc, head, cq_head>>
  BY DEF Complete, idVars, pollVars
<1>2. UNCHANGED MovedHead
  BY SsdLeavesCursors DEF HeadCursors
<1>3. /\ posted' = posted + 1
      /\ \A m \in Nat : posted - CqSize < m /\ m < posted => cq_mem'[CqPos(m)] = cq_mem[CqPos(m)]
  BY CompleteIs
<1>4. MovedHead <= posted
  BY DEF HeadsInv
<1>5. ASSUME NEW u \in Threads, pc'[u] = "entry"
      PROVE  /\ head'[u] <= loc'[u] /\ loc'[u] < head'[u] + CqSize - 1 /\ head'[u] <= cq_head'
             /\ \A m \in head'[u] .. MovedHead' - 1 : m >= posted' - CqSize =>
                  cq_mem'[CqPos(m)].cid # cid'[u]
  <2>1. ASSUME NEW m \in head'[u] .. MovedHead' - 1, m >= posted' - CqSize
        PROVE  cq_mem'[CqPos(m)].cid # cid'[u]
    <3>1. /\ m \in head[u] .. MovedHead - 1 /\ m >= posted - CqSize
          /\ m \in Nat /\ posted - CqSize < m /\ m < posted
      BY <1>1, <1>2, <1>3, <1>4, <2>1, SeenTypes
    <3>. QED  BY <1>1, <1>3, <1>5, <3>1 DEF SeenInv, IdOf
  <2>. QED  BY <1>1, <1>5, <2>1 DEF SeenInv
<1>. QED  BY <1>5, SeenInvNext

LEMMA SeenStep ==
  ASSUME TypeOK, LockInv, IdInv, HeadsInv, OwnInv, RecogInv, SeenInv, QNext  PROVE SeenInv'
<1>0. pc \in [Threads -> Labels] /\ cid \in [Threads -> Cids \cup {NoCid}]
  BY DEF TypeOK
<1>s. ASSUME UNCHANGED <<cq_mem, posted, MovedHead>>, cq_head' = cq_head \/ cq_head' = MovedHead,
             \A u \in Threads : pc'[u] = "entry" =>
               pc[u] = "entry" /\ head'[u] = head[u] /\ cid'[u] = cid[u] /\ loc'[u] = loc[u]
      PROVE  SeenInv'
  <2>1. \A u \in Threads : pc'[u] = "entry" =>
          /\ pc[u] = "entry" /\ head'[u] = head[u] /\ cid'[u] = cid[u]
          /\ head[u] <= loc'[u] /\ loc'[u] < head[u] + CqSize - 1
    BY <1>s DEF SeenInv
  <2>. QED  BY <1>s, <2>1, SeenSame
<1>1. ASSUME NEW t \in Threads,
             \/ \E c \in Cids : GetCid(t, c)
             \/ TakeTicket(t) \/ AwaitTurn(t) \/ Copy(t) \/ MarkTail(t) \/ LookTail(t) \/ Leave(t)
             \/ PosLock(t) \/ MarkHead(t) \/ LookHead(t)
             \/ AwaitHead(t) \/ PosFree(t) \/ PutCid(t) \/ Again(t)
      PROVE  SeenInv'
  <2>1. UNCHANGED <<cq_mem, posted, cq_head>>
    BY <1>1 DEF GetCid, TakeTicket, AwaitTurn, Copy, MarkTail, LookTail, Leave, PosLock, MarkHead,
       LookHead, AwaitHead, PosFree, PutCid, Again, cqVars, ssdVars
  <2>2. UNCHANGED MovedHead
    BY <1>1, UsersLeaveCursors DEF Users, HeadCursors
  <2>3. /\ pc'[t] # "entry"
        /\ \A u \in Threads : u # t =>
             pc'[u] = pc[u] /\ cid'[u] = cid[u] /\ loc'[u] = loc[u] /\ head'[u] = head[u]
    BY <1>0, <1>1, SeenTypes DEF GetCid, TakeTicket, AwaitTurn, Copy, MarkTail, LookTail, Leave, PosLock,
       MarkHead, LookHead, AwaitHead, PosFree, PutCid, Again, Goto, idVars, pollVars
  <2>. QED  BY <1>s, <2>1, <2>2, <2>3
<1>2. ASSUME NEW t \in Threads, AtTail(t)  PROVE SeenInv'
  <2>1. UNCHANGED <<cq_mem, posted, cq_head, cid, loc, head>>
    BY <1>2 DEF AtTail, TryTail, MoveTail, RingTail, StoreTail, UnlockTail, cqVars, ssdVars, idVars, pollVars
  <2>2. UNCHANGED MovedHead
    BY <1>2, AtTailLeavesHead DEF HeadCursors
  <2>3. \A u \in Threads : pc'[u] = "entry" => pc[u] = "entry"
    BY <1>0, <1>2 DEF AtTail, TryTail, MoveTail, RingTail, StoreTail, UnlockTail, Goto
  <2>. QED  BY <1>s, <2>1, <2>2, <2>3
<1>3. ASSUME NEW t \in Threads,
             \/ TryHead(t) \/ ReadSqHead(t) \/ Free(t) \/ MoveSqHead(t) \/ RingHead(t)
             \/ StoreHead(t) \/ UnlockHead(t)
      PROVE  SeenInv'
  <2>1. UNCHANGED <<cq_mem, posted, cid, loc, head>>
    BY <1>3 DEF TryHead, ReadSqHead, Free, MoveSqHead, RingHead, StoreHead, UnlockHead, cqVars, ssdVars,
       idVars, pollVars
  <2>2. UNCHANGED MovedHead /\ (cq_head' = cq_head \/ cq_head' = MovedHead)
    BY <1>3, HeadCursorSteps DEF HeadCursors
  <2>3. \A u \in Threads : pc'[u] = "entry" => pc[u] = "entry"
    BY <1>0, <1>3 DEF TryHead, ReadSqHead, Free, MoveSqHead, RingHead, StoreHead, UnlockHead, Goto
  <2>. QED  BY <1>s, <2>1, <2>2, <2>3
<1>4. ASSUME NEW t \in Threads, MoveHead(t)  PROVE SeenInv'
  <2>1. CASE MovedHead' = MovedHead + 1 /\ head_mark[CqPos(MovedHead)] /\ pc' = pc
    BY <1>4, <2>1, MoveHeadSeen
  <2>2. CASE /\ MovedHead' = MovedHead
             /\ \A u \in Threads : pc'[u] = pc[u] \/ (u = t /\ pc'[u] \in {"unhead", "sqhd"})
    <3>1. UNCHANGED <<cq_mem, posted, cid, loc, head, cq_head>>
      BY <1>4 DEF MoveHead, ssdVars, idVars, pollVars
    <3>. QED  BY <1>s, <2>2, <3>1
  <2>. QED  BY <1>4, <2>1, <2>2, MoveHeadIs
<1>5. CASE Fetch \/ UNCHANGED vars
  <2>1. UNCHANGED <<cq_mem, posted, pc, cid, loc, head, cq_head>>
    BY <1>5 DEF Fetch, vars, cqVars, ssdVars, idVars, pollVars
  <2>2. UNCHANGED MovedHead
    BY <1>5, SsdLeavesCursors DEF HeadCursors
  <2>. QED  BY <1>s, <2>1, <2>2
<1>6. ASSUME NEW t \in Threads, Poll(t) \/ Entry(t)  PROVE SeenInv'
  BY <1>6, PollSeen, EntrySeen
<1>7. ASSUME NEW c \in working, Complete(c)  PROVE SeenInv'
  BY <1>7, CompleteSeen
<1>. QED
  BY <1>1, <1>2, <1>3, <1>4, <1>5, <1>6, <1>7, StepsAre DEF Users, AtHead
------------------------------------------------------------------------------
(***************************************************************************)
(* The invariant of the queue pair.                                         *)
(***************************************************************************)
QueueInv ==
  /\ TypeOK /\ LockInv /\ IdInv
  /\ TicketInv /\ SubmitInv /\ WindowInv
  /\ HeadsInv /\ PhaseInv /\ PosInv /\ RecogInv /\ SeenInv
  /\ OwnInv /\ OnceInv

LEMMA QueueStepInv ==
  ASSUME QueueInv, PromptPoll, QNext  PROVE QueueInv'
<1> USE DEF QueueInv
<1>1. TypeOK' /\ LockInv' /\ IdInv'
  BY TypeStep, LockStep, IdStep
<1>2. TicketInv' /\ SubmitInv' /\ WindowInv'
  BY TicketStep, SubmitStep, WindowStep
<1>3. HeadsInv' /\ PhaseInv' /\ PosInv' /\ RecogInv' /\ SeenInv'
  BY HeadsStep, PhaseStep, PosStep, RecogStep, SeenStep
<1>4. OwnInv' /\ OnceInv'
  BY OwnStep, OnceStep
<1>. QED  BY <1>1, <1>2, <1>3, <1>4

\* A new queue pair is empty.
LEMMA InitCursors ==
  ASSUME Init
  PROVE  /\ MovedTail = 0 /\ RungTail = 0 /\ FreedTo = 0 /\ MovedHead = 0 /\ KnownFrom = 0
         /\ RungHead = 0 /\ Fetched = 0 /\ SqPos(0) = 0 /\ CqPos(0) = 0
         /\ \A p \in 0 .. SqSize - 1 : Turns(0, p) = 0 /\ Left(p) = 0
         /\ Phase(0) = 1
<1>0. 0 \in 0 .. SqSize - 1 /\ 0 \in 0 .. CqSize - 1
  BY Sizes
<1>1. SqPos(0) = 0 /\ CqPos(0) = 0
  BY <1>0, Sizes, SmallRemainder DEF SqPos, CqPos
<1>2. Round(0) = 0 /\ 0 \div CqSize = 0
  <2>1. \A n \in Nat \ {0} : (0 * n + 0) \div n = 0 /\ 0 * n + 0 = 0
    <3>1. SUFFICES ASSUME NEW n \in Nat \ {0}  PROVE (0 * n + 0) \div n = 0 /\ 0 * n + 0 = 0
      OBVIOUS
    <3>2. 0 \in 0 .. n - 1
      OBVIOUS
    <3>. QED  BY <3>2, Quotient
  <2>. QED  BY <2>1, Sizes DEF Round
<1>3. /\ tail_lock = Nobody /\ head_lock = Nobody /\ sq_tail = 0 /\ sq_head = 0 /\ cq_head = 0
      /\ fetched = 0 /\ tickets = [p \in 0 .. SqSize - 1 |-> 0]
  BY DEF Init
<1>4. MovedTail = 0 /\ RungTail = 0 /\ FreedTo = 0 /\ MovedHead = 0 /\ KnownFrom = 0 /\ RungHead = 0
  BY <1>3 DEF MovedTail, RungTail, FreedTo, MovedHead, KnownFrom, RungHead
<1>5. Fetched = 0
  BY <1>1, <1>3 DEF Fetched, Index
<1>6. ASSUME NEW p \in 0 .. SqSize - 1  PROVE Turns(0, p) = 0 /\ Left(p) = 0
  <2>1. Turns(0, p) = 0
    BY <1>1, <1>2 DEF Turns
  <2>. QED  BY <1>3, <1>4, <2>1 DEF Left, LeftOf
<1>7. Phase(0) = 1
  <2>1. 0 % 2 = 0
    OBVIOUS
  <2>. QED  BY <1>2, <2>1 DEF Phase
<1>. QED  BY <1>1, <1>4, <1>5, <1>6, <1>7

LEMMA QueueInitInv ==
  ASSUME Init  PROVE QueueInv
<1>0. /\ \A t \in Threads : pc[t] = "idle" /\ cid[t] = NoCid /\ moved[t] = 0 /\ freed[t] = 0
      /\ tail_lock = Nobody /\ head_lock = Nobody /\ Nobody \notin Threads
      /\ in_ticket = 0 /\ posted = 0 /\ cq_head = 0 /\ working = {}
      /\ sq_tail = 0 /\ sq_head = 0 /\ sq_db = 0 /\ cq_db = 0
      /\ \A p \in 0 .. SqSize - 1 : ~tail_mark[p]
      /\ \A p \in 0 .. CqSize - 1 : ~head_mark[p] /\ cq_mem[p].phase = 0
  BY QueueAssumption DEF Init
<1>1. TypeOK
  BY InitTypeOK
<1>2. LockInv
  BY <1>0 DEF LockInv, TailMovers, HeadMovers
<1>3. IdInv
  BY <1>0 DEF IdInv
<1>4. TicketInv
  <2>1. "idle" \notin Holding /\ "idle" \notin AtPlace
    BY DEF Holding, AtPlace
  <2>2. \A p \in 0 .. SqSize - 1 : Left(p) <= Turns(in_ticket, p)
    BY <1>0, InitCursors
  <2>. QED  BY <1>0, <2>1, <2>2 DEF TicketInv
<1>5. SubmitInv
  <2>1. "idle" \notin Marked \cup AtPlace
    BY DEF Marked, TailMovers, AtPlace
  <2>2. \A p \in 0 .. SqSize - 1 : Num(Submitted(p)) = 0
    BY <1>0, <2>1 DEF Submitted, Num
  <2>3. \A p \in 0 .. SqSize - 1 : Turns(MovedTail, p) = Left(p) + Num(Submitted(p))
    BY <2>2, InitCursors
  <2>. QED  BY <1>0, <2>1, <2>3 DEF SubmitInv
<1>6. WindowInv
  BY <1>0, InitCursors, Sizes DEF WindowInv
<1>7. HeadsInv
  BY <1>0, InitCursors, Sizes DEF HeadsInv
<1>8. PhaseInv
  <2>1. \A p \in 0 .. CqSize - 1 : ~(p < 0)
    BY Sizes
  <2>. QED  BY <1>0, <2>1, InitCursors DEF PhaseInv
<1>9. PosInv /\ RecogInv /\ SeenInv
  BY <1>0 DEF PosInv, RecogInv, SeenInv, PosHolders, MarkedHead, HeadMovers
<1>10. OwnInv
  BY <1>0, InitCursors DEF OwnInv, Written, WrittenAt, Marked, TailMovers
<1>11. OnceInv
  BY <1>0, InitCursors DEF OnceInv
<1>. QED
  BY <1>1, <1>2, <1>3, <1>4, <1>5, <1>6, <1>7, <1>8, <1>9, <1>10, <1>11 DEF QueueInv
------------------------------------------------------------------------------
(***************************************************************************)
(* Reads and writes use the queue pair as its threads do.                   *)
(***************************************************************************)

\* Where a thread is with a command whose completion it has not recognised, and where
\* it dequeues the completion.
Asking    == {"ticket", "turn", "copy", "mark", "leave", "poll", "entry"} \cup Marked
Dequeuing == {"markhead", "await", "posfree"} \cup MarkedHead

\* What a thread runs the queue pair for: a first or a second read is asked for, its
\* completion is recognised, counted or published, and dequeued.
StageAt(l, s) ==
  /\ l = "idle" => s = "first"
  /\ l \in Asking => s \in {"first", "second", "loaded"}
  /\ s = "loaded" => l = "ring"
  /\ s = "load" => l = "poslock"
  /\ l = "poslock" => s \in {"first", "load", "counted", "second", "stored", "published"}
  /\ l \in Dequeuing => s \in {"counted", "published"}
  /\ l = "putcid" => s \in {"counted", "trying", "published", "done"}
StageInv == \A t \in Threads : StageAt(pc[t], stage[t])

LEMMA AskingIs ==
  /\ Asking = {"ticket", "turn", "copy", "mark", "leave", "poll", "entry", "tail", "trytail", "movetail",
               "ring", "settail", "untail"}
  /\ Dequeuing = {"markhead", "await", "posfree", "head", "tryhead", "movehead", "sqhd", "free", "sqhead",
                  "ringhead", "sethead", "unhead"}
BY DEF Asking, Dequeuing, Marked, TailMovers, MarkedHead, HeadMovers

LEMMA ReadIsQueueStep ==
  ASSUME TypeOK, StageInv, [ReadNext]_allVars  PROVE QNext
<1>1. CASE UNCHANGED allVars
  BY <1>1 DEF allVars, QNext
<1>2. CASE Device
  BY <1>2 DEF Device, QNext
<1>3. ASSUME NEW t \in Threads, ReadStep(t)  PROVE QNext
  <2>1. CASE \E k \in {"read", "write"}, c \in Cids : Begin(t, k, c)
    <3>1. \E c \in Cids : GetCid(t, c)
      BY <2>1 DEF Begin
    <3>. QED  BY <3>1 DEF QNext, Step, EnqueueStep
  <2>2. CASE CopyCommand(t) \/ RingDoorbell(t) \/ Return(t)
    <3>1. Copy(t) \/ RingTail(t) \/ PutCid(t)
      BY <2>2 DEF CopyCommand, RingDoorbell, Return
    <3>. QED  BY <3>1 DEF QNext, Step, EnqueueStep, DequeueStep
  <2>3. CASE QueueStep(t)
    <3>1. Step(t)
      BY <2>3 DEF QueueStep, Step, EnqueueStep, DequeueStep
    <3>. QED  BY <3>1 DEF QNext
  <2>4. CASE LoadTail(t) \/ LoadHead(t) \/ CountRead(t) \/ LookQHead(t) \/ StoreQHead(t) \/ UnlockQ(t)
    <3>1. UNCHANGED vars
      BY <2>4 DEF LoadTail, LoadHead, CountRead, LookQHead, StoreQHead, UnlockQ
    <3>. QED  BY <3>1 DEF QNext
  <2>5. CASE TryQLock(t)
    <3>1. stage[t] = "trying" => pc[t] = "putcid"
      BY AskingIs DEF StageInv, StageAt, TypeOK, Labels
    <3>2. UNCHANGED vars \/ Again(t)
      BY <2>5, <3>1 DEF TryQLock, Again
    <3>. QED  BY <3>2 DEF QNext
  <2>. QED  BY <1>3, <2>1, <2>2, <2>3, <2>4, <2>5 DEF ReadStep
<1>. QED  BY <1>1, <1>2, <1>3 DEF ReadNext

\* The steps of the queue pair that do not depend on what it is run for.
LEMMA QueueStepIs ==
  ASSUME TypeOK, NEW t \in Threads, QueueStep(t)
  PROVE  /\ \A u \in Threads : u # t => pc'[u] = pc[u]
         /\ \/ pc[t] \in Asking /\ pc[t] # "ring" /\ pc'[t] \in Asking
            \/ pc[t] = "entry" /\ pc'[t] = "poslock"
            \/ pc[t] = "poslock" /\ pc'[t] = "markhead" /\ stage[t] \in {"counted", "published"}
            \/ pc[t] \in Dequeuing /\ pc'[t] \in Dequeuing
            \/ pc[t] = "posfree" /\ pc'[t] = "putcid"
<1>0. pc \in [Threads -> Labels]
  BY DEF TypeOK
<1>1. CASE TakeTicket(t) \/ AwaitTurn(t) \/ MarkTail(t) \/ LookTail(t) \/ Leave(t)
  BY <1>0, <1>1, AskingIs DEF TakeTicket, AwaitTurn, MarkTail, LookTail, Leave, Goto
<1>2. CASE TryTail(t) \/ MoveTail(t) \/ StoreTail(t) \/ UnlockTail(t)
  BY <1>0, <1>2, AskingIs DEF TryTail, MoveTail, StoreTail, UnlockTail, Goto
<1>3. CASE Poll(t) \/ Entry(t) \/ MarkHead(t) \/ LookHead(t) \/ AwaitHead(t) \/ PosFree(t)
  BY <1>0, <1>3, AskingIs DEF Poll, Entry, MarkHead, LookHead, AwaitHead, PosFree, Goto
<1>4. CASE PosLock(t) /\ stage[t] \in {"counted", "published"}
  BY <1>0, <1>4 DEF PosLock, Goto
<1>5. CASE TryHead(t) \/ MoveHead(t) \/ ReadSqHead(t) \/ Free(t)
  BY <1>0, <1>5, AskingIs DEF TryHead, MoveHead, ReadSqHead, Free, Goto
<1>6. CASE MoveSqHead(t) \/ RingHead(t) \/ StoreHead(t) \/ UnlockHead(t)
  BY <1>0, <1>6, AskingIs DEF MoveSqHead, RingHead, StoreHead, UnlockHead, Goto
<1>. QED  BY <1>1, <1>2, <1>3, <1>4, <1>5, <1>6 DEF QueueStep

LEMMA StageStep ==
  ASSUME TypeOK, stage \in [Threads -> Stages], StageInv, [ReadNext]_allVars
  PROVE  StageInv'
<1>0. pc \in [Threads -> Labels]
  BY DEF TypeOK
<1>i. \A t \in Threads : StageAt(pc[t], stage[t])
  BY DEF StageInv
<1>s. ASSUME \A u \in Threads : StageAt(pc'[u], stage'[u])  PROVE StageInv'
  BY <1>s DEF StageInv, StageAt, Asking, Dequeuing, Marked, MarkedHead, TailMovers, HeadMovers
<1>1. CASE UNCHANGED allVars
  <2>1. pc' = pc /\ stage' = stage
    BY <1>1 DEF allVars, vars
  <2>. QED  BY <1>i, <1>s, <2>1
<1>2. CASE Device
  <2>1. pc' = pc /\ stage' = stage
    BY <1>2 DEF Device, Ssd, Fetch, Complete
  <2>. QED  BY <1>i, <1>s, <2>1
<1>t. ASSUME NEW t \in Threads, \A u \in Threads : u # t => pc'[u] = pc[u] /\ stage'[u] = stage[u],
             StageAt(pc'[t], stage'[t])
      PROVE  StageInv'
  <2>1. ASSUME NEW u \in Threads  PROVE StageAt(pc'[u], stage'[u])
    BY <1>i, <1>t
  <2>. QED  BY <1>s, <2>1
<1>3. ASSUME NEW t \in Threads, \E k \in {"read", "write"}, c \in Cids : Begin(t, k, c)  PROVE StageInv'
  <2>1. pc[t] = "idle" /\ pc'[t] = "ticket" /\ stage' = stage /\ \A u \in Threads : u # t => pc'[u] = pc[u]
    BY <1>0, <1>3 DEF Begin, GetCid, Goto
  <2>2. StageAt(pc'[t], stage'[t])
    BY <1>i, <2>1, AskingIs DEF StageAt
  <2>. QED  BY <1>t, <2>1, <2>2
<1>4. ASSUME NEW t \in Threads, CopyCommand(t)  PROVE StageInv'
  <2>1. pc[t] = "copy" /\ pc'[t] = "mark" /\ stage' = stage /\ \A u \in Threads : u # t => pc'[u] = pc[u]
    BY <1>0, <1>4 DEF CopyCommand, Copy, Goto
  <2>2. StageAt(pc'[t], stage'[t])
    BY <1>i, <2>1, AskingIs DEF StageAt
  <2>. QED  BY <1>t, <2>1, <2>2
<1>5. ASSUME NEW t \in Threads, RingDoorbell(t)  PROVE StageInv'
  <2>1. /\ pc[t] = "ring" /\ pc'[t] = "settail" /\ stage[t] # "second"
        /\ stage'[t] = IF stage[t] = "loaded" THEN "second" ELSE stage[t]
        /\ \A u \in Threads : u # t => pc'[u] = pc[u] /\ stage'[u] = stage[u]
    BY <1>0, <1>5 DEF RingDoorbell, RingTail, Goto
  <2>2. StageAt(pc'[t], stage'[t])
    BY <1>i, <2>1, AskingIs DEF StageAt
  <2>. QED  BY <1>t, <2>1, <2>2
<1>6. ASSUME NEW t \in Threads, QueueStep(t)  PROVE StageInv'
  <2>1. stage' = stage
    BY <1>6 DEF QueueStep
  <2>2. StageAt(pc[t], stage[t])
    BY <1>i
  <2>3. StageAt(pc'[t], stage[t])
    BY <1>6, <2>2, QueueStepIs, AskingIs DEF StageAt
  <2>. QED  BY <1>t, <1>6, <2>1, <2>3, QueueStepIs
<1>7. ASSUME NEW t \in Threads, LoadTail(t) \/ LoadHead(t) \/ StoreQHead(t)
      PROVE  StageInv'
  <2>1. /\ pc' = pc /\ \A u \in Threads : u # t => stage'[u] = stage[u]
        /\ \/ pc[t] = "ring" /\ stage'[t] = "loaded"
           \/ pc[t] = "poslock" /\ stage'[t] \in {"load", "stored"}
    BY <1>7 DEF LoadTail, LoadHead, StoreQHead, SetStage, vars
  <2>2. StageAt(pc'[t], stage'[t])
    BY <1>i, <2>1, AskingIs DEF StageAt
  <2>. QED  BY <1>t, <2>1, <2>2
<1>8. ASSUME NEW t \in Threads, CountRead(t) \/ UnlockQ(t)
      PROVE  StageInv'
  <2>1. /\ pc' = pc /\ \A u \in Threads : u # t => stage'[u] = stage[u]
        /\ \/ stage[t] = "load" /\ stage'[t] = "counted"
           \/ stage[t] = "stored" /\ stage'[t] = "published"
    BY <1>8 DEF CountRead, UnlockQ, SetStage, vars
  <2>2. pc[t] = "poslock"
    BY <1>i, <2>1, <1>0, AskingIs DEF StageAt, Labels
  <2>3. StageAt(pc'[t], stage'[t])
    BY <2>1, <2>2, AskingIs DEF StageAt
  <2>. QED  BY <1>t, <2>1, <2>3
<1>9. ASSUME NEW t \in Threads, LookQHead(t)  PROVE StageInv'
  <2>1. /\ pc' = pc /\ pc[t] = "putcid" /\ stage'[t] \in {"done", "trying"}
        /\ \A u \in Threads : u # t => stage'[u] = stage[u]
    BY <1>9 DEF LookQHead, SetStage, vars
  <2>2. StageAt(pc'[t], stage'[t])
    BY <2>1, AskingIs DEF StageAt
  <2>. QED  BY <1>t, <2>1, <2>2
<1>10. ASSUME NEW t \in Threads, TryQLock(t)  PROVE StageInv'
  <2>1. /\ stage[t] = "trying" /\ \A u \in Threads : u # t => pc'[u] = pc[u] /\ stage'[u] = stage[u]
        /\ \/ pc' = pc /\ stage'[t] = "counted"
           \/ pc'[t] = "ticket" /\ stage'[t] = "second"
    BY <1>0, <1>10 DEF TryQLock, SetStage, Goto, vars
  <2>2. pc[t] = "putcid"
    BY <1>i, <2>1, <1>0, AskingIs DEF StageAt, Labels
  <2>3. StageAt(pc'[t], stage'[t])
    BY <2>1, <2>2, AskingIs DEF StageAt
  <2>. QED  BY <1>t, <2>1, <2>3
<1>11. ASSUME NEW t \in Threads, Return(t)  PROVE StageInv'
  <2>1. /\ pc'[t] = "idle" /\ stage'[t] = "first"
        /\ \A u \in Threads : u # t => pc'[u] = pc[u] /\ stage'[u] = stage[u]
    BY <1>0, <1>11 DEF Return, PutCid, SetStage, Goto
  <2>2. StageAt(pc'[t], stage'[t])
    BY <2>1, AskingIs DEF StageAt
  <2>. QED  BY <1>t, <2>1, <2>2
<1>. QED
  BY <1>1, <1>2, <1>3, <1>4, <1>5, <1>6, <1>7, <1>8, <1>9, <1>10, <1>11 DEF ReadNext, ReadStep

ReadTypes ==
  /\ q_head \in 0 .. Wrap - 1 /\ q_tail \in 0 .. Wrap - 1 /\ q_lock \in {0, 1}
  /\ kind \in [Threads -> {"read", "write"}]
  /\ stage \in [Threads -> Stages]
  /\ prev_head \in [Threads -> 0 .. Wrap - 1]
  /\ pos \in [Threads -> 0 .. Wrap - 1]
  /\ cur_tail \in [Threads -> 0 .. Wrap - 1]
  /\ extra_reads \in [Threads -> Nat]
  /\ behind \in [Threads -> SUBSET Threads] /\ followed \in SUBSET Threads

LEMMA ReadTypeParts ==
  (ReadTypeOK <=> TypeOK /\ ReadTypes) /\ (ReadTypeOK' <=> TypeOK' /\ ReadTypes')
BY Zenon DEF ReadTypeOK, ReadTypes

LEMMA ReadInitTypes == ReadInit => ReadTypeOK /\ StageInv
<1> SUFFICES ASSUME ReadInit PROVE ReadTypeOK /\ StageInv
  OBVIOUS
<1>1. TypeOK
  BY InitTypeOK DEF ReadInit
<1>2. 0 \in 0 .. Wrap - 1 /\ "first" \in Stages
  BY ReadAssumption DEF Stages
<1>3. ReadTypes
  BY <1>2, ReadAssumption DEF ReadInit, ReadTypes
<1>4. StageInv
  BY AskingIs DEF ReadInit, Init, StageInv, StageAt
<1>. QED  BY <1>1, <1>3, <1>4, ReadTypeParts

LEMMA ReadTypesStep ==
  ASSUME ReadTypes, [ReadNext]_allVars  PROVE ReadTypes'
<1> USE DEF ReadTypes
<1>0. 0 \in 0 .. Wrap - 1 /\ (q_tail + 1) % Wrap \in 0 .. Wrap - 1
  BY ReadAssumption
<1>1. CASE UNCHANGED allVars \/ Device
  BY <1>1 DEF allVars, seqVars, readVars, historyVars, Device
<1>2. ASSUME NEW t \in Threads, NEW k \in {"read", "write"}, NEW c \in Cids, Begin(t, k, c)
      PROVE  ReadTypes'
  BY <1>2 DEF Begin, seqVars, readVars
<1>3. ASSUME NEW t \in Threads, CopyCommand(t) \/ LoadTail(t)  PROVE ReadTypes'
  BY <1>3 DEF CopyCommand, LoadTail, SetStage, Stages, Waiting, seqVars
<1>4. ASSUME NEW t \in Threads, RingDoorbell(t) \/ QueueStep(t)  PROVE ReadTypes'
  BY <1>4 DEF RingDoorbell, QueueStep, Stages, seqVars, readVars, historyVars
<1>5. ASSUME NEW t \in Threads, LoadHead(t) \/ CountRead(t)  PROVE ReadTypes'
  BY <1>0, <1>5 DEF LoadHead, CountRead, SetStage, Stages, seqVars, historyVars
<1>6. ASSUME NEW t \in Threads, LookQHead(t) \/ TryQLock(t)  PROVE ReadTypes'
  BY <1>6 DEF LookQHead, TryQLock, SetStage, Stages, seqVars, readVars, historyVars
<1>7. ASSUME NEW t \in Threads, StoreQHead(t) \/ UnlockQ(t)  PROVE ReadTypes'
  BY <1>7 DEF StoreQHead, UnlockQ, SetStage, Stages, seqVars, readVars, historyVars
<1>8. ASSUME NEW t \in Threads, Return(t)  PROVE ReadTypes'
  BY <1>0, <1>8 DEF Return, SetStage, Stages, seqVars, historyVars
<1>. QED
  BY <1>1, <1>2, <1>3, <1>4, <1>5, <1>6, <1>7, <1>8 DEF ReadNext, ReadStep
------------------------------------------------------------------------------
(***************************************************************************)
(* Every command is executed once.                                          *)
(***************************************************************************)

\* A thread waits for its completion until the SSD has posted it.
Answered(t) == \E m \in MovedHead .. posted - 1 : IdOf(m) = cid[t]
Waits(t)    == pc[t] \in Asking /\ ~Answered(t)
WaitsNext(t) ==
  pc'[t] \in Asking /\ ~ \E m \in MovedHead' .. posted' - 1 : cq_mem'[CqPos(m)].cid = cid'[t]
ServedInv == \A t \in Threads : served[t] = Told(t) - Num(Waits(t))

LEMMA ServedInvNext ==
  ASSUME \A u \in Threads : served'[u] = (MaxOps[u] - todo'[u] + extra_reads'[u]) - Num(WaitsNext(u))
  PROVE  ServedInv'
<1>1. ASSUME NEW u \in Threads  PROVE served'[u] = (MaxOps[u] - todo'[u] + extra_reads'[u]) - Num(Waits(u)')
  <2>1. Waits(u)' <=> WaitsNext(u)
    BY DEF Waits, WaitsNext, Answered, IdOf, CqPos, Asking, Marked, TailMovers
  <2>2. Num(Waits(u)') = Num(WaitsNext(u))
    BY <2>1 DEF Num
  <2>. QED  BY <2>2
<1>. QED  BY Zenon, <1>1 DEF ServedInv, Told

LEMMA ServedSame ==
  ASSUME ServedInv, UNCHANGED <<served, todo, extra_reads>>, \A u \in Threads : WaitsNext(u) <=> Waits(u)
  PROVE  ServedInv'
<1>1. ASSUME NEW u \in Threads
      PROVE  served'[u] = (MaxOps[u] - todo'[u] + extra_reads'[u]) - Num(WaitsNext(u))
  <2>1. served[u] = (MaxOps[u] - todo[u] + extra_reads[u]) - Num(Waits(u))
    BY Zenon DEF ServedInv, Told
  <2>2. Num(WaitsNext(u)) = Num(Waits(u))
    BY DEF Num
  <2>. QED  BY <2>1, <2>2
<1>. QED  BY <1>1, ServedInvNext

\* A step after which the same threads wait for the same completions.
LEMMA ServedKept ==
  ASSUME ServedInv, UNCHANGED <<served, todo, extra_reads, cq_mem, posted, MovedHead>>,
         \A u \in Threads : /\ pc'[u] \in Asking <=> pc[u] \in Asking
                            /\ pc[u] \in Asking => cid'[u] = cid[u]
  PROVE  ServedInv'
<1>1. \A u \in Threads : WaitsNext(u) <=> Waits(u)
  BY DEF WaitsNext, Waits, Answered, IdOf
<1>. QED  BY <1>1, ServedSame

\* The ids of completions that nobody has marked are in use, by threads that wait for
\* them or have just recognised them.
LEMMA AnswersAre ==
  ASSUME QueueInv, NEW m \in MovedHead .. posted - 1
  PROVE  \E u \in Threads : IdOf(m) = cid[u] /\ pc[u] \in Asking \cup Recognised
<1>1. /\ MovedHead \in Nat /\ cq_head \in Nat /\ RungHead \in Nat /\ posted \in Nat /\ CqSize \in Nat
      /\ cq_head <= MovedHead /\ RungHead <= MovedHead
  BY CursorTypes, Sizes DEF QueueInv
<1>2. posted < RungHead + CqSize
  BY DEF QueueInv, HeadsInv
<1>3. m \in cq_head .. posted - 1 /\ m >= posted - CqSize
  BY <1>1, <1>2
<1>4. PICK u \in Threads : IdOf(m) = cid[u] /\ (Sent(u) \/ pc[u] \in Recognised)
  BY <1>3 DEF QueueInv, OwnInv
<1>. QED  BY <1>4 DEF Sent, SentAt, Asking

LEMMA BeginServed ==
  ASSUME QueueInv, ServedInv, extra_reads \in [Threads -> Nat],
         NEW t \in Threads, NEW c \in Cids, GetCid(t, c), UNCHANGED extra_reads
  PROVE  ServedInv'
<1>0. pc \in [Threads -> Labels] /\ cid \in [Threads -> Cids \cup {NoCid}] /\ TypeOK /\ LockInv /\ IdInv
  BY DEF QueueInv, TypeOK
<1>1. /\ UNCHANGED <<served, cq_mem, posted>> /\ pc[t] = "idle" /\ pc'[t] = "ticket" /\ cid'[t] = c
      /\ c \notin cid_lock
      /\ \A u \in Threads : u # t => pc'[u] = pc[u] /\ cid'[u] = cid[u]
  BY <1>0 DEF GetCid, Goto, cqVars, ssdVars
<1>2. UNCHANGED MovedHead
  BY <1>0, UsersLeaveCursors DEF Users, HeadCursors
<1>3. MaxOps[t] \in Nat /\ todo[t] \in Nat /\ todo'[t] = todo[t] - 1
      /\ \A u \in Threads : u # t => todo'[u] = todo[u]
  BY <1>0, QueueAssumption DEF GetCid, TypeOK
<1>4. "ticket" \in Asking /\ "idle" \notin Asking \cup Recognised
  BY AskingIs DEF Recognised, MarkedHead, HeadMovers
<1>5. \A m \in MovedHead .. posted - 1 : IdOf(m) # c
  <2>1. SUFFICES ASSUME NEW m \in MovedHead .. posted - 1  PROVE IdOf(m) # c
    OBVIOUS
  <2>2. PICK u \in Threads : IdOf(m) = cid[u] /\ pc[u] \in Asking \cup Recognised
    BY AnswersAre
  <2>3. cid[u] \in cid_lock
    BY <1>0, <1>4, <2>2 DEF IdInv
  <2>. QED  BY <1>1, <2>2, <2>3
<1>6. ASSUME NEW u \in Threads
      PROVE  served'[u] = (MaxOps[u] - todo'[u] + extra_reads'[u]) - Num(WaitsNext(u))
  <2>0. served[u] = (MaxOps[u] - todo[u] + extra_reads[u]) - Num(Waits(u))
    BY Zenon DEF ServedInv, Told
  <2>1. CASE u = t
    <3>1. Num(Waits(t)) = 0 /\ Num(WaitsNext(t)) = 1
      BY <1>1, <1>2, <1>4, <1>5 DEF Num, Waits, WaitsNext, IdOf
    <3>2. (MaxOps[t] - todo'[t] + extra_reads'[t]) - 1 = (MaxOps[t] - todo[t] + extra_reads[t]) - 0
      BY <1>3
    <3>. QED  BY <1>1, <2>0, <2>1, <3>1, <3>2
  <2>2. CASE u # t
    <3>1. Num(WaitsNext(u)) = Num(Waits(u))
      BY <1>1, <1>2, <2>2 DEF Num, Waits, WaitsNext, Answered, IdOf
    <3>. QED  BY <1>1, <1>3, <2>0, <2>2, <3>1
  <2>. QED  BY <2>1, <2>2
<1>. QED  BY <1>6, ServedInvNext

LEMMA AgainServed ==
  ASSUME QueueInv, ServedInv, extra_reads \in [Threads -> Nat], NEW t \in Threads, Again(t),
         extra_reads' = [extra_reads EXCEPT ![t] = @ + 1]
  PROVE  ServedInv'
<1>0. pc \in [Threads -> Labels] /\ TypeOK /\ LockInv /\ IdInv
  BY DEF QueueInv, TypeOK
<1>1. /\ UNCHANGED <<served, todo, cq_mem, posted, cid>> /\ pc[t] = "putcid" /\ pc'[t] = "ticket"
      /\ \A u \in Threads : u # t => pc'[u] = pc[u]
  BY <1>0 DEF Again, Goto, cqVars, ssdVars, idVars
<1>2. UNCHANGED MovedHead
  BY <1>0, UsersLeaveCursors DEF Users, HeadCursors
<1>3. MaxOps[t] \in Nat /\ todo[t] \in Nat /\ extra_reads'[t] = extra_reads[t] + 1
      /\ \A u \in Threads : u # t => extra_reads'[u] = extra_reads[u]
  BY <1>0, QueueAssumption DEF TypeOK
<1>4. "ticket" \in Asking /\ "putcid" \notin Asking \cup Recognised
  BY AskingIs DEF Recognised, MarkedHead, HeadMovers
<1>5. \A m \in MovedHead .. posted - 1 : IdOf(m) # cid[t]
  <2>1. SUFFICES ASSUME NEW m \in MovedHead .. posted - 1, IdOf(m) = cid[t]  PROVE FALSE
    OBVIOUS
  <2>2. PICK u \in Threads : IdOf(m) = cid[u] /\ pc[u] \in Asking \cup Recognised
    BY AnswersAre
  <2>3. u = t
    BY <1>0, <1>1, <2>1, <2>2 DEF IdInv
  <2>. QED  BY <1>1, <1>4, <2>2, <2>3
<1>6. ASSUME NEW u \in Threads
      PROVE  served'[u] = (MaxOps[u] - todo'[u] + extra_reads'[u]) - Num(WaitsNext(u))
  <2>0. served[u] = (MaxOps[u] - todo[u] + extra_reads[u]) - Num(Waits(u))
    BY Zenon DEF ServedInv, Told
  <2>1. CASE u = t
    <3>1. Num(Waits(t)) = 0 /\ Num(WaitsNext(t)) = 1
      BY <1>1, <1>2, <1>4, <1>5 DEF Num, Waits, WaitsNext, IdOf
    <3>2. (MaxOps[t] - todo'[t] + extra_reads'[t]) - 1 = (MaxOps[t] - todo[t] + extra_reads[t]) - 0
      BY <1>1, <1>3
    <3>. QED  BY <1>1, <2>0, <2>1, <3>1, <3>2
  <2>2. CASE u # t
    <3>1. Num(WaitsNext(u)) = Num(Waits(u))
      BY <1>1, <1>2, <2>2 DEF Num, Waits, WaitsNext, Answered, IdOf
    <3>. QED  BY <1>1, <1>3, <2>0, <2>2, <3>1
  <2>. QED  BY <2>1, <2>2
<1>. QED  BY <1>6, ServedInvNext

\* The SSD executes the command of a thread that still waits.
LEMMA CompleteServed ==
  ASSUME QueueInv, ServedInv, extra_reads \in [Threads -> Nat],
         NEW c \in working, Complete(c), UNCHANGED extra_reads
  PROVE  /\ ServedInv'
         /\ \E t \in Threads : Waits(t) /\ served' = [served EXCEPT ![t] = @ + 1]
<1>0. /\ TypeOK /\ IdInv /\ HeadsInv /\ OwnInv /\ OnceInv /\ served \in [Threads -> Nat]
      /\ posted \in Nat /\ MovedHead \in Nat /\ RungHead <= MovedHead /\ RungHead \in Nat
      /\ \A u \in Threads : MaxOps[u] \in Nat /\ todo[u] \in Nat
  <2>1. TypeOK /\ IdInv /\ HeadsInv /\ OwnInv /\ OnceInv
    BY DEF QueueInv
  <2>2. served \in [Threads -> Nat] /\ \A u \in Threads : MaxOps[u] \in Nat /\ todo[u] \in Nat
    BY <2>1, QueueAssumption DEF TypeOK
  <2>3. posted \in Nat /\ MovedHead \in Nat /\ RungHead <= MovedHead /\ RungHead \in Nat
    BY <2>1, CursorTypes
  <2>. QED  BY <2>1, <2>2, <2>3
<1>1. /\ UNCHANGED <<pc, cid, todo>>
      /\ served' = [u \in Threads |-> served[u] + (IF u = c.cmd.owner THEN 1 ELSE 0)]
  BY DEF Complete, idVars
<1>2. UNCHANGED MovedHead
  BY SsdLeavesCursors DEF HeadCursors
<1>3. /\ posted' = posted + 1 /\ cq_mem'[CqPos(posted)].cid = c.cmd.cid
      /\ \A m \in Nat : posted - CqSize < m /\ m < posted => cq_mem'[CqPos(m)] = cq_mem[CqPos(m)]
  <2>1. cq_mem'[CqPos(posted)] = [cid |-> c.cmd.cid, phase |-> Phase(posted), sqhd |-> fetched]
    BY <1>0, CompleteIs
  <2>2. cq_mem'[CqPos(posted)].cid = c.cmd.cid
    BY <2>1
  <2>. QED  BY <1>0, <2>2, CompleteIs
<1>4. PICK t \in Threads : Sent(t) /\ c.cmd = Own(t)
  BY <1>0 DEF OwnInv
<1>5. c.cmd.owner = t /\ c.cmd.cid = cid[t]
  BY <1>4 DEF Own
<1>6. pc[t] \in Asking /\ pc[t] # "idle"
  BY <1>4, AskingIs DEF Sent, SentAt, Asking
<1>7. Waits(t)
  BY <1>0, <1>5, <1>6 DEF OnceInv, Waits, Answered
<1>8. \A m \in MovedHead .. posted - 1 : cq_mem'[CqPos(m)].cid = IdOf(m)
  <2>1. posted < MovedHead + CqSize /\ CqSize \in Nat
    BY <1>0, Sizes DEF HeadsInv
  <2>2. ASSUME NEW m \in MovedHead .. posted - 1  PROVE cq_mem'[CqPos(m)].cid = IdOf(m)
    <3>1. m \in Nat /\ posted - CqSize < m /\ m < posted
      BY <1>0, <2>1
    <3>. QED  BY <1>3, <3>1 DEF IdOf
  <2>. QED  BY <2>2
<1>9. MovedHead' .. posted' - 1 = (MovedHead .. posted - 1) \cup {posted}
  <2>1. MovedHead <= posted
    BY <1>0 DEF HeadsInv
  <2>. QED  BY <1>0, <1>2, <1>3, <2>1
<1>10. ~WaitsNext(t)
  BY <1>1, <1>3, <1>5, <1>9 DEF WaitsNext
<1>11. ASSUME NEW u \in Threads, u # t  PROVE WaitsNext(u) <=> Waits(u)
  <2>1. cid[u] # cid[t]
    BY <1>0, <1>6, <1>11 DEF IdInv
  <2>. QED  BY <1>1, <1>3, <1>5, <1>8, <1>9, <2>1 DEF WaitsNext, Waits, Answered
<1>12. ASSUME NEW u \in Threads
       PROVE  served'[u] = (MaxOps[u] - todo'[u] + extra_reads'[u]) - Num(WaitsNext(u))
  <2>0. served[u] = (MaxOps[u] - todo[u] + extra_reads[u]) - Num(Waits(u))
    BY Zenon DEF ServedInv, Told
  <2>1. CASE u = t
    <3>1. Num(Waits(t)) = 1 /\ Num(WaitsNext(t)) = 0
      BY <1>7, <1>10 DEF Num
    <3>2. served'[t] = served[t] + 1
      BY <1>1, <1>5
    <3>. QED  BY <1>0, <1>1, <2>0, <2>1, <3>1, <3>2
  <2>2. CASE u # t
    <3>1. Num(WaitsNext(u)) = Num(Waits(u))
      BY <1>11, <2>2 DEF Num
    <3>2. served'[u] = served[u] + 0
      BY <1>1, <1>5, <2>2
    <3>3. served'[u] = served[u]
      BY <1>0, <3>2
    <3>. QED  BY <1>1, <2>0, <3>1, <3>3
  <2>. QED  BY <2>1, <2>2
<1>13. ServedInv'
  BY <1>12, ServedInvNext
<1>14. served' = [served EXCEPT ![t] = @ + 1]
  <2>1. \A u \in Threads : served[u] \in Nat /\ served[u] + 0 = served[u]
    BY <1>0
  <2>. QED  BY <1>0, <1>1, <1>5, <2>1
<1>. QED  BY <1>7, <1>13, <1>14

\* A thread that recognises a completion was served.
LEMMA EntryServed ==
  ASSUME QueueInv, ServedInv, PromptPoll, NEW t \in Threads, Entry(t), pc'[t] = "poslock",
         UNCHANGED extra_reads
  PROVE  ServedInv'
<1>0. pc \in [Threads -> Labels] /\ loc \in [Threads -> Nat] /\ TypeOK /\ LockInv
  BY DEF QueueInv, TypeOK
<1>1. /\ UNCHANGED <<cq_mem, posted, cid, served, todo>> /\ pc[t] = "entry"
      /\ \A u \in Threads : u # t => pc'[u] = pc[u]
      /\ cq_mem[CqPos(loc[t])].phase = Phase(loc[t]) /\ cq_mem[CqPos(loc[t])].cid = cid[t]
  BY <1>0 DEF Entry, Goto, cqVars, ssdVars, idVars
<1>2. UNCHANGED MovedHead
  BY <1>0, UsersLeaveCursors DEF Users, HeadCursors
<1>3. MovedHead <= loc[t] /\ loc[t] < posted
  BY <1>1, EntryFound DEF QueueInv
<1>4. MovedHead \in Nat /\ posted \in Nat
  BY <1>0, CursorTypes
<1>5. Answered(t)
  <2>1. loc[t] \in MovedHead .. posted - 1
    BY <1>0, <1>3, <1>4
  <2>. QED  BY <1>1, <2>1 DEF Answered, IdOf
<1>6. \A u \in Threads : WaitsNext(u) <=> Waits(u)
  <2>1. ~Waits(t) /\ ~WaitsNext(t)
    BY <1>5, AskingIs DEF Waits, WaitsNext
  <2>2. ASSUME NEW u \in Threads, u # t  PROVE WaitsNext(u) <=> Waits(u)
    BY <1>1, <1>2, <2>2 DEF Waits, WaitsNext, Answered, IdOf
  <2>. QED  BY <2>1, <2>2
<1>. QED  BY <1>1, <1>6, ServedSame

\* The head moves over no completion that a thread still looks for.
LEMMA MoveHeadServed ==
  ASSUME QueueInv, ServedInv, NEW t \in Threads, MoveHead(t), UNCHANGED extra_reads,
         MovedHead' = MovedHead + 1, head_mark[CqPos(MovedHead)], pc' = pc
  PROVE  ServedInv'
<1>0. TypeOK /\ LockInv /\ IdInv /\ HeadsInv /\ RecogInv /\ MovedHead \in Nat /\ posted \in Nat
  BY CursorTypes DEF QueueInv
<1>1. UNCHANGED <<cq_mem, posted, cid, served, todo>>
  BY DEF MoveHead, ssdVars, idVars
<1>2. PICK h \in Threads : pc[h] \in MarkedHead /\ loc[h] = MovedHead
  BY <1>0, HeadUser
<1>3. IdOf(MovedHead) = cid[h]
  <2>1. MovedHead <= loc[h]
    BY <1>0, <1>2
  <2>. QED  BY <1>0, <1>2, <2>1 DEF RecogInv
<1>4. pc[h] \notin Asking /\ pc[h] # "idle"
  BY <1>2, AskingIs DEF MarkedHead, HeadMovers
<1>5. ASSUME NEW u \in Threads  PROVE WaitsNext(u) <=> Waits(u)
  <2>1. CASE pc[u] \notin Asking
    BY <2>1 DEF Waits, WaitsNext
  <2>2. CASE pc[u] \in Asking
    <3>1. cid[u] # cid[h]
      BY <1>0, <1>4, <2>2 DEF IdInv
    <3>2. \A m \in MovedHead .. posted - 1 : IdOf(m) = cid[u] => m \in MovedHead' .. posted' - 1
      BY <1>0, <1>1, <1>3, <3>1
    <3>3. \A m \in MovedHead' .. posted' - 1 : m \in MovedHead .. posted - 1
      BY <1>0, <1>1
    <3>4. Answered(u) <=> \E m \in MovedHead' .. posted' - 1 : cq_mem'[CqPos(m)].cid = cid'[u]
      BY <1>1, <3>2, <3>3 DEF Answered, IdOf
    <3>. QED  BY <3>4 DEF Waits, WaitsNext
  <2>. QED  BY <2>1, <2>2
<1>. QED  BY <1>1, <1>5, ServedSame

\* The steps of the queue pair within a command.
LEMMA QueueStepKeeps ==
  ASSUME TypeOK, NEW t \in Threads, QueueStep(t)
  PROVE  UNCHANGED <<served, todo, cid, cq_mem, posted, stage, extra_reads>>
<1>1. UNCHANGED <<stage, extra_reads>>
  BY DEF QueueStep, readVars
<1>2. CASE TakeTicket(t) \/ AwaitTurn(t) \/ MarkTail(t) \/ LookTail(t) \/ Leave(t)
  BY <1>1, <1>2 DEF TakeTicket, AwaitTurn, MarkTail, LookTail, Leave, cqVars, ssdVars, idVars
<1>3. CASE TryTail(t) \/ MoveTail(t) \/ StoreTail(t) \/ UnlockTail(t)
  BY <1>1, <1>3 DEF TryTail, MoveTail, StoreTail, UnlockTail, cqVars, ssdVars, idVars
<1>4. CASE Poll(t) \/ Entry(t) \/ PosLock(t) \/ MarkHead(t) \/ LookHead(t) \/ AwaitHead(t) \/ PosFree(t)
  BY <1>1, <1>4 DEF Poll, Entry, PosLock, MarkHead, LookHead, AwaitHead, PosFree, cqVars, ssdVars, idVars
<1>5. CASE TryHead(t) \/ MoveHead(t) \/ ReadSqHead(t) \/ Free(t)
  BY <1>1, <1>5 DEF TryHead, MoveHead, ReadSqHead, Free, cqVars, ssdVars, idVars
<1>6. CASE MoveSqHead(t) \/ RingHead(t) \/ StoreHead(t) \/ UnlockHead(t)
  BY <1>1, <1>6 DEF MoveSqHead, RingHead, StoreHead, UnlockHead, cqVars, ssdVars, idVars
<1>. QED  BY <1>2, <1>3, <1>4, <1>5, <1>6 DEF QueueStep

LEMMA QueueStepServed ==
  ASSUME QueueInv, ServedInv, PromptPoll, NEW t \in Threads, QueueStep(t)
  PROVE  ServedInv'
<1>0. TypeOK /\ LockInv
  BY DEF QueueInv
<1>1. UNCHANGED <<served, todo, cid, cq_mem, posted, extra_reads>>
  BY <1>0, QueueStepKeeps
<1>2. ASSUME UNCHANGED MovedHead, pc[t] # "entry" \/ pc'[t] # "poslock"  PROVE ServedInv'
  <2>1. \A u \in Threads : pc'[u] \in Asking <=> pc[u] \in Asking
    BY <1>0, <1>2, QueueStepIs, AskingIs
  <2>. QED  BY <1>1, <1>2, <2>1, ServedKept
<1>3. CASE MoveHead(t)
  <2>1. pc[t] = "movehead"
    BY <1>3 DEF MoveHead
  <2>2. CASE MovedHead' = MovedHead + 1 /\ head_mark[CqPos(MovedHead)] /\ pc' = pc
    BY <1>1, <1>3, <2>2, MoveHeadServed
  <2>3. CASE MovedHead' = MovedHead
    BY <1>2, <2>1, <2>3
  <2>. QED  BY <1>0, <1>3, <2>2, <2>3, MoveHeadIs
<1>4. CASE ~MoveHead(t)
  <2>1. UNCHANGED MovedHead
    <3>1. \/ TakeTicket(t) \/ AwaitTurn(t) \/ MarkTail(t) \/ LookTail(t) \/ Leave(t)
          \/ Poll(t) \/ Entry(t) \/ PosLock(t) \/ MarkHead(t) \/ LookHead(t) \/ AwaitHead(t) \/ PosFree(t)
          \/ TryTail(t) \/ MoveTail(t) \/ StoreTail(t) \/ UnlockTail(t)
          \/ TryHead(t) \/ ReadSqHead(t) \/ Free(t) \/ MoveSqHead(t) \/ RingHead(t) \/ StoreHead(t)
          \/ UnlockHead(t)
      BY <1>4 DEF QueueStep
    <3>. QED
      BY <1>0, <3>1, UsersLeaveCursors, AtTailLeavesHead, HeadCursorSteps DEF Users, AtTail, HeadCursors
  <2>2. CASE pc[t] = "entry" /\ pc'[t] = "poslock"
    <3>1. Entry(t)
      BY <2>2 DEF QueueStep, TakeTicket, AwaitTurn, MarkTail, LookTail, Leave, TryTail, MoveTail, StoreTail,
         UnlockTail, Poll, PosLock, MarkHead, LookHead, TryHead, MoveHead, ReadSqHead, Free, MoveSqHead,
         RingHead, StoreHead, UnlockHead, AwaitHead, PosFree
    <3>. QED  BY <1>1, <2>2, <3>1, EntryServed
  <2>. QED  BY <1>2, <2>1, <2>2
<1>. QED  BY <1>3, <1>4

LEMMA ServedStep ==
  ASSUME QueueInv, PromptPoll, ReadTypes, StageInv, ServedInv, [ReadNext]_allVars
  PROVE  ServedInv'
<1>0. /\ TypeOK /\ LockInv /\ pc \in [Threads -> Labels] /\ extra_reads \in [Threads -> Nat]
      /\ cid \in [Threads -> Cids \cup {NoCid}]
  BY DEF QueueInv, TypeOK, ReadTypes
<1>s. ASSUME UNCHANGED <<vars, extra_reads>>  PROVE ServedInv'
  <2>1. UNCHANGED <<pc, cid, served, todo, cq_mem, posted>>
    BY <1>s DEF vars, cqVars, ssdVars, idVars
  <2>2. UNCHANGED MovedHead
    BY <1>s, SsdLeavesCursors DEF HeadCursors
  <2>. QED  BY <1>s, <2>1, <2>2, ServedKept
<1>1. CASE UNCHANGED allVars
  BY <1>1, <1>s DEF allVars, readVars
<1>2. CASE Device
  <2>1. UNCHANGED extra_reads
    BY <1>2 DEF Device, readVars
  <2>2. CASE Fetch
    <3>1. UNCHANGED <<pc, cid, served, todo, cq_mem, posted>>
      BY <2>2 DEF Fetch, cqVars, idVars
    <3>2. UNCHANGED MovedHead
      BY <2>2, SsdLeavesCursors DEF HeadCursors
    <3>. QED  BY <2>1, <3>1, <3>2, ServedKept
  <2>3. CASE \E c \in working : Complete(c)
    BY <1>0, <2>1, <2>3, CompleteServed
  <2>. QED  BY <1>2, <2>2, <2>3 DEF Device, Ssd
<1>3. ASSUME NEW t \in Threads, \E k \in {"read", "write"}, c \in Cids : Begin(t, k, c)  PROVE ServedInv'
  <2>1. \E c \in Cids : GetCid(t, c) /\ UNCHANGED extra_reads
    BY <1>3 DEF Begin, readVars
  <2>. QED  BY <1>0, <2>1, BeginServed
<1>4. ASSUME NEW t \in Threads, CopyCommand(t) \/ RingDoorbell(t) \/ Return(t)  PROVE ServedInv'
  <2>1. Copy(t) \/ RingTail(t) \/ PutCid(t)
    BY <1>4 DEF CopyCommand, RingDoorbell, Return
  <2>2. UNCHANGED MovedHead
    BY <1>0, <2>1, UsersLeaveCursors, AtTailLeavesHead DEF Users, AtTail, HeadCursors
  <2>3. UNCHANGED <<served, todo, cq_mem, posted, extra_reads>>
    BY <1>4 DEF CopyCommand, Copy, RingDoorbell, RingTail, Return, PutCid, cqVars, ssdVars, idVars, readVars
  <2>4. \A u \in Threads : /\ pc'[u] \in Asking <=> pc[u] \in Asking
                           /\ pc[u] \in Asking => cid'[u] = cid[u]
    BY <1>0, <2>1, AskingIs DEF Copy, RingTail, PutCid, Goto, idVars
  <2>. QED  BY <2>2, <2>3, <2>4, ServedKept
<1>5. ASSUME NEW t \in Threads, QueueStep(t)  PROVE ServedInv'
  BY <1>5, QueueStepServed
<1>6. ASSUME NEW t \in Threads,
             LoadTail(t) \/ LoadHead(t) \/ CountRead(t) \/ LookQHead(t) \/ StoreQHead(t) \/ UnlockQ(t)
      PROVE  ServedInv'
  <2>1. UNCHANGED <<vars, extra_reads>>
    BY <1>6 DEF LoadTail, LoadHead, CountRead, LookQHead, StoreQHead, UnlockQ, readVars
  <2>. QED  BY <1>s, <2>1
<1>7. ASSUME NEW t \in Threads, TryQLock(t)  PROVE ServedInv'
  <2>1. stage[t] = "trying" => pc[t] = "putcid"
    BY <1>0, AskingIs DEF StageInv, StageAt, Labels
  <2>2. \/ UNCHANGED <<vars, extra_reads>>
        \/ Again(t) /\ extra_reads' = [extra_reads EXCEPT ![t] = @ + 1]
    BY <1>7, <2>1 DEF TryQLock, Again
  <2>. QED  BY <1>0, <1>s, <2>2, AgainServed
<1>. QED
  BY <1>1, <1>2, <1>3, <1>4, <1>5, <1>6, <1>7 DEF ReadNext, ReadStep
------------------------------------------------------------------------------
(***************************************************************************)
(* What holds of the queue pair and of reads and writes through it.         *)
(***************************************************************************)

\* Every counter, lock, entry and loaded value keeps its type, and no thread begins
\* more commands than it has.
THEOREM ReadAlwaysTyped == ReadSpec => [](ReadTypeOK /\ StageInv)
<1>1. ReadInit => ReadTypeOK /\ StageInv
  BY ReadInitTypes
<1>2. ReadTypeOK /\ StageInv /\ [ReadNext]_allVars => (ReadTypeOK /\ StageInv)'
  <2>1. SUFFICES ASSUME ReadTypeOK, StageInv, [ReadNext]_allVars  PROVE ReadTypeOK' /\ StageInv'
    OBVIOUS
  <2>2. TypeOK /\ ReadTypes /\ stage \in [Threads -> Stages]
    BY <2>1, ReadTypeParts DEF ReadTypes
  <2>3. TypeOK'
    BY <2>1, <2>2, ReadIsQueueStep, TypeStep
  <2>4. ReadTypes' /\ StageInv'
    BY <2>1, <2>2, ReadTypesStep, StageStep
  <2>. QED  BY <2>3, <2>4, ReadTypeParts
<1>. QED  BY <1>1, <1>2, PTL DEF ReadSpec

\* Under the two-round condition of cq_poll the queue pair keeps its invariant,
\* whatever the number of threads and the sizes of the queues.
THEOREM QueueAlwaysInv == ReadSpec /\ []PromptPoll => []QueueInv
<1>1. ReadInit => QueueInv
  BY QueueInitInv DEF ReadInit
<1>2. QueueInv /\ PromptPoll /\ StageInv /\ [ReadNext]_allVars => QueueInv'
  BY ReadIsQueueStep, QueueStepInv DEF QueueInv
<1>. QED  BY <1>1, <1>2, ReadAlwaysTyped, PTL DEF ReadSpec

\* sq_enqueue's tickets keep threads apart: between its turn and its leaving, a place
\* of the submission queue is one thread's.
THEOREM QueuePlacesNotShared == ReadSpec /\ []PromptPoll => []PlacesNotShared
<1>1. QueueInv => PlacesNotShared
  BY AloneAtPlace DEF QueueInv, PlacesNotShared
<1>. QED  BY <1>1, QueueAlwaysInv, PTL

\* No command is written over one that the doorbell has announced and the SSD has not
\* fetched, although places are freed by completions, which arrive in any order.
THEOREM QueueNotOverwritten == ReadSpec /\ []PromptPoll => []NotOverwritten
<1>1. ASSUME QueueInv, NEW t \in Threads, pc[t] \in {"copy", "mark"}
      PROVE  (SqPos(ticket[t]) - fetched) % SqSize >= (sq_db - fetched) % SqSize
  <2>1. TypeOK /\ TicketInv /\ SubmitInv /\ WindowInv /\ ticket[t] \in Nat
    BY <1>1 DEF QueueInv, TypeOK
  <2>2. /\ RungTail \in Nat /\ MovedTail \in Nat /\ FreedTo \in Nat /\ RungTail <= MovedTail
        /\ Fetched \in Nat /\ SqPos(Fetched) = fetched
    BY <2>1, CursorTypes, FetchedType
  <2>3. MovedTail <= ticket[t] /\ ticket[t] < FreedTo + SqSize
    BY <1>1, <2>1, TicketFits DEF SubmitInv, AtPlace
  <2>4. FreedTo <= Fetched /\ Fetched <= RungTail /\ sq_db = SqPos(RungTail)
    BY <2>1 DEF WindowInv
  <2>5. /\ Fetched <= ticket[t] /\ ticket[t] < Fetched + SqSize
        /\ RungTail < Fetched + SqSize /\ RungTail - Fetched <= ticket[t] - Fetched
    BY <2>1, <2>2, <2>3, <2>4, Sizes
  <2>6. (SqPos(ticket[t]) - fetched) % SqSize = ticket[t] - Fetched
    BY <2>1, <2>2, <2>5, Distance
  <2>7. (sq_db - fetched) % SqSize = RungTail - Fetched
    BY <2>2, <2>4, <2>5, Distance
  <2>. QED  BY <2>1, <2>2, <2>5, <2>6, <2>7
<1>2. QueueInv => NotOverwritten
  BY <1>1 DEF NotOverwritten
<1>. QED  BY <1>2, QueueAlwaysInv, PTL

\* The SSD posts over no completion the head has not passed, and what cq_poll has
\* recognised is still there, ahead of the head, when the thread marks it.
THEOREM QueueCompletionsKept == ReadSpec /\ []PromptPoll => []CompletionsKept
<1>1. ASSUME QueueInv  PROVE CompletionsKept
  <2>1. TypeOK /\ HeadsInv /\ RecogInv
    BY <1>1 DEF QueueInv
  <2>2. posted \in Nat /\ RungHead \in Nat /\ MovedHead \in Nat /\ cq_head \in Nat /\ cq_head <= MovedHead
    BY <2>1, CursorTypes
  <2>3. posted - RungHead < CqSize
    BY <2>1, <2>2, Sizes DEF HeadsInv
  <2>4. ASSUME NEW t \in Threads, pc[t] \in {"poslock", "markhead"}
        PROVE  cq_mem[CqPos(loc[t])].cid = cid[t] /\ cq_head <= loc[t]
    <3>1. MovedHead <= loc[t] /\ IdOf(loc[t]) = cid[t] /\ loc[t] \in Nat
      BY <2>1, <2>4 DEF RecogInv, TypeOK
    <3>. QED  BY <2>2, <3>1 DEF IdOf
  <2>. QED  BY <2>3, <2>4 DEF CompletionsKept
<1>. QED  BY <1>1, QueueAlwaysInv, PTL
------------------------------------------------------------------------------
(***************************************************************************)
(* Reads and writes through a queue pair are transfers made once.           *)
(***************************************************************************)

\* No command of a thread at l, for its reads at s, is under way.
Between(l, s) ==
  \/ l \in {"idle", "putcid"}
  \/ l = "poslock" /\ s \notin {"first", "second"}
  \/ s \in {"stored", "published", "counted", "done"}

Asked == [t \in Threads |-> Told(t)]
Back  == [t \in Threads |-> IF Between(pc[t], stage[t]) THEN Told(t) ELSE Told(t) - 1]

\* The next values of Told and of whether a thread is between commands.
ToldNext(t)    == MaxOps[t] - todo'[t] + extra_reads'[t]
BetweenNext(t) == Between(pc'[t], stage'[t])

LEMMA AsksNext ==
  /\ Asked' = [t \in Threads |-> ToldNext(t)]
  /\ Back' = [t \in Threads |-> IF BetweenNext(t) THEN ToldNext(t) ELSE ToldNext(t) - 1]
BY DEF Asked, Back, Told, ToldNext, BetweenNext, Between

LEMMA TransfersAre ==
  /\ Transfers!Init <=> /\ Asked = [t \in Threads |-> 0] /\ served = [t \in Threads |-> 0]
                        /\ Back = [t \in Threads |-> 0]
  /\ Transfers!ioVars = <<Asked, served, Back>>
  /\ \A t \in Threads :
       /\ Transfers!Ask(t) <=> /\ Asked[t] = Back[t] /\ Asked' = [Asked EXCEPT ![t] = @ + 1]
                               /\ served' = served /\ Back' = Back
       /\ Transfers!Serve(t) <=> /\ served[t] < Asked[t] /\ served' = [served EXCEPT ![t] = @ + 1]
                                 /\ Asked' = Asked /\ Back' = Back
       /\ Transfers!Return(t) <=> /\ Back[t] < served[t] /\ Back' = [Back EXCEPT ![t] = @ + 1]
                                  /\ Asked' = Asked /\ served' = served
BY DEF Transfers!Init, Transfers!ioVars, Transfers!Ask, Transfers!Serve, Transfers!Return,
   Asked, Back, Told, Between

LEMMA ToldType ==
  ASSUME TypeOK, ReadTypes, NEW t \in Threads
  PROVE  Told(t) \in Nat /\ MaxOps[t] \in Nat /\ todo[t] \in Nat /\ extra_reads[t] \in Nat
<1>1. MaxOps[t] \in Nat /\ todo[t] \in Nat /\ todo[t] <= MaxOps[t] /\ extra_reads[t] \in Nat
  BY QueueAssumption DEF TypeOK, ReadTypes
<1>. QED  BY <1>1 DEF Told

\* A thread asks for one more transfer.
LEMMA Asks ==
  ASSUME TypeOK, ReadTypes, NEW t \in Threads, UNCHANGED served,
         Between(pc[t], stage[t]), ~BetweenNext(t), ToldNext(t) = Told(t) + 1,
         \A u \in Threads : u # t =>
           ToldNext(u) = Told(u) /\ (BetweenNext(u) <=> Between(pc[u], stage[u]))
  PROVE  Transfers!Next
<1>1. Asked[t] = Told(t) /\ Back[t] = Told(t) /\ Told(t) \in Nat
  BY ToldType DEF Asked, Back
<1>2. Asked' = [Asked EXCEPT ![t] = @ + 1]
  <2>1. \A u \in Threads : ToldNext(u) = IF u = t THEN Told(t) + 1 ELSE Told(u)
    OBVIOUS
  <2>. QED  BY <2>1, AsksNext DEF Asked
<1>3. Back' = Back
  <2>1. \A u \in Threads : (IF BetweenNext(u) THEN ToldNext(u) ELSE ToldNext(u) - 1)
                         = (IF Between(pc[u], stage[u]) THEN Told(u) ELSE Told(u) - 1)
    BY <1>1
  <2>. QED  BY <2>1, AsksNext DEF Back
<1>4. Transfers!Ask(t)
  BY <1>1, <1>2, <1>3, TransfersAre
<1>. QED  BY <1>4 DEF Transfers!Next

\* The SSD makes a transfer of a thread that waits.
LEMMA Serves ==
  ASSUME TypeOK, ReadTypes, ServedInv, NEW t \in Threads, Waits(t), served' = [served EXCEPT ![t] = @ + 1],
         UNCHANGED <<pc, stage, todo, extra_reads>>
  PROVE  Transfers!Next
<1>1. served[t] < Asked[t]
  <2>1. served[t] = Told(t) - Num(Waits(t))
    BY Zenon DEF ServedInv
  <2>2. Num(Waits(t)) = 1
    BY DEF Num
  <2>3. served[t] = Told(t) - 1
    BY <2>1, <2>2
  <2>4. Told(t) \in Nat /\ Asked[t] = Told(t)
    BY ToldType DEF Asked
  <2>. QED  BY <2>3, <2>4
<1>2. Asked' = Asked /\ Back' = Back
  <2>1. \A u \in Threads : ToldNext(u) = Told(u) /\ (BetweenNext(u) <=> Between(pc[u], stage[u]))
    BY DEF ToldNext, Told, BetweenNext
  <2>. QED  BY <2>1, AsksNext DEF Asked, Back
<1>3. Transfers!Serve(t)
  BY <1>1, <1>2, TransfersAre
<1>. QED  BY <1>3 DEF Transfers!Next

\* A thread that has recognised its completion goes on: it was served.
LEMMA Returns ==
  ASSUME TypeOK, ReadTypes, ServedInv, NEW t \in Threads, UNCHANGED <<pc, todo, extra_reads, served>>,
         pc[t] = "poslock", stage[t] \in {"first", "second"}, stage'[t] \in {"load", "stored"},
         \A u \in Threads : u # t => stage'[u] = stage[u]
  PROVE  Transfers!Next
<1>1. Told(t) \in Nat
  BY ToldType
<1>2. served[t] = Told(t)
  <2>1. served[t] = Told(t) - Num(Waits(t))
    BY Zenon DEF ServedInv
  <2>2. Num(Waits(t)) = 0
    BY AskingIs DEF Num, Waits
  <2>. QED  BY <1>1, <2>1, <2>2
<1>3. \A u \in Threads : ToldNext(u) = Told(u)
  BY DEF ToldNext, Told
<1>4. /\ ~Between(pc[t], stage[t]) /\ BetweenNext(t)
      /\ \A u \in Threads : u # t => (BetweenNext(u) <=> Between(pc[u], stage[u]))
  BY DEF BetweenNext, Between
<1>5. Back[t] = Told(t) - 1
  BY <1>4 DEF Back
<1>6. Asked' = Asked
  BY <1>3, AsksNext DEF Asked
<1>7. Back' = [Back EXCEPT ![t] = @ + 1]
  <2>1. \A u \in Threads : (IF BetweenNext(u) THEN ToldNext(u) ELSE ToldNext(u) - 1)
                         = IF u = t THEN Told(t) ELSE Back[u]
    BY <1>3, <1>4 DEF Back
  <2>2. Back[t] + 1 = Told(t)
    BY <1>1, <1>5
  <2>3. Back' = [u \in Threads |-> IF u = t THEN Told(t) ELSE Back[u]]
    BY <2>1, AsksNext
  <2>. QED  BY <2>2, <2>3 DEF Back
<1>8. Transfers!Return(t)
  <2>1. Back[t] < served[t]
    BY <1>1, <1>2, <1>5
  <2>. QED  BY <1>6, <1>7, <2>1, TransfersAre
<1>. QED  BY <1>8 DEF Transfers!Next

LEMMA Stutters ==
  ASSUME UNCHANGED <<served, todo, extra_reads>>,
         \A u \in Threads : BetweenNext(u) <=> Between(pc[u], stage[u])
  PROVE  UNCHANGED Transfers!ioVars
<1>1. \A u \in Threads : ToldNext(u) = Told(u)
  BY DEF ToldNext, Told
<1>2. Asked' = Asked /\ Back' = Back
  BY <1>1, AsksNext DEF Asked, Back
<1>3. Transfers!ioVars' = <<Asked', served', Back'>>
  BY DEF Transfers!ioVars, Asked, Back, Told, Between
<1>. QED  BY <1>2, <1>3, TransfersAre

LEMMA TransfersInit == ReadInit => Transfers!Init
<1> SUFFICES ASSUME ReadInit PROVE Transfers!Init
  OBVIOUS
<1>1. ASSUME NEW t \in Threads  PROVE Told(t) = 0 /\ Between(pc[t], stage[t])
  <2>1. todo[t] = MaxOps[t] /\ extra_reads[t] = 0 /\ MaxOps[t] \in Nat /\ pc[t] = "idle"
    BY QueueAssumption DEF ReadInit, Init
  <2>. QED  BY <2>1 DEF Told, Between
<1>2. served = [t \in Threads |-> 0]
  BY DEF ReadInit, Init
<1>. QED  BY <1>1, <1>2, TransfersAre DEF Asked, Back

LEMMA TransfersStep ==
  ASSUME QueueInv, ReadTypes, StageInv, ServedInv, [ReadNext]_allVars
  PROVE  [Transfers!Next]_Transfers!ioVars
<1>0. /\ TypeOK /\ LockInv /\ pc \in [Threads -> Labels] /\ extra_reads \in [Threads -> Nat]
      /\ stage \in [Threads -> Stages] /\ todo \in [Threads -> Nat]
  BY DEF QueueInv, TypeOK, ReadTypes
<1>i. \A t \in Threads : StageAt(pc[t], stage[t])
  BY DEF StageInv
<1>a. Asking \cap {"idle", "putcid", "poslock"} = {} /\ Dequeuing \cap {"idle", "putcid", "poslock"} = {}
  BY AskingIs
<1>1. CASE UNCHANGED allVars
  <2>1. UNCHANGED <<pc, stage, served, todo, extra_reads>>
    BY <1>1 DEF allVars, vars, ssdVars, idVars, readVars
  <2>. QED  BY <2>1, Stutters DEF BetweenNext
<1>2. CASE Device
  <2>1. UNCHANGED <<stage, extra_reads>>
    BY <1>2 DEF Device, readVars
  <2>2. CASE Fetch
    <3>1. UNCHANGED <<pc, served, todo>>
      BY <2>2 DEF Fetch, idVars
    <3>. QED  BY <2>1, <3>1, Stutters DEF BetweenNext
  <2>3. ASSUME NEW c \in working, Complete(c)  PROVE Transfers!Next
    <3>1. UNCHANGED <<pc, todo>>
      BY <2>3 DEF Complete, idVars
    <3>2. PICK t \in Threads : Waits(t) /\ served' = [served EXCEPT ![t] = @ + 1]
      BY <1>0, <2>1, <2>3, CompleteServed
    <3>. QED  BY <1>0, <2>1, <3>1, <3>2, Serves
  <2>. QED  BY <1>2, <2>2, <2>3 DEF Device, Ssd
<1>3. ASSUME NEW t \in Threads, NEW k \in {"read", "write"}, NEW c \in Cids, Begin(t, k, c)
      PROVE  Transfers!Next
  <2>1. /\ UNCHANGED <<served, stage, extra_reads>> /\ pc[t] = "idle" /\ pc'[t] = "ticket"
        /\ todo' = [todo EXCEPT ![t] = @ - 1] /\ \A u \in Threads : u # t => pc'[u] = pc[u]
    BY <1>0, <1>3 DEF Begin, GetCid, Goto, ssdVars, readVars
  <2>2. stage[t] = "first"
    BY <1>i, <2>1 DEF StageAt
  <2>3. Between(pc[t], stage[t]) /\ ~BetweenNext(t)
    BY <2>1, <2>2 DEF Between, BetweenNext
  <2>4. ToldNext(t) = Told(t) + 1
    BY <1>0, <2>1, ToldType DEF Told, ToldNext
  <2>5. \A u \in Threads : u # t => ToldNext(u) = Told(u) /\ (BetweenNext(u) <=> Between(pc[u], stage[u]))
    BY <1>0, <2>1 DEF Told, ToldNext, BetweenNext
  <2>. QED  BY <1>0, <2>1, <2>3, <2>4, <2>5, Asks
<1>b. ASSUME NEW t \in Threads, UNCHANGED <<served, todo, extra_reads>>,
             \A u \in Threads : u # t => pc'[u] = pc[u] /\ stage'[u] = stage[u],
             BetweenNext(t) <=> Between(pc[t], stage[t])
      PROVE  UNCHANGED Transfers!ioVars
  <2>1. \A u \in Threads : BetweenNext(u) <=> Between(pc[u], stage[u])
    BY <1>b DEF BetweenNext
  <2>. QED  BY <1>b, <2>1, Stutters
<1>4. ASSUME NEW t \in Threads, CopyCommand(t) \/ RingDoorbell(t)  PROVE UNCHANGED Transfers!ioVars
  <2>1. /\ UNCHANGED <<served, todo, extra_reads>> /\ pc[t] \in {"copy", "ring"} /\ pc'[t] \in {"mark", "settail"}
        /\ stage'[t] = stage[t] \/ (stage[t] = "loaded" /\ stage'[t] = "second")
        /\ \A u \in Threads : u # t => pc'[u] = pc[u] /\ stage'[u] = stage[u]
    BY <1>0, <1>4 DEF CopyCommand, Copy, RingDoorbell, RingTail, Goto, ssdVars, idVars, readVars
  <2>2. stage[t] \in {"first", "second", "loaded"}
    BY <1>i, <2>1, AskingIs DEF StageAt
  <2>3. ~Between(pc[t], stage[t]) /\ ~BetweenNext(t)
    BY <2>1, <2>2 DEF Between, BetweenNext
  <2>. QED  BY <1>b, <2>1, <2>3
<1>5. ASSUME NEW t \in Threads, QueueStep(t)  PROVE UNCHANGED Transfers!ioVars
  <2>1. UNCHANGED <<served, todo, extra_reads, stage>> /\ \A u \in Threads : u # t => pc'[u] = pc[u]
    BY <1>0, <1>5, QueueStepKeeps, QueueStepIs
  <2>2. StageAt(pc[t], stage[t])
    BY <1>i
  <2>3. BetweenNext(t) <=> Between(pc[t], stage[t])
    <3>1. CASE pc[t] \in Asking /\ pc[t] # "ring" /\ pc'[t] \in Asking \cup {"poslock"}
      <4>1. stage[t] \in {"first", "second"}
        BY <2>2, <3>1 DEF StageAt
      <4>. QED  BY <1>a, <2>1, <3>1, <4>1 DEF Between, BetweenNext
    <3>2. CASE pc[t] \in Dequeuing \/ (pc[t] = "poslock" /\ stage[t] \in {"counted", "published"})
      <4>1. stage[t] \in {"counted", "published"}
        BY <2>2, <3>2 DEF StageAt
      <4>. QED  BY <2>1, <4>1 DEF Between, BetweenNext
    <3>. QED  BY <1>0, <1>5, <3>1, <3>2, QueueStepIs, AskingIs
  <2>. QED  BY <1>b, <2>1, <2>3
<1>6. ASSUME NEW t \in Threads, LoadTail(t)  PROVE UNCHANGED Transfers!ioVars
  <2>1. /\ UNCHANGED <<served, todo, extra_reads, pc>> /\ pc[t] = "ring" /\ stage[t] = "second"
        /\ stage'[t] = "loaded" /\ \A u \in Threads : u # t => stage'[u] = stage[u]
    BY <1>0, <1>6 DEF LoadTail, SetStage, vars, ssdVars, idVars
  <2>2. ~Between(pc[t], stage[t]) /\ ~BetweenNext(t)
    BY <2>1 DEF Between, BetweenNext
  <2>. QED  BY <1>b, <2>1, <2>2
<1>7. ASSUME NEW t \in Threads, LoadHead(t) \/ StoreQHead(t)  PROVE Transfers!Next
  <2>1. /\ UNCHANGED <<pc, todo, extra_reads, served>> /\ pc[t] = "poslock" /\ stage[t] \in {"first", "second"}
        /\ stage'[t] \in {"load", "stored"} /\ \A u \in Threads : u # t => stage'[u] = stage[u]
    BY <1>0, <1>7 DEF LoadHead, StoreQHead, SetStage, vars, ssdVars, idVars, readVars
  <2>. QED  BY <1>0, <2>1, Returns
<1>8. ASSUME NEW t \in Threads, CountRead(t) \/ UnlockQ(t) \/ LookQHead(t)  PROVE UNCHANGED Transfers!ioVars
  <2>1. /\ UNCHANGED <<served, todo, extra_reads, pc>>
        /\ stage[t] \in {"load", "stored", "counted"}
        /\ stage'[t] \in {"counted", "published"} \/ pc[t] = "putcid"
        /\ \A u \in Threads : u # t => stage'[u] = stage[u]
    BY <1>0, <1>8 DEF CountRead, UnlockQ, LookQHead, SetStage, vars, ssdVars, idVars, readVars
  <2>2. stage[t] = "load" => pc[t] = "poslock"
    BY <1>i DEF StageAt
  <2>3. Between(pc[t], stage[t]) /\ BetweenNext(t)
    BY <2>1, <2>2 DEF Between, BetweenNext
  <2>. QED  BY <1>b, <2>1, <2>3
<1>9. ASSUME NEW t \in Threads, Return(t)  PROVE UNCHANGED Transfers!ioVars
  <2>1. /\ UNCHANGED <<served, todo, extra_reads>> /\ pc[t] = "putcid" /\ pc'[t] = "idle"
        /\ \A u \in Threads : u # t => pc'[u] = pc[u] /\ stage'[u] = stage[u]
    BY <1>0, <1>9 DEF Return, PutCid, SetStage, Goto, ssdVars, readVars
  <2>2. Between(pc[t], stage[t]) /\ BetweenNext(t)
    BY <2>1 DEF Between, BetweenNext
  <2>. QED  BY <1>b, <2>1, <2>2
<1>10. ASSUME NEW t \in Threads, TryQLock(t)  PROVE [Transfers!Next]_Transfers!ioVars
  <2>1. pc[t] = "putcid"
    BY <1>0, <1>10, <1>i, AskingIs DEF TryQLock, StageAt, Labels
  <2>2. UNCHANGED <<served, todo>> /\ \A u \in Threads : u # t => pc'[u] = pc[u] /\ stage'[u] = stage[u]
    BY <1>0, <1>10 DEF TryQLock, SetStage, Goto, vars, ssdVars, idVars
  <2>3. CASE q_lock = 1 /\ UNCHANGED <<pc, extra_reads>>
    <3>1. Between(pc[t], stage[t]) /\ BetweenNext(t)
      BY <2>1, <2>3 DEF Between, BetweenNext
    <3>. QED  BY <1>b, <2>2, <2>3, <3>1
  <2>4. CASE pc'[t] = "ticket" /\ stage'[t] = "second" /\ extra_reads' = [extra_reads EXCEPT ![t] = @ + 1]
    <3>1. Between(pc[t], stage[t]) /\ ~BetweenNext(t)
      BY <2>1, <2>4 DEF Between, BetweenNext
    <3>2. ToldNext(t) = Told(t) + 1
      BY <1>0, <2>2, <2>4, ToldType DEF Told, ToldNext
    <3>3. \A u \in Threads : u # t => ToldNext(u) = Told(u) /\ (BetweenNext(u) <=> Between(pc[u], stage[u]))
      BY <1>0, <2>2, <2>4 DEF Told, ToldNext, BetweenNext
    <3>. QED  BY <1>0, <2>2, <3>1, <3>2, <3>3, Asks
  <2>. QED  BY <1>0, <1>10, <2>3, <2>4 DEF TryQLock, SetStage, Goto, vars
<1>. QED
  BY <1>1, <1>2, <1>3, <1>4, <1>5, <1>6, <1>7, <1>8, <1>9, <1>10 DEF ReadNext, ReadStep

\* First and second reads, and writes, are each made once by the SSD, and a thread goes
\* on only after its own was made.
THEOREM QueueTransfersOnce == ReadSpec /\ []PromptPoll => TransfersOnce
<1>1. ReadInit => ServedInv /\ Transfers!Init
  <2>1. ASSUME ReadInit  PROVE ServedInv
    <3>1. ASSUME NEW t \in Threads  PROVE served[t] = Told(t) - Num(Waits(t))
      <4>1. /\ todo[t] = MaxOps[t] /\ extra_reads[t] = 0 /\ MaxOps[t] \in Nat /\ pc[t] = "idle"
            /\ served[t] = 0
        BY <2>1, QueueAssumption DEF ReadInit, Init
      <4>2. Told(t) = 0 /\ Num(Waits(t)) = 0
        BY <4>1, AskingIs DEF Told, Num, Waits
      <4>. QED  BY <4>1, <4>2
    <3>. QED  BY Zenon, <3>1 DEF ServedInv
  <2>. QED  BY <2>1, TransfersInit
<1>2. QueueInv /\ PromptPoll /\ (ReadTypeOK /\ StageInv) /\ ServedInv /\ [ReadNext]_allVars =>
        ServedInv' /\ [Transfers!Next]_Transfers!ioVars
  BY ReadTypeParts, ServedStep, TransfersStep
<1>. QED
  BY <1>1, <1>2, QueueAlwaysInv, ReadAlwaysTyped, PTL DEF ReadSpec, TransfersOnce, Transfers!Spec
------------------------------------------------------------------------------
(***************************************************************************)
(* A read returns only after a second read that began behind it.  The        *)
(* counters are compared from where the kernel found them, b: they never go  *)
(* round, as there are fewer reads and writes than values of a counter.      *)
(***************************************************************************)

\* The n-th read or write of each thread, and those that have taken a place in the
\* sequence.
Ops == {o \in Threads \X Nat : 1 <= o[2] /\ o[2] <= MaxOps[o[1]]}
DoneAt(l, s, m, td) == IF l # "idle" /\ s \in {"first", "load"} THEN m - td - 1 ELSE m - td
Done(t) == DoneAt(pc[t], stage[t], MaxOps[t], todo[t])
CountedOps == {o \in Ops : o[2] <= Done(o[1])}

\* The kernel's reads and writes do not bring a counter of Wrap values round.
FewOps == IsFiniteSet(Ops) /\ Cardinality(Ops) < Wrap

\* How far counter x has gone from b.
Since(b, x) == IF x >= b THEN x - b ELSE x - b + Wrap

\* From when its place was counted; when it holds q_lock; with a tail loaded for its
\* second read; while it waits for a second read; with one found.
Counts == {"counted", "trying", "second", "loaded", "stored", "published", "done"}
Holds  == {"second", "loaded", "stored"}
Loads(l, s)   == s \in {"second", "loaded"} /\ l \notin {"ticket", "turn", "copy"}
WaitsAt(k, s) == k = "read" /\ s \in Counts \ {"done"}
Found(k, s)   == k = "read" /\ s \in {"stored", "published", "done"}

QLockInv ==
  /\ \A t \in Threads : stage[t] \in Holds => q_lock = 1
  /\ \A t, u \in Threads : stage[t] \in Holds /\ stage[u] \in Holds => t = u
BegunInv == \A t \in Threads : pc[t] # "idle" => todo[t] < MaxOps[t]

\* What a thread has loaded is ordered as it was loaded.
LoadedAt(b, l, s, prev, p, cur, h, n) ==
  /\ s \in Counts \cup {"load"} => Since(b, prev) <= Since(b, h)
  /\ s \in Counts => Since(b, prev) <= Since(b, p) /\ Since(b, p) < Since(b, n)
  /\ Loads(l, s) => /\ Since(b, h) <= Since(b, cur) /\ Since(b, cur) <= Since(b, n)
                    /\ Since(b, p) < Since(b, cur)

\* Places behind the head were followed; those behind a loaded tail will be.
FollowInv(b) ==
  /\ Since(b, q_tail) = Cardinality(CountedOps) /\ Since(b, q_head) <= Since(b, q_tail)
  /\ \A t \in Threads :
       LoadedAt(b, pc[t], stage[t], prev_head[t], pos[t], cur_tail[t], q_head, q_tail)
  /\ \A t \in Threads :
       WaitsAt(kind[t], stage[t]) /\ Since(b, pos[t]) < Since(b, q_head) => t \in followed
  /\ \A t \in Threads : Found(kind[t], stage[t]) => t \in followed
  /\ \A t, u \in Threads :
       WaitsAt(kind[t], stage[t]) /\ Loads(pc[u], stage[u]) /\ Since(b, pos[t]) < Since(b, cur_tail[u]) =>
         t \in behind[u]

LEMMA FollowInvNext ==
  ASSUME NEW b \in 0 .. Wrap - 1,
         Since(b, q_tail') =
           Cardinality({o \in Ops : o[2] <= DoneAt(pc'[o[1]], stage'[o[1]], MaxOps[o[1]], todo'[o[1]])}),
         Since(b, q_head') <= Since(b, q_tail'),
         \A t \in Threads :
           LoadedAt(b, pc'[t], stage'[t], prev_head'[t], pos'[t], cur_tail'[t], q_head', q_tail'),
         \A t \in Threads :
           WaitsAt(kind'[t], stage'[t]) /\ Since(b, pos'[t]) < Since(b, q_head') => t \in followed',
         \A t \in Threads : Found(kind'[t], stage'[t]) => t \in followed',
         \A t, u \in Threads :
           /\ WaitsAt(kind'[t], stage'[t])
           /\ Loads(pc'[u], stage'[u])
           /\ Since(b, pos'[t]) < Since(b, cur_tail'[u])
           => t \in behind'[u]
  PROVE  FollowInv(b)'
<1>1. CountedOps' = {o \in Ops : o[2] <= DoneAt(pc'[o[1]], stage'[o[1]], MaxOps[o[1]], todo'[o[1]])}
  BY DEF CountedOps, Done, DoneAt, Ops
<1>. QED  BY Zenon, <1>1 DEF FollowInv, LoadedAt, WaitsAt, Loads, Found, Since, Counts

LEMMA SinceType ==
  ASSUME NEW b \in 0 .. Wrap - 1, NEW x \in 0 .. Wrap - 1
  PROVE  Since(b, x) \in Nat /\ Since(b, x) < Wrap
BY ReadAssumption DEF Since

LEMMA SinceNext ==
  ASSUME NEW b \in 0 .. Wrap - 1, NEW x \in 0 .. Wrap - 1, Since(b, x) + 1 < Wrap
  PROVE  Since(b, (x + 1) % Wrap) = Since(b, x) + 1
<1>1. Wrap \in Nat \ {0}
  BY ReadAssumption
<1>2. CASE x = Wrap - 1
  <2>1. (x + 1) % Wrap = 0
    BY <1>1, <1>2
  <2>. QED  BY <1>1, <1>2, <2>1 DEF Since
<1>3. CASE x # Wrap - 1
  <2>1. (x + 1) % Wrap = x + 1
    BY <1>1, <1>3
  <2>. QED  BY <1>1, <1>3, <2>1 DEF Since
<1>. QED  BY <1>2, <1>3

\* The three comparisons of enqueue_second tell whether the head has moved past p.
LEMMA PastIs ==
  ASSUME NEW b \in 0 .. Wrap - 1,
         NEW prev \in 0 .. Wrap - 1, NEW p \in 0 .. Wrap - 1, NEW cur \in 0 .. Wrap - 1,
         Since(b, prev) <= Since(b, p), Since(b, prev) <= Since(b, cur)
  PROVE  Past(prev, p, cur) <=> Since(b, p) < Since(b, cur)
BY ReadAssumption DEF Past, Since

\* A step that keeps the places and the tails loaded, of a thread that still needs them.
PlaceKept(u) ==
  /\ stage'[u] \in Counts \cup {"load"} =>
       /\ stage[u] \in Counts \cup {"load"}
       /\ prev_head'[u] = prev_head[u] /\ pos'[u] = pos[u] /\ cur_tail'[u] = cur_tail[u]
  /\ stage'[u] \in Counts => stage[u] \in Counts
  /\ Loads(pc'[u], stage'[u]) => Loads(pc[u], stage[u])
  /\ WaitsAt(kind'[u], stage'[u]) => WaitsAt(kind[u], stage[u])
  /\ DoneAt(pc'[u], stage'[u], MaxOps[u], todo'[u]) = Done(u)

LEMMA FollowKept ==
  ASSUME NEW b \in 0 .. Wrap - 1, FollowInv(b), UNCHANGED <<q_head, q_tail>>,
         \A u \in Threads : PlaceKept(u),
         \A u \in Threads : WaitsAt(kind'[u], stage'[u]) /\ u \in followed => u \in followed',
         \A u \in Threads : Found(kind'[u], stage'[u]) => u \in followed',
         \A u, v \in Threads : WaitsAt(kind'[v], stage'[v]) /\ v \in behind[u] => v \in behind'[u]
  PROVE  FollowInv(b)'
<1>1. CountedOps = {o \in Ops : o[2] <= DoneAt(pc'[o[1]], stage'[o[1]], MaxOps[o[1]], todo'[o[1]])}
  BY DEF CountedOps, PlaceKept, Ops
<1>2. ASSUME NEW t \in Threads
      PROVE  LoadedAt(b, pc'[t], stage'[t], prev_head'[t], pos'[t], cur_tail'[t], q_head', q_tail')
  <2>1. LoadedAt(b, pc[t], stage[t], prev_head[t], pos[t], cur_tail[t], q_head, q_tail)
    BY Zenon DEF FollowInv
  <2>2. PlaceKept(t) /\ (Loads(pc'[t], stage'[t]) => stage'[t] \in Counts)
    BY DEF Loads, Counts
  <2>. QED  BY <2>1, <2>2 DEF LoadedAt, PlaceKept
<1>3. ASSUME NEW t \in Threads, WaitsAt(kind'[t], stage'[t])
      PROVE  WaitsAt(kind[t], stage[t]) /\ pos'[t] = pos[t]
  BY <1>3 DEF PlaceKept, WaitsAt
<1>4. ASSUME NEW u \in Threads, Loads(pc'[u], stage'[u])
      PROVE  Loads(pc[u], stage[u]) /\ cur_tail'[u] = cur_tail[u]
  BY <1>4 DEF PlaceKept, Loads, Counts
<1>5. \A t \in Threads :
        WaitsAt(kind'[t], stage'[t]) /\ Since(b, pos'[t]) < Since(b, q_head') => t \in followed'
  BY <1>3 DEF FollowInv
<1>6. \A t, u \in Threads :
        /\ WaitsAt(kind'[t], stage'[t])
        /\ Loads(pc'[u], stage'[u])
        /\ Since(b, pos'[t]) < Since(b, cur_tail'[u])
        => t \in behind'[u]
  BY <1>3, <1>4 DEF FollowInv
<1>7. /\ Since(b, q_tail') =
           Cardinality({o \in Ops : o[2] <= DoneAt(pc'[o[1]], stage'[o[1]], MaxOps[o[1]], todo'[o[1]])})
      /\ Since(b, q_head') <= Since(b, q_tail')
  BY Zenon, <1>1 DEF FollowInv
<1>. QED  BY <1>2, <1>5, <1>6, <1>7, FollowInvNext

\* QueueStep does not go back to before the copy, and begins none.
LEMMA EarlySteps ==
  ASSUME TypeOK, NEW t \in Threads, QueueStep(t)
  PROVE  /\ pc[t] # "idle" /\ pc'[t] # "idle"
         /\ pc'[t] \notin {"ticket", "turn", "copy"} => pc[t] \notin {"ticket", "turn", "copy"}
<1>0. pc \in [Threads -> Labels]
  BY DEF TypeOK
<1>1. CASE TakeTicket(t) \/ AwaitTurn(t) \/ MarkTail(t) \/ LookTail(t) \/ Leave(t)
  BY <1>0, <1>1 DEF TakeTicket, AwaitTurn, MarkTail, LookTail, Leave, Goto
<1>2. CASE TryTail(t) \/ MoveTail(t) \/ StoreTail(t) \/ UnlockTail(t)
  BY <1>0, <1>2 DEF TryTail, MoveTail, StoreTail, UnlockTail, Goto
<1>3. CASE Poll(t) \/ Entry(t) \/ PosLock(t) \/ MarkHead(t) \/ LookHead(t) \/ AwaitHead(t) \/ PosFree(t)
  BY <1>0, <1>3 DEF Poll, Entry, PosLock, MarkHead, LookHead, AwaitHead, PosFree, Goto
<1>4. CASE TryHead(t) \/ MoveHead(t) \/ ReadSqHead(t) \/ Free(t)
  BY <1>0, <1>4 DEF TryHead, MoveHead, ReadSqHead, Free, Goto
<1>5. CASE MoveSqHead(t) \/ RingHead(t) \/ StoreHead(t) \/ UnlockHead(t)
  BY <1>0, <1>5 DEF MoveSqHead, RingHead, StoreHead, UnlockHead, Goto
<1>. QED  BY <1>1, <1>2, <1>3, <1>4, <1>5 DEF QueueStep

\* Where a thread counts its place, its read has begun.
LEMMA BegunStep ==
  ASSUME TypeOK, StageInv, BegunInv, [ReadNext]_allVars  PROVE BegunInv'
<1>0. pc \in [Threads -> Labels] /\ todo \in [Threads -> Nat] /\ MaxOps \in [Threads -> Nat]
      /\ \A t \in Threads : todo[t] <= MaxOps[t]
  BY QueueAssumption DEF TypeOK
<1>i. \A t \in Threads : pc[t] # "idle" => todo[t] < MaxOps[t]
  BY DEF BegunInv
<1>s. ASSUME todo' = todo, \A u \in Threads : pc'[u] # "idle" => pc[u] # "idle"  PROVE BegunInv'
  BY <1>i, <1>s DEF BegunInv
<1>1. CASE UNCHANGED allVars
  BY <1>1, <1>s DEF allVars, vars, idVars
<1>2. CASE Device
  <2>1. todo' = todo /\ pc' = pc
    BY <1>2 DEF Device, Ssd, Fetch, Complete, idVars
  <2>. QED  BY <1>s, <2>1
<1>3. ASSUME NEW t \in Threads, \E k \in {"read", "write"}, c \in Cids : Begin(t, k, c)  PROVE BegunInv'
  <2>1. /\ pc' = [pc EXCEPT ![t] = "ticket"] /\ todo' = [todo EXCEPT ![t] = @ - 1] /\ todo[t] > 0
    BY <1>3 DEF Begin, GetCid, Goto
  <2>2. ASSUME NEW u \in Threads, pc'[u] # "idle"  PROVE todo'[u] < MaxOps[u]
    BY <1>0, <1>i, <2>1, <2>2
  <2>. QED  BY <2>2 DEF BegunInv
<1>4. ASSUME NEW t \in Threads, CopyCommand(t) \/ RingDoorbell(t) \/ Return(t)  PROVE BegunInv'
  <2>1. todo' = todo
    BY <1>4 DEF CopyCommand, RingDoorbell, Return, Copy, RingTail, PutCid, idVars
  <2>2. \A u \in Threads : pc'[u] # "idle" => pc[u] # "idle"
    BY <1>0, <1>4 DEF CopyCommand, RingDoorbell, Return, Copy, RingTail, PutCid, Goto
  <2>. QED  BY <1>s, <2>1, <2>2
<1>5. ASSUME NEW t \in Threads, QueueStep(t)  PROVE BegunInv'
  BY <1>s, <1>5, QueueStepKeeps, QueueStepIs, EarlySteps
<1>6. ASSUME NEW t \in Threads,
             LoadTail(t) \/ LoadHead(t) \/ CountRead(t) \/ LookQHead(t) \/ StoreQHead(t) \/ UnlockQ(t)
      PROVE  BegunInv'
  <2>1. UNCHANGED vars
    BY <1>6 DEF LoadTail, LoadHead, CountRead, LookQHead, StoreQHead, UnlockQ
  <2>. QED  BY <1>s, <2>1 DEF vars, idVars
<1>7. ASSUME NEW t \in Threads, TryQLock(t)  PROVE BegunInv'
  <2>1. stage[t] = "trying" => pc[t] = "putcid"
    BY <1>0, AskingIs DEF StageInv, StageAt, Labels
  <2>2. todo' = todo /\ (pc' = pc \/ pc' = [pc EXCEPT ![t] = "ticket"]) /\ stage[t] = "trying"
    BY <1>7 DEF TryQLock, vars, idVars, Goto
  <2>. QED  BY <1>0, <1>s, <2>1, <2>2
<1>. QED
  BY <1>1, <1>2, <1>3, <1>4, <1>5, <1>6, <1>7 DEF ReadNext, ReadStep

LEMMA QLockStep ==
  ASSUME ReadTypes, QLockInv, [ReadNext]_allVars  PROVE QLockInv'
<1>0. stage \in [Threads -> Stages]
  BY DEF ReadTypes
<1>i. /\ \A t \in Threads : stage[t] \in Holds => q_lock = 1
      /\ \A t, u \in Threads : stage[t] \in Holds /\ stage[u] \in Holds => t = u
  BY DEF QLockInv
<1>s. ASSUME q_lock' = q_lock, \A u \in Threads : stage'[u] \in Holds => stage[u] \in Holds  PROVE QLockInv'
  <2>1. \A u \in Threads : stage'[u] \in Holds => q_lock' = 1
    BY <1>i, <1>s
  <2>2. \A u, v \in Threads : stage'[u] \in Holds /\ stage'[v] \in Holds => u = v
    BY <1>i, <1>s
  <2>. QED  BY <2>1, <2>2 DEF QLockInv, Holds
<1>1. CASE UNCHANGED allVars \/ Device
  <2>1. q_lock' = q_lock /\ stage' = stage
    BY <1>1 DEF allVars, seqVars, Device
  <2>. QED  BY <1>s, <2>1
<1>2. ASSUME NEW t \in Threads,
             \/ \E k \in {"read", "write"}, c \in Cids : Begin(t, k, c)
             \/ CopyCommand(t) \/ QueueStep(t)
      PROVE  QLockInv'
  <2>1. q_lock' = q_lock /\ stage' = stage
    BY <1>2 DEF Begin, CopyCommand, QueueStep, seqVars
  <2>. QED  BY <1>s, <2>1
<1>3. ASSUME NEW t \in Threads,
             LoadTail(t) \/ RingDoorbell(t) \/ LoadHead(t) \/ CountRead(t) \/ LookQHead(t) \/ StoreQHead(t)
             \/ Return(t)
      PROVE  QLockInv'
  <2>1. q_lock' = q_lock
    BY <1>3 DEF LoadTail, RingDoorbell, LoadHead, CountRead, LookQHead, StoreQHead, Return, seqVars
  <2>2. CASE LoadTail(t) \/ RingDoorbell(t) \/ LoadHead(t) \/ CountRead(t)
    <3>1. \A u \in Threads : stage'[u] \in Holds => stage[u] \in Holds
      BY <1>0, <2>2 DEF LoadTail, RingDoorbell, LoadHead, CountRead, SetStage, Holds
    <3>. QED  BY <1>s, <2>1, <3>1
  <2>3. CASE LookQHead(t) \/ StoreQHead(t) \/ Return(t)
    <3>1. \A u \in Threads : stage'[u] \in Holds => stage[u] \in Holds
      BY <1>0, <2>3 DEF LookQHead, StoreQHead, Return, SetStage, Holds
    <3>. QED  BY <1>s, <2>1, <3>1
  <2>. QED  BY <1>3, <2>2, <2>3
<1>4. ASSUME NEW t \in Threads, TryQLock(t)  PROVE QLockInv'
  <2>1. CASE q_lock' = q_lock /\ stage' = [stage EXCEPT ![t] = "counted"]
    <3>1. \A u \in Threads : stage'[u] \in Holds => stage[u] \in Holds
      BY <1>0, <2>1 DEF Holds
    <3>. QED  BY <1>s, <2>1, <3>1
  <2>2. CASE q_lock = 0 /\ q_lock' = 1 /\ stage' = [stage EXCEPT ![t] = "second"]
    <3>1. \A u \in Threads : stage[u] \notin Holds
      BY <1>i, <2>2
    <3>2. \A u \in Threads : stage'[u] \in Holds => u = t
      BY <1>0, <2>2, <3>1
    <3>. QED  BY <2>2, <3>2 DEF QLockInv, Holds
  <2>. QED  BY <1>4, <2>1, <2>2 DEF TryQLock, SetStage
<1>5. ASSUME NEW t \in Threads, UnlockQ(t)  PROVE QLockInv'
  <2>1. stage[t] = "stored" /\ stage' = [stage EXCEPT ![t] = "published"]
    BY <1>5 DEF UnlockQ, SetStage
  <2>2. \A u \in Threads : stage'[u] \notin Holds
    BY <1>0, <1>i, <2>1 DEF Holds
  <2>. QED  BY <2>2 DEF QLockInv, Holds
<1>. QED
  BY <1>1, <1>2, <1>3, <1>4, <1>5 DEF ReadNext, ReadStep

\* Most steps keep every place and tail loaded, and what was followed.
LEMMA QuietFollow ==
  ASSUME TypeOK, ReadTypes, StageInv, NEW b \in 0 .. Wrap - 1, FollowInv(b), NEW t \in Threads,
         \/ \E k \in {"read", "write"}, c \in Cids : Begin(t, k, c)
         \/ RingDoorbell(t) \/ QueueStep(t) \/ LookQHead(t) \/ TryQLock(t) \/ UnlockQ(t) \/ Return(t)
  PROVE  FollowInv(b)'
<1>0. /\ pc \in [Threads -> Labels] /\ stage \in [Threads -> Stages] /\ todo \in [Threads -> Nat]
      /\ kind \in [Threads -> {"read", "write"}] /\ MaxOps \in [Threads -> Nat]
      /\ prev_head \in [Threads -> 0 .. Wrap - 1] /\ pos \in [Threads -> 0 .. Wrap - 1]
      /\ cur_tail \in [Threads -> 0 .. Wrap - 1]
      /\ behind \in [Threads -> SUBSET Threads] /\ followed \in SUBSET Threads
  BY QueueAssumption DEF TypeOK, ReadTypes
<1>i. StageAt(pc[t], stage[t])
  BY DEF StageInv
<1>f. \A u \in Threads : Found(kind[u], stage[u]) => u \in followed
  BY Zenon DEF FollowInv
<1>s. ASSUME UNCHANGED <<q_head, q_tail, kind, followed, behind, todo>>,
             \A u \in Threads : u # t => PlaceKept(u) /\ stage'[u] = stage[u],
             PlaceKept(t), Found(kind[t], stage'[t]) => t \in followed
      PROVE  FollowInv(b)'
  <2>1. \A u \in Threads : PlaceKept(u)
    BY <1>s
  <2>2. \A u \in Threads : Found(kind'[u], stage'[u]) => u \in followed'
    BY <1>s, <1>f
  <2>. QED  BY <1>s, <2>1, <2>2, FollowKept
<1>1. CASE \E k \in {"read", "write"}, c \in Cids : Begin(t, k, c)
  <2>1. PICK k \in {"read", "write"}, c \in Cids : Begin(t, k, c)
    BY <1>1
  <2>2. /\ pc[t] = "idle" /\ pc' = [pc EXCEPT ![t] = "ticket"]
        /\ todo' = [todo EXCEPT ![t] = @ - 1] /\ kind' = [kind EXCEPT ![t] = k]
        /\ followed' = followed \ {t} /\ behind' = [u \in Threads |-> behind[u] \ {t}]
        /\ UNCHANGED <<q_head, q_tail, stage, prev_head, pos, cur_tail>>
    BY <2>1 DEF Begin, GetCid, Goto, seqVars, readVars
  <2>3. stage[t] = "first"
    BY <1>i, <2>2 DEF StageAt
  <2>4. \A u \in Threads : u # t => PlaceKept(u)
    BY <1>0, <2>2 DEF PlaceKept, Done
  <2>5. PlaceKept(t)
    <3>1. DoneAt(pc'[t], stage'[t], MaxOps[t], todo'[t]) = Done(t)
      BY <1>0, <2>2, <2>3 DEF DoneAt, Done
    <3>. QED  BY <2>2, <2>3, <3>1 DEF PlaceKept, Loads, WaitsAt, Counts
  <2>6. ASSUME NEW u \in Threads, WaitsAt(kind'[u], stage'[u]) \/ Found(kind'[u], stage'[u])
        PROVE  u # t /\ (u \in followed => u \in followed') /\ kind'[u] = kind[u] /\ stage'[u] = stage[u]
    BY <1>0, <2>2, <2>3, <2>6 DEF WaitsAt, Found, Counts
  <2>7. \A u \in Threads : Found(kind'[u], stage'[u]) => u \in followed'
    BY <2>6, <1>f
  <2>8. \A u, v \in Threads : WaitsAt(kind'[v], stage'[v]) /\ v \in behind[u] => v \in behind'[u]
    BY <2>2, <2>6
  <2>9. \A u \in Threads : PlaceKept(u)
    BY <2>4, <2>5
  <2>. QED  BY <2>2, <2>6, <2>7, <2>8, <2>9, FollowKept
<1>2. CASE RingDoorbell(t)
  <2>1. /\ pc[t] = "ring" /\ pc' = [pc EXCEPT ![t] = "settail"] /\ stage[t] # "second"
        /\ stage' = IF stage[t] = "loaded" THEN [stage EXCEPT ![t] = "second"] ELSE stage
        /\ UNCHANGED <<q_head, q_tail, kind, followed, behind, todo, prev_head, pos, cur_tail>>
    BY <1>2 DEF RingDoorbell, RingTail, Goto, seqVars, readVars, historyVars, idVars
  <2>2. \A u \in Threads : u # t => PlaceKept(u) /\ stage'[u] = stage[u]
    BY <1>0, <2>1 DEF PlaceKept, Done
  <2>3. PlaceKept(t) /\ (Found(kind[t], stage'[t]) => t \in followed)
    <3>1. stage'[t] = IF stage[t] = "loaded" THEN "second" ELSE stage[t]
      BY <1>0, <2>1
    <3>2. pc'[t] = "settail"
      BY <1>0, <2>1
    <3>. QED
      BY <1>f, <2>1, <3>1, <3>2 DEF PlaceKept, Done, DoneAt, Loads, WaitsAt, Found, Counts
  <2>. QED  BY <1>s, <2>1, <2>2, <2>3
<1>3. CASE QueueStep(t)
  <2>1. /\ UNCHANGED <<q_head, q_tail, kind, stage, followed, behind, prev_head, pos, cur_tail, todo>>
        /\ \A u \in Threads : u # t => pc'[u] = pc[u]
    BY <1>3, QueueStepKeeps, QueueStepIs DEF QueueStep, seqVars, readVars, historyVars
  <2>2. \A u \in Threads : u # t => PlaceKept(u) /\ stage'[u] = stage[u]
    BY <2>1 DEF PlaceKept, Done
  <2>3. PlaceKept(t)
    BY <1>3, <2>1, EarlySteps DEF PlaceKept, Done, DoneAt, Loads
  <2>. QED  BY <1>s, <1>f, <2>1, <2>2, <2>3
<1>4. CASE LookQHead(t)
  <2>1. /\ pc[t] = "putcid" /\ stage[t] = "counted" /\ kind[t] = "read"
        /\ stage' = [stage EXCEPT ![t] = IF Past(prev_head[t], pos[t], q_head) THEN "done" ELSE "trying"]
        /\ UNCHANGED <<q_head, q_tail, kind, followed, behind, todo, prev_head, pos, cur_tail, pc>>
    BY <1>4 DEF LookQHead, SetStage, vars, seqVars, readVars, historyVars, idVars
  <2>2. \A u \in Threads : u # t => PlaceKept(u) /\ stage'[u] = stage[u]
    BY <1>0, <2>1 DEF PlaceKept, Done
  <2>3. stage'[t] = IF Past(prev_head[t], pos[t], q_head) THEN "done" ELSE "trying"
    BY <1>0, <2>1
  <2>4. PlaceKept(t)
    BY <2>1, <2>3 DEF PlaceKept, Done, DoneAt, Loads, WaitsAt, Counts
  <2>5. stage'[t] = "done" => t \in followed
    <3>1. LoadedAt(b, pc[t], stage[t], prev_head[t], pos[t], cur_tail[t], q_head, q_tail)
      BY Zenon DEF FollowInv
    <3>2. Since(b, prev_head[t]) <= Since(b, q_head) /\ Since(b, prev_head[t]) <= Since(b, pos[t])
      BY <2>1, <3>1 DEF LoadedAt, Counts
    <3>3. q_head \in 0 .. Wrap - 1 /\ prev_head[t] \in 0 .. Wrap - 1 /\ pos[t] \in 0 .. Wrap - 1
      BY <1>0 DEF ReadTypes
    <3>4. stage'[t] = "done" => Since(b, pos[t]) < Since(b, q_head)
      BY <2>3, <3>2, <3>3, PastIs
    <3>5. WaitsAt(kind[t], stage[t])
      BY <2>1 DEF WaitsAt, Counts
    <3>. QED  BY <3>4, <3>5 DEF FollowInv
  <2>6. Found(kind[t], stage'[t]) => t \in followed
    BY <2>3, <2>5 DEF Found
  <2>. QED  BY <1>s, <2>1, <2>2, <2>4, <2>6
<1>5. CASE TryQLock(t)
  <2>0. stage[t] = "trying" /\ pc[t] = "putcid"
    BY <1>0, <1>5, <1>i, AskingIs DEF TryQLock, StageAt, Labels
  <2>1. /\ UNCHANGED <<q_head, q_tail, kind, followed, behind, todo, prev_head, pos, cur_tail>>
        /\ \/ pc' = pc /\ stage' = [stage EXCEPT ![t] = "counted"]
           \/ pc' = [pc EXCEPT ![t] = "ticket"] /\ stage' = [stage EXCEPT ![t] = "second"]
    BY <1>5 DEF TryQLock, SetStage, Goto, vars, historyVars, idVars
  <2>2. \A u \in Threads : u # t => PlaceKept(u) /\ stage'[u] = stage[u]
    BY <1>0, <2>1 DEF PlaceKept, Done
  <2>3. \/ pc'[t] = "putcid" /\ stage'[t] = "counted"
        \/ pc'[t] = "ticket" /\ stage'[t] = "second"
    BY <1>0, <2>0, <2>1
  <2>4. PlaceKept(t) /\ ~Found(kind[t], stage'[t])
    BY <2>0, <2>1, <2>3 DEF PlaceKept, Done, DoneAt, Loads, WaitsAt, Found, Counts
  <2>. QED  BY <1>s, <2>1, <2>2, <2>4
<1>6. CASE UnlockQ(t)
  <2>1. /\ stage[t] = "stored" /\ stage' = [stage EXCEPT ![t] = "published"]
        /\ UNCHANGED <<q_head, q_tail, kind, followed, behind, todo, prev_head, pos, cur_tail, pc>>
    BY <1>6 DEF UnlockQ, SetStage, vars, readVars, historyVars, idVars
  <2>2. \A u \in Threads : u # t => PlaceKept(u) /\ stage'[u] = stage[u]
    BY <1>0, <2>1 DEF PlaceKept, Done
  <2>3. stage'[t] = "published"
    BY <1>0, <2>1
  <2>4. PlaceKept(t) /\ (Found(kind[t], stage'[t]) => t \in followed)
    BY <1>f, <2>1, <2>3 DEF PlaceKept, Done, DoneAt, Loads, WaitsAt, Found, Counts
  <2>. QED  BY <1>s, <2>1, <2>2, <2>4
<1>7. CASE Return(t)
  <2>1. /\ pc[t] = "putcid" /\ pc' = [pc EXCEPT ![t] = "idle"]
        /\ stage[t] \in {"done", "published", "counted"} /\ stage' = [stage EXCEPT ![t] = "first"]
        /\ prev_head' = [prev_head EXCEPT ![t] = 0] /\ pos' = [pos EXCEPT ![t] = 0]
        /\ cur_tail' = [cur_tail EXCEPT ![t] = 0]
        /\ UNCHANGED <<q_head, q_tail, kind, followed, behind, todo>>
    BY <1>7 DEF Return, PutCid, SetStage, Goto, seqVars, historyVars
  <2>2. \A u \in Threads : u # t => PlaceKept(u) /\ stage'[u] = stage[u]
    BY <1>0, <2>1 DEF PlaceKept, Done
  <2>3. stage'[t] = "first" /\ pc'[t] = "idle"
    BY <1>0, <2>1
  <2>4. PlaceKept(t) /\ ~Found(kind[t], stage'[t])
    BY <2>1, <2>3 DEF PlaceKept, Done, DoneAt, Loads, WaitsAt, Found, Counts
  <2>. QED  BY <1>s, <2>1, <2>2, <2>4
<1>. QED  BY <1>1, <1>2, <1>3, <1>4, <1>5, <1>6, <1>7

\* A thread loads the tail for its second read: every read that waits has its place
\* before it.
LEMMA LoadFollow ==
  ASSUME ReadTypes, NEW b \in 0 .. Wrap - 1, FollowInv(b), NEW t \in Threads,
         stage[t] = "second", stage'[t] \in {"second", "loaded"},
         \A u \in Threads : u # t => pc'[u] = pc[u] /\ stage'[u] = stage[u],
         cur_tail' = [cur_tail EXCEPT ![t] = q_tail], behind' = [behind EXCEPT ![t] = Waiting],
         UNCHANGED <<q_head, q_tail, kind, followed, todo, prev_head, pos>>
  PROVE  FollowInv(b)'
<1>0. /\ cur_tail \in [Threads -> 0 .. Wrap - 1] /\ behind \in [Threads -> SUBSET Threads]
      /\ q_tail \in 0 .. Wrap - 1 /\ q_head \in 0 .. Wrap - 1
  BY DEF ReadTypes
<1>i. /\ Since(b, q_tail) = Cardinality(CountedOps) /\ Since(b, q_head) <= Since(b, q_tail)
      /\ \A u \in Threads :
           LoadedAt(b, pc[u], stage[u], prev_head[u], pos[u], cur_tail[u], q_head, q_tail)
  BY Zenon DEF FollowInv
<1>1. /\ cur_tail'[t] = q_tail /\ \A u \in Threads : u # t => cur_tail'[u] = cur_tail[u]
      /\ behind'[t] = Waiting /\ \A u \in Threads : u # t => behind'[u] = behind[u]
  BY <1>0
<1>2. \A u \in Threads : DoneAt(pc'[u], stage'[u], MaxOps[u], todo'[u]) = Done(u)
  <2>1. DoneAt(pc'[t], stage'[t], MaxOps[t], todo'[t]) = Done(t)
    BY DEF DoneAt, Done
  <2>. QED  BY <2>1 DEF Done
<1>3. CountedOps = {o \in Ops : o[2] <= DoneAt(pc'[o[1]], stage'[o[1]], MaxOps[o[1]], todo'[o[1]])}
  BY <1>2 DEF CountedOps, Ops
<1>4. ASSUME NEW u \in Threads
      PROVE  LoadedAt(b, pc'[u], stage'[u], prev_head'[u], pos'[u], cur_tail'[u], q_head', q_tail')
  <2>1. CASE u # t
    BY <1>i, <1>1, <2>1
  <2>2. CASE u = t
    <3>1. LoadedAt(b, pc[t], stage[t], prev_head[t], pos[t], cur_tail[t], q_head, q_tail)
      BY <1>i
    <3>2. Since(b, q_tail) \in Nat
      BY <1>0, SinceType
    <3>. QED  BY <1>i, <1>1, <2>2, <3>1, <3>2 DEF LoadedAt, Counts
  <2>. QED  BY <2>1, <2>2
<1>5. \A u \in Threads : WaitsAt(kind'[u], stage'[u]) => WaitsAt(kind[u], stage[u])
  BY DEF WaitsAt, Counts
<1>6. \A u \in Threads :
        WaitsAt(kind'[u], stage'[u]) /\ Since(b, pos'[u]) < Since(b, q_head') => u \in followed'
  BY <1>5 DEF FollowInv
<1>7. \A u \in Threads : Found(kind'[u], stage'[u]) => u \in followed'
  <2>1. \A u \in Threads : Found(kind'[u], stage'[u]) => Found(kind[u], stage[u])
    BY DEF Found
  <2>. QED  BY <2>1 DEF FollowInv
<1>8. ASSUME NEW u \in Threads, NEW w \in Threads, WaitsAt(kind'[u], stage'[u]),
             Loads(pc'[w], stage'[w]), Since(b, pos'[u]) < Since(b, cur_tail'[w])
      PROVE  u \in behind'[w]
  <2>1. CASE w = t
    <3>1. u \in Waiting
      BY <1>5, <1>8 DEF Waiting, WaitsAt, Counts, Stages
    <3>. QED  BY <1>1, <2>1, <3>1
  <2>2. CASE w # t
    BY <1>1, <1>5, <1>8, <2>2 DEF FollowInv
  <2>. QED  BY <2>1, <2>2
<1>. QED  BY <1>i, <1>3, <1>4, <1>6, <1>7, <1>8, FollowInvNext

\* A read or write looks at the head before it takes its place.
LEMMA HeadFollow ==
  ASSUME TypeOK, ReadTypes, NEW b \in 0 .. Wrap - 1, FollowInv(b), NEW t \in Threads, LoadHead(t)
  PROVE  FollowInv(b)'
<1>0. /\ stage \in [Threads -> Stages] /\ prev_head \in [Threads -> 0 .. Wrap - 1]
      /\ q_head \in 0 .. Wrap - 1
  BY DEF ReadTypes
<1>1. /\ pc[t] = "poslock" /\ stage[t] = "first" /\ stage'[t] = "load" /\ prev_head'[t] = q_head
      /\ \A u \in Threads : u # t => stage'[u] = stage[u] /\ prev_head'[u] = prev_head[u]
      /\ UNCHANGED <<q_head, q_tail, kind, followed, behind, todo, pos, cur_tail, pc>>
  BY <1>0 DEF LoadHead, SetStage, vars, seqVars, historyVars, idVars
<1>i. /\ Since(b, q_tail) = Cardinality(CountedOps) /\ Since(b, q_head) <= Since(b, q_tail)
      /\ \A u \in Threads :
           LoadedAt(b, pc[u], stage[u], prev_head[u], pos[u], cur_tail[u], q_head, q_tail)
  BY Zenon DEF FollowInv
<1>2. \A u \in Threads : DoneAt(pc'[u], stage'[u], MaxOps[u], todo'[u]) = Done(u)
  <2>1. DoneAt(pc'[t], stage'[t], MaxOps[t], todo'[t]) = Done(t)
    BY <1>1 DEF DoneAt, Done
  <2>. QED  BY <1>1, <2>1 DEF Done
<1>3. CountedOps = {o \in Ops : o[2] <= DoneAt(pc'[o[1]], stage'[o[1]], MaxOps[o[1]], todo'[o[1]])}
  BY <1>2 DEF CountedOps, Ops
<1>4. ASSUME NEW u \in Threads
      PROVE  LoadedAt(b, pc'[u], stage'[u], prev_head'[u], pos'[u], cur_tail'[u], q_head', q_tail')
  <2>1. CASE u # t
    BY <1>i, <1>1, <2>1
  <2>2. CASE u = t
    <3>1. Since(b, q_head) \in Nat
      BY <1>0, SinceType
    <3>. QED  BY <1>1, <2>2, <3>1 DEF LoadedAt, Counts, Loads
  <2>. QED  BY <2>1, <2>2
<1>5. \A u \in Threads : /\ WaitsAt(kind'[u], stage'[u]) => WaitsAt(kind[u], stage[u])
                         /\ Found(kind'[u], stage'[u]) => Found(kind[u], stage[u])
                         /\ Loads(pc'[u], stage'[u]) => Loads(pc[u], stage[u])
  BY <1>1 DEF WaitsAt, Found, Loads, Counts
<1>6. /\ \A u \in Threads :
           WaitsAt(kind'[u], stage'[u]) /\ Since(b, pos'[u]) < Since(b, q_head') => u \in followed'
      /\ \A u \in Threads : Found(kind'[u], stage'[u]) => u \in followed'
      /\ \A u, w \in Threads :
           /\ WaitsAt(kind'[u], stage'[u])
           /\ Loads(pc'[w], stage'[w])
           /\ Since(b, pos'[u]) < Since(b, cur_tail'[w])
           => u \in behind'[w]
  BY <1>1, <1>5 DEF FollowInv
<1>. QED  BY <1>i, <1>1, <1>3, <1>4, <1>6, FollowInvNext

\* Counting one more of the kernel's reads and writes.
LEMMA OneCounted ==
  ASSUME FewOps, NEW t \in Threads, Done(t) \in Nat, Done(t) + 1 <= MaxOps[t],
         \A u \in Threads : DoneAt(pc'[u], stage'[u], MaxOps[u], todo'[u]) = IF u = t THEN Done(t) + 1 ELSE Done(u)
  PROVE  LET NextCounted == {o \in Ops : o[2] <= DoneAt(pc'[o[1]], stage'[o[1]], MaxOps[o[1]], todo'[o[1]])}
         IN  Cardinality(NextCounted) = Cardinality(CountedOps) + 1 /\ Cardinality(NextCounted) < Wrap
<1> DEFINE NextCounted == {o \in Ops : o[2] <= DoneAt(pc'[o[1]], stage'[o[1]], MaxOps[o[1]], todo'[o[1]])}
           o == <<t, Done(t) + 1>>
<1>1. o \in Ops /\ o \notin CountedOps
  BY DEF Ops, CountedOps
<1>2. NextCounted = CountedOps \cup {o}
  <2>1. ASSUME NEW x \in Ops  PROVE x \in NextCounted <=> x \in CountedOps \/ x = o
    <3>1. x = <<x[1], x[2]>> /\ x[1] \in Threads /\ x[2] \in Nat
      BY DEF Ops
    <3>2. x \in NextCounted <=> x[2] <= IF x[1] = t THEN Done(t) + 1 ELSE Done(x[1])
      BY <3>1
    <3>3. x \in CountedOps <=> x[2] <= Done(x[1])
      BY DEF CountedOps
    <3>4. CASE x[1] = t
      <4>1. x[2] <= Done(t) + 1 <=> x[2] <= Done(t) \/ x[2] = Done(t) + 1
        BY <3>1
      <4>. QED  BY <3>1, <3>2, <3>3, <3>4, <4>1
    <3>5. CASE x[1] # t
      BY <3>1, <3>2, <3>3, <3>5
    <3>. QED  BY <3>4, <3>5
  <2>. QED  BY <1>1, <2>1 DEF CountedOps
<1>3. IsFiniteSet(CountedOps) /\ NextCounted \in SUBSET Ops
  <2>1. CountedOps \in SUBSET Ops
    BY DEF CountedOps
  <2>. QED  BY <2>1, FS_Subset DEF FewOps
<1>4. Cardinality(NextCounted) = Cardinality(CountedOps) + 1
  BY <1>1, <1>2, <1>3, FS_AddElement
<1>5. Cardinality(NextCounted) <= Cardinality(Ops) /\ Cardinality(NextCounted) \in Nat /\ Cardinality(Ops) \in Nat
  BY <1>3, FS_Subset, FS_CardinalityType DEF FewOps
<1>6. Cardinality(NextCounted) < Wrap
  BY <1>5, ReadAssumption DEF FewOps
<1>. QED  BY <1>4, <1>6

\* A read or write takes its place and moves the tail.
LEMMA CountFollow ==
  ASSUME FewOps, TypeOK, ReadTypes, StageInv, BegunInv, NEW b \in 0 .. Wrap - 1, FollowInv(b),
         NEW t \in Threads, CountRead(t)
  PROVE  FollowInv(b)'
<1>0. /\ stage \in [Threads -> Stages] /\ pos \in [Threads -> 0 .. Wrap - 1]
      /\ q_head \in 0 .. Wrap - 1 /\ q_tail \in 0 .. Wrap - 1 /\ pc \in [Threads -> Labels]
      /\ \A u \in Threads : prev_head[u] \in 0 .. Wrap - 1 /\ pos[u] \in 0 .. Wrap - 1 /\ cur_tail[u] \in 0 .. Wrap - 1
      /\ todo[t] \in Nat /\ MaxOps[t] \in Nat
  BY QueueAssumption DEF TypeOK, ReadTypes
<1>1. /\ stage[t] = "load" /\ stage'[t] = "counted" /\ pos'[t] = q_tail
      /\ \A u \in Threads : u # t => stage'[u] = stage[u] /\ pos'[u] = pos[u]
      /\ q_tail' = (q_tail + 1) % Wrap
      /\ UNCHANGED <<q_head, kind, followed, behind, todo, prev_head, cur_tail, pc>>
  BY <1>0 DEF CountRead, SetStage, vars, historyVars, idVars
<1>2. pc[t] = "poslock" /\ todo[t] < MaxOps[t]
  BY <1>0, <1>1, AskingIs DEF StageInv, StageAt, Labels, BegunInv
<1>i. /\ Since(b, q_tail) = Cardinality(CountedOps) /\ Since(b, q_head) <= Since(b, q_tail)
      /\ \A u \in Threads :
           LoadedAt(b, pc[u], stage[u], prev_head[u], pos[u], cur_tail[u], q_head, q_tail)
  BY Zenon DEF FollowInv
<1> DEFINE Later == {o \in Ops : o[2] <= DoneAt(pc'[o[1]], stage'[o[1]], MaxOps[o[1]], todo'[o[1]])}
<1>3. Cardinality(Later) = Cardinality(CountedOps) + 1 /\ Cardinality(Later) < Wrap
  <2>1. Done(t) \in Nat /\ Done(t) + 1 <= MaxOps[t]
    BY <1>0, <1>1, <1>2 DEF Done, DoneAt
  <2>2. \A u \in Threads :
          DoneAt(pc'[u], stage'[u], MaxOps[u], todo'[u]) = IF u = t THEN Done(t) + 1 ELSE Done(u)
    <3>1. DoneAt(pc'[t], stage'[t], MaxOps[t], todo'[t]) = Done(t) + 1
      BY <1>0, <1>1, <1>2 DEF Done, DoneAt
    <3>. QED  BY <1>1, <3>1 DEF Done
  <2>. QED  BY <2>1, <2>2, OneCounted
<1>4. Since(b, q_tail') = Since(b, q_tail) + 1 /\ Since(b, q_tail') = Cardinality(Later)
  <2>1. Since(b, q_tail) + 1 < Wrap
    BY <1>i, <1>3
  <2>. QED  BY <1>0, <1>1, <1>3, <1>i, <2>1, SinceNext
<1>5. Since(b, q_tail) \in Nat /\ Since(b, q_head) \in Nat
  BY <1>0, SinceType
<1>6. ASSUME NEW u \in Threads
      PROVE  LoadedAt(b, pc'[u], stage'[u], prev_head'[u], pos'[u], cur_tail'[u], q_head', q_tail')
  <2>1. LoadedAt(b, pc[u], stage[u], prev_head[u], pos[u], cur_tail[u], q_head, q_tail)
    BY <1>i
  <2>2. Since(b, prev_head[u]) \in Nat /\ Since(b, pos[u]) \in Nat /\ Since(b, cur_tail[u]) \in Nat
    BY <1>0, SinceType
  <2>3. CASE u # t
    BY <1>1, <1>4, <1>5, <2>1, <2>2, <2>3 DEF LoadedAt
  <2>4. CASE u = t
    <3>1. Since(b, prev_head[t]) <= Since(b, q_head)
      BY <1>1, <2>1, <2>4 DEF LoadedAt
    <3>. QED  BY <1>i, <1>1, <1>4, <1>5, <2>2, <2>4, <3>1 DEF LoadedAt, Loads
  <2>. QED  BY <2>3, <2>4
<1>7. \A u \in Threads : u # t =>
        /\ WaitsAt(kind'[u], stage'[u]) => WaitsAt(kind[u], stage[u])
        /\ Found(kind'[u], stage'[u]) => Found(kind[u], stage[u])
  BY <1>1
<1>8. /\ ~Found(kind'[t], stage'[t])
      /\ \A u \in Threads : Loads(pc'[u], stage'[u]) => Loads(pc[u], stage[u])
  BY <1>1 DEF Found, Loads
<1>9. \A u \in Threads :
        WaitsAt(kind'[u], stage'[u]) /\ Since(b, pos'[u]) < Since(b, q_head') => u \in followed'
  BY <1>i, <1>1, <1>5, <1>7 DEF FollowInv
<1>10. \A u \in Threads : Found(kind'[u], stage'[u]) => u \in followed'
  BY <1>1, <1>7, <1>8 DEF FollowInv
<1>11. ASSUME NEW u \in Threads, NEW w \in Threads, WaitsAt(kind'[u], stage'[u]),
              Loads(pc'[w], stage'[w]), Since(b, pos'[u]) < Since(b, cur_tail'[w])
       PROVE  u \in behind'[w]
  <2>1. Loads(pc[w], stage[w])
    BY <1>8, <1>11
  <2>2. CASE u = t
    <3>1. Since(b, cur_tail[w]) <= Since(b, q_tail) /\ Since(b, cur_tail[w]) \in Nat
      BY <1>0, <1>i, <2>1, SinceType DEF LoadedAt
    <3>. QED  BY <1>1, <1>5, <1>11, <2>2, <3>1
  <2>3. CASE u # t
    BY <1>1, <1>7, <1>11, <2>1, <2>3 DEF FollowInv
  <2>. QED  BY <2>2, <2>3
<1>12. Since(b, q_head') <= Since(b, q_tail')
  BY <1>i, <1>1, <1>4, <1>5
<1>. QED  BY <1>4, <1>6, <1>9, <1>10, <1>11, <1>12, FollowInvNext

\* A second read is found: the reads before the tail that it loaded are followed.
LEMMA StoreFollow ==
  ASSUME TypeOK, ReadTypes, QLockInv, NEW b \in 0 .. Wrap - 1, FollowInv(b), NEW t \in Threads, StoreQHead(t)
  PROVE  FollowInv(b)'
<1>0. /\ stage \in [Threads -> Stages] /\ behind \in [Threads -> SUBSET Threads]
      /\ q_head \in 0 .. Wrap - 1 /\ q_tail \in 0 .. Wrap - 1
      /\ \A u \in Threads : prev_head[u] \in 0 .. Wrap - 1 /\ pos[u] \in 0 .. Wrap - 1 /\ cur_tail[u] \in 0 .. Wrap - 1
  BY DEF ReadTypes
<1>1. /\ pc[t] = "poslock" /\ stage[t] = "second" /\ stage'[t] = "stored" /\ q_head' = cur_tail[t]
      /\ \A u \in Threads : u # t => stage'[u] = stage[u] /\ behind'[u] = behind[u]
      /\ followed' = followed \cup behind[t]
      /\ UNCHANGED <<q_tail, kind, todo, prev_head, pos, cur_tail, pc>>
  BY <1>0 DEF StoreQHead, SetStage, vars, readVars, idVars
<1>i. /\ Since(b, q_tail) = Cardinality(CountedOps) /\ Since(b, q_head) <= Since(b, q_tail)
      /\ \A u \in Threads :
           LoadedAt(b, pc[u], stage[u], prev_head[u], pos[u], cur_tail[u], q_head, q_tail)
  BY Zenon DEF FollowInv
<1>2. Loads(pc[t], stage[t])
  BY <1>1 DEF Loads
<1>3. /\ Since(b, q_head) <= Since(b, q_head') /\ Since(b, q_head') <= Since(b, q_tail)
      /\ Since(b, pos[t]) < Since(b, q_head')
  BY <1>i, <1>1, <1>2 DEF LoadedAt
<1>4. \A u \in Threads : ~Loads(pc'[u], stage'[u])
  <2>1. ASSUME NEW u \in Threads, Loads(pc'[u], stage'[u])  PROVE FALSE
    <3>1. u # t /\ stage[u] \in Holds /\ stage[t] \in Holds
      BY <1>1, <2>1 DEF Loads, Holds
    <3>. QED  BY <3>1 DEF QLockInv
  <2>. QED  BY <2>1
<1>5. \A u \in Threads : DoneAt(pc'[u], stage'[u], MaxOps[u], todo'[u]) = Done(u)
  <2>1. DoneAt(pc'[t], stage'[t], MaxOps[t], todo'[t]) = Done(t)
    BY <1>1 DEF DoneAt, Done
  <2>. QED  BY <1>1, <2>1 DEF Done
<1>6. CountedOps = {o \in Ops : o[2] <= DoneAt(pc'[o[1]], stage'[o[1]], MaxOps[o[1]], todo'[o[1]])}
  BY <1>5 DEF CountedOps, Ops
<1>7. ASSUME NEW u \in Threads
      PROVE  LoadedAt(b, pc'[u], stage'[u], prev_head'[u], pos'[u], cur_tail'[u], q_head', q_tail')
  <2>1. LoadedAt(b, pc[u], stage[u], prev_head[u], pos[u], cur_tail[u], q_head, q_tail) /\ ~Loads(pc'[u], stage'[u])
    BY <1>i, <1>4
  <2>2. /\ stage'[u] \in Counts \cup {"load"} => stage[u] \in Counts \cup {"load"}
        /\ stage'[u] \in Counts => stage[u] \in Counts
    BY <1>1 DEF Counts
  <2>3. Since(b, prev_head[u]) \in Nat /\ Since(b, q_head) \in Nat /\ Since(b, cur_tail[t]) \in Nat
    BY <1>0, SinceType
  <2>4. stage'[u] \in Counts \cup {"load"} => Since(b, prev_head[u]) <= Since(b, cur_tail[t])
    BY <1>1, <1>3, <2>1, <2>2, <2>3 DEF LoadedAt
  <2>. QED  BY <1>1, <2>1, <2>2, <2>4 DEF LoadedAt
<1>8. ASSUME NEW u \in Threads, WaitsAt(kind'[u], stage'[u]), Since(b, pos'[u]) < Since(b, q_head')
      PROVE  u \in followed'
  <2>1. WaitsAt(kind[u], stage[u])
    BY <1>1, <1>8 DEF WaitsAt, Counts
  <2>2. u \in behind[t]
    BY <1>1, <1>2, <1>8, <2>1 DEF FollowInv
  <2>. QED  BY <1>1, <2>2
<1>9. ASSUME NEW u \in Threads, Found(kind'[u], stage'[u])  PROVE u \in followed'
  <2>1. CASE u = t
    <3>1. WaitsAt(kind'[t], stage'[t])
      BY <1>1, <1>9, <2>1 DEF Found, WaitsAt, Counts
    <3>. QED  BY <1>1, <1>3, <1>8, <2>1, <3>1
  <2>2. CASE u # t
    BY <1>1, <1>9, <2>2 DEF FollowInv
  <2>. QED  BY <2>1, <2>2
<1>10. /\ \A u \in Threads :
            WaitsAt(kind'[u], stage'[u]) /\ Since(b, pos'[u]) < Since(b, q_head') => u \in followed'
       /\ \A u \in Threads : Found(kind'[u], stage'[u]) => u \in followed'
       /\ \A u, w \in Threads :
            /\ WaitsAt(kind'[u], stage'[u])
            /\ Loads(pc'[w], stage'[w])
            /\ Since(b, pos'[u]) < Since(b, cur_tail'[w])
            => u \in behind'[w]
  BY <1>4, <1>8, <1>9
<1>11. Since(b, q_tail') = Since(b, q_tail) /\ Since(b, q_head') <= Since(b, q_tail')
  BY <1>1, <1>3
<1>. QED  BY <1>i, <1>6, <1>7, <1>10, <1>11, FollowInvNext

LEMMA FollowStep ==
  ASSUME FewOps, TypeOK, ReadTypes, StageInv, BegunInv, QLockInv, NEW b \in 0 .. Wrap - 1, FollowInv(b),
         [ReadNext]_allVars
  PROVE  FollowInv(b)'
<1>0. /\ pc \in [Threads -> Labels] /\ stage \in [Threads -> Stages]
      /\ cur_tail \in [Threads -> 0 .. Wrap - 1] /\ behind \in [Threads -> SUBSET Threads]
  BY DEF TypeOK, ReadTypes
<1>f. \A u \in Threads : Found(kind[u], stage[u]) => u \in followed
  BY Zenon DEF FollowInv
<1>1. CASE UNCHANGED allVars \/ Device
  <2>1. UNCHANGED <<q_head, q_tail, kind, stage, followed, behind, todo, prev_head, pos, cur_tail, pc>>
    BY <1>1 DEF allVars, vars, Device, Ssd, Fetch, Complete, idVars, seqVars, readVars, historyVars
  <2>2. \A u \in Threads : PlaceKept(u)
    BY <2>1 DEF PlaceKept, Done
  <2>. QED  BY <1>f, <2>1, <2>2, FollowKept
<1>2. ASSUME NEW t \in Threads, CopyCommand(t)  PROVE FollowInv(b)'
  <2>1. /\ pc[t] = "copy" /\ pc' = [pc EXCEPT ![t] = "mark"] /\ \A u \in Threads : u # t => pc'[u] = pc[u]
        /\ UNCHANGED <<q_head, q_tail, kind, followed, todo, prev_head, pos, stage>>
    BY <1>0, <1>2 DEF CopyCommand, Copy, Goto, seqVars, idVars
  <2>2. CASE stage[t] = "second"
    <3>1. cur_tail' = [cur_tail EXCEPT ![t] = q_tail] /\ behind' = [behind EXCEPT ![t] = Waiting]
      BY <1>2, <2>2 DEF CopyCommand
    <3>. QED  BY <2>1, <2>2, <3>1, LoadFollow
  <2>3. CASE stage[t] # "second"
    <3>1. UNCHANGED <<cur_tail, behind>>
      BY <1>2, <2>3 DEF CopyCommand
    <3>2. stage[t] = "first"
      BY <2>1, <2>3, AskingIs DEF StageInv, StageAt
    <3>3. PlaceKept(t)
      BY <1>0, <2>1, <3>1, <3>2 DEF PlaceKept, Done, DoneAt, Loads, Counts
    <3>4. \A u \in Threads : u # t => PlaceKept(u)
      BY <2>1, <3>1 DEF PlaceKept, Done
    <3>5. \A u \in Threads : PlaceKept(u)
      BY <3>3, <3>4
    <3>. QED  BY <1>f, <2>1, <3>1, <3>5, FollowKept
  <2>. QED  BY <2>2, <2>3
<1>3. ASSUME NEW t \in Threads, LoadTail(t)  PROVE FollowInv(b)'
  <2>1. /\ stage[t] = "second" /\ stage'[t] = "loaded" /\ \A u \in Threads : u # t => stage'[u] = stage[u]
        /\ cur_tail' = [cur_tail EXCEPT ![t] = q_tail] /\ behind' = [behind EXCEPT ![t] = Waiting]
        /\ UNCHANGED <<q_head, q_tail, kind, followed, todo, prev_head, pos, pc>>
    BY <1>0, <1>3 DEF LoadTail, SetStage, vars, seqVars, idVars
  <2>. QED  BY <2>1, LoadFollow
<1>. QED
  BY <1>1, <1>2, <1>3, QuietFollow, HeadFollow, CountFollow, StoreFollow DEF ReadNext, ReadStep

LEMMA InitFollow ==
  ASSUME ReadInit  PROVE BegunInv /\ QLockInv /\ FollowInv(q_head)
<1>0. q_head \in 0 .. Wrap - 1 /\ q_tail = q_head
  BY ReadAssumption DEF ReadInit
<1>1. \A t \in Threads : /\ pc[t] = "idle" /\ stage[t] = "first" /\ kind[t] = "read"
                         /\ todo[t] = MaxOps[t] /\ MaxOps[t] \in Nat
  BY QueueAssumption DEF ReadInit, Init
<1>2. BegunInv /\ QLockInv
  BY <1>1 DEF BegunInv, QLockInv, Holds
<1>3. CountedOps = {}
  BY <1>1 DEF CountedOps, Ops, Done, DoneAt
<1>4. Since(q_head, q_tail) = Cardinality(CountedOps) /\ Since(q_head, q_head) <= Since(q_head, q_tail)
  BY <1>0, <1>3, FS_EmptySet DEF Since
<1>5. \A t \in Threads : /\ ~WaitsAt(kind[t], stage[t]) /\ ~Found(kind[t], stage[t]) /\ ~Loads(pc[t], stage[t])
                         /\ stage[t] \notin Counts \cup {"load"}
  BY <1>1 DEF WaitsAt, Found, Loads, Counts
<1>. QED  BY <1>2, <1>4, <1>5 DEF FollowInv, LoadedAt

\* A read returns only when a second read that was begun behind it has completed: the
\* comparison of three counters that wrap (enqueue_second) lets no read go early, as long
\* as a kernel makes fewer reads and writes than a counter has values.
THEOREM ReadAlwaysFollowed == ASSUME FewOps  PROVE ReadSpec => []ReadIsFollowed
<1> DEFINE SomeFollow == \E b \in 0 .. Wrap - 1 : FollowInv(b)
           FollowedInv == BegunInv /\ QLockInv /\ SomeFollow
<1>1. ReadInit => FollowedInv
  <2>1. ReadInit => q_head \in 0 .. Wrap - 1
    BY ReadAssumption DEF ReadInit
  <2>. QED  BY <2>1, InitFollow
<1>2. ReadTypeOK /\ StageInv /\ FollowedInv /\ [ReadNext]_allVars => FollowedInv'
  <2>1. SUFFICES ASSUME ReadTypeOK, StageInv, FollowedInv, [ReadNext]_allVars
                 PROVE  BegunInv' /\ QLockInv' /\ SomeFollow'
    OBVIOUS
  <2>2. TypeOK /\ ReadTypes
    BY <2>1, ReadTypeParts
  <2>3. BegunInv' /\ QLockInv'
    BY <2>1, <2>2, BegunStep, QLockStep
  <2>4. PICK b \in 0 .. Wrap - 1 : FollowInv(b)
    BY <2>1
  <2>5. FollowInv(b)'
    BY <2>1, <2>2, <2>4, FollowStep
  <2>. QED  BY <2>3, <2>5
<1>3. StageInv /\ FollowedInv => ReadIsFollowed
  <2>1. SUFFICES ASSUME FollowedInv, NEW t \in Threads,
                        kind[t] = "read", stage[t] \in {"done", "published"}
                 PROVE  t \in followed
    BY DEF ReadIsFollowed
  <2>2. Found(kind[t], stage[t])
    BY <2>1 DEF Found
  <2>. QED  BY <2>1, <2>2 DEF FollowInv
<1>. QED  BY <1>1, <1>2, <1>3, ReadAlwaysTyped, PTL DEF ReadSpec

\* Every counter, lock, entry and loaded value of the queue pair and of read_data keeps
\* its type.
THEOREM ReadAlwaysTypeOK == ReadSpec => []ReadTypeOK
BY ReadAlwaysTyped, PTL
==============================================================================
