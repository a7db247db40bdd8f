------------------------------ MODULE HostProofs ------------------------------
(***************************************************************************)
(* What holds of the host program's handles for all threads, mappings and   *)
(* handles, provided one thread makes and unmaps the admin queue's memory   *)
(* and the admin queue reference, as Controller's destructor does.          *)
(***************************************************************************)
EXTENDS Host, AdminQueueProofs, SequenceTheorems

\* The window is unmapped by the thread that destroys the admin queue reference.
OwnersAgree == Owner[Window] = Owner[Queue]

\* Handles of nvm_dma_map, each with a mapping descriptor of its own.
Made == Handles \ {Queue}
------------------------------------------------------------------------------
\* What a thread may have to do: make a mapping, or make the reference, or what is
\* left of giving back a mapping descriptor m and then, for the reference, the
\* controller.
Last == Step("ctrl_put", MapOf[Queue])

PlansOn(m) ==
  {<<Step("get_map", m)>>, <<Step("ctrl_put", m)>>, <<Step("remove", m)>>,
   <<Step("put_map", m), Step("test_va", m)>>, <<Step("test_va", m)>>,
   <<Step("ctrl_put", m), Step("free_map", m)>>,
   <<Step("remove", m), Step("free_map", m)>>, <<Step("free_map", m)>>,
   <<Step("put_map", m), Step("test_va", m), Last>>, <<Step("test_va", m), Last>>,
   <<Step("ctrl_put", m), Step("free_map", m), Last>>,
   <<Step("remove", m), Step("free_map", m), Last>>, <<Step("free_map", m), Last>>}

Plans ==
  {<<>>} \union {<<Step("map", h)>> : h \in Made} \union UNION {PlansOn(m) : m \in Maps}

\* The next step of a plan and what it is on, whether the plan frees the
\* descriptor, and whether it ends with giving back the controller.
Op(p)    == IF p = <<>> THEN "idle" ELSE Head(p).op
On(p)    == Head(p).map
Frees(p) == \E i \in 1 .. Len(p) : p[i].op = "free_map"
GivesBack(p) == p # <<>> /\ p[Len(p)].op = "ctrl_put"

HandleTypeOK ==
  /\ count \in Nat /\ removed \in Nat
  /\ device \in BOOLEAN /\ opened \in BOOLEAN
  /\ uses \in [Maps -> Int]
  /\ va \in [Maps -> BOOLEAN]
  /\ pinned \in [Maps -> Threads \union {Nobody}]
  /\ freed \in [Maps -> Nat]
  /\ handle \in [Handles -> {"none", "live", "gone"}]
  /\ aq \in {"none", "making", "live", "gone"}
  /\ todo \in [Threads -> Plans]

\* A plan is about what belongs to its thread.
PlanOK(t) ==
  LET p == todo[t] IN
  /\ Op(p) = "map" => On(p) \in Made /\ Owner[On(p)] = t /\ handle[On(p)] = "none"
  /\ Op(p) = "get_map" => On(p) = MapOf[Window] /\ t = Owner[Queue] /\ aq = "making"
  /\ Op(p) \in {"put_map", "test_va", "free_map"} \/ Frees(p) =>
       \E h \in Made : On(p) = MapOf[h] /\ Owner[h] = t /\ handle[h] # "none"
  /\ Op(p) = "put_map" => va[On(p)]
  /\ Frees(p) => ~va[On(p)]

PlanInv == \A t \in Threads : PlanOK(t)

RefInv ==
  /\ handle[Queue] = "live" <=> aq = "live"
  /\ aq # "none" => handle[Window] # "none"
  /\ aq = "making" => Op(todo[Owner[Queue]]) = "get_map" /\ handle[Window] = "live"

Mapping(h) == Op(todo[Owner[h]]) = "map" /\ On(todo[Owner[h]]) = h

Putting(h) == Op(todo[Owner[h]]) = "put_map" /\ On(todo[Owner[h]]) = MapOf[h]

\* The descriptor of h is to be tested or freed by its thread.
Leaving(h) ==
  LET p == todo[Owner[h]]
  IN (Op(p) = "test_va" \/ Frees(p)) /\ On(p) = MapOf[h]

Num(b) == IF b THEN 1 ELSE 0

\* The users of the descriptor of h: handles, and a put_map on its way.
Users(h) ==
  Num(handle[h] = "live") + Num(h = Window /\ handle[Queue] = "live") + Num(Putting(h))

\* A descriptor is mapped and pinned by its thread as long as it has users; without
\* users it is unpinned, and freed once.
MapOK(h) ==
  LET m == MapOf[h] IN
  /\ handle[h] = "none" =>
       /\ va[m] <=> Mapping(h)
       /\ va[m] => uses[m] = 1
       /\ pinned[m] = Nobody /\ freed[m] = 0
  /\ handle[h] # "none" /\ va[m] =>
       pinned[m] = Owner[h] /\ freed[m] = 0 /\ uses[m] = Users(h) /\ Users(h) > 0
  /\ handle[h] # "none" /\ ~va[m] =>
       pinned[m] = Nobody /\ freed[m] = Num(~Leaving(h)) /\ Users(h) = 0

Unmade == {m \in Maps : \A h \in Made : MapOf[h] # m}

MapInv ==
  /\ \A h \in Made : MapOK(h)
  /\ \A m \in Unmade : ~va[m] /\ pinned[m] = Nobody /\ freed[m] = 0

\* Who has taken the controller: the program, the admin queue reference, each
\* mapping descriptor until remove_map, and each call that is to give it back.
Taking(p) == Op(p) = "test_va" \/ (Op(p) = "ctrl_put" /\ Frees(p))

Takes(m) == va[m] \/ \E t \in Threads : Taking(todo[t]) /\ On(todo[t]) = m

Holders ==
  (IF opened THEN {<<"program">>} ELSE {})
  \union (IF aq \in {"making", "live"} THEN {<<"reference">>} ELSE {})
  \union {<<"map", m>> : m \in {n \in Maps : Takes(n)}}
  \union {<<"call", t>> : t \in {u \in Threads : GivesBack(todo[u])}}

\* The controller's count is theirs; whoever brings it to zero removes the handle.
TakenInv ==
  /\ IsFiniteSet(Holders) /\ count = Cardinality(Holders)
  /\ device <=> count # 0
  /\ count # 0 => removed = 0 /\ \A t \in Threads : Op(todo[t]) # "remove"
  /\ count = 0 => removed = Num(\A t \in Threads : Op(todo[t]) # "remove")
  /\ \A t, u \in Threads : Op(todo[t]) = "remove" /\ Op(todo[u]) = "remove" => t = u

WaitInv == \A t \in Threads : stage[t] = "wait" => aq = "live"

HandleInv == HandleTypeOK /\ PlanInv /\ RefInv /\ MapInv /\ TakenInv
------------------------------------------------------------------------------
(***************************************************************************)
(* The plans, step by step.                                                 *)
(***************************************************************************)

\* What is behind the first step of a plan of one, two or three steps.
LEMMA Tails ==
  ASSUME NEW a, NEW b, NEW c
  PROVE  /\ <<>> \o Tail(<<a>>) = <<>>
         /\ <<>> \o Tail(<<a, b>>) = <<b>>
         /\ <<>> \o Tail(<<a, b, c>>) = <<b, c>>
OBVIOUS

\* A plan of one or two steps, before one more or none.
LEMMA Before ==
  ASSUME NEW a, NEW b, NEW c
  PROVE  /\ <<a>> \o <<>> = <<a>>
         /\ <<a, b>> \o <<>> = <<a, b>>
         /\ <<a>> \o <<c>> = <<a, c>>
         /\ <<a, b>> \o <<c>> = <<a, b, c>>
         /\ <<a>> \o <<b, c>> = <<a, b, c>>
<1>1. <<a>> \o <<>> = <<a>> /\ <<a, b>> \o <<>> = <<a, b>>
  OBVIOUS
<1>2. <<a>> \o <<c>> = <<a, c>>
  <2> DEFINE s == <<a>>
             q == <<c>>
             r == <<a, c>>
             S == {a, b, c}
  <2>1. s \in Seq(S) /\ q \in Seq(S) /\ r \in Seq(S)
    OBVIOUS
  <2>2. Len(s) = 1 /\ Len(q) = 1 /\ Len(r) = 2 /\ s[1] = a /\ q[1] = c /\ r[1] = a /\ r[2] = c
    OBVIOUS
  <2> HIDE DEF s, q, r, S
  <2>3. s \o q \in Seq(S) /\ Len(s \o q) = 2 /\ (s \o q)[1] = a /\ (s \o q)[2] = c
    <3>1. /\ s \o q \in Seq(S) /\ Len(s \o q) = Len(s) + Len(q)
          /\ \A i \in 1 .. Len(s) + Len(q) :
               (s \o q)[i] = IF i <= Len(s) THEN s[i] ELSE q[i - Len(s)]
      BY <2>1, ConcatProperties
    <3>. QED  BY <2>2, <3>1
  <2>4. Len(s \o q) = Len(r) /\ \A i \in 1 .. Len(s \o q) : (s \o q)[i] = r[i]
    BY <2>2, <2>3
  <2> DEFINE w == s \o q
  <2>5. w \in Seq(S) /\ Len(w) = Len(r) /\ \A i \in 1 .. Len(w) : w[i] = r[i]
    BY <2>3, <2>4
  <2> HIDE DEF w
  <2>6. w = r
    BY <2>1, <2>5, SeqEqual
  <2>. QED  BY <2>6 DEF s, q, r, w
<1>3. <<a, b>> \o <<c>> = <<a, b, c>>
  <2> DEFINE s == <<a, b>>
             q == <<c>>
             r == <<a, b, c>>
             S == {a, b, c}
  <2>1. s \in Seq(S) /\ q \in Seq(S) /\ r \in Seq(S)
    OBVIOUS
  <2>2. Len(s) = 2 /\ Len(q) = 1 /\ Len(r) = 3 /\ s[1] = a /\ s[2] = b /\ q[1] = c
        /\ r[1] = a /\ r[2] = b /\ r[3] = c
    OBVIOUS
  <2> HIDE DEF s, q, r, S
  <2>3. s \o q \in Seq(S) /\ Len(s \o q) = 3 /\ (s \o q)[1] = a /\ (s \o q)[2] = b /\ (s \o q)[3] = c
    <3>1. /\ s \o q \in Seq(S) /\ Len(s \o q) = Len(s) + Len(q)
          /\ \A i \in 1 .. Len(s) + Len(q) :
               (s \o q)[i] = IF i <= Len(s) THEN s[i] ELSE q[i - Len(s)]
      BY <2>1, ConcatProperties
    <3>. QED  BY <2>2, <3>1
  <2>4. Len(s \o q) = Len(r) /\ \A i \in 1 .. Len(s \o q) : (s \o q)[i] = r[i]
    BY <2>2, <2>3
  <2> DEFINE w == s \o q
  <2>5. w \in Seq(S) /\ Len(w) = Len(r) /\ \A i \in 1 .. Len(w) : w[i] = r[i]
    BY <2>3, <2>4
  <2> HIDE DEF w
  <2>6. w = r
    BY <2>1, <2>5, SeqEqual
  <2>. QED  BY <2>6 DEF s, q, r, w
<1>4. <<a>> \o <<b, c>> = <<a, b, c>>
  <2> DEFINE s == <<a>>
             q == <<b, c>>
             r == <<a, b, c>>
             S == {a, b, c}
  <2>1. s \in Seq(S) /\ q \in Seq(S) /\ r \in Seq(S)
    OBVIOUS
  <2>2. Len(s) = 1 /\ Len(q) = 2 /\ Len(r) = 3 /\ s[1] = a /\ q[1] = b /\ q[2] = c
        /\ r[1] = a /\ r[2] = b /\ r[3] = c
    OBVIOUS
  <2> HIDE DEF s, q, r, S
  <2>3. s \o q \in Seq(S) /\ Len(s \o q) = 3 /\ (s \o q)[1] = a /\ (s \o q)[2] = b /\ (s \o q)[3] = c
    <3>1. /\ s \o q \in Seq(S) /\ Len(s \o q) = Len(s) + Len(q)
          /\ \A i \in 1 .. Len(s) + Len(q) :
               (s \o q)[i] = IF i <= Len(s) THEN s[i] ELSE q[i - Len(s)]
      BY <2>1, ConcatProperties
    <3>. QED  BY <2>2, <3>1
  <2>4. Len(s \o q) = Len(r) /\ \A i \in 1 .. Len(s \o q) : (s \o q)[i] = r[i]
    BY <2>2, <2>3
  <2> DEFINE w == s \o q
  <2>5. w \in Seq(S) /\ Len(w) = Len(r) /\ \A i \in 1 .. Len(w) : w[i] = r[i]
    BY <2>3, <2>4
  <2> HIDE DEF w
  <2>6. w = r
    BY <2>1, <2>5, SeqEqual
  <2>. QED  BY <2>6 DEF s, q, r, w
<1>. QED  BY <1>1, <1>2, <1>3, <1>4

LEMMA TwoAndOne ==
  \A a, b, c : <<a, b>> \o <<c>> = <<a, b, c>>
BY Before

LEMMA OneAndTwo ==
  \A a, b, c : <<a>> \o <<b, c>> = <<a, b, c>>
BY Before

LEMMA ThreeAndNone ==
  ASSUME NEW a, NEW b, NEW c  PROVE <<a, b, c>> \o <<>> = <<a, b, c>>
OBVIOUS

LEMMA ViewOfOne ==
  ASSUME NEW a
  PROVE  /\ <<a>> # <<>> /\ Op(<<a>>) = a.op /\ On(<<a>>) = a.map
         /\ Frees(<<a>>) <=> a.op = "free_map"
         /\ GivesBack(<<a>>) <=> a.op = "ctrl_put"
BY DEF Op, On, Frees, GivesBack

LEMMA ViewOfTwo ==
  ASSUME NEW a, NEW b
  PROVE  /\ <<a, b>> # <<>> /\ Op(<<a, b>>) = a.op /\ On(<<a, b>>) = a.map
         /\ Frees(<<a, b>>) <=> "free_map" \in {a.op, b.op}
         /\ GivesBack(<<a, b>>) <=> b.op = "ctrl_put"
BY DEF Op, On, Frees, GivesBack

LEMMA ViewOfThree ==
  ASSUME NEW a, NEW b, NEW c
  PROVE  /\ <<a, b, c>> # <<>> /\ Op(<<a, b, c>>) = a.op /\ On(<<a, b, c>>) = a.map
         /\ Frees(<<a, b, c>>) <=> "free_map" \in {a.op, b.op, c.op}
         /\ GivesBack(<<a, b, c>>) <=> c.op = "ctrl_put"
BY DEF Op, On, Frees, GivesBack

LEMMA ViewOfNone == <<>> \in Plans /\ Op(<<>>) = "idle" /\ ~Frees(<<>>) /\ ~GivesBack(<<>>)
BY DEF Op, Frees, GivesBack, Plans

\* A plan whose next step is op on m, that frees a descriptor (f) or not, and gives
\* back the controller at its end (l) or not.
View(p, op, m, f, l) ==
  /\ p \in Plans /\ Op(p) = op /\ On(p) = m
  /\ Frees(p) <=> f
  /\ GivesBack(p) <=> l

LEMMA ViewsOfOne ==
  /\ \A h \in Made : View(<<Step("map", h)>>, "map", h, FALSE, FALSE)
  /\ \A m \in Maps :
       /\ View(<<Step("get_map", m)>>, "get_map", m, FALSE, FALSE)
       /\ View(<<Step("ctrl_put", m)>>, "ctrl_put", m, FALSE, TRUE)
       /\ View(<<Step("remove", m)>>, "remove", m, FALSE, FALSE)
       /\ View(<<Step("test_va", m)>>, "test_va", m, FALSE, FALSE)
       /\ View(<<Step("free_map", m)>>, "free_map", m, TRUE, FALSE)
<1>1. ASSUME NEW h \in Made  PROVE View(<<Step("map", h)>>, "map", h, FALSE, FALSE)
  <2>1. <<Step("map", h)>> \in Plans
    BY DEF Plans
  <2>. QED  BY <2>1, ViewOfOne DEF View, Step
<1>2. ASSUME NEW m \in Maps
      PROVE  /\ View(<<Step("get_map", m)>>, "get_map", m, FALSE, FALSE)
             /\ View(<<Step("ctrl_put", m)>>, "ctrl_put", m, FALSE, TRUE)
             /\ View(<<Step("remove", m)>>, "remove", m, FALSE, FALSE)
             /\ View(<<Step("test_va", m)>>, "test_va", m, FALSE, FALSE)
             /\ View(<<Step("free_map", m)>>, "free_map", m, TRUE, FALSE)
  <2>1. {<<Step("get_map", m)>>, <<Step("ctrl_put", m)>>, <<Step("remove", m)>>,
         <<Step("test_va", m)>>, <<Step("free_map", m)>>} \subseteq Plans
    BY DEF Plans, PlansOn
  <2>. QED  BY <2>1, ViewOfOne DEF View, Step
<1>. QED  BY <1>1, <1>2

LEMMA ViewsOfTwo ==
  ASSUME NEW m \in Maps
  PROVE  /\ View(<<Step("put_map", m), Step("test_va", m)>>, "put_map", m, FALSE, FALSE)
         /\ View(<<Step("ctrl_put", m), Step("free_map", m)>>, "ctrl_put", m, TRUE, FALSE)
         /\ View(<<Step("remove", m), Step("free_map", m)>>, "remove", m, TRUE, FALSE)
         /\ View(<<Step("test_va", m), Last>>, "test_va", m, FALSE, TRUE)
         /\ View(<<Step("free_map", m), Last>>, "free_map", m, TRUE, TRUE)
<1>1. {<<Step("put_map", m), Step("test_va", m)>>, <<Step("ctrl_put", m), Step("free_map", m)>>,
       <<Step("remove", m), Step("free_map", m)>>, <<Step("test_va", m), Last>>,
       <<Step("free_map", m), Last>>} \subseteq Plans
  BY DEF Plans, PlansOn
<1>. QED  BY <1>1, ViewOfTwo DEF View, Step, Last

LEMMA ViewsOfThree ==
  ASSUME NEW m \in Maps
  PROVE  /\ View(<<Step("put_map", m), Step("test_va", m), Last>>, "put_map", m, FALSE, TRUE)
         /\ View(<<Step("ctrl_put", m), Step("free_map", m), Last>>, "ctrl_put", m, TRUE, TRUE)
         /\ View(<<Step("remove", m), Step("free_map", m), Last>>, "remove", m, TRUE, TRUE)
<1>1. {<<Step("put_map", m), Step("test_va", m), Last>>,
       <<Step("ctrl_put", m), Step("free_map", m), Last>>,
       <<Step("remove", m), Step("free_map", m), Last>>} \subseteq Plans
  BY DEF Plans, PlansOn
<1>. QED  BY <1>1, ViewOfThree DEF View, Step, Last

\* The plan a thread is at, from its next step.
LEMMA PlanAt ==
  ASSUME NEW p \in Plans
  PROVE  /\ Op(p) = "idle" => p = <<>>
         /\ Op(p) = "map" => \E h \in Made : p = <<Step("map", h)>>
         /\ Op(p) = "get_map" => \E m \in Maps : p = <<Step("get_map", m)>>
         /\ Op(p) = "put_map" => \E m \in Maps :
              p \in {<<Step("put_map", m), Step("test_va", m)>>,
                     <<Step("put_map", m), Step("test_va", m), Last>>}
         /\ Op(p) = "test_va" => \E m \in Maps :
              p \in {<<Step("test_va", m)>>, <<Step("test_va", m), Last>>}
         /\ Op(p) = "ctrl_put" => \E m \in Maps :
              p \in {<<Step("ctrl_put", m)>>, <<Step("ctrl_put", m), Step("free_map", m)>>,
                     <<Step("ctrl_put", m), Step("free_map", m), Last>>}
         /\ Op(p) = "remove" => \E m \in Maps :
              p \in {<<Step("remove", m)>>, <<Step("remove", m), Step("free_map", m)>>,
                     <<Step("remove", m), Step("free_map", m), Last>>}
         /\ Op(p) = "free_map" => \E m \in Maps :
              p \in {<<Step("free_map", m)>>, <<Step("free_map", m), Last>>}
         /\ Op(p) \in {"idle", "map", "get_map", "put_map", "test_va", "ctrl_put",
                       "remove", "free_map"}
<1>1. CASE p = <<>>
  BY <1>1, ViewOfNone
<1>2. ASSUME NEW h \in Made, p = <<Step("map", h)>>  PROVE Op(p) = "map"
  BY <1>2, ViewsOfOne DEF View
<1>3. ASSUME NEW m \in Maps
      PROVE  /\ p = <<Step("get_map", m)>> => Op(p) = "get_map"
             /\ p \in {<<Step("put_map", m), Step("test_va", m)>>,
                       <<Step("put_map", m), Step("test_va", m), Last>>} => Op(p) = "put_map"
             /\ p \in {<<Step("test_va", m)>>, <<Step("test_va", m), Last>>} => Op(p) = "test_va"
             /\ p \in {<<Step("ctrl_put", m)>>, <<Step("ctrl_put", m), Step("free_map", m)>>,
                       <<Step("ctrl_put", m), Step("free_map", m), Last>>} => Op(p) = "ctrl_put"
             /\ p \in {<<Step("remove", m)>>, <<Step("remove", m), Step("free_map", m)>>,
                       <<Step("remove", m), Step("free_map", m), Last>>} => Op(p) = "remove"
             /\ p \in {<<Step("free_map", m)>>, <<Step("free_map", m), Last>>} => Op(p) = "free_map"
  <2>1. /\ Op(<<Step("get_map", m)>>) = "get_map" /\ Op(<<Step("ctrl_put", m)>>) = "ctrl_put"
        /\ Op(<<Step("remove", m)>>) = "remove" /\ Op(<<Step("test_va", m)>>) = "test_va"
        /\ Op(<<Step("free_map", m)>>) = "free_map"
    BY ViewsOfOne DEF View
  <2>2. /\ Op(<<Step("put_map", m), Step("test_va", m)>>) = "put_map"
        /\ Op(<<Step("ctrl_put", m), Step("free_map", m)>>) = "ctrl_put"
        /\ Op(<<Step("remove", m), Step("free_map", m)>>) = "remove"
        /\ Op(<<Step("test_va", m), Last>>) = "test_va"
        /\ Op(<<Step("free_map", m), Last>>) = "free_map"
    BY ViewsOfTwo DEF View
  <2>3. /\ Op(<<Step("put_map", m), Step("test_va", m), Last>>) = "put_map"
        /\ Op(<<Step("ctrl_put", m), Step("free_map", m), Last>>) = "ctrl_put"
        /\ Op(<<Step("remove", m), Step("free_map", m), Last>>) = "remove"
    BY ViewsOfThree DEF View
  <2>. QED  BY <2>1, <2>2, <2>3, Zenon
<1>4. \/ p = <<>> \/ \E h \in Made : p = <<Step("map", h)>>
      \/ \E m \in Maps : p \in PlansOn(m)
  BY DEF Plans
<1>5. ASSUME NEW m \in Maps, p \in PlansOn(m)
      PROVE  \/ p = <<Step("get_map", m)>>
             \/ p \in {<<Step("put_map", m), Step("test_va", m)>>,
                       <<Step("put_map", m), Step("test_va", m), Last>>}
             \/ p \in {<<Step("test_va", m)>>, <<Step("test_va", m), Last>>}
             \/ p \in {<<Step("ctrl_put", m)>>, <<Step("ctrl_put", m), Step("free_map", m)>>,
                       <<Step("ctrl_put", m), Step("free_map", m), Last>>}
             \/ p \in {<<Step("remove", m)>>, <<Step("remove", m), Step("free_map", m)>>,
                       <<Step("remove", m), Step("free_map", m), Last>>}
             \/ p \in {<<Step("free_map", m)>>, <<Step("free_map", m), Last>>}
  BY <1>5, Zenon DEF PlansOn
<1>6. CASE \E h \in Made : p = <<Step("map", h)>>
  BY <1>2, <1>6
<1>7. ASSUME NEW m \in Maps, p \in PlansOn(m)
      PROVE  /\ Op(p) = "get_map" => p = <<Step("get_map", m)>>
             /\ Op(p) = "put_map" => 
                  p \in {<<Step("put_map", m), Step("test_va", m)>>,
                         <<Step("put_map", m), Step("test_va", m), Last>>}
             /\ Op(p) = "test_va" => p \in {<<Step("test_va", m)>>, <<Step("test_va", m), Last>>}
             /\ Op(p) = "ctrl_put" =>
                  p \in {<<Step("ctrl_put", m)>>, <<Step("ctrl_put", m), Step("free_map", m)>>,
                         <<Step("ctrl_put", m), Step("free_map", m), Last>>}
             /\ Op(p) = "remove" =>
                  p \in {<<Step("remove", m)>>, <<Step("remove", m), Step("free_map", m)>>,
                         <<Step("remove", m), Step("free_map", m), Last>>}
             /\ Op(p) = "free_map" => p \in {<<Step("free_map", m)>>, <<Step("free_map", m), Last>>}
             /\ Op(p) \in {"get_map", "put_map", "test_va", "ctrl_put", "remove", "free_map"}
  <2> DEFINE P1 == p = <<Step("get_map", m)>>
             P2 == p \in {<<Step("put_map", m), Step("test_va", m)>>,
                          <<Step("put_map", m), Step("test_va", m), Last>>}
             P3 == p \in {<<Step("test_va", m)>>, <<Step("test_va", m), Last>>}
             P4 == p \in {<<Step("ctrl_put", m)>>, <<Step("ctrl_put", m), Step("free_map", m)>>,
                          <<Step("ctrl_put", m), Step("free_map", m), Last>>}
             P5 == p \in {<<Step("remove", m)>>, <<Step("remove", m), Step("free_map", m)>>,
                          <<Step("remove", m), Step("free_map", m), Last>>}
             P6 == p \in {<<Step("free_map", m)>>, <<Step("free_map", m), Last>>}
  <2>1. P1 \/ P2 \/ P3 \/ P4 \/ P5 \/ P6
    BY <1>5, <1>7
  <2>2. /\ P1 => Op(p) = "get_map"
        /\ P2 => Op(p) = "put_map"
        /\ P3 => Op(p) = "test_va"
        /\ P4 => Op(p) = "ctrl_put"
        /\ P5 => Op(p) = "remove"
        /\ P6 => Op(p) = "free_map"
    BY <1>3
  <2> HIDE DEF P1, P2, P3, P4, P5, P6
  <2>3. /\ Op(p) = "get_map" => P1
        /\ Op(p) = "put_map" => P2
        /\ Op(p) = "test_va" => P3
        /\ Op(p) = "ctrl_put" => P4
        /\ Op(p) = "remove" => P5
        /\ Op(p) = "free_map" => P6
        /\ Op(p) \in {"get_map", "put_map", "test_va", "ctrl_put", "remove", "free_map"}
    BY <2>1, <2>2
  <2>. QED  BY <2>3 DEF P1, P2, P3, P4, P5, P6
<1>8. CASE \E m \in Maps : p \in PlansOn(m)
  BY <1>7, <1>8
<1>. QED  BY <1>1, <1>4, <1>6, <1>8

\* What is left of a call: nothing, or giving back the controller (l).
Rest(p, l) ==
  /\ p \in Plans /\ ~Frees(p)
  /\ Op(p) = IF l THEN "ctrl_put" ELSE "idle"
  /\ GivesBack(p) <=> l

LEMMA Rests == Rest(<<>>, FALSE) /\ Rest(<<Last>>, TRUE)
<1>1. MapOf[Queue] \in Maps
  BY HandleAssumption
<1>. QED  BY <1>1, ViewOfNone, ViewsOfOne DEF Rest, View, Last

LEMMA PlanParts ==
  ASSUME NEW m
  PROVE  /\ RemoveMap(m) = <<Step("ctrl_put", m), Step("free_map", m)>>
         /\ PutMap(m) = <<Step("put_map", m), Step("test_va", m)>>
         /\ CtrlPut(m) = <<Step("ctrl_put", m)>>
         /\ PutMap(m) \o CtrlPut(m) = <<Step("put_map", m), Step("test_va", m), Step("ctrl_put", m)>>
BY Before DEF RemoveMap, PutMap, CtrlPut

LEMMA TailOfOne ==
  ASSUME NEW a  PROVE Tail(<<a>>) = <<>>
OBVIOUS

LEMMA TailOfTwo ==
  ASSUME NEW a, NEW b  PROVE Tail(<<a, b>>) = <<b>>
OBVIOUS

LEMMA AfterPut ==
  ASSUME NEW p \in Plans, Op(p) = "put_map"
  PROVE  /\ On(p) \in Maps /\ ~Frees(p)
         /\ View(<<>> \o Tail(p), "test_va", On(p), FALSE, GivesBack(p))
<1>1. PICK m \in Maps : p \in {<<Step("put_map", m), Step("test_va", m)>>,
                               <<Step("put_map", m), Step("test_va", m), Last>>}
  BY PlanAt
<1>2. CASE p = <<Step("put_map", m), Step("test_va", m)>>
  <2>1. View(p, "put_map", m, FALSE, FALSE)
    BY <1>2, ViewsOfTwo
  <2>2. <<>> \o Tail(p) = <<Step("test_va", m)>>
    BY <1>2, Tails
  <2>3. View(<<>> \o Tail(p), "test_va", m, FALSE, FALSE)
    BY <2>2, ViewsOfOne
  <2>. QED  BY <2>1, <2>3 DEF View
<1>3. CASE p = <<Step("put_map", m), Step("test_va", m), Last>>
  <2>1. View(p, "put_map", m, FALSE, TRUE)
    BY <1>3, ViewsOfThree
  <2>2. <<>> \o Tail(p) = <<Step("test_va", m), Last>>
    BY <1>3, Tails
  <2>3. View(<<>> \o Tail(p), "test_va", m, FALSE, TRUE)
    BY <2>2, ViewsOfTwo
  <2>. QED  BY <2>1, <2>3 DEF View
<1>. QED  BY <1>1, <1>2, <1>3

LEMMA AfterTest ==
  ASSUME NEW p \in Plans, Op(p) = "test_va"
  PROVE  /\ On(p) \in Maps /\ ~Frees(p)
         /\ Rest(<<>> \o Tail(p), GivesBack(p))
         /\ View(RemoveMap(On(p)) \o Tail(p), "ctrl_put", On(p), TRUE, GivesBack(p))
<1>1. PICK m \in Maps : p \in {<<Step("test_va", m)>>, <<Step("test_va", m), Last>>}
  BY PlanAt
<1>2. CASE p = <<Step("test_va", m)>>
  <2>1. View(p, "test_va", m, FALSE, FALSE)
    BY <1>2, ViewsOfOne
  <2>2. <<>> \o Tail(p) = <<>>
    BY <1>2, Tails
  <2>3. RemoveMap(m) \o Tail(p) = <<Step("ctrl_put", m), Step("free_map", m)>>
    <3>1. RemoveMap(m) = <<Step("ctrl_put", m), Step("free_map", m)>>
      BY PlanParts
    <3>2. Tail(p) = <<>>
      BY <1>2, TailOfOne
    <3>. QED  BY <3>1, <3>2, Before
  <2>4. View(RemoveMap(m) \o Tail(p), "ctrl_put", m, TRUE, FALSE)
    BY <2>3, ViewsOfTwo
  <2>. QED  BY <2>1, <2>2, <2>4, Rests DEF View, Rest
<1>3. CASE p = <<Step("test_va", m), Last>>
  <2>1. View(p, "test_va", m, FALSE, TRUE)
    BY <1>3, ViewsOfTwo
  <2>2. <<>> \o Tail(p) = <<Last>>
    BY <1>3, Tails
  <2>3. RemoveMap(m) \o Tail(p) = <<Step("ctrl_put", m), Step("free_map", m), Last>>
    <3>1. RemoveMap(m) = <<Step("ctrl_put", m), Step("free_map", m)>>
      BY PlanParts
    <3>2. Tail(p) = <<Last>>
      BY <1>3, TailOfTwo
    <3>. QED  BY <3>1, <3>2, TwoAndOne, Zenon
  <2>4. View(RemoveMap(m) \o Tail(p), "ctrl_put", m, TRUE, TRUE)
    BY <2>3, ViewsOfThree
  <2>. QED  BY <2>1, <2>2, <2>4, Rests DEF View, Rest
<1>. QED  BY <1>1, <1>2, <1>3

LEMMA AfterCtrlPut ==
  ASSUME NEW p \in Plans, Op(p) = "ctrl_put"
  PROVE  /\ On(p) \in Maps
         /\ Frees(p) =>
              /\ View(<<>> \o Tail(p), "free_map", On(p), TRUE, GivesBack(p))
              /\ View(<<Step("remove", On(p))>> \o Tail(p), "remove", On(p), TRUE, GivesBack(p))
         /\ ~Frees(p) =>
              /\ GivesBack(p) /\ Rest(<<>> \o Tail(p), FALSE)
              /\ View(<<Step("remove", On(p))>> \o Tail(p), "remove", On(p), FALSE, FALSE)
<1>1. PICK m \in Maps :
        p \in {<<Step("ctrl_put", m)>>, <<Step("ctrl_put", m), Step("free_map", m)>>,
               <<Step("ctrl_put", m), Step("free_map", m), Last>>}
  BY PlanAt
<1>2. CASE p = <<Step("ctrl_put", m)>>
  <2>1. View(p, "ctrl_put", m, FALSE, TRUE)
    BY <1>2, ViewsOfOne
  <2>2. <<>> \o Tail(p) = <<>>
    BY <1>2, Tails
  <2>3. <<Step("remove", m)>> \o Tail(p) = <<Step("remove", m)>>
    <3>1. Tail(p) = <<>>
      BY <1>2, TailOfOne
    <3>. QED  BY <3>1, Before
  <2>4. View(<<Step("remove", m)>> \o Tail(p), "remove", m, FALSE, FALSE)
    BY <2>3, ViewsOfOne
  <2>. QED  BY <2>1, <2>2, <2>4, Rests DEF View, Rest
<1>3. CASE p = <<Step("ctrl_put", m), Step("free_map", m)>>
  <2>1. View(p, "ctrl_put", m, TRUE, FALSE)
    BY <1>3, ViewsOfTwo
  <2>2. <<>> \o Tail(p) = <<Step("free_map", m)>>
    BY <1>3, Tails
  <2>3. <<Step("remove", m)>> \o Tail(p) = <<Step("remove", m), Step("free_map", m)>>
    <3>1. Tail(p) = <<Step("free_map", m)>>
      BY <1>3, TailOfTwo
    <3>. QED  BY <3>1, Before
  <2>4. View(<<Step("remove", m)>> \o Tail(p), "remove", m, TRUE, FALSE)
    BY <2>3, ViewsOfTwo
  <2>5. View(<<>> \o Tail(p), "free_map", m, TRUE, FALSE)
    BY <2>2, ViewsOfOne
  <2>. QED  BY <2>1, <2>4, <2>5 DEF View
<1>4. CASE p = <<Step("ctrl_put", m), Step("free_map", m), Last>>
  <2>1. View(p, "ctrl_put", m, TRUE, TRUE)
    BY <1>4, ViewsOfThree
  <2>2. <<>> \o Tail(p) = <<Step("free_map", m), Last>>
    BY <1>4, Tails
  <2>3. <<Step("remove", m)>> \o Tail(p) = <<Step("remove", m), Step("free_map", m), Last>>
    <3>1. Tail(p) = <<Step("free_map", m), Last>>
      BY <1>4
    <3>. QED  BY <3>1, OneAndTwo, Zenon
  <2>4. View(<<Step("remove", m)>> \o Tail(p), "remove", m, TRUE, TRUE)
    BY <2>3, ViewsOfThree
  <2>5. View(<<>> \o Tail(p), "free_map", m, TRUE, TRUE)
    BY <2>2, ViewsOfTwo
  <2>. QED  BY <2>1, <2>4, <2>5 DEF View
<1>. QED  BY <1>1, <1>2, <1>3, <1>4

LEMMA AfterRemove ==
  ASSUME NEW p \in Plans, Op(p) = "remove"
  PROVE  /\ On(p) \in Maps
         /\ Frees(p) => View(<<>> \o Tail(p), "free_map", On(p), TRUE, GivesBack(p))
         /\ ~Frees(p) => ~GivesBack(p) /\ Rest(<<>> \o Tail(p), FALSE)
<1>1. PICK m \in Maps :
        p \in {<<Step("remove", m)>>, <<Step("remove", m), Step("free_map", m)>>,
               <<Step("remove", m), Step("free_map", m), Last>>}
  BY PlanAt
<1>2. CASE p = <<Step("remove", m)>>
  <2>1. View(p, "remove", m, FALSE, FALSE)
    BY <1>2, ViewsOfOne
  <2>2. <<>> \o Tail(p) = <<>>
    BY <1>2, Tails
  <2>. QED  BY <2>1, <2>2, Rests DEF View
<1>3. CASE p = <<Step("remove", m), Step("free_map", m)>>
  <2>1. View(p, "remove", m, TRUE, FALSE)
    BY <1>3, ViewsOfTwo
  <2>2. <<>> \o Tail(p) = <<Step("free_map", m)>>
    BY <1>3, Tails
  <2>3. View(<<>> \o Tail(p), "free_map", m, TRUE, FALSE)
    BY <2>2, ViewsOfOne
  <2>. QED  BY <2>1, <2>3 DEF View
<1>4. CASE p = <<Step("remove", m), Step("free_map", m), Last>>
  <2>1. View(p, "remove", m, TRUE, TRUE)
    BY <1>4, ViewsOfThree
  <2>2. <<>> \o Tail(p) = <<Step("free_map", m), Last>>
    BY <1>4, Tails
  <2>3. View(<<>> \o Tail(p), "free_map", m, TRUE, TRUE)
    BY <2>2, ViewsOfTwo
  <2>. QED  BY <2>1, <2>3 DEF View
<1>. QED  BY <1>1, <1>2, <1>3, <1>4

LEMMA AfterFree ==
  ASSUME NEW p \in Plans, Op(p) = "free_map"
  PROVE  On(p) \in Maps /\ Frees(p) /\ Rest(<<>> \o Tail(p), GivesBack(p))
<1>1. PICK m \in Maps : p \in {<<Step("free_map", m)>>, <<Step("free_map", m), Last>>}
  BY PlanAt
<1>2. CASE p = <<Step("free_map", m)>>
  <2>1. View(p, "free_map", m, TRUE, FALSE)
    BY <1>2, ViewsOfOne
  <2>2. <<>> \o Tail(p) = <<>>
    BY <1>2, Tails
  <2>. QED  BY <2>1, <2>2, Rests DEF View, Rest
<1>3. CASE p = <<Step("free_map", m), Last>>
  <2>1. View(p, "free_map", m, TRUE, TRUE)
    BY <1>3, ViewsOfTwo
  <2>2. <<>> \o Tail(p) = <<Last>>
    BY <1>3, Tails
  <2>. QED  BY <2>1, <2>2, Rests DEF View, Rest
<1>. QED  BY <1>1, <1>2, <1>3

LEMMA AfterMap ==
  ASSUME NEW p \in Plans, Op(p) = "map"
  PROVE  /\ On(p) \in Made /\ ~Frees(p) /\ ~GivesBack(p)
         /\ Rest(<<>> \o Tail(p), FALSE)
         /\ \A m \in Maps : View(RemoveMap(m) \o Tail(p), "ctrl_put", m, TRUE, FALSE)
<1>1. PICK h \in Made : p = <<Step("map", h)>>
  BY PlanAt
<1>2. View(p, "map", h, FALSE, FALSE)
  BY <1>1, ViewsOfOne
<1>3. <<>> \o Tail(p) = <<>> /\ Tail(p) = <<>>
  BY <1>1, Tails, TailOfOne
<1>4. ASSUME NEW m \in Maps
      PROVE  View(RemoveMap(m) \o Tail(p), "ctrl_put", m, TRUE, FALSE)
  <2>1. RemoveMap(m) = <<Step("ctrl_put", m), Step("free_map", m)>>
    BY PlanParts
  <2>2. RemoveMap(m) \o Tail(p) = <<Step("ctrl_put", m), Step("free_map", m)>>
    BY <1>3, <2>1, Before
  <2>. QED  BY <2>2, ViewsOfTwo
<1>. QED  BY <1>2, <1>3, <1>4, Rests DEF View

LEMMA AfterGet ==
  ASSUME NEW p \in Plans, Op(p) = "get_map"
  PROVE  /\ On(p) \in Maps /\ ~Frees(p) /\ ~GivesBack(p)
         /\ Rest(<<>> \o Tail(p), FALSE)
         /\ On(p) = MapOf[Queue] =>
              /\ View((PutMap(On(p)) \o CtrlPut(On(p))) \o Tail(p), "put_map", On(p), FALSE, TRUE)
              /\ Rest(CtrlPut(On(p)) \o Tail(p), TRUE)
<1>1. PICK m \in Maps : p = <<Step("get_map", m)>>
  BY PlanAt
<1>2. View(p, "get_map", m, FALSE, FALSE)
  BY <1>1, ViewsOfOne
<1>3. <<>> \o Tail(p) = <<>> /\ Tail(p) = <<>>
  BY <1>1, Tails, TailOfOne
<1>4. ASSUME m = MapOf[Queue]
      PROVE  /\ View((PutMap(m) \o CtrlPut(m)) \o Tail(p), "put_map", m, FALSE, TRUE)
             /\ Rest(CtrlPut(m) \o Tail(p), TRUE)
  <2>1. PutMap(m) \o CtrlPut(m) = <<Step("put_map", m), Step("test_va", m), Last>>
    BY <1>4, PlanParts DEF Last
  <2>2. (PutMap(m) \o CtrlPut(m)) \o Tail(p) = <<Step("put_map", m), Step("test_va", m), Last>>
    BY <1>3, <2>1, ThreeAndNone
  <2>3. CtrlPut(m) \o Tail(p) = <<Last>>
    BY <1>3, <1>4, Before DEF CtrlPut, Last
  <2>. QED  BY <2>2, <2>3, ViewsOfThree, Rests
<1>. QED  BY <1>2, <1>3, <1>4, Rests DEF View

\* The plans calls begin with.
LEMMA FirstPlans ==
  /\ \A h \in Made : View(<<Step("map", h)>>, "map", h, FALSE, FALSE)
  /\ View(<<Step("get_map", MapOf[Window])>>, "get_map", MapOf[Window], FALSE, FALSE)
  /\ \A m \in Maps : View(PutMap(m), "put_map", m, FALSE, FALSE)
  /\ View(PutMap(MapOf[Queue]) \o CtrlPut(MapOf[Queue]), "put_map", MapOf[Queue], FALSE, TRUE)
  /\ Rest(CtrlPut(MapOf[Window]), TRUE)
<1>1. MapOf[Window] \in Maps /\ MapOf[Window] = MapOf[Queue]
  BY HandleAssumption
<1>2. PutMap(MapOf[Queue]) \o CtrlPut(MapOf[Queue])
        = <<Step("put_map", MapOf[Queue]), Step("test_va", MapOf[Queue]), Last>>
  BY PlanParts DEF Last
<1>3. CtrlPut(MapOf[Window]) = <<Last>>
  BY <1>1 DEF CtrlPut, Last
<1>4. \A m \in Maps : View(PutMap(m), "put_map", m, FALSE, FALSE)
  BY PlanParts, ViewsOfTwo
<1>. QED  BY <1>1, <1>2, <1>3, <1>4, ViewsOfOne, ViewsOfThree, Rests
------------------------------------------------------------------------------
(***************************************************************************)
(* What the steps of the proof share.                                       *)
(***************************************************************************)

LEMMA MadeOnes ==
  /\ Made \subseteq Handles /\ Window \in Made /\ Queue \notin Made
  /\ \A h \in Handles : MapOf[h] \in Maps /\ Owner[h] \in Threads
  /\ \A h, k \in Made : MapOf[h] = MapOf[k] => h = k
  /\ MapOf[Window] = MapOf[Queue] /\ Main \in Threads /\ Nobody \notin Threads
  /\ Queue \in Handles
BY HandleAssumption DEF Made

LEMMA DoingIs ==
  ASSUME NEW t, NEW op, Doing(t, op)
  PROVE  Op(todo[t]) = op /\ Head(todo[t]).map = On(todo[t])
BY DEF Doing, Op, On

LEMMA IdleIs ==
  ASSUME NEW t, todo[t] = <<>>
  PROVE  Op(todo[t]) = "idle" /\ ~Frees(todo[t]) /\ ~GivesBack(todo[t]) /\ ~Taking(todo[t])
BY ViewOfNone DEF Taking

\* The plan of a thread touches the descriptor of its own handles only.
LEMMA OneOwner ==
  ASSUME PlanInv, NEW t \in Threads, NEW h \in Made, On(todo[t]) = MapOf[h],
         Op(todo[t]) \in {"put_map", "test_va", "free_map"} \/ Frees(todo[t])
  PROVE  Owner[h] = t /\ handle[h] # "none"
BY MadeOnes DEF PlanInv, PlanOK

\* A plan has something to do with the descriptor of h.
Concerns(p, h) ==
  \/ Op(p) = "map" /\ On(p) = h
  \/ (Op(p) \in {"put_map", "test_va"} \/ Frees(p)) /\ On(p) = MapOf[h]

\* A step that leaves h, its descriptor and its thread's business with it alone.
LEMMA Untouched ==
  ASSUME NEW h \in Made, MapOK(h),
         uses'[MapOf[h]] = uses[MapOf[h]], va'[MapOf[h]] = va[MapOf[h]],
         pinned'[MapOf[h]] = pinned[MapOf[h]], freed'[MapOf[h]] = freed[MapOf[h]],
         handle'[h] = handle[h],
         h = Window => (handle'[Queue] = "live" <=> handle[Queue] = "live"),
         \/ todo'[Owner[h]] = todo[Owner[h]]
         \/ ~Concerns(todo[Owner[h]], h) /\ ~Concerns(todo'[Owner[h]], h)
  PROVE  MapOK(h)'
<1>1. /\ Mapping(h)' <=> Mapping(h)
      /\ Putting(h)' <=> Putting(h)
      /\ Leaving(h)' <=> Leaving(h)
  BY DEF Mapping, Putting, Leaving, Concerns
<1>2. Users(h)' = Users(h)
  BY <1>1 DEF Users, Num
<1>3. Num(~Leaving(h))' = Num(~Leaving(h))
  BY <1>1 DEF Num
<1>. QED  BY <1>1, <1>2, <1>3 DEF MapOK

LEMMA HolderIs ==
  ASSUME NEW x
  PROVE  x \in Holders <=>
           \/ opened /\ x = <<"program">>
           \/ aq \in {"making", "live"} /\ x = <<"reference">>
           \/ \E m \in Maps : Takes(m) /\ x = <<"map", m>>
           \/ \E t \in Threads : GivesBack(todo[t]) /\ x = <<"call", t>>
BY DEF Holders

LEMMA HolderIsNext ==
  ASSUME NEW x
  PROVE  x \in Holders' <=>
           \/ opened' /\ x = <<"program">>
           \/ aq' \in {"making", "live"} /\ x = <<"reference">>
           \/ \E m \in Maps : Takes(m)' /\ x = <<"map", m>>
           \/ \E t \in Threads : GivesBack(todo'[t]) /\ x = <<"call", t>>
BY DEF Holders

LEMMA SameHolders ==
  ASSUME opened' = opened, aq' \in {"making", "live"} <=> aq \in {"making", "live"},
         \A m \in Maps : Takes(m)' <=> Takes(m),
         \A t \in Threads : GivesBack(todo'[t]) <=> GivesBack(todo[t])
  PROVE  Holders' = Holders
<1>1. ASSUME NEW x  PROVE x \in Holders' <=> x \in Holders
  BY HolderIs, HolderIsNext
<1>. QED  BY <1>1

LEMMA Num01 == Num(TRUE) = 1 /\ Num(FALSE) = 0
BY DEF Num

\* Somebody who holds the controller keeps it.
LEMMA HeldIsOpen ==
  ASSUME TakenInv, NEW x \in Holders
  PROVE  count # 0
BY FS_EmptySet DEF TakenInv

\* One more has taken the controller, while the program had it.
LEMMA OneMore ==
  ASSUME TakenInv, count \in Nat, opened, NEW x, x \notin Holders,
         Holders' = Holders \union {x}, count' = count + 1,
         device' = device, removed' = removed,
         \A t \in Threads : Op(todo'[t]) = "remove" <=> Op(todo[t]) = "remove"
  PROVE  TakenInv'
<1>1. count # 0
  <2>1. <<"program">> \in Holders
    BY HolderIs
  <2>. QED  BY <2>1, HeldIsOpen
<1>2. IsFiniteSet(Holders') /\ count' = Cardinality(Holders') /\ count' # 0
  BY FS_AddElement DEF TakenInv
<1>. QED  BY <1>1, <1>2 DEF TakenInv

\* As many have it as before, and the handle is not about to be removed.
LEMMA AsMany ==
  ASSUME TakenInv, IsFiniteSet(Holders'), Cardinality(Holders') = Cardinality(Holders),
         count' = count, device' = device, removed' = removed,
         \A t \in Threads : Op(todo'[t]) = "remove" <=> Op(todo[t]) = "remove"
  PROVE  TakenInv'
<1>1. Num(\A t \in Threads : Op(todo'[t]) # "remove") = Num(\A t \in Threads : Op(todo[t]) # "remove")
  BY DEF Num
<1>. QED  BY <1>1 DEF TakenInv, Num

LEMMA Swapped ==
  ASSUME NEW S, IsFiniteSet(S), NEW x \in S, NEW y, y \notin S
  PROVE  /\ IsFiniteSet((S \ {x}) \union {y})
         /\ Cardinality((S \ {x}) \union {y}) = Cardinality(S)
<1>1. IsFiniteSet(S \ {x}) /\ Cardinality(S \ {x}) = Cardinality(S) - 1
  BY FS_RemoveElement
<1>2. /\ IsFiniteSet((S \ {x}) \union {y})
      /\ Cardinality((S \ {x}) \union {y}) = Cardinality(S \ {x}) + 1
  BY <1>1, FS_AddElement
<1>. QED  BY <1>1, <1>2, FS_CardinalityType
------------------------------------------------------------------------------
LEMMA HandleInitInv ==
  ASSUME HandleInit  PROVE HandleInv
<1>1. \A t \in Threads : todo[t] = <<>>
  BY DEF HandleInit
<1>2. \A t \in Threads : /\ Op(todo[t]) = "idle" /\ ~Frees(todo[t]) /\ ~GivesBack(todo[t])
                         /\ ~Taking(todo[t])
  BY <1>1, IdleIs
<1>3. HandleTypeOK
  BY ViewOfNone DEF HandleInit, HandleTypeOK
<1>4. PlanInv
  BY <1>2 DEF PlanInv, PlanOK
<1>5. RefInv
  BY MadeOnes DEF HandleInit, RefInv
<1>6. MapInv
  <2>1. ASSUME NEW h \in Made  PROVE MapOK(h)
    BY <1>2, MadeOnes DEF HandleInit, MapOK, Mapping
  <2>. QED  BY <2>1 DEF HandleInit, MapInv, Unmade
<1>7. TakenInv
  <2>1. Holders = {<<"program">>}
    <3>1. ASSUME NEW x  PROVE x \in Holders <=> x = <<"program">>
      <4>1. \A m \in Maps : ~Takes(m)
        BY <1>2 DEF HandleInit, Takes
      <4>. QED  BY <1>2, <4>1, HolderIs DEF HandleInit
    <3>. QED  BY <3>1
  <2>2. IsFiniteSet(Holders) /\ Cardinality(Holders) = 1
    BY <2>1, FS_Singleton
  <2>. QED  BY <1>2, <2>2 DEF HandleInit, TakenInv
<1>. QED  BY <1>3, <1>4, <1>5, <1>6, <1>7 DEF HandleInv

\* nvm_dma_map takes the controller for a new descriptor.
LEMMA MapBegins ==
  ASSUME HandleInv, NEW t \in Threads, NEW h \in Handles, dma_map(t, h)
  PROVE  HandleInv'
<1> DEFINE m == MapOf[h]
           q == <<Step("map", h)>>
<1>1. /\ t = Owner[h] /\ h \in Made /\ opened /\ handle[h] = "none" /\ todo[t] = <<>>
      /\ m \in Maps /\ count \in Nat
  BY MadeOnes DEF dma_map, Begin, Made, HandleInv, HandleTypeOK
<1>2. /\ count' = count + 1 /\ uses' = [uses EXCEPT ![m] = 1] /\ va' = [va EXCEPT ![m] = TRUE]
      /\ todo' = [todo EXCEPT ![t] = q]
      /\ UNCHANGED <<pinned, device, removed, opened, freed, handle, aq>>
  BY DEF dma_map, CtrlTaken, Begin
<1>3. View(q, "map", h, FALSE, FALSE)
  BY <1>1, FirstPlans
<1>4. Op(todo[t]) = "idle" /\ ~Frees(todo[t]) /\ ~GivesBack(todo[t]) /\ ~Taking(todo[t])
  BY <1>1, IdleIs
<1> HIDE DEF m, q
<1>5. /\ todo'[t] = q /\ \A u \in Threads : u # t => todo'[u] = todo[u]
      /\ va'[m] /\ uses'[m] = 1
      /\ \A n \in Maps : n # m => va'[n] = va[n] /\ uses'[n] = uses[n]
      /\ q \in Plans /\ Op(q) = "map" /\ On(q) = h /\ ~Frees(q) /\ ~GivesBack(q) /\ ~Taking(q)
  BY <1>1, <1>2, <1>3 DEF HandleInv, HandleTypeOK, View, Taking
<1>6. HandleTypeOK'
  BY <1>1, <1>2, <1>5 DEF HandleInv, HandleTypeOK
<1>7. PlanInv'
  <2>1. PlanOK(t)'
    BY <1>1, <1>2, <1>5 DEF PlanOK
  <2>2. ASSUME NEW u \in Threads, u # t  PROVE PlanOK(u)'
    <3>1. Frees(todo[u]) => On(todo[u]) # m /\ On(todo[u]) \in Maps
      BY <1>1, <2>2, OneOwner, MadeOnes DEF m, HandleInv, PlanInv, PlanOK
    <3>2. Op(todo[u]) = "put_map" => On(todo[u]) \in Maps
      BY MadeOnes DEF HandleInv, PlanInv, PlanOK
    <3>. QED  BY <1>2, <1>5, <2>2, <3>1, <3>2 DEF HandleInv, PlanInv, PlanOK
  <2>. QED  BY <2>1, <2>2 DEF PlanInv
<1>8. RefInv'
  BY <1>2, <1>4, <1>5, MadeOnes DEF HandleInv, RefInv
<1>9. MapInv'
  <2>1. MapOK(h)'
    <3>1. MapOK(h)
      BY <1>1 DEF HandleInv, MapInv
    <3>2. ~va[m] /\ pinned[m] = Nobody /\ freed[m] = 0
      BY <1>1, <1>4, <3>1 DEF MapOK, Mapping, m
    <3>. QED  BY <1>1, <1>2, <1>5, <3>2 DEF MapOK, Mapping, m
  <2>2. ASSUME NEW k \in Made, k # h  PROVE MapOK(k)'
    <3>1. MapOK(k) /\ MapOf[k] # m /\ MapOf[k] \in Maps /\ Owner[k] \in Threads
      BY <1>1, <2>2, MadeOnes DEF HandleInv, MapInv, m
    <3>2. ~Concerns(todo[t], k) /\ ~Concerns(todo'[t], k)
      BY <1>4, <1>5, <2>2 DEF Concerns
    <3>. QED  BY <1>2, <1>5, <3>1, <3>2, Untouched
  <2>3. \A n \in Unmade : n \in Maps /\ n # m
    BY <1>1 DEF Unmade, m
  <2>. QED  BY <1>2, <1>5, <2>1, <2>2, <2>3 DEF HandleInv, MapInv, Unmade
<1>10. TakenInv'
  <2>1. ~Takes(m) /\ Takes(m)' /\ \A n \in Maps : n # m => (Takes(n)' <=> Takes(n))
    <3>1. ~va[m]
      BY <1>1, <1>4 DEF HandleInv, MapInv, MapOK, Mapping, m
    <3>2. ASSUME NEW u \in Threads, Taking(todo[u]) PROVE On(todo[u]) # m
      BY <1>1, <3>2, OneOwner DEF Taking, HandleInv, m
    <3>. QED  BY <1>1, <1>4, <1>5, <3>1, <3>2 DEF Takes
  <2>2. <<"map", m>> \notin Holders
    BY <2>1, HolderIs
  <2>3. Holders' = Holders \union {<<"map", m>>}
    <3>1. \A u \in Threads : GivesBack(todo'[u]) <=> GivesBack(todo[u])
      BY <1>4, <1>5
    <3>2. ASSUME NEW x  PROVE x \in Holders' <=> x \in Holders \/ x = <<"map", m>>
      BY <1>1, <1>2, <2>1, <3>1, HolderIs, HolderIsNext
    <3>. QED  BY <3>2
  <2>4. \A u \in Threads : Op(todo'[u]) = "remove" <=> Op(todo[u]) = "remove"
    BY <1>4, <1>5
  <2>. QED  BY <1>1, <1>2, <2>2, <2>3, <2>4, OneMore DEF HandleInv
<1>. QED  BY <1>6, <1>7, <1>8, <1>9, <1>10 DEF HandleInv

\* The mapping succeeds: the range is pinned for the thread.
LEMMA MapSucceeds ==
  ASSUME HandleInv, NEW t \in Threads, Doing(t, "map"), NEW h, h = Head(todo[t]).map,
         handle' = [handle EXCEPT ![h] = "live"],
         pinned' = [pinned EXCEPT ![MapOf[h]] = t],
         Continue(t, <<>>),
         UNCHANGED <<va, count, device, removed, opened, uses, freed, aq>>
  PROVE  HandleInv'
<1> DEFINE m == MapOf[h]
           p == todo[t]
           q == todo'[t]
<1>1. /\ Op(p) = "map" /\ On(p) = h /\ p \in Plans /\ ~Frees(p) /\ ~GivesBack(p)
      /\ h \in Made /\ Rest(<<>> \o Tail(p), FALSE)
  BY DoingIs, AfterMap DEF HandleInv, HandleTypeOK
<1>2. /\ m \in Maps /\ Owner[h] = t /\ handle[h] = "none" /\ MapOK(h)
  BY <1>1, MadeOnes DEF HandleInv, PlanInv, PlanOK, MapInv
<1>3. va[m] /\ uses[m] = 1 /\ freed[m] = 0
  BY <1>1, <1>2 DEF MapOK, Mapping
<1>4. /\ todo' = [todo EXCEPT ![t] = q] /\ q = <<>> \o Tail(p)
      /\ q \in Plans /\ Op(q) = "idle" /\ ~Frees(q) /\ ~GivesBack(q)
      /\ \A u \in Threads : u # t => todo'[u] = todo[u]
  BY <1>1 DEF Continue, HandleInv, HandleTypeOK, Rest
<1>5. /\ handle'[h] = "live" /\ pinned'[m] = t
      /\ \A k \in Handles : k # h => handle'[k] = handle[k]
      /\ \A n \in Maps : n # m => pinned'[n] = pinned[n]
  BY <1>1, <1>2, MadeOnes DEF HandleInv, HandleTypeOK
<1>6. ~Taking(p) /\ ~Taking(q)
  BY <1>1, <1>4 DEF Taking
<1> HIDE DEF m, p, q
<1>7. HandleTypeOK'
  BY <1>1, <1>2, <1>4, MadeOnes DEF HandleInv, HandleTypeOK, m
<1>8. PlanInv'
  <2>1. PlanOK(t)'
    BY <1>4 DEF PlanOK, q
  <2>2. ASSUME NEW u \in Threads, u # t  PROVE PlanOK(u)'
    <3>1. PlanOK(u)
      BY DEF HandleInv, PlanInv
    <3>2. Op(todo[u]) = "map" => On(todo[u]) # h /\ On(todo[u]) \in Handles
      BY <1>2, <2>2, <3>1, MadeOnes DEF PlanOK
    <3>3. \A k \in Made : handle[k] # "none" => handle'[k] # "none"
      BY <1>5, MadeOnes
    <3>. QED  BY <1>4, <1>5, <2>2, <3>1, <3>2, <3>3 DEF PlanOK
  <2>. QED  BY <2>1, <2>2 DEF PlanInv
<1>9. RefInv'
  <2>1. h # Queue /\ (aq = "making" => Owner[Queue] # t)
    BY <1>1, MadeOnes DEF HandleInv, RefInv, p
  <2>. QED  BY <1>4, <1>5, <2>1, MadeOnes DEF HandleInv, RefInv
<1>10. MapInv'
  <2>1. MapOK(h)'
    <3>1. ~Putting(h)' /\ (h = Window => handle'[Queue] # "live")
      BY <1>1, <1>2, <1>4, <1>5, MadeOnes DEF Putting, HandleInv, RefInv, q
    <3>2. Users(h)' = 1
      BY <1>5, <3>1 DEF Users, Num
    <3>. QED  BY <1>2, <1>3, <1>5, <3>2 DEF MapOK, m
  <2>2. ASSUME NEW k \in Made, k # h  PROVE MapOK(k)'
    <3>1. MapOK(k) /\ MapOf[k] # m /\ MapOf[k] \in Maps /\ Owner[k] \in Threads /\ k \in Handles
      BY <1>1, <2>2, MadeOnes DEF HandleInv, MapInv, m
    <3>2. ~Concerns(p, k) /\ ~Concerns(q, k)
      BY <1>1, <1>4, <2>2 DEF Concerns
    <3>3. handle'[Queue] = handle[Queue]
      BY <1>1, <1>5, MadeOnes
    <3>. QED  BY <1>4, <1>5, <2>2, <3>1, <3>2, <3>3, Untouched DEF p, q
  <2>3. \A n \in Unmade : n \in Maps /\ n # m
    BY <1>1 DEF Unmade, m
  <2>. QED  BY <1>5, <2>1, <2>2, <2>3 DEF HandleInv, MapInv, Unmade
<1>11. TakenInv'
  <2>1. \A n \in Maps : Takes(n)' <=> Takes(n)
    BY <1>4, <1>6 DEF Takes, p, q
  <2>2. \A u \in Threads : /\ GivesBack(todo'[u]) <=> GivesBack(todo[u])
                           /\ Op(todo'[u]) = "remove" <=> Op(todo[u]) = "remove"
    BY <1>1, <1>4 DEF p, q
  <2>3. Holders' = Holders
    BY <2>1, <2>2, SameHolders
  <2>. QED  BY <2>2, <2>3, AsMany DEF HandleInv, TakenInv
<1>. QED  BY <1>7, <1>8, <1>9, <1>10, <1>11 DEF HandleInv

\* The mapping fails: remove_map undoes create_map.
LEMMA MapFails ==
  ASSUME HandleInv, NEW t \in Threads, Doing(t, "map"), NEW h, h = Head(todo[t]).map,
         handle' = [handle EXCEPT ![h] = "gone"],
         va' = [va EXCEPT ![MapOf[h]] = FALSE],
         Continue(t, RemoveMap(MapOf[h])),
         UNCHANGED <<pinned, count, device, removed, opened, uses, freed, aq>>
  PROVE  HandleInv'
<1> DEFINE m == MapOf[h]
           p == todo[t]
           q == todo'[t]
<1>1. /\ Op(p) = "map" /\ On(p) = h /\ p \in Plans /\ ~Frees(p) /\ ~GivesBack(p)
      /\ h \in Made /\ \A n \in Maps : View(RemoveMap(n) \o Tail(p), "ctrl_put", n, TRUE, FALSE)
  BY DoingIs, AfterMap DEF HandleInv, HandleTypeOK
<1>2. /\ m \in Maps /\ Owner[h] = t /\ handle[h] = "none" /\ MapOK(h)
  BY <1>1, MadeOnes DEF HandleInv, PlanInv, PlanOK, MapInv
<1>3. va[m] /\ pinned[m] = Nobody /\ freed[m] = 0
  BY <1>1, <1>2 DEF MapOK, Mapping
<1>4. /\ todo' = [todo EXCEPT ![t] = q] /\ q = RemoveMap(m) \o Tail(p)
      /\ q \in Plans /\ Op(q) = "ctrl_put" /\ On(q) = m /\ Frees(q) /\ ~GivesBack(q)
      /\ \A u \in Threads : u # t => todo'[u] = todo[u]
  BY <1>1, <1>2 DEF Continue, HandleInv, HandleTypeOK, View
<1>5. /\ handle'[h] = "gone" /\ ~va'[m]
      /\ \A k \in Handles : k # h => handle'[k] = handle[k]
      /\ \A n \in Maps : n # m => va'[n] = va[n]
  BY <1>1, <1>2, MadeOnes DEF HandleInv, HandleTypeOK
<1>6. ~Taking(p) /\ Taking(q)
  BY <1>1, <1>4 DEF Taking
<1> HIDE DEF m, p, q
<1>7. HandleTypeOK'
  BY <1>1, <1>2, <1>4, MadeOnes DEF HandleInv, HandleTypeOK, m
<1>8. PlanInv'
  <2>1. PlanOK(t)'
    BY <1>1, <1>2, <1>4, <1>5 DEF PlanOK, q, m
  <2>2. ASSUME NEW u \in Threads, u # t  PROVE PlanOK(u)'
    <3>1. PlanOK(u)
      BY DEF HandleInv, PlanInv
    <3>2. Op(todo[u]) = "map" => On(todo[u]) # h /\ On(todo[u]) \in Handles
      BY <1>2, <2>2, <3>1, MadeOnes DEF PlanOK
    <3>3. \A k \in Made : handle[k] # "none" => handle'[k] # "none"
      BY <1>5, MadeOnes
    <3>4. Op(todo[u]) = "put_map" \/ Frees(todo[u]) =>
            On(todo[u]) # m /\ On(todo[u]) \in Maps
      BY <1>1, <1>2, <2>2, <3>1, OneOwner, MadeOnes DEF PlanOK, HandleInv, m
    <3>. QED  BY <1>4, <1>5, <2>2, <3>1, <3>2, <3>3, <3>4 DEF PlanOK
  <2>. QED  BY <2>1, <2>2 DEF PlanInv
<1>9. RefInv'
  <2>1. h # Queue /\ (aq = "making" => Owner[Queue] # t)
    BY <1>1, MadeOnes DEF HandleInv, RefInv, p
  <2>2. aq # "none" => h # Window
    BY <1>2 DEF HandleInv, RefInv
  <2>. QED  BY <1>4, <1>5, <2>1, <2>2, MadeOnes DEF HandleInv, RefInv
<1>10. MapInv'
  <2>1. MapOK(h)'
    <3>1. ~Putting(h)' /\ (h = Window => handle'[Queue] # "live")
      BY <1>1, <1>2, <1>4, <1>5, MadeOnes DEF Putting, HandleInv, RefInv, q
    <3>2. Users(h)' = 0
      BY <1>5, <3>1 DEF Users, Num
    <3>3. Leaving(h)'
      BY <1>2, <1>4 DEF Leaving, q, m
    <3>. QED  BY <1>2, <1>3, <1>5, <3>2, <3>3 DEF MapOK, m, Num
  <2>2. ASSUME NEW k \in Made, k # h  PROVE MapOK(k)'
    <3>1. MapOK(k) /\ MapOf[k] # m /\ MapOf[k] \in Maps /\ Owner[k] \in Threads /\ k \in Handles
      BY <1>1, <2>2, MadeOnes DEF HandleInv, MapInv, m
    <3>2. ~Concerns(p, k) /\ ~Concerns(q, k)
      BY <1>1, <1>4, <2>2, <3>1 DEF Concerns
    <3>3. handle'[Queue] = handle[Queue]
      BY <1>1, <1>5, MadeOnes
    <3>. QED  BY <1>4, <1>5, <2>2, <3>1, <3>2, <3>3, Untouched DEF p, q
  <2>3. \A n \in Unmade : n \in Maps /\ n # m
    BY <1>1 DEF Unmade, m
  <2>. QED  BY <1>5, <2>1, <2>2, <2>3 DEF HandleInv, MapInv, Unmade
<1>11. TakenInv'
  <2>1. ASSUME NEW n \in Maps  PROVE Takes(n)' <=> Takes(n)
    <3>1. Takes(m) /\ Takes(m)'
      BY <1>3, <1>4, <1>6 DEF Takes, q
    <3>2. n # m => (Takes(n)' <=> Takes(n))
      BY <1>4, <1>5, <1>6 DEF Takes, p, q
    <3>. QED  BY <3>1, <3>2
  <2>2. \A u \in Threads : /\ GivesBack(todo'[u]) <=> GivesBack(todo[u])
                           /\ Op(todo'[u]) = "remove" <=> Op(todo[u]) = "remove"
    BY <1>1, <1>4 DEF p, q
  <2>3. Holders' = Holders
    BY <2>1, <2>2, SameHolders
  <2>. QED  BY <2>2, <2>3, AsMany DEF HandleInv, TakenInv
<1>. QED  BY <1>7, <1>8, <1>9, <1>10, <1>11 DEF HandleInv

\* nvm_aq_create takes the controller for the reference.
LEMMA RefBegins ==
  ASSUME HandleInv, NEW t \in Threads, aq_create(t)
  PROVE  HandleInv'
<1> DEFINE q == <<Step("get_map", MapOf[Window])>>
<1>1. /\ t = Owner[Queue] /\ opened /\ aq = "none" /\ handle[Window] = "live" /\ todo[t] = <<>>
      /\ count \in Nat /\ count' = count + 1 /\ aq' = "making"
      /\ todo' = [todo EXCEPT ![t] = q]
      /\ UNCHANGED <<pinned, device, removed, opened, uses, va, freed, handle>>
  BY DEF aq_create, CtrlTaken, Begin, HandleInv, HandleTypeOK
<1>2. Op(todo[t]) = "idle" /\ ~Frees(todo[t]) /\ ~GivesBack(todo[t]) /\ ~Taking(todo[t])
  BY <1>1, IdleIs
<1>3. View(q, "get_map", MapOf[Window], FALSE, FALSE)
  BY FirstPlans
<1> HIDE DEF q
<1>4. /\ todo'[t] = q /\ \A u \in Threads : u # t => todo'[u] = todo[u]
      /\ q \in Plans /\ Op(q) = "get_map" /\ On(q) = MapOf[Window]
      /\ ~Frees(q) /\ ~GivesBack(q) /\ ~Taking(q)
  BY <1>1, <1>3 DEF HandleInv, HandleTypeOK, View, Taking
<1>5. HandleTypeOK'
  BY <1>1, <1>4 DEF HandleInv, HandleTypeOK
<1>6. PlanInv'
  <2>1. PlanOK(t)'
    BY <1>1, <1>4 DEF PlanOK
  <2>2. ASSUME NEW u \in Threads, u # t  PROVE PlanOK(u)'
    BY <1>1, <1>4, <2>2 DEF HandleInv, PlanInv, PlanOK
  <2>. QED  BY <2>1, <2>2 DEF PlanInv
<1>7. RefInv'
  BY <1>1, <1>4 DEF HandleInv, RefInv
<1>8. MapInv'
  <2>1. ASSUME NEW k \in Made  PROVE MapOK(k)'
    <3>1. MapOK(k) /\ Owner[k] \in Threads
      BY MadeOnes DEF HandleInv, MapInv
    <3>2. ~Concerns(todo[t], k) /\ ~Concerns(todo'[t], k)
      BY <1>2, <1>4 DEF Concerns
    <3>. QED  BY <1>1, <1>4, <3>1, <3>2, Untouched
  <2>. QED  BY <1>1, <2>1 DEF HandleInv, MapInv, Unmade
<1>9. TakenInv'
  <2>1. \A n \in Maps : Takes(n)' <=> Takes(n)
    BY <1>1, <1>2, <1>4 DEF Takes
  <2>2. \A u \in Threads : /\ GivesBack(todo'[u]) <=> GivesBack(todo[u])
                           /\ Op(todo'[u]) = "remove" <=> Op(todo[u]) = "remove"
    BY <1>2, <1>4
  <2>3. <<"reference">> \notin Holders
    BY <1>1, HolderIs
  <2>4. Holders' = Holders \union {<<"reference">>}
    <3>1. ASSUME NEW x  PROVE x \in Holders' <=> x \in Holders \/ x = <<"reference">>
      BY <1>1, <2>1, <2>2, HolderIs, HolderIsNext
    <3>. QED  BY <3>1
  <2>. QED  BY <1>1, <2>2, <2>3, <2>4, OneMore DEF HandleInv
<1>. QED  BY <1>5, <1>6, <1>7, <1>8, <1>9 DEF HandleInv

\* The plan to make the reference: its map is the window's, which is live.
LEMMA RefInTheMaking ==
  ASSUME OwnersAgree, HandleInv, NEW t \in Threads, Op(todo[t]) = "get_map"
  PROVE  /\ On(todo[t]) = MapOf[Window] /\ t = Owner[Window] /\ aq = "making"
         /\ handle[Window] = "live" /\ handle[Queue] # "live" /\ MapOK(Window)
         /\ va[MapOf[Window]] /\ uses[MapOf[Window]] = Users(Window)
<1>1. /\ On(todo[t]) = MapOf[Window] /\ t = Owner[Window] /\ aq = "making"
      /\ handle[Window] = "live" /\ handle[Queue] # "live" /\ MapOK(Window)
  BY MadeOnes DEF OwnersAgree, HandleInv, PlanInv, PlanOK, RefInv, MapInv
<1>2. Users(Window) # 0
  BY <1>1 DEF Users, Num
<1>. QED  BY <1>1, <1>2 DEF MapOK

\* nvm_dma_remap succeeds, and the reference is made.
LEMMA RefMade ==
  ASSUME OwnersAgree, HandleInv, NEW t \in Threads, Doing(t, "get_map"),
         uses' = TakenWindow, handle' = [handle EXCEPT ![Queue] = "live"], aq' = "live",
         Continue(t, <<>>),
         UNCHANGED <<pinned, count, device, removed, opened, va, freed>>
  PROVE  HandleInv'
<1> DEFINE w == MapOf[Window]
           p == todo[t]
           q == todo'[t]
<1>1. /\ Op(p) = "get_map" /\ p \in Plans /\ ~Frees(p) /\ ~GivesBack(p)
      /\ Rest(<<>> \o Tail(p), FALSE)
  BY DoingIs, AfterGet DEF HandleInv, HandleTypeOK
<1>2. /\ On(p) = w /\ t = Owner[Window] /\ aq = "making" /\ handle[Window] = "live"
      /\ handle[Queue] # "live" /\ MapOK(Window) /\ va[w] /\ uses[w] = Users(Window)
  BY <1>1, RefInTheMaking
<1>3. /\ todo' = [todo EXCEPT ![t] = q] /\ q \in Plans
      /\ Op(q) = "idle" /\ ~Frees(q) /\ ~GivesBack(q)
      /\ \A u \in Threads : u # t => todo'[u] = todo[u]
  BY <1>1 DEF Continue, HandleInv, HandleTypeOK, Rest
<1>4. /\ w \in Maps /\ uses' = [uses EXCEPT ![w] = @ + 1] /\ uses'[w] = uses[w] + 1
      /\ \A n \in Maps : n # w => uses'[n] = uses[n]
      /\ handle'[Queue] = "live" /\ \A k \in Made : handle'[k] = handle[k]
  BY MadeOnes DEF TakenWindow, HandleInv, HandleTypeOK, Made
<1>5. ~Taking(p) /\ ~Taking(q)
  BY <1>1, <1>3 DEF Taking
<1> HIDE DEF w, p, q
<1>6. HandleTypeOK'
  BY <1>3, <1>4, MadeOnes DEF HandleInv, HandleTypeOK
<1>7. PlanInv'
  <2>1. PlanOK(t)'
    BY <1>3 DEF PlanOK, q
  <2>2. ASSUME NEW u \in Threads, u # t  PROVE PlanOK(u)'
    <3>1. Op(todo[u]) # "get_map"
      BY <1>2, <2>2 DEF OwnersAgree, HandleInv, PlanInv, PlanOK
    <3>. QED  BY <1>3, <1>4, <2>2, <3>1 DEF HandleInv, PlanInv, PlanOK
  <2>. QED  BY <2>1, <2>2 DEF PlanInv
<1>8. RefInv'
  BY <1>2, <1>4, MadeOnes DEF HandleInv, RefInv
<1>9. MapInv'
  <2>1. MapOK(Window)'
    <3>1. ~Putting(Window) /\ ~Putting(Window)'
      BY <1>1, <1>2, <1>3 DEF Putting, p, q
    <3>2. Users(Window) = 1 /\ Users(Window)' = 2
      BY <1>2, <1>4, <3>1, MadeOnes DEF Users, Num
    <3>. QED  BY <1>2, <1>4, <3>2, MadeOnes DEF MapOK, w
  <2>2. ASSUME NEW k \in Made, k # Window  PROVE MapOK(k)'
    <3>1. MapOK(k) /\ MapOf[k] # w /\ MapOf[k] \in Maps /\ Owner[k] \in Threads
      BY <2>2, MadeOnes DEF HandleInv, MapInv, w
    <3>2. ~Concerns(p, k) /\ ~Concerns(q, k)
      BY <1>1, <1>3 DEF Concerns
    <3>. QED  BY <1>3, <1>4, <2>2, <3>1, <3>2, Untouched DEF p, q
  <2>. QED  BY <2>1, <2>2 DEF HandleInv, MapInv, Unmade
<1>10. TakenInv'
  <2>1. \A n \in Maps : Takes(n)' <=> Takes(n)
    BY <1>3, <1>5 DEF Takes, p, q
  <2>2. \A u \in Threads : /\ GivesBack(todo'[u]) <=> GivesBack(todo[u])
                           /\ Op(todo'[u]) = "remove" <=> Op(todo[u]) = "remove"
    BY <1>1, <1>3 DEF p, q
  <2>3. Holders' = Holders
    BY <1>2, <2>1, <2>2, SameHolders
  <2>. QED  BY <2>2, <2>3, AsMany DEF HandleInv, TakenInv
<1>. QED  BY <1>6, <1>7, <1>8, <1>9, <1>10 DEF HandleInv

\* A call takes over from the reference that it is to give the controller back.
LEMMA ReferenceToCall ==
  ASSUME HandleInv, NEW t \in Threads, aq \in {"making", "live"}, aq' = "gone",
         opened' = opened, count' = count, device' = device, removed' = removed,
         ~GivesBack(todo[t]), GivesBack(todo'[t]),
         \A u \in Threads : u # t => todo'[u] = todo[u],
         Op(todo[t]) # "remove", Op(todo'[t]) # "remove",
         \A n \in Maps : Takes(n)' <=> Takes(n)
  PROVE  TakenInv'
<1>1. /\ <<"reference">> \in Holders /\ <<"call", t>> \notin Holders
  BY HolderIs
<1>2. Holders' = (Holders \ {<<"reference">>}) \union {<<"call", t>>}
  <2>1. ASSUME NEW x
        PROVE  x \in Holders' <=> (x \in Holders /\ x # <<"reference">>) \/ x = <<"call", t>>
    BY HolderIs, HolderIsNext
  <2>. QED  BY <2>1
<1>3. IsFiniteSet(Holders') /\ Cardinality(Holders') = Cardinality(Holders)
  BY <1>1, <1>2, Swapped DEF HandleInv, TakenInv
<1>. QED  BY <1>3, AsMany DEF HandleInv

\* Making the reference fails after the remap, whose handle is given back.
LEMMA RefFailsLate ==
  ASSUME OwnersAgree, HandleInv, NEW t \in Threads, Doing(t, "get_map"),
         uses' = TakenWindow, aq' = "gone",
         Continue(t, PutMap(Head(todo[t]).map) \o CtrlPut(Head(todo[t]).map)),
         UNCHANGED <<handle, pinned, count, device, removed, opened, va, freed>>
  PROVE  HandleInv'
<1> DEFINE w == MapOf[Window]
           p == todo[t]
           q == todo'[t]
<1>1. /\ Op(p) = "get_map" /\ p \in Plans /\ ~Frees(p) /\ ~GivesBack(p) /\ Head(p).map = On(p)
      /\ On(p) = MapOf[Queue] =>
           View((PutMap(On(p)) \o CtrlPut(On(p))) \o Tail(p), "put_map", On(p), FALSE, TRUE)
  BY DoingIs, AfterGet DEF HandleInv, HandleTypeOK
<1>2. /\ On(p) = w /\ t = Owner[Window] /\ aq = "making" /\ handle[Window] = "live"
      /\ handle[Queue] # "live" /\ MapOK(Window) /\ va[w] /\ uses[w] = Users(Window)
  BY <1>1, RefInTheMaking
<1>3. /\ todo' = [todo EXCEPT ![t] = q] /\ q \in Plans
      /\ Op(q) = "put_map" /\ On(q) = w /\ ~Frees(q) /\ GivesBack(q)
      /\ \A u \in Threads : u # t => todo'[u] = todo[u]
  BY <1>1, <1>2, MadeOnes DEF Continue, HandleInv, HandleTypeOK, View
<1>4. /\ w \in Maps /\ uses' = [uses EXCEPT ![w] = @ + 1] /\ uses'[w] = uses[w] + 1
      /\ \A n \in Maps : n # w => uses'[n] = uses[n]
  BY MadeOnes DEF TakenWindow, HandleInv, HandleTypeOK, Made
<1>5. ~Taking(p) /\ ~Taking(q)
  BY <1>1, <1>3 DEF Taking
<1> HIDE DEF w, p, q
<1>6. HandleTypeOK'
  BY <1>3, <1>4, MadeOnes DEF HandleInv, HandleTypeOK
<1>7. PlanInv'
  <2>1. PlanOK(t)'
    BY <1>2, <1>3, MadeOnes DEF PlanOK, q, w
  <2>2. ASSUME NEW u \in Threads, u # t  PROVE PlanOK(u)'
    <3>1. Op(todo[u]) # "get_map"
      BY <1>2, <2>2 DEF OwnersAgree, HandleInv, PlanInv, PlanOK
    <3>. QED  BY <1>3, <2>2, <3>1 DEF HandleInv, PlanInv, PlanOK
  <2>. QED  BY <2>1, <2>2 DEF PlanInv
<1>8. RefInv'
  BY <1>2, MadeOnes DEF HandleInv, RefInv
<1>9. MapInv'
  <2>1. MapOK(Window)'
    <3>1. ~Putting(Window) /\ Putting(Window)'
      BY <1>1, <1>2, <1>3 DEF Putting, p, q, w
    <3>2. Users(Window) = 1 /\ Users(Window)' = 2
      BY <1>2, <3>1, MadeOnes DEF Users, Num
    <3>. QED  BY <1>2, <1>4, <3>2, MadeOnes DEF MapOK, w
  <2>2. ASSUME NEW k \in Made, k # Window  PROVE MapOK(k)'
    <3>1. MapOK(k) /\ MapOf[k] # w /\ MapOf[k] \in Maps /\ Owner[k] \in Threads
      BY <2>2, MadeOnes DEF HandleInv, MapInv, w
    <3>2. ~Concerns(p, k) /\ ~Concerns(q, k)
      BY <1>1, <1>3, <3>1 DEF Concerns
    <3>. QED  BY <1>3, <1>4, <2>2, <3>1, <3>2, Untouched DEF p, q
  <2>. QED  BY <2>1, <2>2 DEF HandleInv, MapInv, Unmade
<1>10. TakenInv'
  <2>1. \A n \in Maps : Takes(n)' <=> Takes(n)
    BY <1>3, <1>5 DEF Takes, p, q
  <2>. QED  BY <1>1, <1>2, <1>3, <2>1, ReferenceToCall DEF p, q
<1>. QED  BY <1>6, <1>7, <1>8, <1>9, <1>10 DEF HandleInv

\* Making the reference fails before the window's map is taken.
LEMMA RefFailsEarly ==
  ASSUME OwnersAgree, HandleInv, NEW t \in Threads, Doing(t, "get_map"),
         aq' = "gone", Continue(t, CtrlPut(Head(todo[t]).map)),
         UNCHANGED <<uses, handle, pinned, count, device, removed, opened, va, freed>>
  PROVE  HandleInv'
<1> DEFINE p == todo[t]
           q == todo'[t]
<1>1. /\ Op(p) = "get_map" /\ p \in Plans /\ ~Frees(p) /\ ~GivesBack(p) /\ Head(p).map = On(p)
      /\ On(p) = MapOf[Queue] => Rest(CtrlPut(On(p)) \o Tail(p), TRUE)
  BY DoingIs, AfterGet DEF HandleInv, HandleTypeOK
<1>2. /\ On(p) = MapOf[Window] /\ t = Owner[Window] /\ aq = "making" /\ handle[Window] = "live"
      /\ handle[Queue] # "live"
  BY <1>1, RefInTheMaking
<1>3. /\ todo' = [todo EXCEPT ![t] = q] /\ q \in Plans
      /\ Op(q) = "ctrl_put" /\ ~Frees(q) /\ GivesBack(q)
      /\ \A u \in Threads : u # t => todo'[u] = todo[u]
  BY <1>1, <1>2, MadeOnes DEF Continue, HandleInv, HandleTypeOK, Rest
<1>4. ~Taking(p) /\ ~Taking(q)
  BY <1>1, <1>3 DEF Taking
<1> HIDE DEF p, q
<1>5. HandleTypeOK'
  BY <1>3 DEF HandleInv, HandleTypeOK
<1>6. PlanInv'
  <2>1. PlanOK(t)'
    BY <1>3 DEF PlanOK, q
  <2>2. ASSUME NEW u \in Threads, u # t  PROVE PlanOK(u)'
    <3>1. Op(todo[u]) # "get_map"
      BY <1>2, <2>2 DEF OwnersAgree, HandleInv, PlanInv, PlanOK
    <3>. QED  BY <1>3, <2>2, <3>1 DEF HandleInv, PlanInv, PlanOK
  <2>. QED  BY <2>1, <2>2 DEF PlanInv
<1>7. RefInv'
  BY <1>2, MadeOnes DEF HandleInv, RefInv
<1>8. MapInv'
  <2>1. ASSUME NEW k \in Made  PROVE MapOK(k)'
    <3>1. MapOK(k) /\ Owner[k] \in Threads
      BY MadeOnes DEF HandleInv, MapInv
    <3>2. ~Concerns(p, k) /\ ~Concerns(q, k)
      BY <1>1, <1>3 DEF Concerns
    <3>. QED  BY <1>3, <3>1, <3>2, Untouched DEF p, q
  <2>. QED  BY <2>1 DEF HandleInv, MapInv, Unmade
<1>9. TakenInv'
  <2>1. \A n \in Maps : Takes(n)' <=> Takes(n)
    BY <1>3, <1>4 DEF Takes, p, q
  <2>. QED  BY <1>1, <1>2, <1>3, <2>1, ReferenceToCall DEF p, q
<1>. QED  BY <1>5, <1>6, <1>7, <1>8, <1>9 DEF HandleInv

\* nvm_aq_destroy gives back the reference's handle, and then its controller.
LEMMA RefEnds ==
  ASSUME OwnersAgree, HandleInv, NEW t \in Threads, aq_destroy(t)
  PROVE  HandleInv'
<1> DEFINE w == MapOf[Window]
           q == todo'[t]
<1>1. /\ t = Owner[Window] /\ aq = "live" /\ handle[Queue] = "live" /\ todo[t] = <<>>
      /\ handle[Window] # "none" /\ MapOK(Window) /\ w \in Maps
      /\ todo' = [todo EXCEPT ![t] = PutMap(MapOf[Queue]) \o CtrlPut(MapOf[Queue])]
      /\ aq' = "gone" /\ handle' = [handle EXCEPT ![Queue] = "gone"]
      /\ UNCHANGED <<pinned, count, device, removed, opened, uses, va, freed>>
  BY MadeOnes DEF OwnersAgree, aq_destroy, Begin, HandleInv, RefInv, MapInv
<1>2. Op(todo[t]) = "idle" /\ ~Frees(todo[t]) /\ ~GivesBack(todo[t]) /\ ~Taking(todo[t])
  BY <1>1, IdleIs
<1>3. /\ todo' = [todo EXCEPT ![t] = q] /\ q \in Plans
      /\ Op(q) = "put_map" /\ On(q) = w /\ ~Frees(q) /\ GivesBack(q) /\ ~Taking(q)
      /\ \A u \in Threads : u # t => todo'[u] = todo[u]
  BY <1>1, FirstPlans, MadeOnes DEF HandleInv, HandleTypeOK, View, Taking
<1>4. va[w] /\ uses[w] = Users(Window)
  <2>1. Users(Window) # 0
    BY <1>1 DEF Users, Num
  <2>. QED  BY <1>1, <2>1 DEF MapOK
<1>5. handle'[Queue] = "gone" /\ \A k \in Made : handle'[k] = handle[k]
  BY <1>1, MadeOnes DEF HandleInv, HandleTypeOK, Made
<1> HIDE DEF w, q
<1>6. HandleTypeOK'
  <2>1. todo' \in [Threads -> Plans]
    BY <1>3 DEF HandleInv, HandleTypeOK
  <2>2. handle' \in [Handles -> {"none", "live", "gone"}]
    BY <1>1 DEF HandleInv, HandleTypeOK
  <2>. QED  BY <1>1, <2>1, <2>2 DEF HandleInv, HandleTypeOK
<1>7. PlanInv'
  <2>1. PlanOK(t)'
    BY <1>1, <1>3, <1>4, <1>5, MadeOnes DEF PlanOK, q, w
  <2>2. ASSUME NEW u \in Threads, u # t  PROVE PlanOK(u)'
    <3>1. Op(todo[u]) # "get_map"
      BY <1>1 DEF HandleInv, PlanInv, PlanOK
    <3>. QED  BY <1>1, <1>3, <1>5, <2>2, <3>1 DEF HandleInv, PlanInv, PlanOK
  <2>. QED  BY <2>1, <2>2 DEF PlanInv
<1>8. RefInv'
  BY <1>1, <1>5, MadeOnes DEF HandleInv, RefInv
<1>9. MapInv'
  <2>1. MapOK(Window)'
    <3>1. ~Putting(Window) /\ Putting(Window)'
      BY <1>1, <1>2, <1>3 DEF Putting, q, w
    <3>2. Users(Window)' = Users(Window)
      BY <1>1, <1>5, <3>1, MadeOnes DEF Users, Num
    <3>. QED  BY <1>1, <1>4, <1>5, <3>2, MadeOnes DEF MapOK, w
  <2>2. ASSUME NEW k \in Made, k # Window  PROVE MapOK(k)'
    <3>1. MapOK(k) /\ MapOf[k] # w /\ MapOf[k] \in Maps /\ Owner[k] \in Threads
      BY <2>2, MadeOnes DEF HandleInv, MapInv, w
    <3>2. ~Concerns(todo[t], k) /\ ~Concerns(q, k)
      BY <1>2, <1>3, <3>1 DEF Concerns
    <3>. QED  BY <1>1, <1>3, <1>5, <2>2, <3>1, <3>2, Untouched DEF q
  <2>. QED  BY <1>1, <2>1, <2>2 DEF HandleInv, MapInv, Unmade
<1>10. TakenInv'
  <2>1. \A n \in Maps : Takes(n)' <=> Takes(n)
    BY <1>1, <1>2, <1>3 DEF Takes, q
  <2>. QED  BY <1>1, <1>2, <1>3, <2>1, ReferenceToCall DEF q
<1>. QED  BY <1>6, <1>7, <1>8, <1>9, <1>10 DEF HandleInv

\* nvm_dma_unmap: the handle is gone, and a put_map on its way.
LEMMA UnmapBegins ==
  ASSUME HandleInv, NEW t \in Threads, NEW h \in Handles, dma_unmap(t, h)
  PROVE  HandleInv'
<1> DEFINE m == MapOf[h]
           q == PutMap(m)
<1>1. /\ t = Owner[h] /\ h \in Made /\ handle[h] = "live" /\ todo[t] = <<>>
      /\ h = Window => aq # "making"
      /\ m \in Maps /\ MapOK(h)
      /\ todo' = [todo EXCEPT ![t] = q] /\ handle' = [handle EXCEPT ![h] = "gone"]
      /\ UNCHANGED <<pinned, count, device, removed, opened, uses, va, freed, aq>>
  BY MadeOnes DEF dma_unmap, Begin, Made, HandleInv, MapInv
<1>2. View(q, "put_map", m, FALSE, FALSE)
  BY <1>1, FirstPlans
<1>3. Op(todo[t]) = "idle" /\ ~Frees(todo[t]) /\ ~GivesBack(todo[t]) /\ ~Taking(todo[t])
  BY <1>1, IdleIs
<1>4. va[m] /\ uses[m] = Users(h)
  <2>1. Users(h) # 0
    BY <1>1 DEF Users, Num
  <2>. QED  BY <1>1, <2>1 DEF MapOK
<1> HIDE DEF m, q
<1>5. /\ todo'[t] = q /\ \A u \in Threads : u # t => todo'[u] = todo[u]
      /\ q \in Plans /\ Op(q) = "put_map" /\ On(q) = m /\ ~Frees(q) /\ ~GivesBack(q) /\ ~Taking(q)
      /\ handle'[h] = "gone" /\ \A k \in Handles : k # h => handle'[k] = handle[k]
  BY <1>1, <1>2 DEF HandleInv, HandleTypeOK, View, Taking
<1>6. HandleTypeOK'
  BY <1>1, <1>5 DEF HandleInv, HandleTypeOK
<1>7. PlanInv'
  <2>1. PlanOK(t)'
    BY <1>1, <1>4, <1>5 DEF PlanOK, m
  <2>2. ASSUME NEW u \in Threads, u # t  PROVE PlanOK(u)'
    <3>1. \A k \in Made : /\ handle[k] # "none" => handle'[k] # "none"
                          /\ handle[k] = "none" => handle'[k] = "none"
      BY <1>1, <1>5, MadeOnes
    <3>. QED  BY <1>1, <1>5, <2>2, <3>1 DEF HandleInv, PlanInv, PlanOK
  <2>. QED  BY <2>1, <2>2 DEF PlanInv
<1>8. RefInv'
  <2>1. aq = "making" => Owner[Queue] # t /\ Owner[Queue] \in Threads /\ h # Window
    BY <1>1, <1>3, MadeOnes DEF HandleInv, RefInv
  <2>. QED  BY <1>1, <1>5, <2>1, MadeOnes DEF HandleInv, RefInv
<1>9. MapInv'
  <2>0. handle'[Queue] = handle[Queue]
    BY <1>1, <1>5, MadeOnes
  <2>1. MapOK(h)'
    <3>1. ~Putting(h) /\ Putting(h)'
      BY <1>1, <1>3, <1>5 DEF Putting, m
    <3>2. Users(h)' = Users(h)
      BY <1>1, <1>5, <2>0, <3>1 DEF Users, Num
    <3>. QED  BY <1>1, <1>4, <1>5, <3>2 DEF MapOK, m
  <2>2. ASSUME NEW k \in Made, k # h  PROVE MapOK(k)'
    <3>1. MapOK(k) /\ MapOf[k] # m /\ MapOf[k] \in Maps /\ Owner[k] \in Threads /\ k \in Handles
      BY <1>1, <2>2, MadeOnes DEF HandleInv, MapInv, m
    <3>2. ~Concerns(todo[t], k) /\ ~Concerns(todo'[t], k)
      BY <1>3, <1>5, <3>1 DEF Concerns
    <3>. QED  BY <1>1, <1>5, <2>0, <2>2, <3>1, <3>2, Untouched
  <2>. QED  BY <1>1, <2>1, <2>2 DEF HandleInv, MapInv, Unmade
<1>10. TakenInv'
  <2>1. \A n \in Maps : Takes(n)' <=> Takes(n)
    BY <1>1, <1>3, <1>5 DEF Takes
  <2>2. \A u \in Threads : /\ GivesBack(todo'[u]) <=> GivesBack(todo[u])
                           /\ Op(todo'[u]) = "remove" <=> Op(todo[u]) = "remove"
    BY <1>3, <1>5
  <2>3. Holders' = Holders
    BY <1>1, <2>1, <2>2, SameHolders
  <2>. QED  BY <1>1, <2>2, <2>3, AsMany DEF HandleInv, TakenInv
<1>. QED  BY <1>6, <1>7, <1>8, <1>9, <1>10 DEF HandleInv

\* nvm_ctrl_free: a call is to give back what the program had.
LEMMA ProgramEnds ==
  ASSUME HandleInv, NEW t \in Threads, ctrl_free(t)
  PROVE  HandleInv'
<1> DEFINE q == CtrlPut(MapOf[Window])
<1>1. /\ opened /\ ~opened' /\ opened' \in BOOLEAN /\ todo[t] = <<>>
      /\ todo' = [todo EXCEPT ![t] = q]
      /\ UNCHANGED <<pinned, count, device, removed, uses, va, freed, handle, aq>>
  BY DEF ctrl_free, Begin
<1>2. Op(todo[t]) = "idle" /\ ~Frees(todo[t]) /\ ~GivesBack(todo[t]) /\ ~Taking(todo[t])
  BY <1>1, IdleIs
<1>3. Rest(q, TRUE)
  BY FirstPlans
<1> HIDE DEF q
<1>4. /\ todo'[t] = q /\ \A u \in Threads : u # t => todo'[u] = todo[u]
      /\ q \in Plans /\ Op(q) = "ctrl_put" /\ ~Frees(q) /\ GivesBack(q) /\ ~Taking(q)
  BY <1>1, <1>3 DEF HandleInv, HandleTypeOK, Rest, Taking
<1>5. HandleTypeOK'
  BY <1>1, <1>4 DEF HandleInv, HandleTypeOK
<1>6. PlanInv'
  <2>1. PlanOK(t)'
    BY <1>4 DEF PlanOK
  <2>2. ASSUME NEW u \in Threads, u # t  PROVE PlanOK(u)'
    BY <1>1, <1>4, <2>2 DEF HandleInv, PlanInv, PlanOK
  <2>. QED  BY <2>1, <2>2 DEF PlanInv
<1>7. RefInv'
  <2>1. aq = "making" => Owner[Queue] # t /\ Owner[Queue] \in Threads
    BY <1>2, MadeOnes DEF HandleInv, RefInv
  <2>. QED  BY <1>1, <1>4, <2>1 DEF HandleInv, RefInv
<1>8. MapInv'
  <2>1. ASSUME NEW k \in Made  PROVE MapOK(k)'
    <3>1. MapOK(k) /\ Owner[k] \in Threads
      BY MadeOnes DEF HandleInv, MapInv
    <3>2. ~Concerns(todo[t], k) /\ ~Concerns(todo'[t], k)
      BY <1>2, <1>4 DEF Concerns
    <3>. QED  BY <1>1, <1>4, <3>1, <3>2, Untouched
  <2>. QED  BY <1>1, <2>1 DEF HandleInv, MapInv, Unmade
<1>9. TakenInv'
  <2>1. \A n \in Maps : Takes(n)' <=> Takes(n)
    BY <1>1, <1>2, <1>4 DEF Takes
  <2>2. /\ <<"program">> \in Holders /\ <<"call", t>> \notin Holders
    BY <1>1, <1>2, HolderIs
  <2>3. Holders' = (Holders \ {<<"program">>}) \union {<<"call", t>>}
    <3>1. ASSUME NEW x
          PROVE  x \in Holders' <=> (x \in Holders /\ x # <<"program">>) \/ x = <<"call", t>>
      BY <1>1, <1>4, <2>1, HolderIs, HolderIsNext
    <3>. QED  BY <3>1
  <2>4. IsFiniteSet(Holders') /\ Cardinality(Holders') = Cardinality(Holders)
    BY <2>2, <2>3, Swapped DEF HandleInv, TakenInv
  <2>5. \A u \in Threads : Op(todo'[u]) = "remove" <=> Op(todo[u]) = "remove"
    BY <1>2, <1>4
  <2>. QED  BY <1>1, <2>4, <2>5, AsMany DEF HandleInv
<1>. QED  BY <1>5, <1>6, <1>7, <1>8, <1>9 DEF HandleInv

\* What a step of a plan on a descriptor is about.
LEMMA PlanIsOn ==
  ASSUME HandleInv, NEW t \in Threads,
         Op(todo[t]) \in {"put_map", "test_va", "free_map"} \/ Frees(todo[t])
  PROVE  \E h \in Made : /\ On(todo[t]) = MapOf[h] /\ Owner[h] = t /\ handle[h] # "none"
                         /\ MapOK(h) /\ MapOf[h] \in Maps
BY MadeOnes DEF HandleInv, PlanInv, PlanOK, MapInv

LEMMA PutMapInv ==
  ASSUME HandleInv, NEW t \in Threads, put_map(t)
  PROVE  HandleInv'
<1> DEFINE p == todo[t]
           q == todo'[t]
           m == On(p)
<1>1. /\ Op(p) = "put_map" /\ p \in Plans /\ Head(p).map = m /\ ~Frees(p) /\ m \in Maps
      /\ View(<<>> \o Tail(p), "test_va", m, FALSE, GivesBack(p))
  BY DoingIs, AfterPut DEF put_map, HandleInv, HandleTypeOK
<1>2. PICK h \in Made : m = MapOf[h] /\ Owner[h] = t /\ handle[h] # "none" /\ MapOK(h)
  BY <1>1, PlanIsOn
<1>3. va[m] /\ Putting(h) /\ uses[m] = Users(h) /\ Users(h) > 0 /\ pinned[m] = t /\ freed[m] = 0
  BY <1>1, <1>2 DEF HandleInv, PlanInv, PlanOK, MapOK, Putting
<1>4. /\ todo' = [todo EXCEPT ![t] = q] /\ q \in Plans
      /\ Op(q) = "test_va" /\ On(q) = m /\ ~Frees(q) /\ (GivesBack(q) <=> GivesBack(p))
      /\ \A u \in Threads : u # t => todo'[u] = todo[u]
  BY <1>1 DEF put_map, Continue, HandleInv, HandleTypeOK, View
<1>5. /\ uses' = [uses EXCEPT ![m] = @ - 1]
      /\ va' = [va EXCEPT ![m] = @ /\ uses[m] # 1]
      /\ pinned' = IF uses[m] = 1 THEN Unmapped(t, m) ELSE pinned
      /\ UNCHANGED <<count, device, removed, opened, freed, handle, aq>>
  BY <1>1 DEF put_map
<1>6. /\ uses'[m] = uses[m] - 1 /\ (va'[m] <=> uses[m] # 1)
      /\ pinned'[m] = IF uses[m] = 1 THEN Nobody ELSE t
      /\ \A n \in Maps : n # m => /\ uses'[n] = uses[n] /\ va'[n] = va[n]
                                  /\ pinned'[n] = pinned[n]
  BY <1>1, <1>3, <1>5 DEF HandleInv, HandleTypeOK, Unmapped
<1>7. ~Taking(p) /\ Taking(q)
  BY <1>1, <1>4 DEF Taking
<1> HIDE DEF m, p, q
<1>8. HandleTypeOK'
  <2>1. va' \in [Maps -> BOOLEAN] /\ uses' \in [Maps -> Int]
    BY <1>1, <1>5 DEF HandleInv, HandleTypeOK
  <2>2. pinned' \in [Maps -> Threads \union {Nobody}]
    BY <1>1, <1>5 DEF HandleInv, HandleTypeOK, Unmapped
  <2>. QED  BY <1>4, <1>5, <2>1, <2>2 DEF HandleInv, HandleTypeOK
<1>9. PlanInv'
  <2>1. PlanOK(t)'
    BY <1>2, <1>4, <1>5 DEF PlanOK, q
  <2>2. ASSUME NEW u \in Threads, u # t  PROVE PlanOK(u)'
    <3>1. PlanOK(u)
      BY DEF HandleInv, PlanInv
    <3>2. Op(todo[u]) = "put_map" \/ Frees(todo[u]) => On(todo[u]) # m /\ On(todo[u]) \in Maps
      BY <1>2, <2>2, <3>1, OneOwner, MadeOnes DEF PlanOK, HandleInv
    <3>. QED  BY <1>4, <1>5, <1>6, <2>2, <3>1, <3>2 DEF PlanOK
  <2>. QED  BY <2>1, <2>2 DEF PlanInv
<1>10. RefInv'
  <2>1. aq = "making" => Owner[Queue] # t /\ Owner[Queue] \in Threads
    BY <1>1, MadeOnes DEF HandleInv, RefInv, p
  <2>. QED  BY <1>4, <1>5, <2>1 DEF HandleInv, RefInv
<1>11. MapInv'
  <2>1. MapOK(h)'
    <3>1. ~Putting(h)' /\ Leaving(h)'
      BY <1>2, <1>4 DEF Putting, Leaving, q
    <3>2. Users(h)' = Users(h) - 1
      BY <1>3, <1>5, <3>1 DEF Users, Num
    <3>3. Users(h) \in Nat
      BY DEF Users, Num
    <3>4. CASE uses[m] = 1
      BY <1>2, <1>3, <1>5, <1>6, <3>1, <3>2, <3>4 DEF MapOK, Num
    <3>5. CASE uses[m] # 1
      BY <1>2, <1>3, <1>5, <1>6, <3>2, <3>3, <3>5 DEF MapOK
    <3>. QED  BY <3>4, <3>5
  <2>2. ASSUME NEW k \in Made, k # h  PROVE MapOK(k)'
    <3>1. MapOK(k) /\ MapOf[k] # m /\ MapOf[k] \in Maps /\ Owner[k] \in Threads
      BY <1>2, <2>2, MadeOnes DEF HandleInv, MapInv
    <3>2. ~Concerns(p, k) /\ ~Concerns(q, k)
      BY <1>1, <1>4, <3>1 DEF Concerns, m
    <3>. QED  BY <1>4, <1>5, <1>6, <3>1, <3>2, Untouched DEF p, q
  <2>3. \A n \in Unmade : n \in Maps /\ n # m
    BY <1>2 DEF Unmade
  <2>. QED  BY <1>5, <1>6, <2>1, <2>2, <2>3 DEF HandleInv, MapInv, Unmade
<1>12. TakenInv'
  <2>1. ASSUME NEW n \in Maps  PROVE Takes(n)' <=> Takes(n)
    <3>1. n = m => Takes(n) /\ Takes(n)'
      BY <1>3, <1>4, <1>7 DEF Takes, q
    <3>2. n # m => (Takes(n)' <=> Takes(n))
      BY <1>4, <1>6, <1>7 DEF Takes, p, q
    <3>. QED  BY <3>1, <3>2
  <2>2. \A u \in Threads : /\ GivesBack(todo'[u]) <=> GivesBack(todo[u])
                           /\ Op(todo'[u]) = "remove" <=> Op(todo[u]) = "remove"
    BY <1>1, <1>4 DEF p, q
  <2>3. Holders' = Holders
    BY <1>5, <2>1, <2>2, SameHolders
  <2>. QED  BY <1>5, <2>2, <2>3, AsMany DEF HandleInv, TakenInv
<1>. QED  BY <1>8, <1>9, <1>10, <1>11, <1>12 DEF HandleInv

LEMMA TestVaInv ==
  ASSUME HandleInv, NEW t \in Threads, test_va(t)
  PROVE  HandleInv'
<1> DEFINE p == todo[t]
           q == todo'[t]
           m == On(p)
<1>1. /\ Op(p) = "test_va" /\ p \in Plans /\ Head(p).map = m /\ ~Frees(p) /\ m \in Maps
      /\ Rest(<<>> \o Tail(p), GivesBack(p))
      /\ View(RemoveMap(m) \o Tail(p), "ctrl_put", m, TRUE, GivesBack(p))
  BY DoingIs, AfterTest DEF test_va, HandleInv, HandleTypeOK
<1>2. PICK h \in Made : m = MapOf[h] /\ Owner[h] = t /\ handle[h] # "none" /\ MapOK(h)
  BY <1>1, PlanIsOn
<1>3. /\ todo' = [todo EXCEPT ![t] = q] /\ q \in Plans
      /\ q = IF va[m] THEN <<>> \o Tail(p) ELSE RemoveMap(m) \o Tail(p)
      /\ \A u \in Threads : u # t => todo'[u] = todo[u]
      /\ UNCHANGED <<count, device, removed, opened, uses, va, pinned, freed, handle, aq>>
  <2>1. todo' = [todo EXCEPT ![t] = AfterLock(m) \o Tail(p)]
    BY <1>1 DEF test_va, Continue
  <2>2. AfterLock(m) \o Tail(p) = IF va[m] THEN <<>> \o Tail(p) ELSE RemoveMap(m) \o Tail(p)
    BY DEF AfterLock
  <2>3. AfterLock(m) \o Tail(p) \in Plans
    BY <1>1, <2>2 DEF Rest, View
  <2>. QED  BY <2>1, <2>2, <2>3 DEF test_va, HandleInv, HandleTypeOK
<1>4. (GivesBack(q) <=> GivesBack(p)) /\ Op(q) \in {"idle", "ctrl_put"} /\ (Frees(q) <=> ~va[m])
      /\ (Frees(q) => Op(q) = "ctrl_put" /\ On(q) = m)
  BY <1>1, <1>3 DEF Rest, View
<1>5. Taking(p) /\ (Taking(q) <=> ~va[m])
  BY <1>1, <1>4 DEF Taking
<1> HIDE DEF m, p, q
<1>6. HandleTypeOK'
  BY <1>3 DEF HandleInv, HandleTypeOK
<1>7. PlanInv'
  <2>1. PlanOK(t)'
    BY <1>2, <1>3, <1>4 DEF PlanOK, q
  <2>2. ASSUME NEW u \in Threads, u # t  PROVE PlanOK(u)'
    BY <1>3, <2>2 DEF HandleInv, PlanInv, PlanOK
  <2>. QED  BY <2>1, <2>2 DEF PlanInv
<1>8. RefInv'
  <2>1. aq = "making" => Owner[Queue] # t /\ Owner[Queue] \in Threads
    BY <1>1, MadeOnes DEF HandleInv, RefInv, p
  <2>. QED  BY <1>3, <2>1 DEF HandleInv, RefInv
<1>9. MapInv'
  <2>1. MapOK(h)'
    <3>1. ~Putting(h) /\ ~Putting(h)' /\ Leaving(h) /\ (~va[m] => Leaving(h)')
      BY <1>1, <1>2, <1>3, <1>4 DEF Putting, Leaving, p, q, m
    <3>2. Users(h)' = Users(h)
      BY <1>3, <3>1 DEF Users, Num
    <3>. QED  BY <1>2, <1>3, <3>1, <3>2 DEF MapOK, Num
  <2>2. ASSUME NEW k \in Made, k # h  PROVE MapOK(k)'
    <3>1. MapOK(k) /\ MapOf[k] # m /\ MapOf[k] \in Maps /\ Owner[k] \in Threads
      BY <1>2, <2>2, MadeOnes DEF HandleInv, MapInv
    <3>2. ~Concerns(p, k) /\ ~Concerns(q, k)
      BY <1>1, <1>4, <3>1 DEF Concerns, m
    <3>. QED  BY <1>3, <3>1, <3>2, Untouched DEF p, q
  <2>. QED  BY <1>3, <2>1, <2>2 DEF HandleInv, MapInv, Unmade
<1>10. TakenInv'
  <2>1. ASSUME NEW n \in Maps  PROVE Takes(n)' <=> Takes(n)
    <3>1. n = m => Takes(n) /\ Takes(n)'
      BY <1>3, <1>4, <1>5 DEF Takes, p, q, m
    <3>2. n # m => (Takes(n)' <=> Takes(n))
      <4>1. ASSUME NEW u \in Threads, n # m
            PROVE  Taking(todo'[u]) /\ On(todo'[u]) = n <=> Taking(todo[u]) /\ On(todo[u]) = n
        BY <1>3, <1>4, <1>5, <4>1 DEF Taking, p, q, m
      <4>. QED  BY <1>3, <4>1 DEF Takes
    <3>. QED  BY <3>1, <3>2
  <2>2. \A u \in Threads : /\ GivesBack(todo'[u]) <=> GivesBack(todo[u])
                           /\ Op(todo'[u]) = "remove" <=> Op(todo[u]) = "remove"
    BY <1>1, <1>3, <1>4 DEF p, q
  <2>3. Holders' = Holders
    BY <1>3, <2>1, <2>2, SameHolders
  <2>. QED  BY <1>3, <2>2, <2>3, AsMany DEF HandleInv, TakenInv
<1>. QED  BY <1>6, <1>7, <1>8, <1>9, <1>10 DEF HandleInv

LEMMA FreeMapInv ==
  ASSUME HandleInv, NEW t \in Threads, free_map(t)
  PROVE  HandleInv'
<1> DEFINE p == todo[t]
           q == todo'[t]
           m == On(p)
<1>1. /\ Op(p) = "free_map" /\ p \in Plans /\ Head(p).map = m /\ Frees(p) /\ m \in Maps
      /\ Rest(<<>> \o Tail(p), GivesBack(p))
  BY DoingIs, AfterFree DEF free_map, HandleInv, HandleTypeOK
<1>2. PICK h \in Made : m = MapOf[h] /\ Owner[h] = t /\ handle[h] # "none" /\ MapOK(h)
  BY <1>1, PlanIsOn
<1>3. ~va[m] /\ Leaving(h) /\ freed[m] = 0 /\ pinned[m] = Nobody /\ Users(h) = 0
  BY <1>1, <1>2 DEF HandleInv, PlanInv, PlanOK, MapOK, Leaving, Num
<1>4. /\ todo' = [todo EXCEPT ![t] = q] /\ q \in Plans
      /\ ~Frees(q) /\ (GivesBack(q) <=> GivesBack(p)) /\ Op(q) \in {"idle", "ctrl_put"}
      /\ \A u \in Threads : u # t => todo'[u] = todo[u]
  BY <1>1 DEF free_map, Continue, HandleInv, HandleTypeOK, Rest
<1>5. /\ freed' = [freed EXCEPT ![m] = @ + 1] /\ freed'[m] = 1
      /\ \A n \in Maps : n # m => freed'[n] = freed[n]
      /\ UNCHANGED <<pinned, count, device, removed, opened, uses, va, handle, aq>>
  <2>1. freed' = [freed EXCEPT ![m] = freed[m] + 1] /\ freed \in [Maps -> Nat]
    BY <1>1 DEF free_map, HandleInv, HandleTypeOK
  <2>2. UNCHANGED <<pinned, count, device, removed, opened, uses, va, handle, aq>>
    BY DEF free_map
  <2>3. m \in Maps /\ freed[m] = 0
    BY <1>1, <1>3
  <2> HIDE DEF m
  <2>. QED  BY <2>1, <2>2, <2>3
<1>6. ~Taking(p) /\ ~Taking(q)
  BY <1>1, <1>4 DEF Taking
<1> HIDE DEF m, p, q
<1>7. HandleTypeOK'
  BY <1>1, <1>4, <1>5 DEF HandleInv, HandleTypeOK
<1>8. PlanInv'
  <2>1. PlanOK(t)'
    BY <1>4 DEF PlanOK, q
  <2>2. ASSUME NEW u \in Threads, u # t  PROVE PlanOK(u)'
    BY <1>4, <1>5, <2>2 DEF HandleInv, PlanInv, PlanOK
  <2>. QED  BY <2>1, <2>2 DEF PlanInv
<1>9. RefInv'
  <2>1. aq = "making" => Owner[Queue] # t /\ Owner[Queue] \in Threads
    BY <1>1, MadeOnes DEF HandleInv, RefInv, p
  <2>. QED  BY <1>4, <1>5, <2>1 DEF HandleInv, RefInv
<1>10. MapInv'
  <2>1. MapOK(h)'
    <3>1. ~Putting(h) /\ ~Putting(h)' /\ ~Leaving(h)'
      BY <1>1, <1>2, <1>4 DEF Putting, Leaving, p, q
    <3>2. Users(h)' = 0
      BY <1>3, <1>5, <3>1 DEF Users, Num
    <3>. QED  BY <1>2, <1>3, <1>5, <3>1, <3>2 DEF MapOK, Num
  <2>2. ASSUME NEW k \in Made, k # h  PROVE MapOK(k)'
    <3>1. MapOK(k) /\ MapOf[k] # m /\ MapOf[k] \in Maps /\ Owner[k] \in Threads
      BY <1>2, <2>2, MadeOnes DEF HandleInv, MapInv
    <3>2. ~Concerns(p, k) /\ ~Concerns(q, k)
      BY <1>1, <1>4, <3>1 DEF Concerns, m
    <3>. QED  BY <1>4, <1>5, <3>1, <3>2, Untouched DEF p, q
  <2>3. \A n \in Unmade : n \in Maps /\ n # m
    BY <1>2 DEF Unmade
  <2>. QED  BY <1>5, <2>1, <2>2, <2>3 DEF HandleInv, MapInv, Unmade
<1>11. TakenInv'
  <2>1. \A n \in Maps : Takes(n)' <=> Takes(n)
    BY <1>4, <1>5, <1>6 DEF Takes, p, q
  <2>2. \A u \in Threads : /\ GivesBack(todo'[u]) <=> GivesBack(todo[u])
                           /\ Op(todo'[u]) = "remove" <=> Op(todo[u]) = "remove"
    BY <1>1, <1>4 DEF p, q
  <2>3. Holders' = Holders
    BY <1>5, <2>1, <2>2, SameHolders
  <2>. QED  BY <1>5, <2>2, <2>3, AsMany DEF HandleInv, TakenInv
<1>. QED  BY <1>7, <1>8, <1>9, <1>10, <1>11 DEF HandleInv

\* One fewer has taken the controller; the last one closes the device and goes on to
\* remove the handle.
LEMMA OneFewer ==
  ASSUME HandleInv, NEW t \in Threads, NEW x \in Holders, Holders' = Holders \ {x},
         count' = count - 1, device' = (device /\ count' # 0), removed' = removed,
         Op(todo[t]) # "remove", Op(todo'[t]) = "remove" <=> count' = 0,
         \A u \in Threads : u # t => todo'[u] = todo[u]
  PROVE  TakenInv'
<1>1. count # 0 /\ removed = 0 /\ device /\ \A u \in Threads : Op(todo[u]) # "remove"
  BY HeldIsOpen DEF HandleInv, TakenInv
<1>2. IsFiniteSet(Holders') /\ count' = Cardinality(Holders')
  BY FS_RemoveElement DEF HandleInv, TakenInv
<1>3. CASE count' = 0
  BY <1>1, <1>2, <1>3 DEF TakenInv, Num
<1>4. CASE count' # 0
  BY <1>1, <1>2, <1>4 DEF TakenInv, Num
<1>. QED  BY <1>3, <1>4

LEMMA CtrlPutInv ==
  ASSUME HandleInv, NEW t \in Threads, ctrl_put(t)
  PROVE  HandleInv'
<1> DEFINE p == todo[t]
           q == todo'[t]
           m == On(p)
           zero == count' = 0
<1>1. /\ Op(p) = "ctrl_put" /\ p \in Plans /\ Head(p).map = m /\ m \in Maps
      /\ Frees(p) =>
           /\ View(<<>> \o Tail(p), "free_map", m, TRUE, GivesBack(p))
           /\ View(<<Step("remove", m)>> \o Tail(p), "remove", m, TRUE, GivesBack(p))
      /\ ~Frees(p) =>
           /\ GivesBack(p) /\ Rest(<<>> \o Tail(p), FALSE)
           /\ View(<<Step("remove", m)>> \o Tail(p), "remove", m, FALSE, FALSE)
  BY DoingIs, AfterCtrlPut DEF ctrl_put, HandleInv, HandleTypeOK
<1>2. /\ count' = count - 1 /\ device' = (device /\ count' # 0)
      /\ UNCHANGED <<pinned, removed, opened, uses, va, freed, handle, aq>>
  BY DEF ctrl_put
<1>3. /\ q = IF zero THEN <<Step("remove", m)>> \o Tail(p) ELSE <<>> \o Tail(p)
      /\ q \in Plans /\ todo' = [todo EXCEPT ![t] = q]
      /\ \A u \in Threads : u # t => todo'[u] = todo[u]
  <2>1. todo' = [todo EXCEPT ![t] = (IF zero THEN <<Step("remove", m)>> ELSE <<>>) \o Tail(p)]
    BY <1>1 DEF ctrl_put, Continue
  <2>2. (IF zero THEN <<Step("remove", m)>> ELSE <<>>) \o Tail(p)
          = IF zero THEN <<Step("remove", m)>> \o Tail(p) ELSE <<>> \o Tail(p)
    OBVIOUS
  <2>3. (IF zero THEN <<Step("remove", m)>> ELSE <<>>) \o Tail(p) \in Plans
    BY <1>1, <2>2 DEF View, Rest
  <2>. QED  BY <2>1, <2>2, <2>3 DEF HandleInv, HandleTypeOK
<1>4. /\ Frees(q) <=> Frees(p)
      /\ Frees(p) => (GivesBack(q) <=> GivesBack(p)) /\ On(q) = m
      /\ ~Frees(p) => GivesBack(p) /\ ~GivesBack(q)
      /\ Op(q) = IF zero THEN "remove" ELSE IF Frees(p) THEN "free_map" ELSE "idle"
  BY <1>1, <1>3 DEF Rest, View
<1>5. (Taking(p) <=> Frees(p)) /\ ~Taking(q)
  BY <1>1, <1>4 DEF Taking
<1>6. zero <=> count' = 0
  OBVIOUS
<1>7. count \in Nat /\ count # 0
  <2>1. <<"call", t>> \in Holders \/ <<"map", m>> \in Holders
    <3>1. Frees(p) => Takes(m)
      BY <1>5 DEF Takes
    <3>. QED  BY <1>1, <1>4, <3>1, HolderIs
  <2>. QED  BY <2>1, HeldIsOpen DEF HandleInv, HandleTypeOK
<1> HIDE DEF m, p, q, zero
<1>8. HandleTypeOK'
  BY <1>2, <1>3, <1>7 DEF HandleInv, HandleTypeOK
<1>9. PlanInv'
  <2>1. PlanOK(t)'
    <3>1. PlanOK(t)
      BY DEF HandleInv, PlanInv
    <3>. QED  BY <1>2, <1>4, <3>1 DEF PlanOK, p, q, m
  <2>2. ASSUME NEW u \in Threads, u # t  PROVE PlanOK(u)'
    BY <1>2, <1>3, <2>2 DEF HandleInv, PlanInv, PlanOK
  <2>. QED  BY <2>1, <2>2 DEF PlanInv
<1>10. RefInv'
  <2>1. aq = "making" => Owner[Queue] # t /\ Owner[Queue] \in Threads
    BY <1>1, MadeOnes DEF HandleInv, RefInv, p
  <2>. QED  BY <1>2, <1>3, <2>1 DEF HandleInv, RefInv
<1>11. MapInv'
  <2>1. ASSUME NEW k \in Made  PROVE MapOK(k)'
    <3>1. MapOK(k) /\ Owner[k] \in Threads
      BY MadeOnes DEF HandleInv, MapInv
    <3>2. CASE Owner[k] = t
      <4>1. /\ ~Mapping(k) /\ ~Mapping(k)' /\ ~Putting(k) /\ ~Putting(k)'
            /\ Leaving(k)' <=> Leaving(k)
        BY <1>1, <1>4, <3>2 DEF Mapping, Putting, Leaving, p, q, m
      <4>2. Users(k)' = Users(k) /\ Num(~Leaving(k))' = Num(~Leaving(k))
        BY <1>2, <4>1 DEF Users, Num
      <4>. QED  BY <1>2, <3>1, <4>1, <4>2 DEF MapOK
    <3>3. CASE Owner[k] # t
      BY <1>2, <1>3, <3>1, <3>3, Untouched
    <3>. QED  BY <3>2, <3>3
  <2>. QED  BY <1>2, <2>1 DEF HandleInv, MapInv, Unmade
<1>12. TakenInv'
  <2> DEFINE x == IF Frees(p) THEN <<"map", m>> ELSE <<"call", t>>
  <2>1. \A n \in Maps : Frees(p) /\ n = m => Takes(n) /\ ~Takes(n)'
    <3>1. ASSUME Frees(p), NEW u \in Threads, Taking(todo'[u]), On(todo'[u]) = m  PROVE FALSE
      <4>1. u # t /\ todo'[u] = todo[u]
        BY <1>3, <1>5, <3>1 DEF q
      <4>2. PICK h \in Made : m = MapOf[h] /\ Owner[h] = t
        BY <3>1, PlanIsOn DEF p, m
      <4>. QED  BY <3>1, <4>1, <4>2, OneOwner DEF HandleInv, Taking
    <3>2. Frees(p) => ~va[m]
      BY DEF HandleInv, PlanInv, PlanOK, p, m
    <3>3. Frees(p) => Taking(todo[t]) /\ On(todo[t]) = m
      BY <1>5 DEF p, m
    <3>. QED  BY <1>2, <3>1, <3>2, <3>3 DEF Takes
  <2>2. \A n \in Maps : n # m \/ ~Frees(p) => (Takes(n)' <=> Takes(n))
    BY <1>2, <1>3, <1>5 DEF Takes, p, q, m
  <2>3. x \in Holders
    BY <1>1, <1>4, <2>1, HolderIs DEF p
  <2>4. Holders' = Holders \ {x}
    <3>1. \A u \in Threads :
            GivesBack(todo'[u]) <=> GivesBack(todo[u]) /\ (u = t => Frees(p))
      BY <1>3, <1>4 DEF p, q
    <3>2. ASSUME NEW y  PROVE y \in Holders' <=> y \in Holders /\ y # x
      <4>1. CASE Frees(p)
        BY <1>1, <1>2, <2>1, <2>2, <3>1, <4>1, HolderIs, HolderIsNext
      <4>2. CASE ~Frees(p)
        BY <1>1, <1>2, <2>2, <3>1, <4>2, HolderIs, HolderIsNext
      <4>. QED  BY <4>1, <4>2
    <3>. QED  BY <3>2
  <2>5. Op(todo[t]) # "remove" /\ (Op(todo'[t]) = "remove" <=> count' = 0)
    BY <1>1, <1>4, <1>6 DEF p, q
  <2> HIDE DEF x
  <2>. QED  BY <1>2, <1>3, <2>3, <2>4, <2>5, OneFewer
<1>. QED  BY <1>8, <1>9, <1>10, <1>11, <1>12 DEF HandleInv

\* remove_handle, by whoever brought the count to zero.
LEMMA RemoveInv ==
  ASSUME HandleInv, NEW t \in Threads, remove_handle(t)
  PROVE  HandleInv'
<1> DEFINE p == todo[t]
           q == todo'[t]
           m == On(p)
<1>1. /\ Op(p) = "remove" /\ p \in Plans /\ Head(p).map = m /\ m \in Maps
      /\ Frees(p) => View(<<>> \o Tail(p), "free_map", m, TRUE, GivesBack(p))
      /\ ~Frees(p) => ~GivesBack(p) /\ Rest(<<>> \o Tail(p), FALSE)
  BY DoingIs, AfterRemove DEF remove_handle, HandleInv, HandleTypeOK
<1>2. /\ todo' = [todo EXCEPT ![t] = q] /\ q \in Plans
      /\ (Frees(q) <=> Frees(p)) /\ (GivesBack(q) <=> GivesBack(p))
      /\ Op(q) = IF Frees(p) THEN "free_map" ELSE "idle"
      /\ Frees(p) => On(q) = m
      /\ \A u \in Threads : u # t => todo'[u] = todo[u]
  BY <1>1 DEF remove_handle, Continue, HandleInv, HandleTypeOK, Rest, View
<1>3. /\ removed' = removed + 1
      /\ UNCHANGED <<pinned, count, device, opened, uses, va, freed, handle, aq>>
  BY DEF remove_handle
<1>4. ~Taking(p) /\ ~Taking(q)
  BY <1>1, <1>2 DEF Taking
<1> HIDE DEF m, p, q
<1>5. HandleTypeOK'
  BY <1>2, <1>3 DEF HandleInv, HandleTypeOK
<1>6. PlanInv'
  <2>1. PlanOK(t)'
    <3>1. PlanOK(t)
      BY DEF HandleInv, PlanInv
    <3>. QED  BY <1>2, <1>3, <3>1 DEF PlanOK, p, q, m
  <2>2. ASSUME NEW u \in Threads, u # t  PROVE PlanOK(u)'
    BY <1>2, <1>3, <2>2 DEF HandleInv, PlanInv, PlanOK
  <2>. QED  BY <2>1, <2>2 DEF PlanInv
<1>7. RefInv'
  <2>1. aq = "making" => Owner[Queue] # t /\ Owner[Queue] \in Threads
    BY <1>1, MadeOnes DEF HandleInv, RefInv, p
  <2>. QED  BY <1>2, <1>3, <2>1 DEF HandleInv, RefInv
<1>8. MapInv'
  <2>1. ASSUME NEW k \in Made  PROVE MapOK(k)'
    <3>1. MapOK(k) /\ Owner[k] \in Threads
      BY MadeOnes DEF HandleInv, MapInv
    <3>2. CASE Owner[k] = t
      <4>1. /\ ~Mapping(k) /\ ~Mapping(k)' /\ ~Putting(k) /\ ~Putting(k)'
            /\ Leaving(k)' <=> Leaving(k)
        BY <1>1, <1>2, <3>2 DEF Mapping, Putting, Leaving, p, q, m
      <4>2. Users(k)' = Users(k) /\ Num(~Leaving(k))' = Num(~Leaving(k))
        BY <1>3, <4>1 DEF Users, Num
      <4>. QED  BY <1>3, <3>1, <4>1, <4>2 DEF MapOK
    <3>3. CASE Owner[k] # t
      BY <1>2, <1>3, <3>1, <3>3, Untouched
    <3>. QED  BY <3>2, <3>3
  <2>. QED  BY <1>3, <2>1 DEF HandleInv, MapInv, Unmade
<1>9. TakenInv'
  <2>1. \A n \in Maps : Takes(n)' <=> Takes(n)
    BY <1>2, <1>3, <1>4 DEF Takes, p, q
  <2>2. \A u \in Threads : GivesBack(todo'[u]) <=> GivesBack(todo[u])
    BY <1>2 DEF p, q
  <2>3. Holders' = Holders
    BY <1>3, <2>1, <2>2, SameHolders
  <2>4. count = 0 /\ removed = 0
    BY <1>1 DEF HandleInv, TakenInv, Num, p
  <2>5. \A u \in Threads : Op(todo'[u]) # "remove"
    BY <1>1, <1>2 DEF HandleInv, TakenInv, p, q
  <2>. QED  BY <1>3, <2>3, <2>4, <2>5 DEF HandleInv, TakenInv, Num
<1>. QED  BY <1>5, <1>6, <1>7, <1>8, <1>9 DEF HandleInv
------------------------------------------------------------------------------
(***************************************************************************)
(* The invariant of the host program.                                       *)
(***************************************************************************)

\* The admin queues, the handles, and: whoever waits for the controller, the
\* reference is live, because nvm_aq_destroy waits for its lock.
HostInv == AdminInv /\ HandleInv /\ WaitInv

LEMMA HandleStepInv ==
  ASSUME OwnersAgree, HandleInv, NEW t \in Threads, HandleStep(t)
  PROVE  HandleInv'
<1>1. ASSUME NEW h \in Handles, dma_map(t, h) \/ dma_unmap(t, h)  PROVE HandleInv'
  BY <1>1, MapBegins, UnmapBegins
<1>2. CASE aq_create(t) \/ aq_destroy(t) \/ ctrl_free(t)
  BY <1>2, RefBegins, RefEnds, ProgramEnds
<1>3. CASE Mapped(t)
  <2> DEFINE h == Head(todo[t]).map
  <2>1. Doing(t, "map") /\ UNCHANGED <<count, device, removed, opened, uses, freed, aq>>
    BY <1>3 DEF Mapped
  <2>2. CASE /\ handle' = [handle EXCEPT ![h] = "live"]
             /\ pinned' = [pinned EXCEPT ![MapOf[h]] = t]
             /\ Continue(t, <<>>) /\ UNCHANGED va
    BY <2>1, <2>2, MapSucceeds
  <2>3. CASE /\ handle' = [handle EXCEPT ![h] = "gone"]
             /\ va' = [va EXCEPT ![MapOf[h]] = FALSE]
             /\ Continue(t, RemoveMap(MapOf[h])) /\ UNCHANGED pinned
    BY <2>1, <2>3, MapFails
  <2>. QED  BY <1>3, <2>2, <2>3 DEF Mapped
<1>4. CASE Remapped(t)
  <2> DEFINE m == Head(todo[t]).map
  <2>1. Doing(t, "get_map") /\ UNCHANGED <<pinned, count, device, removed, opened, va, freed>>
    BY <1>4 DEF Remapped
  <2>2. CASE /\ uses' = TakenWindow /\ handle' = [handle EXCEPT ![Queue] = "live"]
             /\ aq' = "live" /\ Continue(t, <<>>)
    BY <2>1, <2>2, RefMade
  <2>3. CASE /\ uses' = TakenWindow /\ aq' = "gone"
             /\ Continue(t, PutMap(m) \o CtrlPut(m)) /\ UNCHANGED handle
    BY <2>1, <2>3, RefFailsLate
  <2>4. CASE aq' = "gone" /\ Continue(t, CtrlPut(m)) /\ UNCHANGED <<uses, handle>>
    BY <2>1, <2>4, RefFailsEarly
  <2>. QED  BY <1>4, <2>2, <2>3, <2>4 DEF Remapped
<1>5. CASE put_map(t) \/ test_va(t) \/ free_map(t) \/ ctrl_put(t) \/ remove_handle(t)
  BY <1>5, PutMapInv, TestVaInv, FreeMapInv, CtrlPutInv, RemoveInv
<1>. QED  BY <1>1, <1>2, <1>3, <1>4, <1>5 DEF HandleStep

LEMMA HandlesLeftAlone ==
  ASSUME HandleInv, UNCHANGED handleVars  PROVE HandleInv'
<1>1. UNCHANGED <<count, device, removed, opened, uses, va, pinned, freed, handle, aq, todo>>
  BY DEF handleVars
<1>2. HandleTypeOK' /\ PlanInv' /\ RefInv'
  BY <1>1 DEF HandleInv, HandleTypeOK, PlanInv, PlanOK, RefInv
<1>3. MapInv'
  <2>1. \A h \in Made : MapOK(h)'
    BY <1>1, Untouched, MadeOnes DEF HandleInv, MapInv
  <2>. QED  BY <1>1, <2>1 DEF HandleInv, MapInv, Unmade
<1>4. TakenInv'
  <2>1. \A m \in Maps : Takes(m)' <=> Takes(m)
    BY <1>1 DEF Takes
  <2>2. Holders' = Holders
    BY <1>1, <2>1, SameHolders
  <2>. QED  BY <1>1, <2>2, AsMany DEF HandleInv, TakenInv
<1>. QED  BY <1>2, <1>3, <1>4 DEF HandleInv

\* A step of the host program is a step of the admin queues, or leaves them alone.
LEMMA HostStepsAreAdmins ==
  ASSUME [Next]_vars  PROVE [AdminNext]_adminVars
BY HostAssumption DEF Next, Controller, HandleCall, RpcCall, AdminNext, vars

LEMMA WaitStep ==
  ASSUME HostInv, [Next]_vars  PROVE WaitInv'
<1>1. CASE Controller
  <2>1. UNCHANGED <<stage, aq>>
    BY <1>1 DEF Controller, Fetch, Complete, handleVars
  <2>. QED  BY <2>1 DEF HostInv, WaitInv
<1>2. ASSUME NEW t \in Threads, HandleCall(t)  PROVE WaitInv'
  <2>1. stage' = stage /\ (lock # NoOne => aq' = aq)
    BY <1>2 DEF HandleCall, adminVars
  <2>2. \A u \in Threads : stage[u] = "wait" => lock # NoOne
    BY HostAssumption, QueueAssumption DEF HostInv, AdminInv, LockInv
  <2>. QED  BY <2>1, <2>2 DEF HostInv, WaitInv
<1>3. ASSUME NEW t \in Threads, RpcCall(t)  PROVE WaitInv'
  BY <1>3 DEF RpcCall, handleVars, WaitInv
<1>4. CASE UNCHANGED vars
  BY <1>4 DEF vars, adminVars, handleVars, HostInv, WaitInv
<1>. QED  BY <1>1, <1>2, <1>3, <1>4 DEF Next

LEMMA HostStep ==
  ASSUME OwnersAgree, HostInv, [Next]_vars  PROVE HostInv'
<1>1. AdminInv'
  BY HostStepsAreAdmins, AdminStep DEF HostInv
<1>2. HandleInv'
  <2>1. \/ UNCHANGED handleVars \/ \E t \in Threads : HandleStep(t)
    BY DEF Next, Controller, HandleCall, RpcCall, vars
  <2>. QED  BY <2>1, HandleStepInv, HandlesLeftAlone DEF HostInv
<1>. QED  BY <1>1, <1>2, WaitStep DEF HostInv
------------------------------------------------------------------------------
\* What the host program does to the admin queues is what the queues' callers may
\* do: whatever holds of AdminSpec holds between calls on handles too.
THEOREM HostRunsAdmin == Spec => AdminSpec
<1>1. Init => AdminInit
  BY DEF Init
<1>2. [Next]_vars => [AdminNext]_adminVars
  BY HostStepsAreAdmins
<1>. QED  BY <1>1, <1>2, PTL DEF Spec, AdminSpec

\* The reference counts of ctrl.cpp, dma.cpp and rpc.cpp count who has what they
\* guard, for all threads, mappings and handles, whichever calls fail, if one
\* thread makes and unmaps the admin queue's memory and the reference.
THEOREM HostAlwaysInv ==
  ASSUME OwnersAgree  PROVE Spec => []HostInv
<1>1. Init => HostInv
  BY AdminInitInv, HandleInitInv, HostAssumption DEF Init, HostInv, WaitInv, AdminInit
<1>2. HostInv /\ [Next]_vars => HostInv'
  BY HostStep
<1>. QED  BY <1>1, <1>2, PTL DEF Spec

\* Somebody who has a handle has its descriptor mapped.
LEMMA LiveHandle ==
  ASSUME HandleInv, NEW h \in Handles, handle[h] = "live"
  PROVE  /\ va[MapOf[h]] /\ pinned[MapOf[h]] # Nobody /\ freed[MapOf[h]] = 0
         /\ count # 0
<1>1. PICK k \in Made : MapOf[k] = MapOf[h] /\ handle[k] # "none" /\ Users(k) # 0
  <2>1. CASE h \in Made
    BY <2>1 DEF Users, Num
  <2>2. CASE h = Queue
    <3>1. Users(Window) # 0
      BY <2>2 DEF Users, Num
    <3>. QED  BY <2>2, <3>1, MadeOnes DEF HandleInv, RefInv
  <2>. QED  BY <2>1, <2>2 DEF Made
<1>2. MapOK(k) /\ Owner[k] \in Threads /\ MapOf[h] \in Maps
  BY MadeOnes DEF HandleInv, MapInv
<1>3. va[MapOf[h]] /\ pinned[MapOf[h]] # Nobody /\ freed[MapOf[h]] = 0
  BY <1>1, <1>2, MadeOnes DEF MapOK
<1>4. <<"map", MapOf[h]>> \in Holders
  BY <1>2, <1>3, HolderIs DEF Takes
<1>. QED  BY <1>3, <1>4, HeldIsOpen DEF HandleInv

\* Whoever has a handle has what is behind it: _nvm_ctrl_put and put_map release
\* the device and a range no earlier than the last user gives them back.
THEOREM HostLiveIsMapped ==
  ASSUME OwnersAgree  PROVE Spec => []LiveIsMapped
<1>1. ASSUME HandleInv  PROVE LiveIsMapped
  <2>1. opened \/ aq = "live" => count # 0
    <3>1. /\ opened => <<"program">> \in Holders
          /\ aq = "live" => <<"reference">> \in Holders
      BY HolderIs
    <3>. QED  BY <1>1, <3>1, HeldIsOpen DEF HandleInv
  <2>2. opened \/ aq = "live" \/ Live # {} => device /\ removed = 0
    BY <1>1, <2>1, LiveHandle DEF HandleInv, TakenInv, Live
  <2>. QED  BY <1>1, <2>2, LiveHandle DEF LiveIsMapped, Live
<1>2. HostInv => LiveIsMapped
  BY <1>1 DEF HostInv
<1>. QED  BY <1>2, HostAlwaysInv, PTL

\* The controller and each mapping descriptor are freed once at most, and no call
\* under way uses one that was freed.
THEOREM HostFreedOnce ==
  ASSUME OwnersAgree  PROVE Spec => []FreedOnce
<1>1. ASSUME HandleInv  PROVE FreedOnce
  <2>1. removed <= 1
    BY <1>1 DEF HandleInv, TakenInv, HandleTypeOK, Num
  <2>2. ASSUME NEW m \in Maps  PROVE freed[m] <= 1
    <3>1. CASE m \in Unmade
      BY <1>1, <3>1 DEF HandleInv, MapInv
    <3>2. ASSUME NEW h \in Made, MapOf[h] = m  PROVE freed[m] <= 1
      BY <1>1, <3>2 DEF HandleInv, MapInv, MapOK, Num, HandleTypeOK
    <3>. QED  BY <3>1, <3>2 DEF Unmade
  <2>3. ASSUME NEW t \in Threads, todo[t] # <<>>,
               Head(todo[t]).op \in {"put_map", "test_va", "free_map"}
        PROVE  freed[Head(todo[t]).map] = 0
    <3>1. /\ Op(todo[t]) \in {"put_map", "test_va", "free_map"}
          /\ Head(todo[t]).map = On(todo[t]) /\ todo[t] \in Plans
      BY <1>1, <2>3 DEF Op, On, HandleInv, HandleTypeOK
    <3>2. PICK h \in Made : /\ On(todo[t]) = MapOf[h] /\ Owner[h] = t
                            /\ handle[h] # "none" /\ MapOK(h)
      BY <1>1, <3>1, PlanIsOn
    <3>3. va[MapOf[h]] \/ Leaving(h)
      BY <1>1, <3>1, <3>2, AfterFree DEF Leaving, HandleInv, PlanInv, PlanOK
    <3>. QED  BY <3>1, <3>2, <3>3 DEF MapOK, Num
  <2>4. ASSUME NEW t \in Threads, todo[t] # <<>>, Head(todo[t]).op \in {"ctrl_put", "remove"}
        PROVE  removed = 0
    <3>1. Op(todo[t]) \in {"ctrl_put", "remove"} /\ todo[t] \in Plans
      BY <1>1, <2>4 DEF Op, HandleInv, HandleTypeOK
    <3>2. CASE Op(todo[t]) = "remove"
      BY <1>1, <3>2 DEF HandleInv, TakenInv, Num
    <3>3. CASE Op(todo[t]) = "ctrl_put"
      <4>1. On(todo[t]) \in Maps /\ (Frees(todo[t]) \/ GivesBack(todo[t]))
        BY <3>1, <3>3, AfterCtrlPut
      <4>2. Frees(todo[t]) => <<"map", On(todo[t])>> \in Holders
        BY <3>3, <4>1, HolderIs DEF Takes, Taking
      <4>3. GivesBack(todo[t]) => <<"call", t>> \in Holders
        BY HolderIs
      <4>. QED  BY <1>1, <4>1, <4>2, <4>3, HeldIsOpen DEF HandleInv, TakenInv
    <3>. QED  BY <3>1, <3>2, <3>3
  <2>. QED  BY <2>1, <2>2, <2>3, <2>4 DEF FreedOnce
<1>2. HostInv => FreedOnce
  BY <1>1 DEF HostInv
<1>. QED  BY <1>2, HostAlwaysInv, PTL

\* Once all handles were given back and every call has returned, the device is
\* closed, every descriptor freed and no page pinned, whichever calls failed.
THEOREM HostNothingLeaks ==
  ASSUME OwnersAgree  PROVE Spec => []NothingLeaks
<1>1. ASSUME HandleInv, ~opened, aq \notin {"making", "live"}, Live = {},
             \A t \in Threads : todo[t] = <<>>
      PROVE  /\ removed = 1 /\ ~device
             /\ \A m \in Maps : pinned[m] = Nobody
             /\ \A h \in Handles \ {Queue} : handle[h] = "gone" => freed[MapOf[h]] = 1
  <2>1. \A t \in Threads : /\ Op(todo[t]) = "idle" /\ ~Frees(todo[t])
                           /\ ~GivesBack(todo[t]) /\ ~Taking(todo[t])
    BY <1>1, IdleIs
  <2>2. ASSUME NEW h \in Made
        PROVE  /\ ~va[MapOf[h]] /\ pinned[MapOf[h]] = Nobody
               /\ handle[h] = "gone" => freed[MapOf[h]] = 1
    <3>1. MapOK(h) /\ Owner[h] \in Threads
      BY <1>1, MadeOnes DEF HandleInv, MapInv
    <3>2. handle[h] # "live" /\ handle[Queue] # "live"
      BY <1>1, MadeOnes DEF Live
    <3>3. ~Mapping(h) /\ ~Putting(h) /\ ~Leaving(h)
      BY <2>1, <3>1 DEF Mapping, Putting, Leaving
    <3>4. Users(h) = 0
      BY <3>2, <3>3 DEF Users, Num
    <3>. QED  BY <3>1, <3>3, <3>4 DEF MapOK, Num
  <2>3. \A m \in Maps : ~va[m] /\ pinned[m] = Nobody
    BY <1>1, <2>2 DEF HandleInv, MapInv, Unmade
  <2>4. Holders = {}
    <3>1. \A m \in Maps : ~Takes(m)
      BY <2>1, <2>3 DEF Takes
    <3>. QED  BY <1>1, <2>1, <3>1, HolderIs
  <2>5. count = 0
    BY <1>1, <2>4, FS_EmptySet DEF HandleInv, TakenInv
  <2>6. removed = 1 /\ ~device
    BY <1>1, <2>1, <2>5 DEF HandleInv, TakenInv, Num
  <2>. QED  BY <2>2, <2>3, <2>6 DEF Made
<1>2. HostInv => NothingLeaks
  BY <1>1 DEF HostInv, NothingLeaks
<1>. QED  BY <1>2, HostAlwaysInv, PTL

\* While a call of nvm_raw_rpc is under way, the queue memory it uses is mapped and
\* the device open, whatever handles the program gave back before.
THEOREM HostQueueStaysMapped ==
  ASSUME OwnersAgree  PROVE Spec => []QueueStaysMapped
<1>1. ASSUME HostInv, NEW t \in Threads, ~Idle(t)
      PROVE  aq = "live" /\ va[MapOf[Queue]] /\ freed[MapOf[Queue]] = 0 /\ device
  <2>1. stage[t] = "wait"
    BY <1>1, HostAssumption DEF Idle, HostInv, AdminInv, AdminTypeOK
  <2>2. aq = "live" /\ handle[Queue] = "live"
    BY <1>1, <2>1 DEF HostInv, WaitInv, HandleInv, RefInv
  <2>3. va[MapOf[Queue]] /\ freed[MapOf[Queue]] = 0 /\ count # 0
    BY <1>1, <2>2, LiveHandle, MadeOnes DEF HostInv
  <2>. QED  BY <1>1, <2>2, <2>3 DEF HostInv, HandleInv, TakenInv
<1>2. HostInv => QueueStaysMapped
  BY <1>1 DEF QueueStaysMapped
<1>. QED  BY <1>2, HostAlwaysInv, PTL
==============================================================================
