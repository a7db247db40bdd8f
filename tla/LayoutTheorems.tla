---------------------------- MODULE LayoutTheorems ----------------------------
(***************************************************************************)
(* Where things are: the blocks of a page on the SSDs (PagePlacement), the  *)
(* memory of a slot (PrpEntries), the places of a queue (QueuePair) and the *)
(* elements of an array (ArrayIndex), for every size.                       *)
(***************************************************************************)
EXTENDS RangeCache, QueuePair, Remainders

\* A page is stored somewhere, and on controllers that exist.
THEOREM PlacesExist ==
  ASSUME NEW start \in Nat, NEW p \in Nat, NEW dist \in {"STRIPE", "REPLICATE"}
  PROVE  /\ Places(start, p, dist) # {}
         /\ Places(start, p, dist) \subseteq CtrlNumbers \X Nat
<1>1. p % n_ctrls \in CtrlNumbers /\ p \div n_ctrls \in Nat
  <2>1. n_ctrls \in Nat /\ n_ctrls > 0
    BY CtrlAssumption
  <2>2. p % n_ctrls \in 0 .. n_ctrls - 1
    BY <2>1, SMTT(30)
  <2>3. p \div n_ctrls \in Nat
    <3>1. /\ p \div n_ctrls \in Int
          /\ p = (n_ctrls * (p \div n_ctrls)) + (p % n_ctrls)
      BY <2>1
    <3>2. p < n_ctrls + (n_ctrls * (p \div n_ctrls))
      BY <2>1, <2>2, <3>1
    <3>3. ASSUME p \div n_ctrls < 0
          PROVE  n_ctrls + (n_ctrls * (p \div n_ctrls)) <= 0
      BY <2>1, <3>1, <3>3, SMTT(30)
    <3>4. n_ctrls + (n_ctrls * (p \div n_ctrls)) \in Int
      BY <2>1, <3>1
    <3>5. ~(p \div n_ctrls < 0)
      BY <3>2, <3>3, <3>4
    <3>. QED  BY <3>1, <3>5
  <2>. QED  BY <2>2, <2>3 DEF CtrlNumbers
<1>2. 0 \in CtrlNumbers
  BY CtrlAssumption DEF CtrlNumbers
<1>3. get_backing_page(start, p, dist) \in Nat
  BY <1>1 DEF get_backing_page
<1>4. get_backing_ctrl(p, dist) # {} /\ get_backing_ctrl(p, dist) \subseteq CtrlNumbers
  BY <1>1, <1>2 DEF get_backing_ctrl
<1>5. Places(start, p, dist) # {}
  BY <1>4 DEF Places
<1>6. Places(start, p, dist) \subseteq CtrlNumbers \X Nat
  BY <1>3, <1>4 DEF Places
<1>. QED  BY <1>5, <1>6

\* Two pages of one range share no block of any controller.
THEOREM PagesApart ==
  ASSUME NEW start \in Nat, NEW p \in Nat, NEW q \in Nat, p # q,
         NEW dist \in {"STRIPE", "REPLICATE"}
  PROVE  Places(start, p, dist) \cap Places(start, q, dist) = {}
<1>1. SUFFICES ASSUME NEW x \in Places(start, p, dist), x \in Places(start, q, dist)
               PROVE  FALSE
  OBVIOUS
<1>2. get_backing_page(start, p, dist) = get_backing_page(start, q, dist)
  BY <1>1 DEF Places
<1>3. PICK c \in get_backing_ctrl(p, dist) : c \in get_backing_ctrl(q, dist)
  BY <1>1 DEF Places
<1>4. CASE dist = "STRIPE"
  <2>1. p % n_ctrls = q % n_ctrls
    BY <1>3, <1>4 DEF get_backing_ctrl
  <2>2. p \div n_ctrls = q \div n_ctrls
    <3>1. p \div n_ctrls \in Nat /\ q \div n_ctrls \in Nat
      BY CtrlAssumption
    <3>. QED  BY <1>2, <1>4, <3>1 DEF get_backing_page
  <2>3. /\ p = (n_ctrls * (p \div n_ctrls)) + (p % n_ctrls)
        /\ q = (n_ctrls * (q \div n_ctrls)) + (q % n_ctrls)
    BY CtrlAssumption
  <2>. QED  BY <2>1, <2>2, <2>3
<1>5. CASE dist = "REPLICATE"
  BY <1>2, <1>5 DEF get_backing_page
<1>. QED  BY <1>4, <1>5
------------------------------------------------------------------------------
\* The SSD transfers every piece of a slot to and from the memory where the
\* threads look for it, whatever the two page sizes.
THEOREM TransferredIsAddressed ==
  ASSUME NEW ps \in Nat \ {0}, SizesDivide(ps),
         NEW i \in Nat, NEW k \in 0 .. ps - 1
  PROVE  Transferred(ps, i, k) = Addressed(ps, i, k)
<1> DEFINE c == ctrl_page_size
           h == how_many_in_one(ps)
<1>1. c \in Nat \ {0}
  BY CtrlPageAssumption
<1>2. PICK n \in Nat \ {0} : c = n * ps \/ ps = n * c
  BY DEF SizesDivide
<1>3. CASE Shared(ps)
  <2>1. PICK s \in Nat \ {0} : c = s * ps
    <3>1. CASE c = n * ps
      BY <3>1
    <3>2. CASE ps = n * c
      <4>1. n = 1
        BY <1>1, <1>3, <3>2, SMTT(30) DEF Shared
      <4>. QED  BY <1>1, <3>2, <4>1
    <3>. QED  BY <1>2, <3>1, <3>2
  <2>2. h = s
    <3>1. (s * ps + 0) \div ps = s
      BY <2>1, Quotient
    <3>. QED  BY <2>1, <1>3, <3>1 DEF how_many_in_one
  <2> DEFINE a == i \div s
             b == i % s
  <2>3. a \in Nat /\ b \in 0 .. s - 1 /\ i = a * s + b
    BY Division, <2>1
  <2> HIDE DEF a, b
  <2>4. Transferred(ps, i, k) = <<a, b * ps + k>>
    <3>1. k < c
      BY <1>1, <1>3 DEF Shared
    <3>. QED  BY <3>1, <1>3, <2>2 DEF Transferred, prp1, a, b
  <2>5. b * ps + k \in 0 .. c - 1
    <3>1. b * ps <= (s - 1) * ps
      BY <2>1, <2>3, SMTT(30)
    <3>2. (s - 1) * ps = c - ps
      BY <2>1
    <3>3. b * ps \in Nat
      BY <2>3
    <3>. QED  BY <1>1, <3>1, <3>2, <3>3
  <2>6. i * ps + k = a * c + (b * ps + k)
    <3>1. i * ps = a * (s * ps) + b * ps
      BY <2>1, <2>3, SMTT(30)
    <3>2. a * c \in Nat /\ b * ps \in Nat /\ a * (s * ps) = a * c
      BY <1>1, <2>1, <2>3
    <3>. QED  BY <3>1, <3>2
  <2>7. (a * c + (b * ps + k)) \div c = a /\ (a * c + (b * ps + k)) % c = b * ps + k
    BY <1>1, <2>3, <2>5, Quotient
  <2>. QED  BY <2>4, <2>6, <2>7 DEF Addressed
<1>4. CASE ~Shared(ps)
  <2>1. ps = n * c
    <3>1. CASE c = n * ps
      <4>1. ps <= c
        BY <3>1, SMTT(30)
      <4>. QED  BY <4>1, <1>4 DEF Shared
    <3>. QED  BY <1>2, <3>1
  <2>2. h = n
    <3>1. (n * c + 0) \div c = n
      BY <1>1, Quotient
    <3>. QED  BY <1>1, <2>1, <1>4, <3>1 DEF how_many_in_one
  <2>3. i * ps = (i * n) * c /\ i * n \in Nat
    BY <1>1, <2>1, SMTT(30)
  <2>4. CASE k < c
    <3>1. Transferred(ps, i, k) = <<i * n, k>>
      BY <1>4, <2>2, <2>4 DEF Transferred, prp1
    <3>2. ((i * n) * c + k) \div c = i * n /\ ((i * n) * c + k) % c = k
      <4>1. c \in Nat \ {0} /\ i * n \in Nat /\ k \in 0 .. c - 1
        BY <1>1, <2>3, <2>4
      <4>. QED  BY <4>1, Quotient
    <3>. QED  BY <3>1, <3>2, <2>3 DEF Addressed
  <2>5. CASE ~(k < c)
    <3> DEFINE a == k \div c
               b == k % c
    <3>1. a \in Nat /\ b \in 0 .. c - 1 /\ k = a * c + b
      <4>1. k \in Nat
        OBVIOUS
      <4>. QED  BY <1>1, <4>1, Division
    <3>2. Transferred(ps, i, k) = <<i * n + a, b>>
      BY <2>2, <2>5 DEF Transferred, prp_page
    <3> HIDE DEF a, b
    <3>3. (i * n) * c + k = (i * n + a) * c + b
      BY <1>1, <2>3, <3>1, SMTT(30)
    <3>4. ((i * n + a) * c + b) \div c = i * n + a /\ ((i * n + a) * c + b) % c = b
      <4>1. i * n + a \in Nat
        BY <2>3, <3>1
      <4>. QED  BY <1>1, <3>1, <4>1, Quotient
    <3>. QED  BY <3>2, <3>3, <3>4, <2>3 DEF Addressed
  <2>. QED  BY <2>4, <2>5
<1>. QED  BY <1>3, <1>4
------------------------------------------------------------------------------
\* A program that asks for a depth of at least two gets queues that are accepted,
\* and a completion queue that has a place for the completion of every command
\* the submission queue holds.
THEOREM SizesFit ==
  ASSUME NEW cqr \in BOOLEAN, NEW mqes \in 1 .. 65535, NEW depth \in Nat, depth >= 2
  PROVE  /\ Accepted(sq_size(cqr, mqes, depth), mqes)
         /\ Accepted(cq_size(cqr, mqes, depth), mqes)
         /\ sq_size(cqr, mqes, depth) <= cq_size(cqr, mqes, depth)
<1>1. 2^16 = 65536
  BY SMT
<1>. QED
  BY <1>1, SMT DEF Accepted, sq_size, cq_size, Entries, Least, MAX_SQ_ENTRIES_64K,
              MAX_CQ_ENTRIES_64K

\* The queues replace the remainder by a mask, for sizes that are powers of two:
\* they are, if the program's depth and the controller's limit are.
THEOREM SizesAreOfASet ==
  ASSUME NEW Powers, 1024 \in Powers, 4096 \in Powers,
         NEW cqr \in BOOLEAN, NEW mqes \in 1 .. 65535, mqes + 1 \in Powers,
         NEW depth \in Nat, depth \in Powers
  PROVE  /\ sq_size(cqr, mqes, depth) \in Powers
         /\ cq_size(cqr, mqes, depth) \in Powers
BY DEF sq_size, cq_size, Entries, Least, MAX_SQ_ENTRIES_64K, MAX_CQ_ENTRIES_64K
------------------------------------------------------------------------------
(***************************************************************************)
(* The pointers that walk arrays, each array of one range that begins at    *)
(* index 0, as all programs build them.                                     *)
(***************************************************************************)

TheRange(a) == d_ranges(a)[1]

\* What a pointer keeps is one page of its array, from its first index to its last.
PtrAt(a, p) ==
  \/ p = [page |-> NoPage, start |-> 0, end |-> 0]
  \/ \E n \in 0 .. TheRange(a).page_count - 1 :
       /\ p = [page |-> <<1, n>>, start |-> page_size * n, end |-> page_size * n + page_size]
       /\ page_size * n < TheRange(a).count

PinsAre(c, p) ==
  \A g \in Pages :
    c[g] = IF \E a \in Arrays : p[a].page # NoPage /\ g = <<TheRange(a).range_id, p[a].page[2]>>
             THEN 1 ELSE 0

\* Where the last index was found, in its page.
TouchedIs(t) ==
  t.page # NoPage =>
    \E a \in Arrays : \E i \in Indices(a) :
      t = [array |-> a, index |-> i, page |-> <<TheRange(a).range_id, i \div page_size>>,
           offset |-> i % page_size]

WalkInv ==
  /\ program \in Programs
  /\ DOMAIN ptr = Arrays /\ \A a \in Arrays : PtrAt(a, ptr[a])
  /\ DOMAIN cnt = Pages /\ PinsAre(cnt, ptr)
  /\ TouchedIs(touched)

LEMMA TheRangeIs ==
  ASSUME OneRangeEach, program \in Programs, NEW a \in Arrays
  PROVE  LET r == TheRange(a) IN
         /\ DOMAIN d_ranges(a) = {1}
         /\ r.range_id \in Nat /\ r.page_count \in Nat /\ r.count \in Nat
         /\ r.index_start = 0 /\ r.page_start_offset = 0
         /\ r.count <= Wrap /\ r.count <= r.page_count * page_size
         /\ Indices(a) \subseteq 0 .. r.count - 1
         /\ \A b \in Arrays : TheRange(b).range_id = r.range_id => a = b
         /\ page_size \in Nat \ {0} /\ Wrap \in Nat \ {0}
         /\ r \in Ranges
BY ArrayAssumption DEF OneRangeEach, TheRange, d_ranges, Indices, Arrays, page_size, Ranges

\* Quotients by the size of a page.
LEMMA PageOfPlace ==
  ASSUME NEW ps \in Nat \ {0}, NEW n \in Nat, NEW x \in 0 .. ps - 1
  PROVE  (ps * n + x) \div ps = n /\ (ps * n + x) % ps = x
<1>1. ps * n = n * ps
  OBVIOUS
<1>. QED  BY <1>1, Quotient

LEMMA PlaceIs ==
  ASSUME NEW ps \in Nat \ {0}, NEW i \in Nat
  PROVE  \E n \in Nat, x \in 0 .. ps - 1 : /\ i = ps * n + x /\ i \div ps = n /\ i % ps = x
<1>1. i \div ps \in Nat /\ i % ps \in 0 .. ps - 1 /\ i = (i \div ps) * ps + (i % ps)
  BY Division
<1>2. (i \div ps) * ps = ps * (i \div ps)
  BY <1>1
<1>3. i = ps * (i \div ps) + (i % ps)
  BY <1>1, <1>2
<1>. QED  BY <1>1, <1>3

\* find_range finds the array's range, and the element is where the pages are counted out.
LEMMA IndexIs ==
  ASSUME OneRangeEach, program \in Programs, NEW a \in Arrays, NEW i \in Indices(a)
  PROVE  /\ find_range(a, i) = 1 /\ i \in Nat /\ i < TheRange(a).count
         /\ get_page(TheRange(a), i) = i \div page_size
         /\ get_subindex(TheRange(a), i) = i % page_size
         /\ PageOf(a, i) = <<TheRange(a).range_id, i \div page_size>>
<1>1. /\ DOMAIN d_ranges(a) = {1} /\ TheRange(a).index_start = 0 /\ TheRange(a).page_start_offset = 0
      /\ TheRange(a).count <= Wrap /\ TheRange(a).count \in Nat /\ Wrap \in Nat \ {0}
      /\ i \in 0 .. TheRange(a).count - 1
  BY TheRangeIs
<1>2. Found(a, i) = {1}
  BY <1>1 DEF Found, TheRange
<1>3. find_range(a, i) = 1
  BY <1>2 DEF find_range
<1>4. Place(TheRange(a), i) = i
  <2>1. i % Wrap = i
    BY <1>1, SmallRemainder
  <2>2. i - 0 + 0 = i
    BY <1>1
  <2>. QED  BY <1>1, <2>1, <2>2 DEF Place
<1>. QED  BY <1>1, <1>3, <1>4 DEF get_page, get_subindex, PageOf, TheRange

\* The page of index i is in the range, and begins before the last index.
LEMMA PageIs ==
  ASSUME OneRangeEach, program \in Programs, NEW a \in Arrays, NEW i \in Indices(a)
  PROVE  /\ i \div page_size \in 0 .. TheRange(a).page_count - 1
         /\ i % page_size \in 0 .. page_size - 1
         /\ i = page_size * (i \div page_size) + (i % page_size)
         /\ page_size * (i \div page_size) < TheRange(a).count
         /\ <<TheRange(a).range_id, i \div page_size>> \in Pages
<1> DEFINE ps == page_size
           n == i \div ps
           x == i % ps
           pc == TheRange(a).page_count
<1>1. /\ ps \in Nat \ {0} /\ pc \in Nat /\ TheRange(a).count \in Nat /\ TheRange(a).count <= pc * ps
      /\ i \in Nat /\ i < TheRange(a).count /\ TheRange(a) \in Ranges
  BY TheRangeIs, IndexIs
<1>2. n \in Nat /\ x \in 0 .. ps - 1 /\ i = ps * n + x
  BY <1>1, PlaceIs
<1>3. ps * n <= i
  BY <1>1, <1>2
<1>4. n < pc
  <2>1. SUFFICES ASSUME n >= pc  PROVE FALSE
    BY <1>1, <1>2
  <2>2. \E d \in Nat : n = pc + d
    <3>1. n - pc \in Nat /\ n = pc + (n - pc)
      BY <1>1, <1>2, <2>1
    <3>. QED  BY <3>1
  <2>3. PICK d \in Nat : n = pc + d
    BY <2>2
  <2>4. ps * n = pc * ps + ps * d /\ ps * d \in Nat /\ pc * ps \in Nat
    BY <1>1, <2>3
  <2>. QED  BY <1>1, <1>2, <1>3, <2>4
<1>5. <<TheRange(a).range_id, n>> \in Pages
  <2>1. n \in 0 .. pc - 1
    BY <1>1, <1>2, <1>4
  <2>. QED  BY <1>1, <2>1 DEF Pages
<1>. QED  BY <1>1, <1>2, <1>3, <1>4, <1>5

\* The page a pointer keeps, and the index it is released by.
LEMMA HeldIs ==
  ASSUME OneRangeEach, program \in Programs, NEW a \in Arrays, NEW p, PtrAt(a, p),
         p.page # NoPage
  PROVE  \E n \in 0 .. TheRange(a).page_count - 1 :
           /\ p = [page |-> <<1, n>>, start |-> page_size * n, end |-> page_size * n + page_size]
           /\ get_page(TheRange(a), page_size * n) = n
           /\ <<TheRange(a).range_id, n>> \in Pages
<1>1. PICK n \in 0 .. TheRange(a).page_count - 1 :
        /\ p = [page |-> <<1, n>>, start |-> page_size * n, end |-> page_size * n + page_size]
        /\ page_size * n < TheRange(a).count
  BY DEF PtrAt
<1>2. /\ page_size \in Nat \ {0} /\ TheRange(a).index_start = 0 /\ TheRange(a).page_start_offset = 0
      /\ TheRange(a).count <= Wrap /\ TheRange(a).count \in Nat /\ Wrap \in Nat \ {0}
      /\ TheRange(a).page_count \in Nat /\ TheRange(a) \in Ranges
  BY TheRangeIs
<1>3. page_size * n \in Nat
  BY <1>2
<1>4. Place(TheRange(a), page_size * n) = page_size * n
  <2>1. (page_size * n) % Wrap = page_size * n
    BY <1>1, <1>2, <1>3, SmallRemainder
  <2>2. page_size * n - 0 + 0 = page_size * n
    BY <1>3
  <2>. QED  BY <1>2, <2>1, <2>2 DEF Place
<1>5. (page_size * n + 0) \div page_size = n
  BY <1>2, PageOfPlace
<1>6. page_size * n + 0 = page_size * n
  BY <1>3
<1>7. get_page(TheRange(a), page_size * n) = n
  BY <1>4, <1>5, <1>6 DEF get_page
<1>8. <<TheRange(a).range_id, n>> \in Pages
  BY <1>2 DEF Pages
<1>. QED  BY <1>1, <1>7, <1>8

LEMMA WalkBegins ==
  ASSUME OneRangeEach, ArrayInit
  PROVE  WalkInv
<1>1. program \in Programs /\ DOMAIN ptr = Arrays /\ DOMAIN cnt = Pages
  BY DEF ArrayInit
<1>2. \A a \in Arrays : PtrAt(a, ptr[a])
  BY DEF ArrayInit, PtrAt
<1>3. PinsAre(cnt, ptr)
  BY DEF ArrayInit, PinsAre
<1>4. TouchedIs(touched)
  BY DEF ArrayInit, TouchedIs
<1>. QED  BY <1>1, <1>2, <1>3, <1>4 DEF WalkInv

\* An index of the page the pointer holds.
LEMMA WalkStays ==
  ASSUME OneRangeEach, WalkInv, NEW a \in Arrays, NEW i \in Indices(a), Stay(a, i)
  PROVE  WalkInv'
<1> USE DEF WalkInv
<1>1. program' = program /\ ptr' = ptr /\ cnt' = cnt
  BY DEF Stay
<1>2. /\ program' \in Programs
      /\ Arrays' = Arrays /\ Pages' = Pages /\ page_size' = page_size
      /\ \A b \in Arrays : TheRange(b)' = TheRange(b)
  BY <1>1 DEF Arrays, Pages, Ranges, TheRange, d_ranges, page_size
<1>3. \A b \in Arrays' : PtrAt(b, ptr[b])'
  BY <1>1, <1>2 DEF PtrAt
<1>4. PinsAre(cnt, ptr)'
  BY <1>1, <1>2 DEF PinsAre
<1>5. PICK n \in 0 .. TheRange(a).page_count - 1 :
        /\ ptr[a] = [page |-> <<1, n>>, start |-> page_size * n, end |-> page_size * n + page_size]
        /\ get_page(TheRange(a), page_size * n) = n
        /\ <<TheRange(a).range_id, n>> \in Pages
  BY HeldIs DEF Stay
<1>6. touched' = [array |-> a, index |-> i, page |-> <<TheRange(a).range_id, n>>,
                  offset |-> i - page_size * n]
  BY <1>5 DEF Stay, Touch, TheRange
<1>7. i \in Nat /\ page_size * n <= i /\ i < page_size * n + page_size
  BY <1>5, IndexIs DEF Stay
<1>8. page_size \in Nat \ {0} /\ TheRange(a).page_count \in Nat
  BY TheRangeIs
<1>9. i \div page_size = n /\ i % page_size = i - page_size * n
  <2>1. page_size * n \in Nat
    BY <1>8
  <2>2. i - page_size * n \in 0 .. page_size - 1 /\ page_size * n + (i - page_size * n) = i
    BY <1>7, <1>8, <2>1
  <2>3. n \in Nat
    BY <1>8
  <2> DEFINE x == i - page_size * n
  <2>4. (page_size * n + x) \div page_size = n /\ (page_size * n + x) % page_size = x
    <3>1. x \in 0 .. page_size - 1
      BY <2>2
    <3> HIDE DEF x
    <3>. QED  BY <1>8, <2>3, <3>1, PageOfPlace
  <2>. QED  BY <2>2, <2>4
<1>10. TouchedIs(touched)'
  <2>1. Indices(a)' = Indices(a)
    BY <1>1 DEF Indices
  <2>2. touched' = [array |-> a, index |-> i, page |-> <<TheRange(a).range_id, i \div page_size>>,
                    offset |-> i % page_size]
    BY <1>6, <1>9
  <2>. QED  BY <1>2, <2>1, <2>2 DEF TouchedIs
<1>. QED  BY <1>1, <1>2, <1>3, <1>4, <1>10

\* What is left of the counts when the pointer of a has given its page up.
LEMMA ReleasedIs ==
  ASSUME OneRangeEach, WalkInv, NEW a \in Arrays
  PROVE  /\ DOMAIN Released(cnt, a) = Pages
         /\ \A g \in Pages : Released(cnt, a)[g] =
              IF \E b \in Arrays \ {a} : ptr[b].page # NoPage
                                         /\ g = <<TheRange(b).range_id, ptr[b].page[2]>>
              THEN 1 ELSE 0
<1> USE DEF WalkInv
<1> DEFINE holds(b, g) == ptr[b].page # NoPage /\ g = <<TheRange(b).range_id, ptr[b].page[2]>>
<1>1. DOMAIN cnt = Pages /\ \A g \in Pages : cnt[g] = IF \E b \in Arrays : holds(b, g) THEN 1 ELSE 0
  BY DEF PinsAre
<1>2. CASE ptr[a].page = NoPage
  <2>1. Released(cnt, a) = cnt
    BY <1>2 DEF Released
  <2>2. \A g \in Pages : (\E b \in Arrays : holds(b, g)) <=> (\E b \in Arrays \ {a} : holds(b, g))
    BY <1>2
  <2>. QED  BY <1>1, <2>1, <2>2
<1>3. CASE ptr[a].page # NoPage
  <2>1. PICK n \in 0 .. TheRange(a).page_count - 1 :
          /\ ptr[a] = [page |-> <<1, n>>, start |-> page_size * n, end |-> page_size * n + page_size]
          /\ get_page(TheRange(a), page_size * n) = n
          /\ <<TheRange(a).range_id, n>> \in Pages
    BY <1>3, HeldIs
  <2> DEFINE old == <<TheRange(a).range_id, n>>
  <2>2. holds(a, old) /\ \A g : holds(a, g) => g = old
    BY <1>3, <2>1
  <2>3. \A b \in Arrays \ {a} : ~holds(b, old)
    BY TheRangeIs
  <2>4. Released(cnt, a) = [cnt EXCEPT ![old] = @ - 1]
    <3>1. Released(cnt, a) = Counted(cnt, old, -1)
      BY <1>3, <2>1 DEF Released, TheRange
    <3>2. cnt[old] = 1
      BY <1>1, <2>1, <2>2
    <3>. QED  BY <1>1, <2>1, <3>1, <3>2 DEF Counted
  <2>5. DOMAIN Released(cnt, a) = Pages
    BY <1>1, <2>4
  <2>6. ASSUME NEW g \in Pages
        PROVE  Released(cnt, a)[g] = IF \E b \in Arrays \ {a} : holds(b, g) THEN 1 ELSE 0
    <3>1. CASE g = old
      <4>1. cnt[g] = 1
        BY <1>1, <2>2, <3>1
      <4>2. Released(cnt, a)[g] = 0
        BY <1>1, <2>4, <3>1, <4>1
      <4>. QED  BY <2>3, <3>1, <4>2
    <3>2. CASE g # old
      <4>1. Released(cnt, a)[g] = cnt[g]
        BY <1>1, <2>4, <3>2
      <4>2. (\E b \in Arrays : holds(b, g)) <=> (\E b \in Arrays \ {a} : holds(b, g))
        BY <2>2, <3>2
      <4>. QED  BY <1>1, <4>1, <4>2
    <3>. QED  BY <3>1, <3>2
  <2>. QED  BY <2>5, <2>6
<1>. QED  BY <1>2, <1>3

\* An index of another page.
LEMMA WalkMoves ==
  ASSUME OneRangeEach, WalkInv, NEW a \in Arrays, NEW i \in Indices(a), Move(a, i)
  PROVE  WalkInv'
<1> USE DEF WalkInv
<1> DEFINE n == i \div page_size
           g == <<TheRange(a).range_id, n>>
           rel == Released(cnt, a)
           new == [page |-> <<1, n>>, start |-> page_size * n, end |-> page_size * n + page_size]
<1>1. program' = program
  BY DEF Move
<1>2. /\ program' \in Programs
      /\ Arrays' = Arrays /\ Pages' = Pages /\ page_size' = page_size
      /\ \A b \in Arrays : TheRange(b)' = TheRange(b)
  BY <1>1 DEF Arrays, Pages, Ranges, TheRange, d_ranges, page_size
<1>3. /\ find_range(a, i) = 1 /\ PageOf(a, i) = g /\ g \in Pages /\ i \in Nat
      /\ n \in 0 .. TheRange(a).page_count - 1 /\ page_size * n < TheRange(a).count
      /\ i % page_size \in 0 .. page_size - 1 /\ i = page_size * n + (i % page_size)
      /\ get_subindex(TheRange(a), i) = i % page_size
  BY IndexIs, PageIs
<1>4. page_size \in Nat \ {0} /\ TheRange(a).page_count \in Nat /\ n \in Nat
  BY <1>3, TheRangeIs
<1>5. /\ cnt' = Counted(rel, g, 1)
      /\ ptr' = [ptr EXCEPT ![a] = new]
      /\ touched' = [array |-> a, index |-> i, page |-> g, offset |-> i - page_size * n]
  BY <1>3 DEF Move, Touch
<1>6. DOMAIN ptr' = Arrays /\ ptr'[a] = new /\ \A b \in Arrays \ {a} : ptr'[b] = ptr[b]
  BY <1>5
<1>7. \A b \in Arrays' : PtrAt(b, ptr[b])'
  <2>1. SUFFICES ASSUME NEW b \in Arrays  PROVE PtrAt(b, ptr[b])'
    BY <1>2
  <2>2. CASE b = a
    BY <1>2, <1>3, <1>6, <2>2 DEF PtrAt
  <2>3. CASE b # a
    BY <1>2, <1>6, <2>3 DEF PtrAt
  <2>. QED  BY <2>2, <2>3
<1>8. /\ DOMAIN rel = Pages
      /\ \A h \in Pages : rel[h] =
           IF \E b \in Arrays \ {a} : ptr[b].page # NoPage
                                      /\ h = <<TheRange(b).range_id, ptr[b].page[2]>>
           THEN 1 ELSE 0
  BY ReleasedIs
<1> HIDE DEF rel
<1>9. cnt' = [rel EXCEPT ![g] = @ + 1]
  BY <1>3, <1>5, <1>8 DEF Counted
<1>10. \A b \in Arrays \ {a} : TheRange(b).range_id # TheRange(a).range_id
  BY TheRangeIs
<1>11. rel[g] = 0
  BY <1>3, <1>8, <1>10
<1>12. <<1, n>> # NoPage
  BY <1>4, ArrayAssumption
<1>13. ASSUME NEW h \in Pages
       PROVE  cnt'[h] = IF \E b \in Arrays : ptr'[b].page # NoPage
                                             /\ h = <<TheRange(b).range_id, ptr'[b].page[2]>>
                        THEN 1 ELSE 0
  <2>1. CASE h = g
    <3>1. cnt'[h] = 1
      BY <1>8, <1>9, <1>11, <2>1
    <3>2. ptr'[a].page = <<1, n>>
      BY <1>6
    <3>3. ptr'[a].page # NoPage /\ h = <<TheRange(a).range_id, ptr'[a].page[2]>>
      BY <1>12, <2>1, <3>2
    <3>. QED  BY <3>1, <3>3
  <2>2. CASE h # g
    <3>1. cnt'[h] = rel[h]
      BY <1>8, <1>9, <2>2
    <3>2. ~(h = <<TheRange(a).range_id, ptr'[a].page[2]>>)
      BY <1>6, <2>2
    <3>3. (\E b \in Arrays : ptr'[b].page # NoPage /\ h = <<TheRange(b).range_id, ptr'[b].page[2]>>)
          <=> \E b \in Arrays \ {a} : ptr[b].page # NoPage
                                      /\ h = <<TheRange(b).range_id, ptr[b].page[2]>>
      BY <1>6, <3>2
    <3>. QED  BY <1>8, <3>1, <3>3
  <2>. QED  BY <2>1, <2>2
<1>14. DOMAIN cnt' = Pages' /\ PinsAre(cnt, ptr)'
  <2>1. DOMAIN cnt' = Pages'
    BY <1>2, <1>8, <1>9
  <2>2. PinsAre(cnt, ptr)'
    BY <1>2, <1>13 DEF PinsAre
  <2>. QED  BY <2>1, <2>2
<1>15. TouchedIs(touched)'
  <2>1. Indices(a)' = Indices(a)
    BY <1>1 DEF Indices
  <2>2. page_size * n \in Nat
    BY <1>4
  <2>3. i - page_size * n = i % page_size
    BY <1>3, <1>4, <2>2
  <2>4. touched' = [array |-> a, index |-> i, page |-> <<TheRange(a).range_id, i \div page_size>>,
                    offset |-> i % page_size]
    BY <1>5, <2>3
  <2>. QED  BY <1>2, <2>1, <2>4 DEF TouchedIs
<1>. QED  BY <1>2, <1>6, <1>7, <1>14, <1>15

\* The pages of the pointers and the counts of the pages agree at every step of a walk.
THEOREM ArrayAlwaysInv ==
  ASSUME OneRangeEach
  PROVE  Spec => []WalkInv
<1>1. Init => WalkInv
  BY WalkBegins DEF Init
<1>2. WalkInv /\ [Next]_vars => WalkInv'
  <2>1. ASSUME WalkInv, UNCHANGED arrayVars  PROVE WalkInv'
    <3>1. program' = program /\ ptr' = ptr /\ cnt' = cnt /\ touched' = touched
      BY <2>1 DEF arrayVars
    <3>2. /\ program' \in Programs
          /\ Arrays' = Arrays /\ Pages' = Pages /\ page_size' = page_size
          /\ \A b \in Arrays : TheRange(b)' = TheRange(b)
      BY <2>1, <3>1 DEF WalkInv, Arrays, Pages, Ranges, TheRange, d_ranges, page_size
    <3>3. \A b \in Arrays' : PtrAt(b, ptr[b])'
      BY <2>1, <3>1, <3>2 DEF WalkInv, PtrAt
    <3>4. DOMAIN ptr' = Arrays' /\ DOMAIN cnt' = Pages' /\ PinsAre(cnt, ptr)'
      BY <2>1, <3>1, <3>2 DEF WalkInv, PinsAre
    <3>5. TouchedIs(touched)'
      <4>1. \A a : Indices(a)' = Indices(a)
        BY <3>1 DEF Indices
      <4>. QED  BY <2>1, <3>1, <3>2, <4>1 DEF WalkInv, TouchedIs
    <3>. QED  BY <3>2, <3>3, <3>4, <3>5 DEF WalkInv
  <2>2. ASSUME WalkInv, Next  PROVE WalkInv'
    <3>1. PICK a \in Arrays : \E i \in Indices(a) :
            PtrStay(a, i) \/ PtrMove(a, i) \/ seq_read(a, i) \/ seq_write(a, i)
      BY <2>2 DEF Next
    <3>2. PICK i \in Indices(a) :
            PtrStay(a, i) \/ PtrMove(a, i) \/ seq_read(a, i) \/ seq_write(a, i)
      BY <3>1
    <3>3. CASE PtrStay(a, i)
      BY <2>2, <3>3, WalkStays DEF PtrStay
    <3>4. CASE PtrMove(a, i)
      BY <2>2, <3>4, WalkMoves DEF PtrMove
    <3>5. CASE seq_read(a, i)
      BY <2>1, <2>2, <3>5 DEF seq_read
    <3>6. CASE seq_write(a, i)
      BY <2>1, <2>2, <3>6 DEF seq_write
    <3>. QED  BY <3>2, <3>3, <3>4, <3>5, <3>6
  <2>. QED  BY <2>1, <2>2 DEF vars
<1>. QED  BY <1>1, <1>2, PTL DEF Spec

\* An element reached through a bam_ptr is the one seq_read reads at the same index.
THEOREM ArrayAgreesWithSeqRead ==
  ASSUME OneRangeEach
  PROVE  Spec => []PtrAgreesWithSeqRead
<1>1. ASSUME WalkInv, touched.page # NoPage
      PROVE  LET a == touched.array
                 i == touched.index
             IN /\ touched.page = PageOf(a, i)
                /\ touched.offset \in 0 .. page_size - 1
                /\ touched.offset = get_subindex(d_ranges(a)[find_range(a, i)], i)
  <2>1. PICK a \in Arrays : \E i \in Indices(a) :
          touched = [array |-> a, index |-> i, page |-> <<TheRange(a).range_id, i \div page_size>>,
                     offset |-> i % page_size]
    BY <1>1 DEF WalkInv, TouchedIs
  <2>2. PICK i \in Indices(a) :
          touched = [array |-> a, index |-> i, page |-> <<TheRange(a).range_id, i \div page_size>>,
                     offset |-> i % page_size]
    BY <2>1
  <2>3. /\ find_range(a, i) = 1 /\ PageOf(a, i) = <<TheRange(a).range_id, i \div page_size>>
        /\ get_subindex(TheRange(a), i) = i % page_size
        /\ i % page_size \in 0 .. page_size - 1
    BY <1>1, IndexIs, PageIs DEF WalkInv
  <2>. QED  BY <2>2, <2>3 DEF TheRange
<1>2. WalkInv => PtrAgreesWithSeqRead
  BY <1>1 DEF PtrAgreesWithSeqRead
<1>. QED  BY <1>2, ArrayAlwaysInv, PTL

\* release_page, which finds the page again from "start", gives up what was acquired.
THEOREM ArrayPinsBalanced ==
  ASSUME OneRangeEach
  PROVE  Spec => []PinsBalanced
<1>1. ASSUME WalkInv  PROVE PinsBalanced
  <2>1. \A a \in Arrays : ptr[a].page # NoPage => d_ranges(a)[ptr[a].page[1]] = TheRange(a)
    <3>1. SUFFICES ASSUME NEW a \in Arrays, ptr[a].page # NoPage
                   PROVE  d_ranges(a)[ptr[a].page[1]] = TheRange(a)
      OBVIOUS
    <3>2. PICK n \in 0 .. TheRange(a).page_count - 1 : ptr[a].page = <<1, n>>
      BY <1>1, <3>1 DEF WalkInv, PtrAt
    <3>. QED  BY <3>2 DEF TheRange
  <2>. QED  BY <1>1, <2>1 DEF WalkInv, PinsAre, PinsBalanced
<1>. QED  BY <1>1, ArrayAlwaysInv, PTL
------------------------------------------------------------------------------
(***************************************************************************)
(* The pages of several ranges in the slots, and their blocks on the SSDs.  *)
(***************************************************************************)

\* What find_slot finds in page_translation is the page whose slot it is, and a
\* VALID page is where its offset says.
Translated ==
  /\ \A s \in Slots : translation[s] # NoPage =>
       \E g \in Pages : /\ translation[s] = get_global_address(g)
                        /\ "VALID" \in state[g] /\ offset[g] = s
  /\ \A g \in Pages : "VALID" \in state[g] => translation[offset[g]] = get_global_address(g)

\* The addresses of the slots, and the blocks of the pages.
SlotMemory == {Addressed(page_size, s, k) : s \in Slots, k \in Offsets}
AllBlocks  == UNION {Blocks(g) : g \in Pages}

CacheTypeOK ==
  /\ DOMAIN translation = Slots
  /\ page_ticket \in Slots
  /\ state \in [Pages -> SUBSET {"VALID", "DIRTY"}]
  /\ \A g \in Pages : "DIRTY" \in state[g] => "VALID" \in state[g]
  /\ offset \in [Pages -> Slots]
  /\ written \in [Pages -> [Offsets -> Nat]]
  /\ DOMAIN memory = SlotMemory
  /\ DOMAIN media = AllBlocks

CacheInv ==
  CacheTypeOK /\ Translated /\ ResidentIsLatest /\ CleanIsOnAllControllers

RangeInv == WalkInv /\ CacheInv

\* A page is a range of its array and a number.
LEMMA PageParts ==
  ASSUME OneRangeEach, program \in Programs, NEW g \in Pages
  PROVE  \E a \in Arrays : \E n \in 0 .. TheRange(a).page_count - 1 :
           g = <<TheRange(a).range_id, n>>
<1>1. \A a \in Arrays : DOMAIN d_ranges(a) = {1}
  BY TheRangeIs
<1>2. PICK r \in Ranges : g \in {r.range_id} \X (0 .. r.page_count - 1)
  BY DEF Pages
<1>3. PICK a \in Arrays : r = TheRange(a)
  BY <1>1, <1>2 DEF Ranges, TheRange
<1>4. PICK n \in 0 .. TheRange(a).page_count - 1 : g = <<TheRange(a).range_id, n>>
  BY <1>2, <1>3
<1>. QED  BY <1>4

\* The range of a page's number, taken apart.
LEMMA AddressIs ==
  ASSUME OneRangeEach, RangesApart, BitsAre(Nat), program \in Programs, NEW g \in Pages
  PROVE  get_global_address(g) \in Nat /\ Previous(get_global_address(g)) = g
<1> DEFINE m == 2^n_ranges_bits
<1>1. PICK a \in Arrays : \E n \in 0 .. TheRange(a).page_count - 1 :
        g = <<TheRange(a).range_id, n>>
  BY PageParts
<1>2. PICK n \in 0 .. TheRange(a).page_count - 1 : g = <<TheRange(a).range_id, n>>
  BY <1>1
<1> DEFINE x == TheRange(a).range_id
<1>3. x \in Nat /\ n \in Nat
  BY TheRangeIs
<1>4. m = max_range /\ m \in Nat \ {0} /\ x < m
  <2>1. program.arrays[a].ranges[1].range_id < max_range
    BY DEF RangesApart, Arrays
  <2>. QED  BY <2>1, RangeAssumption DEF RangesApart, TheRange, d_ranges
<1>5. n_ranges_bits \in Nat
  BY DEF RangesApart
<1>6. get_global_address(g) = n * m + x
  <2>1. BitOr(n * 2^n_ranges_bits, x) = n * 2^n_ranges_bits + x
    BY <1>3, <1>4, <1>5 DEF BitsAre
  <2>. QED  BY <1>2, <2>1 DEF get_global_address
<1>7. (n * m + x) \div m = n /\ (n * m + x) % m = x
  <2>1. x \in 0 .. m - 1
    BY <1>3, <1>4
  <2> HIDE DEF m, x
  <2>. QED  BY <1>3, <1>4, <2>1, Quotient
<1>8. n * m + x \in Nat
  BY <1>3, <1>4
<1>9. BitAnd(n * m + x, n_ranges_mask) = x
  <2>1. BitAnd(n * m + x, 2^n_ranges_bits - 1) = (n * m + x) % 2^n_ranges_bits
    BY <1>5, <1>8 DEF BitsAre
  <2>2. n_ranges_mask = 2^n_ranges_bits - 1
    BY <1>4 DEF n_ranges_mask
  <2>. QED  BY <1>7, <2>1, <2>2
<1>. QED  BY <1>2, <1>6, <1>7, <1>8, <1>9 DEF Previous

\* The blocks of a page of array a.
LEMMA BlocksAre ==
  ASSUME OneRangeEach, RangesApart, program \in Programs, NEW a \in Arrays,
         NEW n \in 0 .. TheRange(a).page_count - 1
  PROVE  Blocks(<<TheRange(a).range_id, n>>) =
           Places(TheRange(a).page_start, n, TheRange(a).dist)
<1>1. /\ TheRange(a) \in Ranges
      /\ \A b \in Arrays : TheRange(b).range_id = TheRange(a).range_id => a = b
      /\ \A b \in Arrays : DOMAIN d_ranges(b) = {1}
  BY TheRangeIs
<1>2. \A r \in Ranges : r.range_id = TheRange(a).range_id => r = TheRange(a)
  BY <1>1 DEF Ranges, TheRange
<1>3. RangeOf(TheRange(a).range_id) = TheRange(a)
  BY <1>1, <1>2 DEF RangeOf
<1>. QED  BY <1>3 DEF Blocks

\* No two pages, of one range or of two, share a block.
LEMMA BlocksApart ==
  ASSUME OneRangeEach, RangesApart, program \in Programs, NEW g \in Pages, NEW h \in Pages, g # h
  PROVE  Blocks(g) \cap Blocks(h) = {}
<1>1. PICK a \in Arrays : \E n \in 0 .. TheRange(a).page_count - 1 :
        g = <<TheRange(a).range_id, n>>
  BY PageParts
<1>2. PICK n \in 0 .. TheRange(a).page_count - 1 : g = <<TheRange(a).range_id, n>>
  BY <1>1
<1>3. PICK b \in Arrays : \E k \in 0 .. TheRange(b).page_count - 1 :
        h = <<TheRange(b).range_id, k>>
  BY PageParts
<1>4. PICK k \in 0 .. TheRange(b).page_count - 1 : h = <<TheRange(b).range_id, k>>
  BY <1>3
<1>5. /\ Blocks(g) = Places(TheRange(a).page_start, n, TheRange(a).dist)
      /\ Blocks(h) = Places(TheRange(b).page_start, k, TheRange(b).dist)
  BY <1>2, <1>4, BlocksAre
<1>6. CASE a = b
  <2>1. n # k
    BY <1>2, <1>4, <1>6
  <2>2. TheRange(a).page_count \in Nat
    BY TheRangeIs
  <2>3. n \in Nat /\ k \in Nat
    BY <1>6, <2>2
  <2>4. TheRange(a).page_start \in Nat /\ TheRange(a).dist \in {"STRIPE", "REPLICATE"}
    BY DEF RangesApart, TheRange, d_ranges, Arrays
  <2>. QED  BY <1>5, <1>6, <2>1, <2>3, <2>4, PagesApart
<1>7. CASE a # b
  <2>1. LET r == program.arrays[a].ranges[1]
            q == program.arrays[b].ranges[1] IN
        \A x \in 0 .. r.page_count - 1, y \in 0 .. q.page_count - 1 :
          Places(r.page_start, x, r.dist) \cap Places(q.page_start, y, q.dist) = {}
    BY <1>7 DEF RangesApart, Arrays
  <2>2. Places(TheRange(a).page_start, n, TheRange(a).dist)
          \cap Places(TheRange(b).page_start, k, TheRange(b).dist) = {}
    BY <2>1 DEF TheRange, d_ranges
  <2>. QED  BY <1>5, <2>2
<1>. QED  BY <1>6, <1>7

\* The memory of two slots is apart.
LEMMA AddressedApart ==
  ASSUME NEW ps \in Nat \ {0}, NEW s \in Nat, NEW t \in Nat,
         NEW k \in 0 .. ps - 1, NEW j \in 0 .. ps - 1,
         Addressed(ps, s, k) = Addressed(ps, t, j)
  PROVE  s = t /\ k = j
<1> DEFINE x == s * ps + k
           y == t * ps + j
           c == ctrl_page_size
<1>1. x \in Nat /\ y \in Nat /\ c \in Nat \ {0}
  BY CtrlPageAssumption
<1>2. x \div c = y \div c /\ x % c = y % c
  BY DEF Addressed
<1>3. x = (x \div c) * c + (x % c) /\ y = (y \div c) * c + (y % c)
  <2> HIDE DEF x, y, c
  <2>. QED  BY <1>1, Division
<1>4. x = y
  BY <1>2, <1>3
<1>5. /\ x \div ps = s /\ x % ps = k
      /\ y \div ps = t /\ y % ps = j
  BY Quotient
<1>. QED  BY <1>4, <1>5

\* The size of a page, and the places of its elements.
LEMMA SizeIs ==
  ASSUME program \in Programs
  PROVE  /\ page_size \in Nat \ {0} /\ SizesDivide(page_size)
         /\ Offsets = 0 .. page_size - 1 /\ Slots = 0 .. n_pages - 1
         /\ n_pages \in Nat \ {0}
BY ArrayAssumption, RangeAssumption DEF page_size, Offsets, Slots

\* The memory, by slot and place: what a thread finds there.
LEMMA MemoryIs ==
  ASSUME program \in Programs,
         NEW s \in Slots, NEW k \in Offsets, NEW t \in Slots, NEW j \in Offsets
  PROVE  /\ Addressed(page_size, s, k) = Addressed(page_size, t, j) <=> s = t /\ k = j
         /\ Transferred(page_size, s, k) = Addressed(page_size, s, k)
<1>1. /\ page_size \in Nat \ {0} /\ SizesDivide(page_size)
      /\ Offsets = 0 .. page_size - 1 /\ Slots = 0 .. n_pages - 1
      /\ n_pages \in Nat \ {0}
  BY SizeIs
<1>2. s \in Nat /\ t \in Nat /\ k \in 0 .. page_size - 1 /\ j \in 0 .. page_size - 1
  BY <1>1
<1>3. Addressed(page_size, s, k) = Addressed(page_size, t, j) => s = t /\ k = j
  BY <1>1, <1>2, AddressedApart
<1>4. Transferred(page_size, s, k) = Addressed(page_size, s, k)
  BY <1>1, <1>2, TransferredIsAddressed
<1>. QED  BY <1>3, <1>4

\* The SSD reads and fills the whole of a slot, and no other.
LEMMA SlotReadIs ==
  ASSUME program \in Programs, NEW s \in Slots
  PROVE  SlotRead(s) = [k \in Offsets |-> memory[Addressed(page_size, s, k)]]
BY MemoryIs DEF SlotRead

LEMMA SlotWrittenIs ==
  ASSUME program \in Programs, NEW s \in Slots, NEW c,
         DOMAIN memory = SlotMemory
  PROVE  /\ DOMAIN SlotWritten(s, c) = DOMAIN memory
         /\ \A t \in Slots, j \in Offsets :
              SlotWritten(s, c)[Addressed(page_size, t, j)] =
                IF t = s THEN c[j] ELSE memory[Addressed(page_size, t, j)]
<1>1. DOMAIN SlotWritten(s, c) = DOMAIN memory
  BY DEF SlotWritten
<1>2. ASSUME NEW t \in Slots, NEW j \in Offsets
      PROVE  SlotWritten(s, c)[Addressed(page_size, t, j)] =
               IF t = s THEN c[j] ELSE memory[Addressed(page_size, t, j)]
  <2> DEFINE x == Addressed(page_size, t, j)
             hit == {k \in Offsets : Transferred(page_size, s, k) = x}
  <2>1. x \in DOMAIN memory
    BY DEF SlotMemory
  <2>2. SlotWritten(s, c)[x] = IF hit = {} THEN memory[x] ELSE c[CHOOSE k \in hit : TRUE]
    BY <2>1 DEF SlotWritten
  <2>3. CASE t = s
    <3>1. hit = {j}
      BY <2>3, MemoryIs
    <3>2. (CHOOSE k \in hit : TRUE) = j
      <4> HIDE DEF hit
      <4>. QED  BY <3>1
    <3>. QED  BY <2>2, <2>3, <3>1, <3>2
  <2>4. CASE t # s
    <3>1. hit = {}
      BY <2>4, MemoryIs
    <3>. QED  BY <2>2, <2>4, <3>1
  <2>. QED  BY <2>3, <2>4
<1>. QED  BY <1>1, <1>2

\* The content of an element that is written.
NextOf(g, k) == <<g, k, written[g][k] + 1>>

\* A store changes its element and no other.
LEMMA StoredIs ==
  ASSUME program \in Programs, NEW m, NEW g, NEW s \in Slots, NEW write \in SUBSET Offsets,
         DOMAIN m = SlotMemory
  PROVE  /\ DOMAIN Stored(m, g, s, write) = DOMAIN m
         /\ \A t \in Slots, j \in Offsets :
              Stored(m, g, s, write)[Addressed(page_size, t, j)] =
                IF t = s /\ j \in write THEN NextOf(g, j)
                ELSE m[Addressed(page_size, t, j)]
<1>1. DOMAIN Stored(m, g, s, write) = DOMAIN m
  BY DEF Stored
<1>2. ASSUME NEW t \in Slots, NEW j \in Offsets
      PROVE  Stored(m, g, s, write)[Addressed(page_size, t, j)] =
               IF t = s /\ j \in write THEN NextOf(g, j)
               ELSE m[Addressed(page_size, t, j)]
  <2> DEFINE x == Addressed(page_size, t, j)
             hit == {k \in write : Addressed(page_size, s, k) = x}
  <2>1. x \in DOMAIN m
    BY DEF SlotMemory
  <2>2. Stored(m, g, s, write)[x] =
          IF hit = {} THEN m[x]
          ELSE LET k == CHOOSE k \in hit : TRUE IN <<g, k, written[g][k] + 1>>
    BY <2>1 DEF Stored
  <2>3. CASE t = s /\ j \in write
    <3>1. hit = {j}
      BY <2>3, MemoryIs
    <3>2. (CHOOSE k \in hit : TRUE) = j
      <4> HIDE DEF hit
      <4>. QED  BY <3>1
    <3>. QED  BY <2>2, <2>3, <3>1, <3>2 DEF NextOf
  <2>4. CASE ~(t = s /\ j \in write)
    <3>1. hit = {}
      BY <2>4, MemoryIs
    <3>. QED  BY <2>2, <2>4, <3>1
  <2>. QED  BY <2>3, <2>4
<1>. QED  BY <1>1, <1>2

\* The versions after an access.
LEMMA WrittenIs ==
  ASSUME CacheTypeOK, program \in Programs, NEW g \in Pages, NEW write \in SUBSET Offsets,
         written' = [written EXCEPT ![g] = [k \in Offsets |-> @[k] + (IF k \in write THEN 1 ELSE 0)]]
  PROVE  /\ written' \in [Pages -> [Offsets -> Nat]]
         /\ \A h \in Pages \ {g} : written'[h] = written[h]
         /\ \A k \in Offsets : written'[g][k] = IF k \in write THEN written[g][k] + 1
                                                ELSE written[g][k]
<1>1. written \in [Pages -> [Offsets -> Nat]]
  BY DEF CacheTypeOK
<1> DEFINE w == [k \in Offsets |-> written[g][k] + (IF k \in write THEN 1 ELSE 0)]
<1>2. w \in [Offsets -> Nat]
  BY <1>1
<1>3. written' = [written EXCEPT ![g] = w]
  OBVIOUS
<1>4. \A k \in Offsets : w[k] = IF k \in write THEN written[g][k] + 1 ELSE written[g][k]
  BY <1>1
<1> HIDE DEF w
<1>. QED  BY <1>1, <1>2, <1>3, <1>4

LEMMA ProgramSame ==
  ASSUME program' = program
  PROVE  /\ Pages' = Pages /\ page_size' = page_size /\ Offsets' = Offsets
         /\ SlotMemory' = SlotMemory /\ AllBlocks' = AllBlocks
         /\ \A g : Blocks(g)' = Blocks(g)
<1>1. Ranges' = Ranges /\ page_size' = page_size
  BY DEF Ranges, d_ranges, Arrays, page_size
<1>2. Pages' = Pages /\ Offsets' = Offsets
  BY <1>1 DEF Pages, Offsets
<1>3. ASSUME NEW id  PROVE RangeOf(id)' = RangeOf(id)
  BY <1>1 DEF RangeOf
<1>4. \A g : Blocks(g)' = Blocks(g)
  BY <1>3 DEF Blocks
<1>5. SlotMemory' = SlotMemory
  <2>1. ASSUME NEW x  PROVE x \in SlotMemory' <=> x \in SlotMemory
    <3>1. x \in SlotMemory <=> \E s \in Slots : \E k \in Offsets : x = Addressed(page_size, s, k)
      BY DEF SlotMemory
    <3>2. x \in SlotMemory' <=> \E s \in Slots : \E k \in Offsets' : x = Addressed(page_size', s, k)
      BY DEF SlotMemory
    <3>. QED  BY <1>1, <1>2, <3>1, <3>2
  <2>. QED  BY <2>1
<1>6. AllBlocks' = AllBlocks
  <2>1. ASSUME NEW x  PROVE x \in AllBlocks' <=> x \in AllBlocks
    <3>1. x \in AllBlocks <=> \E g \in Pages : x \in Blocks(g)
      BY DEF AllBlocks
    <3>2. x \in AllBlocks' <=> \E g \in Pages' : x \in Blocks(g)'
      BY DEF AllBlocks
    <3>. QED  BY <1>2, <1>4, <3>1, <3>2
  <2>. QED  BY <2>1
<1>. QED  BY <1>1, <1>2, <1>4, <1>5, <1>6

\* CacheInv after a step, said of the pages, places and blocks before it.
LEMMA CacheInvNext ==
  ASSUME program' = program,
         DOMAIN translation' = Slots, page_ticket' \in Slots,
         state' \in [Pages -> SUBSET {"VALID", "DIRTY"}],
         \A g \in Pages : "DIRTY" \in state'[g] => "VALID" \in state'[g],
         offset' \in [Pages -> Slots],
         written' \in [Pages -> [Offsets -> Nat]],
         DOMAIN memory' = SlotMemory,
         DOMAIN media' = AllBlocks,
         \A s \in Slots : translation'[s] # NoPage =>
           \E g \in Pages : /\ translation'[s] = get_global_address(g)
                            /\ "VALID" \in state'[g] /\ offset'[g] = s,
         \A g \in Pages : "VALID" \in state'[g] => translation'[offset'[g]] = get_global_address(g),
         \A g \in Pages : "VALID" \in state'[g] =>
           \A k \in Offsets : memory'[Addressed(page_size, offset'[g], k)] = <<g, k, written'[g][k]>>,
         \A g \in Pages : "DIRTY" \notin state'[g] =>
           \A b \in Blocks(g) : media'[b] = [k \in Offsets |-> <<g, k, written'[g][k]>>]
  PROVE  CacheInv'
<1>1. /\ Pages' = Pages /\ page_size' = page_size /\ Offsets' = Offsets
      /\ SlotMemory' = SlotMemory /\ AllBlocks' = AllBlocks
      /\ \A g : Blocks(g)' = Blocks(g)
  BY ProgramSame
<1>3. CacheTypeOK'
  BY <1>1 DEF CacheTypeOK
<1>4. Translated'
  BY <1>1 DEF Translated
<1>5. ResidentIsLatest'
  <2>1. ASSUME NEW g \in Pages, "VALID" \in state'[g], NEW k \in Offsets
        PROVE  memory'[Addressed(page_size, offset'[g], k)] = Content(g)'[k]
    BY <1>1, <2>1 DEF Content
  <2>. QED  BY <1>1, <2>1 DEF ResidentIsLatest
<1>6. CleanIsOnAllControllers'
  <2>1. ASSUME NEW g \in Pages, "DIRTY" \notin state'[g], NEW b \in Blocks(g)
        PROVE  media'[b] = Content(g)'
    BY <1>1, <2>1 DEF Content
  <2>. QED  BY <1>1, <2>1 DEF CleanIsOnAllControllers
<1>. QED  BY <1>3, <1>4, <1>5, <1>6 DEF CacheInv

\* A page that is there.
LEMMA HitKeeps ==
  ASSUME OneRangeEach, RangesApart, BitsAre(Nat), program \in Programs, program' = program,
         CacheInv, NEW g \in Pages, NEW write \in SUBSET Offsets, "VALID" \in state[g],
         Hit(g, write),
         written' = [written EXCEPT ![g] = [k \in Offsets |-> @[k] + (IF k \in write THEN 1 ELSE 0)]]
  PROVE  CacheInv'
<1> USE DEF CacheInv
<1>1. /\ state' = [state EXCEPT ![g] = @ \union (IF write = {} THEN {} ELSE {"DIRTY"})]
      /\ memory' = Stored(memory, g, offset[g], write)
      /\ translation' = translation /\ page_ticket' = page_ticket
      /\ offset' = offset /\ media' = media
  BY DEF Hit
<1>2. /\ DOMAIN translation = Slots /\ page_ticket \in Slots
      /\ state \in [Pages -> SUBSET {"VALID", "DIRTY"}]
      /\ \A h \in Pages : "DIRTY" \in state[h] => "VALID" \in state[h]
      /\ offset \in [Pages -> Slots]
      /\ DOMAIN memory = SlotMemory
      /\ DOMAIN media = AllBlocks
  BY DEF CacheTypeOK
<1>3. /\ written' \in [Pages -> [Offsets -> Nat]]
      /\ \A h \in Pages \ {g} : written'[h] = written[h]
      /\ \A k \in Offsets : written'[g][k] = IF k \in write THEN written[g][k] + 1
                                             ELSE written[g][k]
  BY WrittenIs
<1>4. /\ state' \in [Pages -> SUBSET {"VALID", "DIRTY"}]
      /\ \A h \in Pages : "VALID" \in state'[h] <=> "VALID" \in state[h]
      /\ \A h \in Pages : "DIRTY" \in state'[h] <=> "DIRTY" \in state[h] \/ (h = g /\ write # {})
  BY <1>1, <1>2
<1>5. offset[g] \in Slots
  BY <1>2
<1>6. /\ DOMAIN memory' = DOMAIN memory
      /\ \A t \in Slots, j \in Offsets :
           memory'[Addressed(page_size, t, j)] =
             IF t = offset[g] /\ j \in write THEN NextOf(g, j)
             ELSE memory[Addressed(page_size, t, j)]
  <2>1. DOMAIN memory = SlotMemory
    BY <1>2
  <2> DEFINE new == Stored(memory, g, offset[g], write)
  <2>2. /\ DOMAIN new = DOMAIN memory
        /\ \A t \in Slots, j \in Offsets :
             new[Addressed(page_size, t, j)] =
               IF t = offset[g] /\ j \in write THEN NextOf(g, j)
               ELSE memory[Addressed(page_size, t, j)]
    BY <1>5, <2>1, StoredIs
  <2> HIDE DEF new
  <2>3. memory' = new
    BY <1>1 DEF new
  <2>. QED  BY <2>2, <2>3
<1>7. \A h \in Pages \ {g} : "VALID" \in state[h] => offset[h] # offset[g]
  BY AddressIs DEF Translated
<1>8. ASSUME NEW h \in Pages, "VALID" \in state'[h], NEW k \in Offsets
      PROVE  memory'[Addressed(page_size, offset'[h], k)] = <<h, k, written'[h][k]>>
  <2>1. "VALID" \in state[h] /\ offset[h] \in Slots /\ offset' = offset
    BY <1>1, <1>2, <1>4, <1>8
  <2>2. memory[Addressed(page_size, offset[h], k)] = <<h, k, written[h][k]>>
    BY <2>1 DEF ResidentIsLatest, Content
  <2>3. CASE h = g
    BY <1>3, <1>6, <2>1, <2>2, <2>3 DEF NextOf
  <2>4. CASE h # g
    BY <1>3, <1>6, <1>7, <2>1, <2>2, <2>4
  <2>. QED  BY <2>3, <2>4
<1>9. ASSUME NEW h \in Pages, "DIRTY" \notin state'[h], NEW b \in Blocks(h)
      PROVE  media'[b] = [k \in Offsets |-> <<h, k, written'[h][k]>>]
  <2>1. "DIRTY" \notin state[h] /\ ~(h = g /\ write # {})
    BY <1>4, <1>9
  <2>2. media[b] = [k \in Offsets |-> <<h, k, written[h][k]>>]
    BY <2>1 DEF CleanIsOnAllControllers, Content
  <2>3. \A k \in Offsets : written'[h][k] = written[h][k]
    BY <1>3, <2>1
  <2>. QED  BY <1>1, <2>2, <2>3
<1>10. /\ \A s \in Slots : translation'[s] # NoPage =>
            \E h \in Pages : /\ translation'[s] = get_global_address(h)
                             /\ "VALID" \in state'[h] /\ offset'[h] = s
       /\ \A h \in Pages : "VALID" \in state'[h] => translation'[offset'[h]] = get_global_address(h)
  BY <1>1, <1>4 DEF Translated
<1>11. \A h \in Pages : "DIRTY" \in state'[h] => "VALID" \in state'[h]
  BY <1>2, <1>4
<1>. QED  BY <1>1, <1>2, <1>3, <1>4, <1>6, <1>8, <1>9, <1>10, <1>11, CacheInvNext

\* A page that is not there: find_slot takes a slot from another, or an empty one,
\* and read_data fills it.
LEMMA FillKeeps ==
  ASSUME OneRangeEach, RangesApart, BitsAre(Nat), program \in Programs, program' = program,
         CacheInv, NEW g \in Pages, NEW write \in SUBSET Offsets, "VALID" \notin state[g],
         NEW c, Fill(g, write, c),
         written' = [written EXCEPT ![g] = [k \in Offsets |-> @[k] + (IF k \in write THEN 1 ELSE 0)]]
  PROVE  CacheInv'
<1> USE DEF CacheInv
<1>1. PICK n \in Slots : \E b \in Blocks(g) :
    LET s     == Ticket(n)
        old   == IF translation[s] = NoPage THEN {} ELSE {Previous(translation[s])}
        dirty == {h \in old : "DIRTY" \in state[h]}
        after == IF dirty = {} THEN media ELSE WrittenBack(s, CHOOSE h \in dirty : TRUE)
    IN /\ page_ticket' = (s + 1) % n_pages
       /\ translation' = [translation EXCEPT ![s] = get_global_address(g)]
       /\ media' = after
       /\ memory' = Stored(SlotWritten(s, after[b]), g, s, write)
       /\ offset' = [offset EXCEPT ![g] = s]
       /\ state' = [h \in Pages |->
                      IF h = g
                      THEN {"VALID"} \union (IF write = {} THEN {} ELSE {"DIRTY"})
                      ELSE state[h] \ (IF h \in old THEN {"VALID", "DIRTY"} ELSE {})]
  BY DEF Fill
<1> DEFINE s     == Ticket(n)
           old   == IF translation[s] = NoPage THEN {} ELSE {Previous(translation[s])}
           dirty == {h \in old : "DIRTY" \in state[h]}
           after == IF dirty = {} THEN media ELSE WrittenBack(s, CHOOSE h \in dirty : TRUE)
<1>2. PICK b \in Blocks(g) :
        /\ page_ticket' = (s + 1) % n_pages
        /\ translation' = [translation EXCEPT ![s] = get_global_address(g)]
        /\ media' = after
        /\ memory' = Stored(SlotWritten(s, after[b]), g, s, write)
        /\ offset' = [offset EXCEPT ![g] = s]
        /\ state' = [h \in Pages |->
                       IF h = g
                       THEN {"VALID"} \union (IF write = {} THEN {} ELSE {"DIRTY"})
                       ELSE state[h] \ (IF h \in old THEN {"VALID", "DIRTY"} ELSE {})]
  BY <1>1
<1>3. /\ DOMAIN translation = Slots /\ page_ticket \in Slots
      /\ state \in [Pages -> SUBSET {"VALID", "DIRTY"}]
      /\ \A h \in Pages : "DIRTY" \in state[h] => "VALID" \in state[h]
      /\ offset \in [Pages -> Slots]
      /\ DOMAIN memory = SlotMemory
      /\ DOMAIN media = AllBlocks
  BY DEF CacheTypeOK
<1>4. /\ written' \in [Pages -> [Offsets -> Nat]]
      /\ \A h \in Pages \ {g} : written'[h] = written[h]
      /\ \A k \in Offsets : written'[g][k] = IF k \in write THEN written[g][k] + 1
                                             ELSE written[g][k]
  BY WrittenIs
<1>5. s \in Slots /\ page_ticket' \in Slots
  <2>1. Slots = 0 .. n_pages - 1 /\ n_pages \in Nat \ {0}
    BY SizeIs
  <2>2. n \in Nat /\ page_ticket \in Nat
    BY <1>3, <2>1
  <2>3. s \in 0 .. n_pages - 1
    BY <2>1, <2>2 DEF Ticket
  <2> HIDE DEF s
  <2>4. (s + 1) % n_pages \in 0 .. n_pages - 1
    BY <2>1, <2>3
  <2>. QED  BY <1>2, <2>1, <2>3, <2>4
<1> HIDE DEF s
<1>6. old \subseteq Pages /\ \A h \in old : "VALID" \in state[h] /\ offset[h] = s
  BY <1>5, AddressIs DEF Translated
<1>7. \A h \in Pages : "VALID" \in state[h] /\ offset[h] = s => h \in old
  <2>1. SUFFICES ASSUME NEW h \in Pages, "VALID" \in state[h], offset[h] = s
                 PROVE  h \in old
    OBVIOUS
  <2>2. translation[s] = get_global_address(h)
    BY <2>1 DEF Translated
  <2>3. get_global_address(h) # NoPage /\ Previous(get_global_address(h)) = h
    BY AddressIs, RangeAssumption
  <2>. QED  BY <2>2, <2>3
<1>8. \A h, i \in old : h = i
  OBVIOUS
<1>9. g \notin old
  BY <1>6
<1> HIDE DEF old
\* The SSDs after the write back.
<1>10. DOMAIN after = AllBlocks
  BY <1>3 DEF WrittenBack
<1>11. ASSUME NEW h \in Pages, "DIRTY" \notin state[h] \/ h \in old, NEW x \in Blocks(h)
       PROVE  after[x] = [k \in Offsets |-> <<h, k, written[h][k]>>]
  <2>1. x \in AllBlocks
    BY <1>11 DEF AllBlocks
  <2>2. CASE dirty = {}
    <3>1. "DIRTY" \notin state[h] /\ after = media
      BY <1>11, <2>2
    <3>. QED  BY <3>1, <1>11 DEF CleanIsOnAllControllers, Content
  <2>3. CASE dirty # {}
    <3>1. PICK d \in old : "DIRTY" \in state[d] /\ dirty = {d}
      BY <1>8, <2>3
    <3>2. after = WrittenBack(s, d)
      <4>1. (CHOOSE e \in dirty : TRUE) = d
        BY <3>1
      <4>. QED  BY <2>3, <4>1
    <3>3. after[x] = IF x \in Blocks(d) THEN SlotRead(s) ELSE media[x]
      BY <1>3, <2>1, <3>2 DEF WrittenBack
    <3>4. CASE h = d
      <4>1. "VALID" \in state[d] /\ offset[d] = s /\ d \in Pages
        BY <1>6, <3>1
      <4>2. \A k \in Offsets : memory[Addressed(page_size, s, k)] = <<d, k, written[d][k]>>
        BY <4>1 DEF ResidentIsLatest, Content
      <4>3. SlotRead(s) = [k \in Offsets |-> memory[Addressed(page_size, s, k)]]
        BY <1>5, SlotReadIs
      <4>. QED  BY <1>11, <3>3, <3>4, <4>2, <4>3
    <3>5. CASE h # d
      <4>1. "DIRTY" \notin state[h]
        BY <1>8, <1>11, <3>1, <3>5
      <4>2. x \notin Blocks(d)
        BY <1>6, <1>11, <3>1, <3>5, BlocksApart
      <4>. QED  BY <1>11, <3>3, <4>1, <4>2 DEF CleanIsOnAllControllers, Content
    <3>. QED  BY <3>4, <3>5
  <2>. QED  BY <2>2, <2>3
<1>12. after[b] = [k \in Offsets |-> <<g, k, written[g][k]>>]
  BY <1>3, <1>11
<1> HIDE DEF after
<1>13. /\ DOMAIN memory' = SlotMemory
       /\ \A t \in Slots, j \in Offsets :
            memory'[Addressed(page_size, t, j)] =
              IF t = s /\ j \in write THEN NextOf(g, j)
              ELSE IF t = s THEN after[b][j] ELSE memory[Addressed(page_size, t, j)]
  <2> DEFINE content == after[b]
             mid == SlotWritten(s, content)
             new == Stored(mid, g, s, write)
  <2> HIDE DEF content
  <2>1. /\ DOMAIN mid = SlotMemory
        /\ \A t \in Slots, j \in Offsets :
             mid[Addressed(page_size, t, j)] =
               IF t = s THEN content[j] ELSE memory[Addressed(page_size, t, j)]
    BY <1>3, <1>5, SlotWrittenIs
  <2> HIDE DEF mid
  <2>2. /\ DOMAIN new = SlotMemory
        /\ \A t \in Slots, j \in Offsets :
             new[Addressed(page_size, t, j)] =
               IF t = s /\ j \in write THEN NextOf(g, j) ELSE mid[Addressed(page_size, t, j)]
    BY <1>5, <2>1, StoredIs
  <2>3. memory' = new
    BY <1>2 DEF mid, content
  <2> HIDE DEF new
  <2>. QED  BY <2>1, <2>2, <2>3 DEF content
<1>14. /\ state' \in [Pages -> SUBSET {"VALID", "DIRTY"}]
       /\ \A h \in Pages : "VALID" \in state'[h] <=> h = g \/ ("VALID" \in state[h] /\ h \notin old)
       /\ \A h \in Pages : "DIRTY" \in state'[h] <=>
            (h = g /\ write # {}) \/ (h # g /\ "DIRTY" \in state[h] /\ h \notin old)
  BY <1>2, <1>3
<1>15. \A h \in Pages : "DIRTY" \in state'[h] => "VALID" \in state'[h]
  BY <1>3, <1>14
<1>16. /\ offset' \in [Pages -> Slots] /\ offset'[g] = s
       /\ \A h \in Pages \ {g} : offset'[h] = offset[h]
  BY <1>2, <1>3, <1>5
<1>17. /\ DOMAIN translation' = Slots /\ translation'[s] = get_global_address(g)
       /\ \A t \in Slots \ {s} : translation'[t] = translation[t]
  BY <1>2, <1>3, <1>5
<1>18. \A h \in Pages \ {g} : "VALID" \in state'[h] => "VALID" \in state[h] /\ offset[h] # s
  BY <1>7, <1>14
<1>19. ASSUME NEW t \in Slots, translation'[t] # NoPage
       PROVE  \E h \in Pages : /\ translation'[t] = get_global_address(h)
                               /\ "VALID" \in state'[h] /\ offset'[h] = t
  <2>1. CASE t = s
    BY <1>14, <1>16, <1>17, <2>1
  <2>2. CASE t # s
    <3>1. PICK h \in Pages : /\ translation[t] = get_global_address(h)
                             /\ "VALID" \in state[h] /\ offset[h] = t
      BY <1>17, <1>19, <2>2 DEF Translated
    <3>2. h # g /\ h \notin old
      BY <1>6, <2>2, <3>1
    <3>. QED  BY <1>14, <1>16, <1>17, <2>2, <3>1, <3>2
  <2>. QED  BY <2>1, <2>2
<1>20. ASSUME NEW h \in Pages, "VALID" \in state'[h]
       PROVE  translation'[offset'[h]] = get_global_address(h)
  <2>1. CASE h = g
    BY <1>16, <1>17, <2>1
  <2>2. CASE h # g
    <3>1. "VALID" \in state[h] /\ offset[h] # s /\ offset[h] \in Slots
      BY <1>3, <1>18, <1>20, <2>2
    <3>. QED  BY <1>16, <1>17, <2>2, <3>1 DEF Translated
  <2>. QED  BY <2>1, <2>2
<1>21. ASSUME NEW h \in Pages, "VALID" \in state'[h], NEW k \in Offsets
       PROVE  memory'[Addressed(page_size, offset'[h], k)] = <<h, k, written'[h][k]>>
  <2>1. CASE h = g
    <3>1. after[b][k] = <<g, k, written[g][k]>>
      BY <1>12
    <3>. QED  BY <1>4, <1>5, <1>13, <1>16, <2>1, <3>1 DEF NextOf
  <2>2. CASE h # g
    <3>1. "VALID" \in state[h] /\ offset[h] # s /\ offset[h] \in Slots /\ offset'[h] = offset[h]
      BY <1>3, <1>16, <1>18, <1>21, <2>2
    <3>2. memory[Addressed(page_size, offset[h], k)] = <<h, k, written[h][k]>>
      BY <3>1 DEF ResidentIsLatest, Content
    <3>. QED  BY <1>4, <1>13, <2>2, <3>1, <3>2
  <2>. QED  BY <2>1, <2>2
<1>22. ASSUME NEW h \in Pages, "DIRTY" \notin state'[h], NEW x \in Blocks(h)
       PROVE  media'[x] = [k \in Offsets |-> <<h, k, written'[h][k]>>]
  <2>1. "DIRTY" \notin state[h] \/ h \in old
    BY <1>3, <1>14, <1>22
  <2>2. media'[x] = [k \in Offsets |-> <<h, k, written[h][k]>>]
    BY <1>2, <1>11, <1>22, <2>1 DEF after
  <2>3. \A k \in Offsets : written'[h][k] = written[h][k]
    BY <1>4, <1>14, <1>22
  <2>. QED  BY <2>2, <2>3
<1>23. DOMAIN media' = AllBlocks
  BY <1>2, <1>10 DEF after
<1>. QED
  BY <1>4, <1>5, <1>13, <1>14, <1>15, <1>16, <1>17, <1>19, <1>20, <1>21, <1>22, <1>23, CacheInvNext

LEMMA CacheSame ==
  ASSUME CacheInv, program' = program, UNCHANGED cacheVars
  PROVE  CacheInv'
<1>1. /\ translation' = translation /\ page_ticket' = page_ticket /\ state' = state
      /\ offset' = offset /\ memory' = memory /\ media' = media /\ written' = written
  BY DEF cacheVars
<1>2. /\ \A g \in Pages : "VALID" \in state[g] =>
           \A k \in Offsets : memory[Addressed(page_size, offset[g], k)] = <<g, k, written[g][k]>>
      /\ \A g \in Pages : "DIRTY" \notin state[g] =>
           \A b \in Blocks(g) : media[b] = [k \in Offsets |-> <<g, k, written[g][k]>>]
  BY DEF CacheInv, ResidentIsLatest, CleanIsOnAllControllers, Content
<1>3. CacheTypeOK /\ Translated
  BY DEF CacheInv
<1>. QED  BY <1>1, <1>2, <1>3, CacheInvNext DEF CacheTypeOK, Translated

LEMMA AcquireKeeps ==
  ASSUME OneRangeEach, RangesApart, BitsAre(Nat), program \in Programs, program' = program,
         CacheInv, NEW g \in Pages, NEW write \in SUBSET Offsets, NEW c,
         acquire_page(g, write, c)
  PROVE  CacheInv'
<1>1. written' = [written EXCEPT ![g] = [k \in Offsets |-> @[k] + (IF k \in write THEN 1 ELSE 0)]]
  BY DEF acquire_page
<1>2. CASE "VALID" \in state[g]
  <2>1. Hit(g, write)
    BY <1>2 DEF acquire_page
  <2>. QED  BY <1>1, <1>2, <2>1, HitKeeps
<1>3. CASE "VALID" \notin state[g]
  <2>1. Fill(g, write, c)
    BY <1>3 DEF acquire_page
  <2>. QED  BY <1>1, <1>3, <2>1, FillKeeps
<1>. QED  BY <1>2, <1>3

\* An empty cache.
LEMMA CacheBegins ==
  ASSUME OneRangeEach, RangesApart, BitsAre(Nat), Init
  PROVE  CacheInv
<1>1. program \in Programs
  BY DEF Init, ArrayInit
<1>2. CacheTypeOK
  <2>1. Slots = 0 .. n_pages - 1 /\ n_pages \in Nat \ {0}
    BY <1>1, SizeIs
  <2>2. DOMAIN memory = SlotMemory
    BY DEF Init, SlotMemory
  <2>3. DOMAIN media = AllBlocks
    BY DEF Init, AllBlocks
  <2>4. /\ DOMAIN translation = Slots /\ page_ticket \in Slots
        /\ state \in [Pages -> SUBSET {"VALID", "DIRTY"}]
        /\ \A g \in Pages : "DIRTY" \in state[g] => "VALID" \in state[g]
        /\ offset \in [Pages -> Slots]
        /\ written \in [Pages -> [Offsets -> Nat]]
    BY <2>1 DEF Init
  <2>. QED  BY <2>2, <2>3, <2>4 DEF CacheTypeOK
<1>3. Translated /\ ResidentIsLatest
  BY DEF Init, Translated, ResidentIsLatest
<1>4. CleanIsOnAllControllers
  <2>1. SUFFICES ASSUME NEW g \in Pages, NEW b \in Blocks(g)  PROVE media[b] = Content(g)
    BY DEF CleanIsOnAllControllers
  <2>2. b \in UNION {Blocks(h) : h \in Pages}
    OBVIOUS
  <2>3. media[b] = Content(CHOOSE h \in Pages : b \in Blocks(h))
    BY <2>2 DEF Init
  <2>4. \A h \in Pages : b \in Blocks(h) => h = g
    BY <1>1, BlocksApart
  <2>5. (CHOOSE h \in Pages : b \in Blocks(h)) = g
    BY <2>4
  <2>. QED  BY <2>3, <2>5
<1>. QED  BY <1>2, <1>3, <1>4 DEF CacheInv

\* Every step keeps the cache, given where the pointers are.
LEMMA NextKeepsCache ==
  ASSUME OneRangeEach, RangesApart, BitsAre(Nat), program \in Programs, CacheInv, Next
  PROVE  CacheInv'
<1>1. PICK a \in Arrays : \E i \in Indices(a) :
        PtrStay(a, i) \/ PtrMove(a, i) \/ seq_read(a, i) \/ seq_write(a, i)
  BY DEF Next
<1>2. PICK i \in Indices(a) :
        PtrStay(a, i) \/ PtrMove(a, i) \/ seq_read(a, i) \/ seq_write(a, i)
  BY <1>1
<1>3. PageOf(a, i) \in Pages
  BY IndexIs, PageIs
<1>4. CASE PtrStay(a, i)
  BY <1>4, CacheSame DEF PtrStay, Stay
<1>5. CASE PtrMove(a, i)
  <2>1. program' = program /\ acquire_page(PageOf(a, i), {}, Released(cnt, a))
    BY <1>5 DEF PtrMove, Move
  <2>2. {} \in SUBSET Offsets
    OBVIOUS
  <2>. QED  BY <1>3, <2>1, <2>2, AcquireKeeps
<1>6. CASE seq_read(a, i)
  <2>1. program' = program /\ acquire_page(PageOf(a, i), {}, cnt)
    BY <1>6 DEF seq_read, arrayVars
  <2>2. {} \in SUBSET Offsets
    OBVIOUS
  <2>. QED  BY <1>3, <2>1, <2>2, AcquireKeeps
<1>7. CASE seq_write(a, i)
  <2> DEFINE x == get_subindex(d_ranges(a)[find_range(a, i)], i)
  <2>1. program' = program /\ acquire_page(PageOf(a, i), {x}, cnt)
    BY <1>7 DEF seq_write, arrayVars
  <2>2. x = i % page_size
    BY IndexIs DEF TheRange
  <2>3. {x} \in SUBSET Offsets
    BY <2>2, PageIs DEF Offsets
  <2> HIDE DEF x
  <2>. QED  BY <1>3, <2>1, <2>3, AcquireKeeps
<1>. QED  BY <1>2, <1>4, <1>5, <1>6, <1>7

\* The slots hold what their pages are named for and the SSDs what is clean, at
\* every step, for any number of arrays, pages, slots and controllers.
THEOREM RangeAlwaysInv ==
  ASSUME OneRangeEach, RangesApart, BitsAre(Nat)
  PROVE  Spec => []RangeInv
<1>1. Init => CacheInv
  BY CacheBegins
<1>2. WalkInv /\ CacheInv /\ [Next]_vars => CacheInv'
  <2>1. ASSUME WalkInv, CacheInv, Next  PROVE CacheInv'
    BY <2>1, NextKeepsCache DEF WalkInv
  <2>2. ASSUME WalkInv, CacheInv, UNCHANGED vars  PROVE CacheInv'
    BY <2>2, CacheSame DEF vars, arrayVars
  <2>. QED  BY <2>1, <2>2
<1>3. WalkInv /\ CacheInv <=> RangeInv
  BY DEF RangeInv
<1>. QED  BY <1>1, <1>2, <1>3, ArrayAlwaysInv, PTL DEF Spec

\* A page of one range never shows the elements of another that had its slot.
THEOREM RangeResidentIsLatest ==
  ASSUME OneRangeEach, RangesApart, BitsAre(Nat)
  PROVE  Spec => []ResidentIsLatest
<1>1. RangeInv => ResidentIsLatest
  BY DEF RangeInv, CacheInv
<1>. QED  BY <1>1, RangeAlwaysInv, PTL

\* read_data may ask any controller that stores the page.
THEOREM RangeCleanIsOnAll ==
  ASSUME OneRangeEach, RangesApart, BitsAre(Nat)
  PROVE  Spec => []CleanIsOnAllControllers
<1>1. RangeInv => CleanIsOnAllControllers
  BY DEF RangeInv, CacheInv
<1>. QED  BY <1>1, RangeAlwaysInv, PTL

==============================================================================
