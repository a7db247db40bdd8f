------------------------------ MODULE ArrayIndex ------------------------------
(***************************************************************************)
(* From an index to a page and back: how array_d_t and bam_ptr              *)
(* (bam/include/page_cache.h) find the range of an index, its page, the     *)
(* place of its element in that page, and the page to release when the      *)
(* pointer moves on.  One lane walks several arrays, each with one bam_ptr. *)
(*                                                                         *)
(* The unit of size is an element (sizeof(T) is 1).  What an acquire does   *)
(* in the page cache is in RangeCache, which extends this module: here it   *)
(* is the count it adds to its page.                                        *)
(***************************************************************************)
EXTENDS Integers, Sequences

CONSTANTS
  Programs,  \* what a program may build: [page_size, arrays], each array with
             \* its ranges, a sequence of [range_id, index_start, count, page_start,
             \* page_count, page_start_offset, dist], and the indices it is used at
  Wrap,      \* size_t is modulo this (2^64)
  MaxMoves,  \* bound: moves of the pointers to another page
  NoPage     \* bam_ptr::page when it is null

ASSUME ArrayAssumption ==
  /\ \A prog \in Programs : prog.page_size \in Nat \ {0}
  /\ Wrap \in Nat \ {0}
  /\ MaxMoves \in Nat
  /\ NoPage \notin Nat \X Nat

VARIABLES
  program,  \* the program: page_size, and the d_ranges and uses of every array
  cnt,      \* count in the state word of every page of every range
  ptr,      \* the bam_ptr of every array: its page, as <<index in d_ranges,
            \* page>> or NoPage, and its start and end
  touched,  \* last access through a pointer: the index and the place it reached
  moves     \* moves made

arrayVars == <<program, cnt, ptr, touched, moves>>

page_size == program.page_size

Arrays == DOMAIN program.arrays

d_ranges(a) == program.arrays[a].ranges

\* The indices at which array a is used, in range.
Indices(a) == program.arrays[a].used

Ranges == UNION {{d_ranges(a)[k] : k \in DOMAIN d_ranges(a)} : a \in Arrays}

RangeOf(id) == CHOOSE r \in Ranges : r.range_id = id

\* Every page of every range, as <<range_id, page>>.
Pages == UNION {{r.range_id} \X (0 .. r.page_count - 1) : r \in Ranges}

\* Fault: the first element counted from one.
PlaceFromOne(r, i) == 1 + ((i - r.index_start + r.page_start_offset) % Wrap)

\* (i - index_start) * sizeof(T) + page_start_offset
Place(r, i) == (i - r.index_start + r.page_start_offset) % Wrap

get_page(r, i)     == Place(r, i) \div page_size
get_subindex(r, i) == Place(r, i) % page_size

\* The ranges at which find_range would stop for index i.
Found(a, i) == {k \in DOMAIN d_ranges(a) :
                  d_ranges(a)[k].index_start <= i /\ d_ranges(a)[k].count > i}

\* find_range: the first of them, or -1.
find_range(a, i) ==
  IF Found(a, i) = {} THEN -1
  ELSE CHOOSE k \in Found(a, i) : \A j \in Found(a, i) : k <= j

\* The page of index i, when a range is found.
PageOf(a, i) ==
  LET r == d_ranges(a)[find_range(a, i)] IN <<r.range_id, get_page(r, i)>>

ArrayInit ==
  /\ program \in Programs
  /\ cnt = [g \in Pages |-> 0]
  /\ ptr = [a \in Arrays |-> [page |-> NoPage, start |-> 0, end |-> 0]]
  /\ touched = [array |-> 1, index |-> 0, page |-> NoPage, offset |-> 0]
  /\ moves = 0

\* Counts c with n added to page g; a g outside its range is a word outside it.
Counted(c, g, n) == IF g \in DOMAIN c THEN [c EXCEPT ![g] = @ + n] ELSE c

\* Fault: update_page does not call fini.
ReleasedNever(c, a) == c

\* fini: array_d_t::release_page(page_, range_id, start) finds the page of the
\* pointer of a again from the index "start".
Released(c, a) ==
  IF ptr[a].page = NoPage THEN c
  ELSE LET r == d_ranges(a)[ptr[a].page[1]]
       IN Counted(c, <<r.range_id, get_page(r, ptr[a].start)>>, -1)

\* What the pointer of a reaches at index i: addr[i - start].
Touch(a, i, g, start) ==
  touched' = [array |-> a, index |-> i, page |-> g, offset |-> i - start]

\* operator[] with an index of the page the pointer holds.
Stay(a, i) ==
  LET p == ptr[a] IN
  /\ p.page # NoPage
  /\ p.start <= i /\ i < p.end
  /\ Touch(a, i, <<d_ranges(a)[p.page[1]].range_id, p.page[2]>>, p.start)
  /\ UNCHANGED <<program, cnt, ptr, moves>>

\* operator[] with another index: fini, find_range, acquire_page of the page of
\* i, and addr[i - start].  Without a range there is no page and the lane faults
\* on a null pointer.
Move(a, i) ==
  LET k == find_range(a, i)
      g == PageOf(a, i)
      start == page_size * g[2]
  IN /\ moves < MaxMoves
     /\ i < ptr[a].start \/ i >= ptr[a].end
     /\ k # -1
     /\ cnt' = Counted(Released(cnt, a), g, 1)
     /\ ptr' = [ptr EXCEPT ![a] = [page |-> <<k, g[2]>>, start |-> start,
                                   end |-> start + page_size]]
     /\ Touch(a, i, g, start)
     /\ moves' = moves + 1
     /\ UNCHANGED program
------------------------------------------------------------------------------
\* How programs build arrays: each has one range of its own, from index 0.  Pages for
\* all its elements are a supposition: the feature store rounds their number down
\* (t_size / page_size), so that it holds of tables of whole pages.
OneRangeEach ==
  \A prog \in Programs :
    /\ \A a \in DOMAIN prog.arrays :
         /\ DOMAIN prog.arrays[a].ranges = {1}
         /\ LET r == prog.arrays[a].ranges[1] IN
            /\ r.range_id \in Nat /\ r.page_count \in Nat /\ r.count \in Nat
            /\ r.index_start = 0 /\ r.page_start_offset = 0
            /\ r.count <= Wrap /\ r.count <= r.page_count * prog.page_size
            /\ prog.arrays[a].used \subseteq 0 .. r.count - 1
    /\ \A a, b \in DOMAIN prog.arrays :
         prog.arrays[a].ranges[1].range_id = prog.arrays[b].ranges[1].range_id => a = b

\* What an index reaches through a bam_ptr is in the page the pointer holds, and
\* is the element that seq_read, which adds get_subindex to the page's address,
\* reads for the same index.
PtrAgreesWithSeqRead ==
  touched.page # NoPage =>
    LET a == touched.array
        i == touched.index
    IN /\ touched.page = PageOf(a, i)
       /\ touched.offset \in 0 .. page_size - 1
       /\ touched.offset = get_subindex(d_ranges(a)[find_range(a, i)], i)

\* A pointer holds one page at a time: the page release_page works out from
\* "start" is the page that was acquired, however the pointers wandered.
PinsBalanced ==
  \A g \in Pages :
    LET Held(a) == /\ ptr[a].page # NoPage
                   /\ g = <<d_ranges(a)[ptr[a].page[1]].range_id, ptr[a].page[2]>>
    IN cnt[g] = IF \E a \in Arrays : Held(a) THEN 1 ELSE 0
==============================================================================
