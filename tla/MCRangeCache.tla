----------------------------- MODULE MCRangeCache -----------------------------
(* Two arrays of one range each, as the programs build them, one dealt out to *)
(* the SSDs and the other on all of them, in blocks that follow.              *)
EXTENDS RangeCache, Bitwise

BitwiseOr(x, y)  == x | y
BitwiseAnd(x, y) == x & y

Array(id, n, start, pages, dist, used) ==
  [ranges |-> <<[range_id |-> id, index_start |-> 0, count |-> n, page_start |-> start,
                 page_count |-> pages, page_start_offset |-> 0, dist |-> dist]>>,
   used |-> used]

\* Two slots in a page of the controller; two of its pages in a slot; four.  A
\* last page is partly used.
OfEachSize ==
  {[page_size |-> 1,
    arrays |-> <<Array(0, 3, 0, 3, "STRIPE", 0 .. 2),
                 Array(1, 1, 2, 1, "REPLICATE", {0})>>],
   [page_size |-> 4,
    arrays |-> <<Array(0, 8, 0, 2, "REPLICATE", {0, 3, 6}),
                 Array(1, 5, 2, 2, "STRIPE", {1, 4})>>],
   [page_size |-> 8,
    arrays |-> <<Array(0, 17, 0, 3, "STRIPE", {5, 9, 16}),
                 Array(1, 8, 2, 1, "REPLICATE", {7})>>]}

\* What the theorems suppose of the programs holds of these.
ASSUME AsTheTheoremsSuppose == OneRangeEach /\ RangesApart /\ BitsAre(0 .. 8)
==============================================================================
