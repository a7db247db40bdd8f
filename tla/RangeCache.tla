------------------------------ MODULE RangeCache ------------------------------
(***************************************************************************)
(* Several ranges in one page cache on several SSDs                         *)
(* (bam/include/page_cache.h): a slot names the page it holds by a global   *)
(* address, the page number shifted left by n_ranges_bits with the range's  *)
(* number in the bits below, and find_slot takes it apart again to evict    *)
(* and to write back; a page's blocks are those of PagePlacement, and a     *)
(* slot's memory is what the SSD reaches through PrpEntries.                *)
(*                                                                         *)
(* One lane reads and writes the arrays of ArrayIndex, so an operation is   *)
(* one step: PageCache has the interleavings, for one range on one SSD.     *)
(* The content of an element is its page, its place there and the number of *)
(* its last write.                                                          *)
(***************************************************************************)
EXTENDS ArrayIndex, PagePlacement, PrpEntries

LOCAL INSTANCE FiniteSetsExt

CONSTANTS
  n_pages,       \* page_cache_d_t::n_pages: the slots
  max_range,     \* page_cache_d_t::range_cap
  BitOr(_, _),   \* | of two integers
  BitAnd(_, _),  \* & of two integers
  MaxWrites      \* bound: seq_write calls

ASSUME RangeAssumption ==
  /\ n_pages \in Nat \ {0}
  /\ max_range \in Nat \ {0}
  /\ NoPage \notin Nat
  /\ MaxWrites \in Nat
  /\ \A prog \in Programs : SizesDivide(prog.page_size)

VARIABLES
  translation,  \* page_translation of each slot, or NoPage while it is FREE
  page_ticket,  \* page_ticket, modulo n_pages
  state,        \* VALID and DIRTY of each page
  offset,       \* data_page_t::offset of each page
  memory,       \* content of each address of the cache's memory
  media,        \* content of each block of each controller
  written       \* writes each element of each page has had

cacheVars == <<translation, page_ticket, state, offset, memory, media, written>>

vars == <<arrayVars, cacheVars>>

Slots   == 0 .. n_pages - 1
Offsets == 0 .. page_size - 1

\* (max_range == 1) ? 1 : std::log2(max_range), a real cut to an integer.
n_ranges_bits ==
  IF max_range = 1 THEN 1
  ELSE CHOOSE b \in 0 .. max_range : 2^b <= max_range /\ max_range < 2^(b + 1)

\* Fault: the mask is one bit off.
n_ranges_mask_even == max_range - 2

n_ranges_mask == max_range - 1

\* (page << n_ranges_bits) | range_id
get_global_address(g) == BitOr(g[2] * 2^n_ranges_bits, g[1])

\* previous_range and previous_address of find_slot.
Previous(address) == <<BitAnd(address, n_ranges_mask), address \div 2^n_ranges_bits>>

\* The blocks of page g.
Blocks(g) == Places(RangeOf(g[1]).page_start, g[2], RangeOf(g[1]).dist)

Content(g) == [k \in Offsets |-> <<g, k, written[g][k]>>]

Init ==
  /\ ArrayInit
  /\ translation = [s \in Slots |-> NoPage]
  /\ page_ticket = 0
  /\ state = [g \in Pages |-> {}]
  /\ offset = [g \in Pages |-> 0]
  /\ memory = [x \in {Addressed(page_size, s, k) : s \in Slots, k \in Offsets} |-> NoPage]
  /\ written = [g \in Pages |-> [k \in Offsets |-> 0]]
  /\ media = [b \in UNION {Blocks(g) : g \in Pages} |->
                Content(CHOOSE g \in Pages : b \in Blocks(g))]

\* What the SSD reads of slot s.
SlotRead(s) == [k \in Offsets |-> memory[Transferred(page_size, s, k)]]

\* The memory after the SSD has written content c to slot s.
SlotWritten(s, c) ==
  [x \in DOMAIN memory |->
     LET hit == {k \in Offsets : Transferred(page_size, s, k) = x}
     IN IF hit = {} THEN memory[x] ELSE c[CHOOSE k \in hit : TRUE]]

\* Fault: a page on every controller is written back to the first of them.
WrittenBackFirst(s, g) ==
  LET first == CHOOSE b \in Blocks(g) : \A c \in Blocks(g) : b[1] <= c[1]
  IN [media EXCEPT ![first] = SlotRead(s)]

\* write_data of slot s to every controller that stores page g.
WrittenBack(s, g) ==
  [b \in DOMAIN media |-> IF b \in Blocks(g) THEN SlotRead(s) ELSE media[b]]

\* find_slot can have slot s when no one counts on its page in c.
Evictable(s, c) == translation[s] # NoPage => c[Previous(translation[s])] = 0

\* The slot of the k-th ticket from now.
Ticket(k) == (page_ticket + k) % n_pages

\* The element an operation writes: none, or {its place in the page}.
Stored(m, g, s, write) ==
  [x \in DOMAIN m |->
     LET hit == {k \in write : Addressed(page_size, s, k) = x}
     IN IF hit = {} THEN m[x]
        ELSE LET k == CHOOSE k \in hit : TRUE IN <<g, k, written[g][k] + 1>>]

\* acquire_page of a page that is not VALID, with the counts c: find_slot takes
\* the first slot it can have, writes the page that was there back if it is DIRTY
\* and clears its flags; read_data gets the new page from one controller that
\* stores it.
Fill(g, write, c) ==
  \E k \in Slots, b \in Blocks(g) :
    LET s     == Ticket(k)
        old   == IF translation[s] = NoPage THEN {} ELSE {Previous(translation[s])}
        dirty == {h \in old : "DIRTY" \in state[h]}
        after == IF dirty = {} THEN media ELSE WrittenBack(s, CHOOSE h \in dirty : TRUE)
    IN /\ Evictable(s, c)
       /\ \A j \in 0 .. k - 1 : ~Evictable(Ticket(j), c)
       /\ page_ticket' = (s + 1) % n_pages
       /\ translation' = [translation EXCEPT ![s] = get_global_address(g)]
       /\ media' = after
       /\ memory' = Stored(SlotWritten(s, after[b]), g, s, write)
       /\ offset' = [offset EXCEPT ![g] = s]
       /\ state' = [h \in Pages |->
                      IF h = g
                      THEN {"VALID"} \union (IF write = {} THEN {} ELSE {"DIRTY"})
                      ELSE state[h] \ (IF h \in old THEN {"VALID", "DIRTY"} ELSE {})]

\* acquire_page of a VALID page.
Hit(g, write) ==
  /\ state' = [state EXCEPT ![g] = @ \union (IF write = {} THEN {} ELSE {"DIRTY"})]
  /\ memory' = Stored(memory, g, offset[g], write)
  /\ UNCHANGED <<translation, page_ticket, offset, media>>

\* acquire_page, and the store of seq_write when it is for writing.
acquire_page(g, write, c) ==
  /\ IF "VALID" \in state[g] THEN Hit(g, write) ELSE Fill(g, write, c)
  /\ written' = [written EXCEPT ![g] = [k \in Offsets |-> @[k] + (IF k \in write THEN 1 ELSE 0)]]

\* bam_ptr::operator[], for reading.
PtrStay(a, i) == Stay(a, i) /\ UNCHANGED cacheVars

PtrMove(a, i) == Move(a, i) /\ acquire_page(PageOf(a, i), {}, Released(cnt, a))

\* Acquire, read or write, release: the counts are what they were.
seq_read(a, i) ==
  /\ find_range(a, i) # -1
  /\ acquire_page(PageOf(a, i), {}, cnt)
  /\ UNCHANGED arrayVars

seq_write(a, i) ==
  /\ MapThenSumSet(LAMBDA g : MapThenSumSet(LAMBDA k : written[g][k], Offsets), Pages)
       < MaxWrites
  /\ find_range(a, i) # -1
  /\ acquire_page(PageOf(a, i), {get_subindex(d_ranges(a)[find_range(a, i)], i)}, cnt)
  /\ UNCHANGED arrayVars

Next ==
  \E a \in Arrays : \E i \in Indices(a) :
    PtrStay(a, i) \/ PtrMove(a, i) \/ seq_read(a, i) \/ seq_write(a, i)

Spec == Init /\ [][Next]_vars
------------------------------------------------------------------------------
\* What programs build: ranges numbered below max_range, a power of two, each with
\* blocks of its own on the SSDs.
RangesApart ==
  /\ n_ranges_bits \in Nat /\ max_range = 2^n_ranges_bits
  /\ \A prog \in Programs : \A a \in DOMAIN prog.arrays :
       LET r == prog.arrays[a].ranges[1] IN
       /\ r.range_id < max_range /\ r.page_start \in Nat /\ r.dist \in {"STRIPE", "REPLICATE"}
       /\ \A b \in DOMAIN prog.arrays : a # b =>
            LET q == prog.arrays[b].ranges[1] IN
            \A x \in 0 .. r.page_count - 1, y \in 0 .. q.page_count - 1 :
              Places(r.page_start, x, r.dist) \cap Places(q.page_start, y, q.dist) = {}

\* What | and & do with a number shifted left and with a mask of ones.
BitsAre(S) ==
  \A b, x, y \in S :
    /\ y < 2^b => BitOr(x * 2^b, y) = x * 2^b + y
    /\ BitAnd(x, 2^b - 1) = x % 2^b

\* A page that is VALID has its own latest elements in its slot, where a thread
\* finds them, whatever pages of other ranges with the same number have come and
\* gone: an eviction takes the flags from the page whose slot it is, and the SSD
\* fills the slot it is told to.
ResidentIsLatest ==
  \A g \in Pages : "VALID" \in state[g] =>
    \A k \in Offsets : memory[Addressed(page_size, offset[g], k)] = Content(g)[k]

\* A page that is not DIRTY has its latest elements on every controller that
\* stores it, so that read_data may ask any of them.
CleanIsOnAllControllers ==
  \A g \in Pages : "DIRTY" \notin state[g] =>
    \A b \in Blocks(g) : media[b] = Content(g)
==============================================================================
