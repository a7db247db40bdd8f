------------------------------ MODULE PrpEntries ------------------------------
(***************************************************************************)
(* Where the SSD writes and reads the memory of a slot of the page cache:   *)
(* the PRP entries that page_cache_t's constructor prepares for every slot  *)
(* (bam/include/page_cache.h) and read_data and write_data pass on.         *)
(*                                                                         *)
(* The memory of the cache is mapped in pages of the controller's size, of  *)
(* arbitrary bus addresses: an address is <<page, offset>>, the page being  *)
(* its place in ioaddrs.  Sizes are numbers of pieces of some size.         *)
(***************************************************************************)
EXTENDS Integers

CONSTANT ctrl_page_size   \* nvm_ctrl_t::page_size

ASSUME CtrlPageAssumption == ctrl_page_size \in Nat \ {0}

\* What the model supposes of a cache page's size: that one of the two sizes divides
\* the other, as the powers of two of all programs do.  The constructor checks only the
\* range of the size, and rounds how_many_in_one down.
SizesDivide(ps) ==
  \E n \in 1 .. ctrl_page_size + ps :
    ctrl_page_size = n * ps \/ ps = n * ctrl_page_size

\* "Cond1": several slots share a page of the controller.
Shared(ps) == ps <= ctrl_page_size

\* how_many_in_one, of slots in a page or of pages in a slot.
how_many_in_one(ps) ==
  IF Shared(ps) THEN ctrl_page_size \div ps ELSE ps \div ctrl_page_size

\* temp[i * how_many_in_one + j] is ioaddrs[i] + j * ps, and else temp1[i] is the
\* address of the slot's first page.
prp1(ps, i) ==
  IF Shared(ps)
  THEN <<i \div how_many_in_one(ps), (i % how_many_in_one(ps)) * ps>>
  ELSE <<i * how_many_in_one(ps), 0>>

\* Fault: the list starts with the first page again.
prp_page_first(ps, i, j) == i * how_many_in_one(ps) + j - 1

\* The slot's j-th further page, j > 0: prp2 when there is one, else an entry of
\* the slot's list, which prp2 points to.
prp_page(ps, i, j) == i * how_many_in_one(ps) + j

\* The address the SSD uses for piece k of slot i.
Transferred(ps, i, k) ==
  IF k < ctrl_page_size THEN <<prp1(ps, i)[1], prp1(ps, i)[2] + k>>
  ELSE <<prp_page(ps, i, k \div ctrl_page_size), k % ctrl_page_size>>

\* The address of piece k of slot i for a thread: base_addr + i * page_size + k,
\* in memory that is contiguous for the GPU.
Addressed(ps, i, k) ==
  <<(i * ps + k) \div ctrl_page_size, (i * ps + k) % ctrl_page_size>>
==============================================================================
