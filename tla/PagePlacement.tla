---------------------------- MODULE PagePlacement ----------------------------
(***************************************************************************)
(* Where the pages of a range are on the SSDs (bam/include/page_cache.h):   *)
(* get_backing_ctrl_ and get_backing_page_ give a page's controller and its *)
(* page-sized block there.  STRIPE deals the pages out to the controllers   *)
(* in turn; REPLICATE puts every page on all of them.                       *)
(***************************************************************************)
EXTENDS Integers

CONSTANT n_ctrls   \* page_cache_d_t::n_ctrls

ASSUME CtrlAssumption == n_ctrls \in Nat \ {0}

CtrlNumbers == 0 .. n_ctrls - 1

\* The controllers that store page p: one, or ALL_CTRLS.
get_backing_ctrl(p, dist) ==
  IF dist = "STRIPE" THEN {p % n_ctrls} ELSE CtrlNumbers

\* Fault: pages are dealt out in runs, but numbered as if they were in turn.
get_backing_page_first(page_start, p, dist) ==
  IF dist = "STRIPE" THEN page_start + (p % n_ctrls) ELSE page_start + p

get_backing_page(page_start, p, dist) ==
  IF dist = "STRIPE" THEN page_start + p \div n_ctrls ELSE page_start + p

\* The places of page p: a block of each controller that stores it.
Places(page_start, p, dist) ==
  {<<c, get_backing_page(page_start, p, dist)>> : c \in get_backing_ctrl(p, dist)}
==============================================================================
