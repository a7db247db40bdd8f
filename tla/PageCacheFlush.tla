---------------------------- MODULE PageCacheFlush ----------------------------
(***************************************************************************)
(* store_tensor (GIDS/gids_module/gids_nvme.cu): a kernel that writes      *)
(* through bam_ptr, and then page_cache_t::flush_cache                     *)
(* (bam/include/page_cache.h), the kernel __flush with one thread per      *)
(* cache slot, launched after the device has been synchronised.  A thread  *)
(* of it looks at the page its slot's page_translation names, writes the   *)
(* slot to that page's SSDs if the page is dirty, and clears DIRTY.        *)
(*                                                                         *)
(* It looks neither at page_take_lock nor at VALID: a slot that is still   *)
(* FREE has a page_translation nobody wrote (Garbage), and is flushed like *)
(* any other if the page named there is dirty.                             *)
(***************************************************************************)
EXTENDS BamPtr

VARIABLES
  running,   \* the kernel on the stream: "user", "flush" or "none"
  fpc,       \* where the __flush thread of every slot is
  marked     \* history: the pages that are DIRTY when __flush starts

flushVars == <<running, fpc, marked>>
allVars == <<ptrVars, flushVars>>

\* The page slot s was given to; NoPage stands for a state word outside the
\* ranges that happens to be without DIRTY.
Named(s) == page_translation[s]

FlushInit ==
  /\ PtrInit
  /\ running = "user"
  /\ fpc = [s \in Slots |-> "load"]
  /\ marked = {}

\* write_feature_kernel2, or another kernel that indexes the array by pointers.
UserStep(t) ==
  /\ running = "user"
  /\ PtrStep(t)
  /\ UNCHANGED flushVars

\* flush_cache, once that kernel has returned.
FlushCache ==
  /\ running = "user"
  /\ Returned
  /\ running' = "flush"
  /\ marked' = {p \in Pages : dirty[p]}
  /\ UNCHANGED <<ptrVars, fpc>>

\* state.load: is the page dirty?
LoadState(s) ==
  /\ running = "flush"
  /\ fpc[s] = "load"
  /\ fpc' = [fpc EXCEPT ![s] =
       IF Named(s) \in Pages /\ dirty[Named(s)] THEN "write" ELSE "done"]
  /\ UNCHANGED <<ptrVars, running, marked>>

\* Fault: only the first controller of a replicated page is written.
FlushSlotOne(s) ==
  /\ running = "flush"
  /\ fpc[s] = "write"
  /\ media' = [media EXCEPT ![Named(s)][Home(Named(s))] = data[s]]
  /\ fpc' = [fpc EXCEPT ![s] = "clear"]
  /\ UNCHANGED <<wordVars, offset, slotVars, data, pc, callVars, seen, findVars, got,
                 warpVars, running, marked>>

\* write_data to each controller that stores the page.  No other thread looks
\* at the SSDs during __flush, so that the writes may be taken as one.
FlushSlot(s) ==
  /\ running = "flush"
  /\ fpc[s] = "write"
  /\ media' = [media EXCEPT ![Named(s)] =
       [c \in Ctrls |-> IF c \in Copies[Named(s)] THEN data[s] ELSE @[c]]]
  /\ fpc' = [fpc EXCEPT ![s] = "clear"]
  /\ UNCHANGED <<wordVars, offset, slotVars, data, pc, callVars, seen, findVars, got,
                 warpVars, running, marked>>

\* state.fetch_and(~DIRTY)
ClearDirty(s) ==
  /\ running = "flush"
  /\ fpc[s] = "clear"
  /\ dirty' = [dirty EXCEPT ![Named(s)] = FALSE]
  /\ fpc' = [fpc EXCEPT ![s] = "done"]
  /\ UNCHANGED <<valid, busy, cnt, offset, slotVars, dataVars, pc, callVars, seen,
                 findVars, got, warpVars, running, marked>>

\* cudaDeviceSynchronize: flush_cache's kernel is over.
FlushReturns ==
  /\ running = "flush"
  /\ \A s \in Slots : fpc[s] = "done"
  /\ running' = "none"
  /\ UNCHANGED <<ptrVars, fpc, marked>>

FlushNext ==
  \/ \E t \in Threads : UserStep(t)
  \/ FlushCache
  \/ \E s \in Slots : LoadState(s) \/ FlushSlot(s) \/ ClearDirty(s)
  \/ FlushReturns
  \/ running = "none" /\ UNCHANGED allVars

FlushSpec == FlushInit /\ [][FlushNext]_allVars

\* Resident threads keep being scheduled, and a kernel's loop over the indices of
\* one page ends.
UserFairness ==
  \A t \in Threads :
    WF_allVars(running = "user" /\ Advance(t) /\ UNCHANGED flushVars)
------------------------------------------------------------------------------
\* A slot nobody has taken, whose page_translation happens to name page p.
NamedByFree(p) == \E s \in Slots : page_take_lock[s] = "FREE" /\ Named(s) = p

\* What "write back all dirty pages" comes to: a page that was DIRTY when
\* flush_cache started, is in the cache and is not named by a slot nobody has taken
\* is clean when it is over, and every controller that stores it has what its slot
\* has.  (That every page with new content is DIRTY is what HeldPageIsDirty denies.)
FlushedIfMarked ==
  running = "none" =>
    \A p \in marked : valid[p] /\ ~NamedByFree(p) =>
      /\ ~dirty[p]
      /\ \A c \in Copies[p] : media[p][c] = data[offset[p]]

\* Whatever pages were marked by mistake, and written back for it by an eviction or by
\* the flush, a page nobody stored to keeps its content on every SSD and in the cache,
\* unless the flush found it named by a slot nobody has taken.
ReadOnlyIsIntact ==
  \A p \in Pages \ stored : running = "user" \/ ~NamedByFree(p) =>
    /\ \A c \in Copies[p] : media[p][c] = original[p]
    /\ valid[p] => data[offset[p]] = original[p]
------------------------------------------------------------------------------
(* The invariant from which PageCacheTheorems derives both *)

\* What a page being loaded has in its slot before it is published.
LoadedIsIntact ==
  \A t \in Threads : pc[t] \in {"fill", "publish"} /\ page[t] \notin stored =>
    data[slot[t]] = original[page[t]]

\* How far the __flush thread of the slot of a marked page has got.
MarkedStages ==
  \A p \in marked : valid[p] /\ ~NamedByFree(p) =>
    /\ fpc[offset[p]] = "load" => dirty[p]
    /\ fpc[offset[p]] \in {"clear", "done"} =>
         \A c \in Copies[p] : media[p][c] = data[offset[p]]
    /\ fpc[offset[p]] = "done" => ~dirty[p]

\* What a __flush thread knows at each stage.
StagesOK ==
  \A s \in Slots :
    /\ fpc[s] # "load" => running # "user"
    /\ fpc[s] \in {"write", "clear"} => running = "flush" /\ Named(s) \in Pages
    /\ running = "none" => fpc[s] = "done"

FlushTypeOK ==
  /\ running \in {"user", "flush", "none"}
  /\ fpc \in [Slots -> {"load", "write", "clear", "done"}]
  /\ marked \subseteq Pages
  /\ running = "user" => marked = {}
  /\ stored \subseteq Pages
  /\ original \in [Pages -> Values]

FlushInv ==
  /\ FlushTypeOK
  /\ running # "user" => Returned
  /\ PinInv
  /\ StagesOK
  /\ MarkedStages
  /\ LoadedIsIntact
  /\ ReadOnlyIsIntact
==============================================================================
