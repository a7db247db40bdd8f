# GIDS / BaM: a TLA+ model of the storage path

GIDS trains graph networks whose node features do not fit in memory: GPU threads index an array
that lives on NVMe SSDs, through a page cache in GPU memory (BaM) that reads and writes the SSDs by
itself, without the CPU. This directory holds TLA+ modules of that path, the TLC configurations
that check them and the proofs TLAPS checks. Paths below are relative to the repository (`src/`).

## 1. The system

| Part | Where | State it keeps | Operations |
|---|---|---|---|
| page cache | `bam/include/page_cache.h` | a state word per page (`VALID`, `BUSY`, `DIRTY`, count), the slot of a page; per slot a lock and the page it was given to; a round-robin ticket | `acquire_page`, `find_slot`, `release_page`, `seq_read`, `seq_write`, `AtomicAdd` |
| `bam_ptr` | same | the page a lane keeps between two accesses, its first and last index | `update_page`, both `operator[]`, `fini` |
| flush | same, `gids_nvme.cu` | – | `__flush`, one thread per slot, after the kernel before it (in `store_tensor` one that writes through `bam_ptr`) |
| array and range | same | ranges of indices with their first page; global addresses, PRP entries of slots | `find_range`, `get_page`, `get_subindex`, placement on controllers |
| TLB | same, 159–412 | per thread block: entries with a lock bit and a count | `acquire`, `release` |
| NVMe queue pair | `bam/include/nvm_parallel_queue.h` | tickets, tail and head marks, head, tail, their locks, doorbells, command ids | `sq_enqueue`, `cq_poll`, `cq_dequeue` |
| reads and writes | `page_cache.h` 1930–2096 | a sequence of transfers: its head, tail and lock | `read_data`, `write_data`, `enqueue_second` |
| windowed page cache | `GIDS/gids_module/include/page_cache_backup.h` | the page cache's, and per page a prefetch count and counter | the page cache's, `set_window_buffer_counter` |
| feature store, kernels | `GIDS/gids_module/*.cu` | counters of the gather kernels (which read through `bam_ptr`), CPU backing buffer, window | `read_feature`, `set_window_buffering`, `store_tensor`, `flush_cache` |
| data loader | `GIDS/GIDS_Setup/GIDS/GIDS.py`, `GIDS_IX.py` | window buffer, accumulator, the wrapped iterator | `__next__`, `fill_wb`, `fetch_feature` |
| IX file back end | `GIDS/gids_module_ix/ix_feature_store.cpp`, `tensor_write_ix.py` | files a table is striped over | read, write, layout |
| admin queue, RPC | `bam/src/rpc.cpp`, `nvm_queue.h` | a queue of one command at a time, references | `nvm_raw_rpc`, `nvm_aq_create/destroy` |
| controller handle | `bam/src/ctrl.cpp` | reference count, the open device | `nvm_ctrl_init`, `nvm_ctrl_free`, `_nvm_ctrl_get/put` |
| DMA handles | `bam/src/dma.cpp` | mapping descriptors with a count | `nvm_dma_map`, `nvm_dma_remap`, `nvm_dma_unmap` |
| kernel module | `bam/module/*.c` | lists of mappings and of controllers | map, unmap, the driver's release callback, probe, remove |

How they interact. A lane of a kernel calls the array, the array groups the lanes of a warp that
touch one page, and their master lane calls `acquire_page` on the range. A miss calls `find_slot`,
which may write the slot's old page back, and then `read_data`: both go through a queue pair. Every `read_data` is followed by a
second, one-block read, its own or another thread's (`enqueue_second`). The
lanes then use the slot's memory directly and the master calls `release_page`. All this is shared
memory and atomic operations; there is no message and nothing survives a crash but the SSDs. On the
host, the loader calls a gather kernel once per batch, in stream order. Before that, the host opens a controller, maps memory for
it, sends it admin commands through an admin queue and makes its queue pairs; the three kinds of handle
(controller, mapping, admin queue) hold each other by reference counts.

What is hard: thousands of threads that race on one state word, whose bits are tested in one atomic
operation and acted on in another; eviction of a page that another thread is about to acquire;
write-back of a replicated page in several steps; slot locks that are given up on four paths; groups of a warp that wait for each other with
their pages pinned; queue
entries that are filled and consumed in any order, in rounds that wrap; pointers that keep a page
across accesses; commands that time out and whose completions come later; handles given back in any order. `PROJECT.json` lists each of these at its line under `hazards`, with the property
that would fail or a note on why none does.

What makes each part correct:

* page cache: it is memory. Counts are the lanes that hold a page, `BUSY` excludes, a page in use
  does not move, a page that is not `DIRTY` is on its SSDs, kernels return;
* `bam_ptr`: the page it points to stays; what is written through it is marked dirty;
* flush: every page that was marked dirty is on its SSDs afterwards, and a page nobody stored to is as it was;
* array: every index is found, every way to access it finds the same element, and the SSD transfers a slot to and from the
  memory where threads look for it, whichever ranges share the cache;
* queue pair: every submitted command is executed once and its caller returns after its own
  completion, no entry is overwritten before the SSD read it;
* reads: a thread is told of its own transfer, and its read returns after a second one that came later;
* loader: every batch drawn is returned once, in order, with its own features as far as they could be read, and to the loop that drew it;
* IX back end: a row is read where it was written (a read that fails or comes short is only warned of, and the rest of its row stays blank);
* admin queue: a caller gets the completion of its own command, no completion is handed out twice, no slot is lost;
* handles: what is behind a handle lives as long as the handle, everything is freed once, nothing leaks;
* kernel module: a range stays pinned until its owner unmaps it.

## 2. Modules

| Module | Models |
|---|---|
| `PageStore` | abstract: every page is a word of memory; ask, read, write, exchange, let go |
| `PageCache` | `range_d_t::acquire_page`, `release_page`, `page_cache_d_t::find_slot`, and what `seq_read`, `seq_write` and `AtomicAdd` do with the page |
| `PageCacheInv` | the properties of `PageCache`, the refinement of `PageStore`, the inductive invariant |
| `PageCacheProofs` | one lemma per conjunct of the inductive invariant: a step keeps it |
| `PageCacheTheorems` | the theorems about the cache, `bam_ptr` and the flush |
| `BamPtr` | `bam_ptr`, and the lanes of a warp in `array_d_t::acquire_page`, over the actions of `PageCache` |
| `PageCacheFlush` | `store_tensor`: a kernel over `BamPtr`, and `flush_cache` after it |
| `ArrayIndex` | `find_range`, `get_page`, `get_subindex` and the fields of `bam_ptr` |
| `PagePlacement` | `get_backing_ctrl_`, `get_backing_page_`: where a page is on the SSDs |
| `PrpEntries` | the PRP entries of slots and the addresses threads use |
| `RangeCache` | several ranges in one cache, over the three modules above |
| `LayoutTheorems` | the theorems about these four and `QueuePair` |
| `IoService` | abstract: a transfer is asked for, made once, and its thread returns |
| `NvmQueue` | `get_cid`, `sq_enqueue`, `cq_poll`, `cq_dequeue`, `put_cid`, and the SSD |
| `ReadData` | `read_data`, `write_data`, `enqueue_second` over the actions of `NvmQueue` |
| `QueueProofs` | the theorems about `NvmQueue` and `ReadData`, with their invariants |
| `QueuePair` | the sizes of a pair's queues |
| `AdminQueue` | `nvm_raw_rpc`, `execute_command`, `nvm_cq_dequeue_block`, and the controller |
| `DmaHandle` | reference counts of the controller handle, the mapping descriptors and the admin queue reference, and the pages the kernel module pins |
| `AdminQueueProofs` | the invariant of the admin queue and its theorems |
| `Host` | threads of the host that use both |
| `HostProofs` | the invariant of the handles and its theorems |
| `BatchPipe` | abstract: batches come out in the order they were drawn, with their features |
| `GidsLoader` | `fetch_feature`, `fill_wb`, the iterator protocol and the loops of a script |
| `IxFeatureStore` | layout of the striped files, `read_feature`, `read_feature_merged`, the CPU buffer |
| `GidsLoaderInv` | the inductive invariant of `GidsLoader` |
| `GidsLoaderProofs` | the store reads the table; one lemma per conjunct of that invariant; the theorems |
| `Remainders` | lemmas on `\div` and `%` |
| `MC*` | the constants of the TLC instances |

### PageCache

One thread of the model is the master lane of a group of lanes that touch one page; it acquires and
releases with the size of its group, as `coalesce_page` does. Every atomic operation of the code on
shared memory is one action, so that every interleaving of them is a behaviour. `pc[t]` is the place
in the code, and its labels read as the code does:

    idle -Acquire-> hit, claim or spin          fetch_add(count), switch on bits 31..30
    spin -Reload-> hit, claim or spin           NV_B, V_B: load again
    hit -Hit-> offset -TakeOffset-> use         V_NB: set DIRTY if read_state lacked it; take the slot
    claim -Claim-> ticket, unclaim or spin      NV_NB: fetch_or(BUSY)
    unclaim -Unclaim-> spin                     "another thread beat us": fetch_and(~BUSY)
    ticket, lock, peek, mark, unmark,           find_slot: ticket, slot lock, load of the victim's
      writeback, drop, bind, giveup               word, fetch_or(BUSY), write_data, fetch_and(CNT_MASK)
    read -> fill -> publish -> use              read_data, offset and DIRTY, fetch_xor(BUSY | VALID)
    use -> release -> idle                      the access; fetch_sub(count)

The state word is kept as its fields `valid`, `busy`, `dirty`, `cnt`; `fetch_xor` and `fetch_and` act on the
fields as they do on the bits (`Publish` toggles, it does not set). `Copies[p]` is the set of
controllers a page is on: one under `STRIPE`, all of them under `REPLICATE`.

Abstractions, each with its reason:

* a page's content is one value: no property tells elements of a page apart (ArrayIndex does that);
* the load of `page_take_lock` and the compare-exchange after it are one step (`TakeLock`): a failed
  exchange changes nothing and takes the next ticket, exactly as a load that finds `LOCKED`;
* `read_data` and one `write_data` are one step each. Nobody else writes the slot meanwhile (that is
  `SlotsNotShared`, and `PinnedStaysResident` for the reader's side); the queue protocol
  below them is `NvmQueue`, whose `IoService` is what these steps take of it;
* atomic operations are sequentially consistent. The code's orders (acquire on the loads and
  read-modify-writes that admit a thread, release on those that publish) are meant to give that for
  the data they protect; weaker outcomes are not explored;
* `page_ticket` is kept modulo the number of slots (the code takes the modulo when it uses it);
* `todo` bounds the accesses of a thread (`MaxOps`), and `MaxLanes` the size of a group (32 on the
  device). Neither bounds the proofs.

### BamPtr

`Converge` lets groups of one warp enter `array_d_t::acquire_page` together: `mask[t]` is `__activemask` as group `t` saw it. `Update` is `Acquire`
without the write flag (that is how `update_page` calls it), for a page no other group of the mask has, and `SyncWarp` the `__syncwarp(mask)`
after it (`page_cache.h:1502`): one step of all groups of the mask, once each has its page. Until then a group that has its page keeps it, so
that a warp may wait for itself. `Touch` sets `DIRTY` through
the pointer `acquire_page` handed out, `Load` and `StoreTo` are accesses while the index stays in the page,
`FiniOne` and `Fini` release, lane by lane or together, as `__match_any_sync` finds the lanes. The `__syncwarp` of `release_page` is left out: no lane
has anything to wait for before it.
`PageNumbered[s]` is the page whose number is that of slot `s`: `array_d_t::acquire_page` returns `&pages[base_master]`,
and `base_master` is a slot number. `stored` and `original` are history: what the kernel has stored to, and what the SSDs had before it.

### PageCacheFlush

`running` is the kernel on the stream. The first one is `write_feature_kernel2` of `store_tensor`, which writes through `bam_ptr` (`UserStep` is `PtrStep`)
and so marks the pages `bam_ptr` marks. `__flush` starts once it has returned. Each slot has
a flush thread: load, write, clear. `Garbage` says what the never-assigned `page_translation` of a
slot may name, any page included; the constructor sets only `page_take_lock`. `marked` is history: the pages that were `DIRTY` when `__flush` started.

Since other pages are marked than were written, the flush does not promise that what was written is on the SSDs, and no property says so. What
holds is stated in two: `FlushedIfMarked`, that a marked page in the cache is written back and clean, and `ReadOnlyIsIntact`, that the write-back of a page marked
by mistake changes no page that nobody stored to. Both except a page that a never-taken slot happens to name (`NamedByFree`): the flush may write that slot's memory over it.
`FlushInv` is the inductive invariant of the kernel and the flush after it.

### ArrayIndex, PagePlacement, PrpEntries, RangeCache

One lane walks several arrays, each through a `bam_ptr` of its own, and reads and writes them with `seq_read` and `seq_write`.
`ArrayIndex` is the way from an index to a range, a page and an element, and back from the pointer's `start` to the page to
release. Sizes are in elements and `size_t` wraps at `Wrap`. `RangeCache` puts it on a cache: `get_global_address` and its inverse
in `find_slot` are bit operations (`BitOr`, `BitAnd`: constants, which the instance gives the bitwise operators and the theorems two laws of
them), a slot's memory is filled and read by the SSD at the addresses its PRP entries give
(`Transferred`), and used by threads at `Addressed`; a page's blocks are `Places`. An operation is one step there, for `PageCache` has
the interleavings. The bounds are `MaxMoves` moves of a pointer and `MaxWrites` writes.

### NvmQueue, ReadData, QueuePair

One thread of the model is a GPU thread with one command at a time; the SSD is an external process that
fetches submission entries in order up to the doorbell and completes what it fetched in any order, never into
a full completion queue. Every atomic access of `sq_enqueue`, `cq_poll` and `cq_dequeue` is an action; the labels
follow the code:

    idle -> ticket -> turn -> copy -> mark        get_cid, in_ticket, tickets[pos], entry, tail_mark
    mark -> tail -> trytail -> movetail -> ring   the one that gets tail_lock moves the tail over all
      -> settail -> untail -> leave                 marked places, rings the doorbell, lets the lock go
    leave -> poll -> entry                        tickets fetch_add; cq_poll: head, cid and phase
    entry -> poslock -> markhead -> head ->       cq_dequeue: pos_locks, head_mark, head_lock;
      tryhead -> movehead -> sqhd -> free ->        the holder moves the head, takes the SSD's sq head,
      sqhead -> ringhead -> sethead -> unhead       frees the tickets of consumed places, rings
    -> await -> posfree -> putcid -> idle         wait until the head has passed; free the place and the id

`ReadData` runs these actions for the first and the second read of `read_data`; `stage` says for which, and where between them a thread is:

    first -LoadHead-> load -CountRead-> counted    q_head, then a place of q_tail; cq_dequeue follows
    counted -LookQHead-> done or trying            has q_head passed the place? (Past, three wrapped counters)
    trying -TryQLock-> second or counted           q_lock; the second read goes through the queue with the same id
    second -CopyCommand, LoadTail-> ...            its sq_enqueue loads q_tail, up to twice
    second -StoreQHead-> stored -UnlockQ-> published    q_head to what was loaded; q_lock; cq_dequeue

`write_data` counts itself in `q_tail` and makes no second read. `behind` and `followed` are history: which reads had completed when
`q_tail` was loaded, and which of them a finished second read has followed. `IoService` is what is promised: each transfer, first or
second, is made once, and its thread goes on only then. `QueuePair` gives the sizes the instances use.
Abstractions: `get_cid` takes any free id (the code scans from a hint), a failed attempt at a lock is one
step with the look that preceded it, the 32-bit counters are not reduced modulo 2^32 (they are bounded by
`MaxOps`), sizes are powers of two and the completion queue is at least as long as the submission queue (`QueuePair` has
theorems on both); `q_head` and `q_tail` wrap at `Wrap`.

### AdminQueue, DmaHandle, Host

An admin command is the number of the call that sent it. `Submit` is `nvm_raw_rpc` up to the doorbell, under the reference's lock;
`Return` and `TimeOut` are the two ends of `nvm_cq_dequeue_block`. The controller fetches in order, completes in any order and as late as it
likes, in the rounds and phases of the ACQ. `calls` is bounded by `MaxCalls`.

`DmaHandle` takes a section under a mutex as one step and keeps what a thread has still to do of its call, such as the test of `va` after
`put_map`'s lock or `remove_handle` after `_nvm_ctrl_put`'s, in its list `todo`. Calls that fail half-way give back what they took. `pinned`
is the kernel module's mapping of a range: it belongs to the thread that mapped it, and `map_find` finds it for nobody else.
`Host` lets its threads do both in any order, the program keeping to its part: it uses no handle it has given back. `Owner` says which
thread makes and gives back which handle. `CHECK_DEADLOCK` is off in its runs: a program may end.

### GidsLoader, IxFeatureStore, BatchPipe

`GidsLoader` is a script that runs loops over loaders of one `GIDS` object, and `fetch_feature` as it serves them. It is
sequential; what is hard is that every `next(it)` may raise `StopIteration` and that `window_buffer`,
`return_torch_buffer`, `wb_init` and `prev_cpu_access` outlive the loop it ends. `pc` is `script` between loops, `loop` while the
loop's body runs, `fill` in `fill_wb`, `next` before `next_batch = next(it)`, `gather` and `merge` in the accumulator,
`pop` and `read` before the two ways to return. `AtDraw` says where `StopIteration` may come from.

`IxFeatureStore` is where `tensor_write_ix.py` puts an element (`FileAt`), where the reader looks for a row (`get_file_idx`,
`get_file_offset`), and the CPU buffer. A table's element is its number; memory nobody wrote is `Nothing`. `read_feature` looks
at the CPU buffer, `read_feature_merged` does not, and `set_cpu_buffer` switches it off for good. `Pinnings` are the scripts: none that
touches the buffer (`<<>>`), `homogenous_train_ix.py:106-108`, which allocates it and never fills it (`<<len>>`), and `homogenous_train.py:58-63`, which fills it
too (`<<len, rows>>`). After the second, `read_feature` serves the first rows of the table from memory nobody wrote: these rows are `Blank`.

A read may come short, by an error or at the end of a file (`Shorts`, at most `MaxShort` of them for no reason of the model's): `do_cufile_read` prints a warning
and goes on, `Transfer` leaves the elements that did not arrive as they were, and `warned` keeps which rows of which batches that was.
`Features` is what a batch may then come with: the row of every node, except that a row warned of or blank may lack its end, or all of it. `BatchPipe` is what a loop
is promised: batches in the order they were drawn, none lost, none twice, each with its features, but for the rows it was told are lost or blank. The row's
length in the file is the length returned (`dim = cache_dim`), and `read_offset` is 0, as in every script.
`Merge` lets the store report any number of rows served by the CPU, as BaM's may; the cuFile store always reports 0.

## 3. Runs

| Run | Checks | Instance |
|---|---|---|
| `cache` | `TypeOK`, `CountIsHolders`, `CleanIsOnMedia`, `BusyHasOneOwner`, `PinnedStaysResident`, `SlotsNotShared`, `IInv`, `IsPageStore` | 2 threads with 2 accesses each, 3 pages (one on two controllers), 1 slot, 2 values |
| `bamptr` | `HeldStaysResident`, `CountIsHolders`, `FlushedIfMarked`, `ReadOnlyIsIntact`, `KernelReturns` | 2 groups of one warp (1 or 2 lanes) with 2 accesses each through a `bam_ptr`, 3 pages (one on two controllers), 2 slots, then `flush_cache`; a slot nobody has taken names a page |
| `bamptr_write` | `HeldPageIsDirty` – violated | the same, 1 lane each, both storing |
| `array` | `PtrAgreesWithSeqRead`, `PinsBalanced`, `ResidentIsLatest`, `CleanIsOnAllControllers` | 2 arrays, one striped and one replicated on 2 SSDs, 3 slots, cache pages of a half, twice and four times the controller's page |
| `queue` | `ReadTypeOK`, `PlacesNotShared`, `CompletionsKept`, `ReadIsFollowed`, `TransfersOnce` | 2 threads, one with 2 reads and one with 1, a second read after each, queues of 4 places: both rings and the counters wrap |
| `queue_live` | `NotOverwritten`, `KernelReturns` | 3 threads, one reads and two write, queues of 2 places: full after one command |
| `host` | `CompletedOnce`, `SlotsInUse`, `OwnUnlessTimedOut`, `LiveIsMapped`, `FreedOnce`, `NothingLeaks`, `QueueStaysMapped` | 2 threads, the admin queue's window and reference and one more mapping, 5 calls on queues of 4 places |
| `host_own` | `OwnCompletion` – violated | the same |
| `host_race` | `FreedOnce` – violated | the same, with the window unmapped by another thread than the reference |
| `loader` | `TypeOK`, `FeaturesAligned`, `WindowStaysOpen`, `OwnFeatures`, `LoaderInv`, `IsBatchPipe` | 3 loops of 2 batches of 1 or 2 nodes, `wb_size` 0, 1, 3, thresholds 0, 2, 4; no CPU buffer, one left unfilled and one filled; 1 file, 1 short read |
| `loader_own` | `OwnLoop` – violated | 2 loops of 3 batches, no CPU buffer, no short read |
| `ix_stripe` | `OwnFeatures` – violated | the same loops, a table of 3 pages on 2 files |

Why these are enough. With more pages than slots a page has to be evicted, and two accesses per thread make a page come back after its
eviction, which is when a lost write is seen; a thread evicts the page another has just released, or meets the one it is acquiring. Two
controllers for one page make a write-back interruptible. With one slot every miss meets the other thread's page. The
theorems show that no larger instance behaves otherwise for the safety properties of `PageCache`, `BamPtr` and the flush.

In `bamptr` two groups of one warp, which enter `acquire_page` together or apart, compete for two slots in which a third page was left by an access before, and
two slots are flushed side by side. Two slots are also the fewest with which `KernelReturns` holds (`EnoughSlots`, an `ASSUME` of `MCBamPtr`): every group of a warp but one may
have to wait in `__syncwarp` with its page. With one slot TLC finds the kernel that never returns: one group waits in `__syncwarp` with the page in the
slot, the other tries the slot's lock and that page's count for ever. The programs' caches have far more slots than resident groups, and nothing checks that
they do. `OneGroup` (one of the two threads has a single lane) and `OldInit` (the SSDs hold one value everywhere, the slots the other) are bounds of the instance only.

In `array` three slots hold pages of two ranges with the same numbers, so that a wrong global address hits a page that exists; the three page
sizes take the three ways the constructor prepares PRP entries. On queues of four places six transfers wrap both rings and
change the phase; `Wrap = 6` and `Starts = {4}` wrap `q_head` and `q_tail`; two places and three threads keep one thread waiting at every
lock of the queue, the holder of `q_lock` included. Five admin calls go once round queues of four places, with up to three of them timed
out. Three loops let a window or a group be cut off in one loop, carried through a second and
returned in a third; a window of 3 is larger than the 2 batches of a loop, so that it never fills, and one of 1 fills in the middle of the loop.
One short read among them reaches every place a row is read.

Every property has a mutant in `PROJECT.json`: a definition of the model changed as a plausible bug would
change the code (a dropped test of the word `fetch_or` returned, one instead of the group's size, a slot lock
left behind), for which TLC finds the property violated.

Fairness. Two runs assume any, `bamptr` (`UserFairness`) and `queue_live` (`FairReadSpec`): weak fairness of each thread's step, in the first
without further loads and stores in the page a thread holds (a kernel's loop over one page ends), in the second also of the SSD's.
A resident thread keeps being scheduled, which is what independent thread scheduling (sm_70 and later,
the only architectures the code's back-off is compiled for) guarantees; an SSD serves what its doorbell announced. No fairness
between threads on a lock is assumed, nor that the round-robin ticket finds the slot one hopes for.

### What the violated runs show

* `bamptr_write`: `operator[]` marks the page whose number is the *slot's*. A page written through a
  `bam_ptr` is then clean when it is evicted, and the write is lost. It goes unnoticed while every page is in the slot of its own
  number, as when an array is written once from the start into an empty cache.
* `loader_own`: `StopIteration` of the next `next(it)` leaves `wb_size` batches in the window. The next loop returns them first and
  leaves its own last ones: `heterogeneous_train.py`, whose training and test loaders share one `GIDS` object, evaluates on training
  batches. `IsBatchPipe` holds all the same: nothing is lost or mixed up, it comes late.
* `ix_stripe`: with more than one file the reader computes the file from `row / elements per page` and the offset from
  `row * cache_dim / elements per page`; the writer stripes by the second. Rows of more than one element come from
  the wrong file.
* `host_own`: `execute_command` takes the first completion it finds. Once a command has timed out, the next call returns with its late
  completion, and every call after that is one behind. `OwnUnlessTimedOut` shows that nothing else mixes them up, and
  `SlotsInUse` that the queue still counts right.
* `host_race`: `put_map` tests `md->va` after it has given back the descriptor's lock. Two threads that give back the last two handles of a
  mapping both remove it. In `host`, where one thread gives back all handles of a mapping, as `Controller`'s destructor
  does, everything is freed once.

More disagreements are listed as hazards and have no run:

* an unused slot whose `page_translation` happens to name a dirty page is written over it by the flush. `FlushedIfMarked` and `ReadOnlyIsIntact` except that page
  (`NamedByFree`); without the exception both fail in `bamptr`, whose slots name `p1` at first;
* a warp whose lanes touch more pages than there are slots to pin never returns from `acquire_page` (`EnoughSlots` above);
* in an array of two ranges `find_range` compares the index with `count` and not with `index_start + count`, and finds none for the
  second; with a `page_start_offset`, a `bam_ptr` and `seq_read` reach different elements. No program of the repository builds such
  layouts; `array` shows that those they do build are right;
* a read may return although the SSD got the second read it relied on before it: the holder of `q_lock` loads `q_tail` again when it moves
  the tail for others, while its own command may have gone out with an earlier doorbell. `ReadIsFollowed` is about the load, which does come
  after. Nothing says what the second read is for, so that the stronger property is no run;
* the kernel module unmaps for the owner only: with `Owner <- WindowApart` `NothingLeaks` fails as well;
* `homogenous_train_ix.py` allocates the CPU buffer and never fills it; `read_feature` then serves the first rows of the table from memory nobody
  wrote. The run `loader` has that script among its `Pinnings`: `OwnFeatures` says which rows are affected (`Blank`) and that no other is; without that exception
  it fails with the script's first batch;
* a read that fails or comes short is only warned of, and its batch is returned like any other. `OwnFeatures` excepts the rows warned of, and no others;
* in `set_cpu_buffer` the stride is a page and not a row: `SetCpuBuffer` has the layouts in which they are the same.

## 4. Proofs

`PageCacheTheorems` proves, for every set of threads, pages, controllers and values, any number of slots and any
placement of the pages that `CacheAssumption` allows (at least one slot, every page on at least one controller,
finitely many threads):

| Theorem | States |
|---|---|
| `Inductive` | `Spec => []IInv` |
| `TypeCorrect` | `Spec => []TypeOK` |
| `CountIsExact` | `Spec => []CountIsHolders` |
| `BusyIsALock` | `Spec => []BusyHasOneOwner` |
| `PinnedStays` | `Spec => []PinnedStaysResident` |
| `CleanOnMedia` | `Spec => []CleanIsOnMedia` |
| `SlotsExclusive` | `Spec => []SlotsNotShared` |
| `Implementation` | `Spec => IsPageStore`: the cache implements `PageStore` |
| `FlushInductive` | `FlushSpec => []FlushInv`: `store_tensor`, whatever pages `Garbage` names |
| `FlushWritesBackMarked` | `FlushSpec => []FlushedIfMarked` |
| `ReadOnlyStaysIntact` | `FlushSpec => []ReadOnlyIsIntact` |
| `PtrAlwaysPins` | `PtrSpec => []PinInv`, with a `bam_ptr` per thread |
| `PtrHeldStays` | `PtrSpec => []HeldStaysResident` |
| `PtrCountIsExact` | `PtrSpec => []CountIsHolders` |

The properties are not inductive. That an evicted page is in nobody's use needs that its evictor saw a
count of zero *in the word its own `fetch_or` returned*, that the count is the lanes that hold the page, and
that no new holder gets past a set `BUSY` bit. `IInv` is the conjunction of what each lock protects: who owns
`BUSY` (`BusyOwned`, `BusyIsOwned`) and `page_take_lock` (`SlotLocked`), which page a slot belongs to between the
drop of its old page and the store of its new one (`SlotOwned`, `ValidHasSlot`), what a loader, a holder and an
evictor know (`LoadOK`, `HoldOK`, `EvictOK`), and what is `DIRTY` and what is on the SSDs (`DirtyOK`, `MediaOK`). `PageCacheProofs` has one
lemma per conjunct with one case per action; each cites only the conjuncts it needs. `CountIsHolders` is
about a cardinality: the tokens of a page are pairs of a thread and a lane number, a group adds and takes a set of
`lanes[t]` of them (`GroupSize`, `CardinalityAdd`, `CardinalityRemove`).

`PinInv` is `IInv` without `DirtyOK` and `MediaOK`. Those two are false of `bam_ptr`, whose writes mark another page (`bamptr_write`); the rest
holds, with the label `held` for a thread that keeps its page between accesses: what a pointer points to stays where it is.

`FlushInv` carries `PinInv` through `store_tensor`, its kernel and its flush, in which no thread is in the cache any more (`Returned`). `StagesOK` and `MarkedStages` are
what the `__flush` thread of each slot knows, and how far the one in whose slot a marked page is has got. `ReadOnlyIsIntact` is inductive with `LoadedIsIntact`, which covers a page
between its load and its publication: whoever writes a page back, for a mark that is right or wrong, holds its own slot and so writes what is there already. There is no hypothesis on
`Garbage`; the properties except the pages a never-taken slot names. What remains of `MediaOK` for pages nobody stored to is `ReadOnlyIsIntact`.

The refinement maps a page's content to its slot while it is valid and to the SSDs while it is not. `ContentKept` shows
that no step but a store changes it: loading, evicting and dropping move it from one place to the other,
which is where `MediaOK` is needed.

`GidsLoaderProofs` proves, for every table, row and page size, every batch the sampler may draw, any
window size, threshold and number of loops, any use of the CPU buffer and any reads that come short, that the loader keeps its promises if the table is in one
file (`NFiles = 1`, a hypothesis of each theorem):

| Theorem | States |
|---|---|
| `LoaderInvariant` | `Spec => []LoaderInv` |
| `LoaderTypes` | `Spec => []TypeOK`: nothing is popped from an empty list |
| `LoaderFeaturesAligned` | `Spec => []FeaturesAligned` |
| `LoaderWindowStaysOpen` | `Spec => []WindowStaysOpen` |
| `LoaderOwnFeatures` | `Spec => []OwnFeatures` |
| `LoaderIsBatchPipe` | `Spec => IsBatchPipe`: the loader implements `BatchPipe` |

`ix_stripe` shows that the hypothesis cannot be dropped. `LoaderInv` adds to the properties
what they rest on: the batches drawn are those returned followed by those of the window (`InOrder`); the script prepares the store before the
first batch is drawn, and a CPU buffer that `read_feature` looks at has nothing in it (`StoreOK`): a filled one is switched off; features wait only with the
accumulator and none do when a group is gathered (`GroupOK`); and at each place of `fetch_feature` how long the window
is (`WindowOK`). With one file the writer's layout and the reader's offsets are both the row-major table (`OneFile`), so that of a row
read short the part that arrived is the row's own (`PartsOfRow`). A row warned of stays warned of, so that what a batch may come with only grows (`FeaturesGrow`).

`QueueProofs` proves, for any set of threads, commands of their own and program of reads and writes, queue sizes that `QueueAssumption` allows
(at least two, the completion queue no shorter than the submission queue) and any start of the wrapped counters:

| Theorem | States |
|---|---|
| `ReadAlwaysTypeOK` | `ReadSpec => []ReadTypeOK` |
| `ReadAlwaysFollowed` | `ReadSpec => []ReadIsFollowed`, if `FewOps` |
| `QueueAlwaysInv` | `ReadSpec /\ []PromptPoll => []QueueInv` |
| `QueuePlacesNotShared` | `ReadSpec /\ []PromptPoll => []PlacesNotShared` |
| `QueueNotOverwritten` | `ReadSpec /\ []PromptPoll => []NotOverwritten` |
| `QueueCompletionsKept` | `ReadSpec /\ []PromptPoll => []CompletionsKept` |
| `QueueTransfersOnce` | `ReadSpec /\ []PromptPoll => TransfersOnce`: the queues implement `IoService` |

`PromptPoll` says that a thread which has loaded the head in `cq_poll` looks at its entry before the SSD has posted there twice more: a phase bit
cannot tell rounds two apart, and the code has nothing else to go by. It is the hazard at `nvm_parallel_queue.h:385`; on the queues of a program it takes
2048 completions within one step of a thread. It holds in every state of the runs `queue` and `queue_live`, whose threads make
fewer transfers; it does not follow from the code. `FewOps`: a kernel makes fewer reads and writes than a counter has values (2^64).

`QueueInv` sees the queues as sequences that never wrap. The places are the remainders of tickets, and each counter of the code is a quotient or a remainder
of one of three cursors: how far the tail and the head have been moved, and how much the SSD has posted. Each lock's holder has its part (`LockInv`), the marks that
wait for the tail or the head are those of threads between their mark and their leave (`WindowInv`, `HeadsInv`), each place's ticket counts the rounds it has been free,
the phase of an entry says its round (`PhaseInv`), an id is in use once (`OwnInv`, `OnceInv`), and what a thread in `cq_poll` has seen bounds
how far the rest has gone (`SeenInv`). `StageInv` and `ServedInv` carry it to reads and to `IoService`.

`ReadAlwaysFollowed` is apart: its invariant (`FollowInv`) counts the operations that have taken a place of `q_tail` from a base that no counter has come back to,
measures `q_head`, every `pos`, `prev_head` and loaded tail from there, and shows that they come in the order in which they were
taken. Three wrapped numbers then compare as the unwrapped ones do. It needs that one thread at a time is in its second read (`QLockInv`).

`AdminQueueProofs` proves for any queue size that divides 2^16 (the counters' width), any calls and time-outs, and `HostProofs` for any
threads, handles, mappings and failures of `DmaHandle` and the admin queue together, with `OwnersAgree`:

| Theorem | States |
|---|---|
| `AdminAlwaysInv` | `AdminSpec => []AdminInv` |
| `AdminCompletedOnce`, `AdminSlotsInUse`, `AdminOwnUnlessTimedOut` | the three properties of the admin queue |
| `HostRunsAdmin` | `Spec => AdminSpec`: `Host` does to the admin queue what `AdminSpec` allows |
| `HostAlwaysInv` | `Spec => []HostInv` |
| `HostLiveIsMapped`, `HostFreedOnce`, `HostNothingLeaks`, `HostQueueStaysMapped` | the four properties of the handles |

`OwnersAgree`: the thread that destroys the reference of the admin queue is the one that unmaps its memory. `host_race` is the same system without it, and
`FreedOnce` fails there. `AdminInv` has the commands in the queue, those the controller fetched and those it completed as windows of one sequence, in which a
time-out only moves a bound (the head of completions lags). `HandleInv` is that each reference count is the handles that exist plus the
subtractions still on some thread's `todo`, and what a `todo` may be in which order; with one owner no two threads have an unmapping of one
descriptor on theirs.

`LayoutTheorems` proves for every size:

| Theorem | States |
|---|---|
| `PlacesExist` | every page is stored on at least one controller that exists: what `CacheAssumption` asks of `Copies` |
| `PagesApart` | two pages of a range share no block |
| `TransferredIsAddressed` | the SSD reads and writes a slot where threads look for it |
| `SizesFit` | `nvm_queue_clear` accepts the sizes, and the completion queue holds a completion of every command |
| `SizesAreOfASet` | the sizes are powers of two if the program's depth and the controller's limit are |
| `ArrayAlwaysInv` | `Spec => []WalkInv`, if `OneRangeEach` |
| `ArrayAgreesWithSeqRead`, `ArrayPinsBalanced` | `Spec => []PtrAgreesWithSeqRead` and `Spec => []PinsBalanced`, if `OneRangeEach` |
| `RangeAlwaysInv` | `Spec => []RangeInv`, if `OneRangeEach`, `RangesApart` and `BitsAre(Nat)` |
| `RangeResidentIsLatest`, `RangeCleanIsOnAll` | `Spec => []ResidentIsLatest` and `Spec => []CleanIsOnAllControllers`, under the same hypotheses |

`TransferredIsAddressed` assumes that one of the two page sizes divides the other (`SizesDivide`). `OneRangeEach` is how all programs build arrays, one range from
index 0 with a number of its own, and it supposes pages for all elements: the feature store rounds their number down (`gids_nvme.cu:78-79`, listed as a hazard),
so that this holds of tables of whole pages only. Section 3 says what happens otherwise. `RangesApart` has the
ranges' numbers below `max_range`, a power of two (the constructor's default is 64), and their blocks apart on the SSDs. With another
`max_range` the mask would not give back the number that was put in. `BitsAre` is what `|` does with a shifted number and one that fits below it, and `&` with a mask of ones: the
prover has no bits. TLC evaluates all three on the instance of `array` (`AsTheTheoremsSuppose`).

`WalkInv` says where a pointer can be (`PtrAt`), that the counts are the pointers (`PinsAre`) and what the last access reached. `RangeInv` adds that a slot names a
page exactly when the page is `VALID` with that slot (`Translated`): that an eviction takes the flags from the page that is there, and that two `VALID` pages
never share memory, both follow from it, from `AddressIs` (a global address gives back its range and page) and from `MemoryIs` (slots share no address).

Only model-checked: liveness (`KernelReturns`), which the prover does not do. Every safety property that a passing run checks has a theorem.

## 5. Not modelled, and the plan

* `dgl/` and `HugeCTR/`: vendored frameworks. They hold nearly all of the repository's Python and notebooks, and none of the storage path;
  what they do (graph data structures, training, embeddings) is not this system's.
* the thread-block TLB: a template that no program instantiates. The windowed page cache: a header no file includes, and the GIDS
  kernels written for it call functions that no compiled header has. Code that is not compiled has no behaviour to check.
* the feature store's gather kernels as such: loops over the elements of a row through a `bam_ptr`, whose steps `BamPtr` has; their window and CPU buffer belong to the windowed cache.
* `access_data_async`, `poll_async`, `sq_dequeue`, `move_head_sq`, `clean_cids`, remote bindings of the admin queue: no callers.
* `nvm_raw_ctrl_reset` and `admin.cpp`: registers and the contents of commands, against the controller's own timing. `nvm_aq_destroy` stops
  nothing on the controller, so that a late completion may be written to memory no longer mapped; that is the controller's side, and left out.
* the rest of the kernel module: the driver's forced release of GPU memory, whose callback comes when the driver decides, the list of controllers
  and their numbers, the character devices.
* in the loader: the graph, the statistics, `init_graph_GIDS`, `store_tensor`, and the per-type lists of the heterogeneous variants, which go
  through the same steps as the one list here.
* `bam/benchmarks`, `bam/deprecated`, `GIDS/evaluation`: drivers and retired code. `bafs_ptr.h` forwards operators.
* the count's overflow into `DIRTY` at 2^29 lanes: out of a GPU's reach.

Done, in this order: `PageCache` with its proofs, `BamPtr`, `PageCacheFlush`; `NvmQueue` and `IoService`; `GidsLoader`, `IxFeatureStore`, `BatchPipe` with
their proofs; `ReadData` and `QueuePair`; `ArrayIndex`, `PagePlacement`, `PrpEntries`, `RangeCache`; `AdminQueue`, `DmaHandle`, `Host`.

Proofs, in this order: the page cache, the flush, the loader; the admin queue, the handles; the queue pair and the reads; `bam_ptr`; the arrays over a cache.

Next: arrays of several ranges, with the condition on `index_start` and `count` under which `find_range` is right; the sizes of `QueuePair` as those `QueueAssumption` asks for; `PromptPoll` from a bound
on the transfers of a program, for the programs that make fewer than two rounds of completions.

A new module is composed with one that has a run, and a run takes over the question of a narrower one, so that the runs
stay the dozen questions above.
