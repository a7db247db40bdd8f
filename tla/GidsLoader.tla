------------------------------ MODULE GidsLoader ------------------------------
(***************************************************************************)
(* GIDS.fetch_feature (GIDS_Setup/GIDS/GIDS_IX.py, and with the same control *)
(* flow GIDS.py): what a loop over a GIDS_DGLDataLoader runs for its next   *)
(* batch.  It draws batches ahead from the DGL iterator into window_buffer, *)
(* announces them to the store, reads the features of one batch, or of a    *)
(* group of them with the accumulator, and returns the oldest batch.        *)
(*                                                                          *)
(* Every next(it) may raise StopIteration, which leaves fetch_feature from  *)
(* the place it is at and ends the loop; the fields of the GIDS object stay *)
(* as they are for the next epoch, or for another loader that was given the *)
(* same object.                                                             *)
(*                                                                          *)
(* The heterogeneous variants of the code differ in that a batch is one     *)
(* list of nodes per type; here it is one list, and a node is its row.      *)
(***************************************************************************)
EXTENDS IxFeatureStore, FiniteSets

CONSTANTS
  NodeLists,     \* lists of nodes the sampler may give a batch
  NBatches,      \* batches of a loop
  MaxLoops,      \* bound: loops, of all the loaders on the object
  WindowSizes,   \* possible values of wb_size
  Thresholds,    \* possible values of required_accesses
  Pinnings,      \* calls of a script before its loops: <<>> for none, <<len>>
                 \* for cpu_backing_buffer, <<len, rows>> for set_cpu_buffer too
  MaxShort       \* bound: reads of rows that come short without need

ASSUME LoaderAssumption ==
  /\ NodeLists \subseteq Seq(Rows)
  /\ NBatches \in Nat
  /\ MaxLoops \in Nat
  /\ WindowSizes \subseteq Nat
  /\ Thresholds \subseteq Nat
  /\ \A p \in Pinnings : p # <<>> => p[1] \in Nat
  /\ MaxShort \in Nat

VARIABLES
  \* fields of the GIDS object that do not change after the first loop starts
  window_buffering_flag, accumulator_flag, wb_size, required_accesses, pinning,
  \* fields that do
  window_buffer, wb_init, return_torch_buffer, prev_cpu_access,
  \* the number of the loop, and batches drawn from its DGL iterator
  loop, drawn,
  \* where fetch_feature is, and its locals
  pc, filled, buffer_size, num_iter, current_access, required,
  \* what happened
  sampled, announced, returned,
  warned         \* the rows of batches, as <<batch, place>>, whose read came short

optionVars == <<window_buffering_flag, accumulator_flag, wb_size,
                required_accesses, pinning>>
groupVars == <<buffer_size, num_iter, current_access, required>>
drawVars == <<window_buffer, sampled, announced, drawn>>
vars == <<storeVars, optionVars, window_buffer, wb_init, return_torch_buffer,
          prev_cpu_access, loop, drawn, pc, filled, groupVars, sampled,
          announced, returned, warned>>

\* A batch is known by the loop it was drawn in and its place there.
Batch == [loop : 1 .. MaxLoops, place : 1 .. NBatches, nodes : NodeLists]

\* The rows of the batches bs that are read from the files.
RowsRead(bs) == UNION {{<<b, i>> : i \in 1 .. Len(b.nodes)} : b \in bs}

\* Which of these come short, and how much of them arrives.
Shorts(reads) ==
  UNION {[few -> 0 .. Dim - 1] : few \in
           {x \in SUBSET reads : Cardinality(x \cup warned) <= MaxShort}}

\* do_cufile_read warns of them, and of those that run into the end of a file.
Warn(reads, short) ==
  warned' = warned \cup DOMAIN short \cup {x \in reads : PastEnd(x[1].nodes[x[2]])}

Arrived(short, b, i) == IF <<b, i>> \in DOMAIN short THEN short[<<b, i>>] ELSE Dim

\* The features of a batch as read_feature and read_feature_merged leave them.
ReadFeature(b, short) ==
  [i \in 1 .. Len(b.nodes) |-> ReadRow(b.nodes[i], Arrived(short, b, i))]
ReadFeatureMerged(b, short) ==
  [i \in 1 .. Len(b.nodes) |-> ReadRowMerged(b.nodes[i], Arrived(short, b, i))]

\* Rows that the loops take from a CPU buffer nobody has filled: set_cpu_buffer clears
\* seq_flag, and read_feature_merged never looks at the buffer.
Blank == IF accumulator_flag THEN {} ELSE {r \in Rows : Buffered(r)}

\* The first elements of a row as the table has it, and nothing after them.
Part(r, k) == [i \in 1 .. Dim |-> IF i <= k THEN TableRow(r)[i] ELSE Nothing]
Parts == {Part(r, k) : r \in Rows, k \in 0 .. Dim}

\* The features of a batch's own nodes: of every node its row of the table, unless the
\* row was lost to a short read or is blank, and then a part of it.
Features(b, lost, blank) ==
  {f \in [1 .. Len(b.nodes) -> Parts] :
     \A i \in 1 .. Len(b.nodes) : LET r == b.nodes[i] IN
       \/ f[i] = TableRow(r)
       \/ (<<b, i>> \in lost \/ r \in blank) /\ \E k \in 0 .. Dim : f[i] = Part(r, k)}

Init ==
  /\ StoreInit
  /\ window_buffering_flag \in BOOLEAN
  /\ accumulator_flag \in BOOLEAN
  /\ wb_size \in WindowSizes
  /\ required_accesses \in Thresholds
  /\ pinning \in Pinnings
  /\ window_buffer = <<>>
  /\ wb_init = FALSE
  /\ return_torch_buffer = <<>>
  /\ prev_cpu_access = 0
  /\ loop = 0
  /\ drawn = 0
  /\ pc = "script"
  /\ filled = 0
  /\ buffer_size = 0
  /\ num_iter = 0
  /\ current_access = 0
  /\ required = 0
  /\ sampled = <<>>
  /\ announced = <<>>
  /\ returned = <<>>
  /\ warned = {}
------------------------------------------------------------------------------
(* The script: it prepares the store and runs loops over its loaders.        *)

scriptVars == <<optionVars, window_buffer, wb_init, return_torch_buffer,
                prev_cpu_access, filled, groupVars, sampled, announced,
                returned, warned>>

\* cpu_backing_buffer, before the first loop.
AllocateBuffer ==
  /\ pc = "script"
  /\ loop = 0
  /\ ~cpu_buffer_flag
  /\ pinning # <<>>
  /\ CpuBackingBuffer(pinning[1])
  /\ UNCHANGED <<scriptVars, loop, drawn, pc>>

\* set_cpu_buffer, right after it.
PinRows ==
  /\ pc = "script"
  /\ loop = 0
  /\ seq_flag
  /\ Len(pinning) = 2
  /\ \E arrived \in 0 .. Dim : SetCpuBuffer(pinning[2], arrived)
  /\ UNCHANGED <<scriptVars, loop, drawn, pc>>

\* The calls of "pinning" are done.
Prepared ==
  /\ pinning # <<>> => cpu_buffer_flag
  /\ Len(pinning) = 2 => ~seq_flag

\* iter(loader): a new DGL iterator, the same GIDS object.
StartLoop ==
  /\ pc = "script"
  /\ Prepared
  /\ loop < MaxLoops
  /\ loop' = loop + 1
  /\ drawn' = 0
  /\ pc' = "loop"
  /\ UNCHANGED <<storeVars, scriptVars>>
------------------------------------------------------------------------------
(* next(it)                                                                   *)

\* The iterator has a batch left: it goes to the window buffer and, if
\* "announce", through window_buffering.
Draw(b, announce) ==
  /\ drawn < NBatches
  /\ b.loop = loop
  /\ b.place = drawn + 1
  /\ drawn' = drawn + 1
  /\ window_buffer' = Append(window_buffer, b)
  /\ sampled' = Append(sampled, b)
  /\ announced' = IF announce THEN Append(announced, b) ELSE announced

\* fetch_feature is about to call next(it).
AtDraw ==
  \/ pc = "fill" /\ filled < wb_size
  \/ pc = "next"
  \/ pc = "gather" /\ num_iter >= buffer_size

\* Fault: the end of a loop empties the window, but not the features read.
StopIterationReset ==
  /\ AtDraw
  /\ drawn = NBatches
  /\ pc' = "script"
  /\ window_buffer' = <<>>
  /\ UNCHANGED <<storeVars, optionVars, wb_init, return_torch_buffer,
                 prev_cpu_access, sampled, announced, drawn, loop, filled,
                 groupVars, returned, warned>>

\* The iterator has none: StopIteration leaves fetch_feature and the loop.
StopIteration ==
  /\ AtDraw
  /\ drawn = NBatches
  /\ pc' = "script"
  /\ UNCHANGED <<storeVars, optionVars, wb_init, return_torch_buffer,
                 prev_cpu_access, drawVars, loop, filled, groupVars, returned, warned>>
------------------------------------------------------------------------------
(* fetch_feature: the window                                                  *)

\* The loop asks for its next batch; fill_wb first, unless wb_init is set.
Fetch ==
  /\ pc = "loop"
  /\ pc' = IF window_buffering_flag /\ ~wb_init THEN "fill" ELSE "next"
  /\ filled' = 0
  /\ UNCHANGED <<storeVars, optionVars, wb_init, return_torch_buffer,
                 prev_cpu_access, drawVars, loop, groupVars, returned, warned>>

\* Fault: one batch too many.
FillOneMore(b) ==
  /\ pc = "fill"
  /\ filled <= wb_size
  /\ Draw(b, TRUE)
  /\ filled' = filled + 1
  /\ UNCHANGED <<storeVars, optionVars, wb_init, return_torch_buffer,
                 prev_cpu_access, loop, pc, groupVars, returned, warned>>

\* Fault: wb_init is set before the window is full.
FillMarked(b) ==
  /\ pc = "fill"
  /\ filled < wb_size
  /\ Draw(b, TRUE)
  /\ filled' = filled + 1
  /\ wb_init' = TRUE
  /\ UNCHANGED <<storeVars, optionVars, return_torch_buffer, prev_cpu_access,
                 loop, pc, groupVars, returned, warned>>

\* One turn of fill_wb.
Fill(b) ==
  /\ pc = "fill"
  /\ filled < wb_size
  /\ Draw(b, TRUE)
  /\ filled' = filled + 1
  /\ UNCHANGED <<storeVars, optionVars, wb_init, return_torch_buffer,
                 prev_cpu_access, loop, pc, groupVars, returned, warned>>

\* fill_wb has returned.
FillDone ==
  /\ pc = "fill"
  /\ filled = wb_size
  /\ wb_init' = TRUE
  /\ pc' = "next"
  /\ UNCHANGED <<storeVars, optionVars, return_torch_buffer, prev_cpu_access,
                 drawVars, loop, filled, groupVars, returned, warned>>

\* The locals of a new group.
EnterGroup ==
  /\ buffer_size' = Len(window_buffer')
  /\ num_iter' = 0
  /\ current_access' = 0
  /\ required' = required_accesses

\* next_batch, and what to do with it: read one batch, or, with the accumulator,
\* take features already read or gather a new group.
NextBatch(b) ==
  /\ pc = "next"
  /\ Draw(b, window_buffering_flag)
  /\ \/ ~accumulator_flag /\ pc' = "read" /\ UNCHANGED groupVars
     \/ /\ accumulator_flag
        /\ return_torch_buffer # <<>>
        /\ pc' = "pop"
        /\ UNCHANGED groupVars
     \/ /\ accumulator_flag
        /\ return_torch_buffer = <<>>
        /\ pc' = "gather"
        /\ EnterGroup
  /\ UNCHANGED <<storeVars, optionVars, wb_init, return_torch_buffer,
                 prev_cpu_access, loop, filled, returned, warned>>
------------------------------------------------------------------------------
(* fetch_feature: the accumulator's group                                     *)

\* One turn of the loop, for batch b of the group: go on until the rows of the
\* group exceed the threshold, which rises with each batch.
Count(b) ==
  /\ num_iter' = num_iter + 1
  /\ current_access' = current_access + Len(b.nodes)
  /\ required' = required + prev_cpu_access
  /\ pc' = IF current_access' > required' THEN "merge" ELSE "gather"
  /\ UNCHANGED <<storeVars, optionVars, wb_init, return_torch_buffer,
                 prev_cpu_access, loop, filled, buffer_size, returned, warned>>

\* ... with a batch of the window buffer,
GatherBuffered ==
  /\ pc = "gather"
  /\ num_iter < buffer_size
  /\ Count(window_buffer[num_iter + 1])
  /\ UNCHANGED drawVars

\* ... or, when the group has them all, with another one drawn.
Gather(b) ==
  /\ pc = "gather"
  /\ num_iter >= buffer_size
  /\ Draw(b, window_buffering_flag)
  /\ Count(b)

\* What a turn of read_feature_merged leaves alone.
mergeRest == <<storeVars, optionVars, wb_init, drawVars, loop, filled, groupVars, returned>>

Group == {window_buffer[i] : i \in 1 .. num_iter}

\* Fault: the group's features are those of the newest batches.
MergeNewest(hits) ==
  /\ pc = "merge"
  /\ \E short \in Shorts(RowsRead(Group)) :
       /\ return_torch_buffer' = return_torch_buffer \o
            [i \in 1 .. num_iter |->
               ReadFeatureMerged(window_buffer[Len(window_buffer) - num_iter + i], short)]
       /\ Warn(RowsRead(Group), short)
  /\ prev_cpu_access' = hits \div num_iter
  /\ pc' = "pop"
  /\ UNCHANGED mergeRest

\* read_feature_merged of the group.  The store counts the rows that memory of
\* the CPU served: up to all of them on BaM, none on the cuFile store.
Merge(hits) ==
  /\ pc = "merge"
  /\ \E short \in Shorts(RowsRead(Group)) :
       /\ return_torch_buffer' = return_torch_buffer \o
            [i \in 1 .. num_iter |-> ReadFeatureMerged(window_buffer[i], short)]
       /\ Warn(RowsRead(Group), short)
  /\ prev_cpu_access' = hits \div num_iter
  /\ pc' = "pop"
  /\ UNCHANGED mergeRest
------------------------------------------------------------------------------
(* fetch_feature: the batch returned                                          *)

\* The oldest batch leaves, with features f.
Hand(f) ==
  /\ returned' = Append(returned, [batch |-> Head(window_buffer), features |-> f])
  /\ window_buffer' = Tail(window_buffer)
  /\ pc' = "loop"
  /\ UNCHANGED <<storeVars, optionVars, wb_init, prev_cpu_access, loop, drawn, filled,
                 groupVars, sampled, announced>>

\* ... the oldest features read.
Pop ==
  /\ pc = "pop"
  /\ Hand(Head(return_torch_buffer))
  /\ return_torch_buffer' = Tail(return_torch_buffer)
  /\ UNCHANGED warned

\* The rows of a batch that read_feature reads from the files.
Unbuffered(b) == {x \in RowsRead({b}) : ~Buffered(b.nodes[x[2]])}

\* ... or read_feature of the batch.
Read ==
  /\ pc = "read"
  /\ \E short \in Shorts(Unbuffered(Head(window_buffer))) :
       /\ Hand(ReadFeature(Head(window_buffer), short))
       /\ Warn(Unbuffered(Head(window_buffer)), short)
  /\ UNCHANGED return_torch_buffer
------------------------------------------------------------------------------
FetchFeature ==
  \/ Fetch \/ FillDone \/ GatherBuffered \/ Pop \/ Read \/ StopIteration
  \/ \E b \in Batch : Fill(b) \/ NextBatch(b) \/ Gather(b)
  \/ \E hits \in 0 .. current_access : Merge(hits)

\* The script's last loop has ended.
Finished == pc = "script" /\ loop = MaxLoops

Next ==
  \/ AllocateBuffer \/ PinRows \/ StartLoop
  \/ FetchFeature
  \/ Finished /\ UNCHANGED vars

Spec == Init /\ [][Next]_vars
------------------------------------------------------------------------------
\* Type invariant.  The window never holds fewer batches than fetch_feature is
\* about to use, which would be an IndexError of pop(0) or window_buffer[i].
TypeOK ==
  /\ cpu_buffer_flag \in BOOLEAN
  /\ seq_flag \in BOOLEAN
  /\ window_buffering_flag \in BOOLEAN
  /\ accumulator_flag \in BOOLEAN
  /\ wb_size \in Nat
  /\ required_accesses \in Nat
  /\ window_buffer \in Seq(Batch)
  /\ sampled \in Seq(Batch)
  /\ announced \in Seq(Batch)
  /\ wb_init \in BOOLEAN
  /\ prev_cpu_access \in Nat
  /\ loop \in 0 .. MaxLoops
  /\ drawn \in 0 .. NBatches
  /\ pc \in {"script", "loop", "fill", "next", "gather", "merge", "pop", "read"}
  /\ filled \in 0 .. wb_size
  /\ current_access \in Nat
  /\ required \in Nat
  /\ pc \in {"pop", "read"} => window_buffer # <<>>
  /\ pc = "pop" => return_torch_buffer # <<>>
  /\ pc \in {"gather", "merge"} =>
       /\ buffer_size \in 1 .. Len(window_buffer)
       /\ num_iter \in 0 .. Len(window_buffer)
  /\ pc = "merge" => num_iter > 0

\* The features read ahead by the accumulator are those of the oldest batches
\* of the window, in their order: return_torch_buffer and window_buffer are
\* popped side by side (GIDS_IX.py:327-329) but filled, and left by
\* StopIteration, at different times, and both outlive a loop.
FeaturesAligned ==
  /\ Len(return_torch_buffer) <= Len(window_buffer)
  /\ \A i \in 1 .. Len(return_torch_buffer) :
       return_torch_buffer[i] \in Features(window_buffer[i], warned, Blank)

\* What the window is for (window_buffering, GIDS_IX.py:271-294): once batches
\* are returned, at least wb_size batches beyond them are known to the store,
\* whatever loops ended in between and wherever in fetch_feature they did; and
\* the store hears of every batch, in the order they are read.
WindowStaysOpen ==
  window_buffering_flag =>
    /\ announced = sampled
    /\ returned # <<>> => Len(announced) >= Len(returned) + wb_size

\* Every batch comes with the features of its own nodes (read_feature,
\* ix_feature_store.cpp:222-288, and read_feature_merged).  A row lacks part of them
\* only if a warning was printed for it, or, without the accumulator, if the script
\* allocated a CPU buffer that reaches it and never filled it; and even then it has
\* nothing of another row.
OwnFeatures ==
  \A i \in 1 .. Len(returned) :
    returned[i].features \in Features(returned[i].batch, warned, Blank)

\* A loop is given batches its own loader drew in it (__next__,
\* GIDS_IX.py:64-67).  At "loop" with a batch drawn the loop has just been given
\* one.
OwnLoop ==
  pc = "loop" /\ drawn > 0 => returned[Len(returned)].batch.loop = loop

Pipe == INSTANCE BatchPipe WITH Batches <- Batch, lost <- warned, blank <- Blank

\* The loader implements BatchPipe: every batch drawn comes out once, in its
\* order, with its own features as far as they were read, in whichever loop.
IsBatchPipe == Pipe!Spec
==============================================================================
