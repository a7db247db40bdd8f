---------------------------- MODULE GidsLoaderProofs ----------------------------
(***************************************************************************)
(* The loader over one feature file hands out every batch in order and with *)
(* its own features, as far as they were read, for every table, every batch *)
(* the sampler may draw, any window, any threshold, any number of loops,    *)
(* whatever reads come short and however the script prepares the store.     *)
(*                                                                          *)
(* That there is one file (NFiles = 1) is a hypothesis of the lemmas that   *)
(* need it; the run ix_stripe shows what happens when it does not hold.     *)
(***************************************************************************)
EXTENDS GidsLoaderInv, TLAPS
------------------------------------------------------------------------------

(* What the store reads                                                       *)

\* A place of the table is a page and an offset in it.
LEMMA DivMod ==
  ASSUME NEW a \in Nat, NEW e \in Nat \ {0}
  PROVE  (a \div e) * e + (a % e) = a
  OBVIOUS

\* The elements of a row are elements of the table.
LEMMA RowInTable ==
  ASSUME NEW r \in Rows, NEW i \in 1 .. Dim
  PROVE  r * Dim + i - 1 \in Elements
  BY StoreAssumption DEF Rows, Elements

\* One file is the table (get_file_idx, get_file_offset with n_ctrls = 1): what
\* arrives of a row are its first elements.
LEMMA OneFile ==
  ASSUME NFiles = 1, NEW r \in Rows, NEW arrived \in 0 .. Dim
  PROVE  Transfer(r, Dim, Dim, arrived) = Part(r, arrived)
<1>1. get_file_idx(r) = 0 /\ get_file_offset(r, Dim) = r * Dim
  BY DEF get_file_idx, get_file_offset
<1>2. ASSUME NEW i \in 1 .. Dim
      PROVE  FileAt(0, r * Dim + i - 1) = r * Dim + i - 1
  <2> DEFINE o == r * Dim + i - 1
  <2>1. o \in Elements /\ o \in Nat
    BY RowInTable DEF Elements
  <2>2. (o \div ElemsPerPage) * ElemsPerPage + (o % ElemsPerPage) = o
    BY <2>1, DivMod, StoreAssumption
  <2>3. o \div ElemsPerPage \in Int
    BY <2>1, StoreAssumption
  <2> HIDE DEF o
  <2>4. ((o \div ElemsPerPage) * NFiles + 0) * ElemsPerPage + (o % ElemsPerPage) = o
    BY <2>2, <2>3
  <2>5. FileAt(0, o) = o
    BY <2>1, <2>4 DEF FileAt
  <2>6. QED
    BY <2>5 DEF o
<1>3. QED
  BY <1>1, <1>2 DEF Transfer, Part, TableRow

\* All of a row's elements are the row, and none of them is a row nobody wrote.
LEMMA PartsOfRow ==
  ASSUME NEW r \in Rows
  PROVE  /\ Part(r, Dim) = TableRow(r)
         /\ Part(r, 0) = BlankRow
         /\ \A k \in 0 .. Dim : Part(r, k) \in Parts
         /\ TableRow(r) \in Parts
<1>1. Part(r, Dim) = TableRow(r)
  BY DEF Part, TableRow
<1>2. Part(r, 0) = BlankRow
  BY DEF Part, BlankRow
<1>3. \A k \in 0 .. Dim : Part(r, k) \in Parts
  BY DEF Parts
<1>4. Dim \in 0 .. Dim
  BY StoreAssumption
<1>5. QED
  BY <1>1, <1>2, <1>3, <1>4

\* A batch's nodes are rows.
LEMMA NodesAreRows ==
  ASSUME NEW b \in Batch, NEW i \in 1 .. Len(b.nodes)
  PROVE  b.nodes[i] \in Rows
<1>1. b.nodes \in Seq(Rows)
  BY LoaderAssumption DEF Batch
<1>2. QED
  BY <1>1

\* How much of a row arrives.
LEMMA ArrivedBound ==
  ASSUME NEW reads, NEW short \in Shorts(reads), NEW b, NEW i
  PROVE  /\ Arrived(short, b, i) \in 0 .. Dim
         /\ <<b, i>> \notin DOMAIN short => Arrived(short, b, i) = Dim
<1>1. PICK few : short \in [few -> 0 .. Dim - 1]
  BY DEF Shorts
<1>2. Dim \in Nat
  BY StoreAssumption
<1>3. CASE <<b, i>> \in DOMAIN short
  BY <1>1, <1>2, <1>3 DEF Arrived
<1>4. CASE <<b, i>> \notin DOMAIN short
  BY <1>2, <1>4 DEF Arrived
<1>5. QED
  BY <1>3, <1>4

\* read_feature_merged reads the features of the batch.
LEMMA MergedIsOwn ==
  ASSUME NFiles = 1, NEW b \in Batch, NEW reads, NEW short \in Shorts(reads),
         NEW lost, DOMAIN short \subseteq lost, NEW blank
  PROVE  ReadFeatureMerged(b, short) \in Features(b, lost, blank)
<1> DEFINE f == ReadFeatureMerged(b, short)
<1>1. ASSUME NEW i \in 1 .. Len(b.nodes)
      PROVE  /\ f[i] \in Parts
             /\ \/ f[i] = TableRow(b.nodes[i])
                \/ <<b, i>> \in lost /\ \E k \in 0 .. Dim : f[i] = Part(b.nodes[i], k)
  <2> DEFINE k == Arrived(short, b, i)
  <2>1. b.nodes[i] \in Rows
    BY NodesAreRows
  <2>2. k \in 0 .. Dim /\ (<<b, i>> \notin DOMAIN short => k = Dim)
    BY ArrivedBound
  <2>3. f[i] = Transfer(b.nodes[i], Dim, Dim, k)
    BY DEF ReadFeatureMerged, ReadRowMerged
  <2> HIDE DEF f, k
  <2>4. f[i] = Part(b.nodes[i], k)
    BY <2>1, <2>2, <2>3, OneFile
  <2>5. QED
    BY <2>1, <2>2, <2>4, PartsOfRow
<1>2. f = [i \in 1 .. Len(b.nodes) |-> f[i]]
  BY DEF ReadFeatureMerged
<1> HIDE DEF f
<1>3. f \in Features(b, lost, blank)
  BY <1>1, <1>2 DEF Features
<1>4. QED
  BY <1>3 DEF f

\* read_feature does too, but for rows of a CPU buffer, in which there is nothing.
LEMMA ReadIsOwn ==
  ASSUME NFiles = 1, StoreOK, ~accumulator_flag, NEW b \in Batch,
         NEW reads, NEW short \in Shorts(reads), NEW lost, DOMAIN short \subseteq lost
  PROVE  ReadFeature(b, short) \in Features(b, lost, Blank)
<1> DEFINE f == ReadFeature(b, short)
<1>1. ASSUME NEW i \in 1 .. Len(b.nodes)
      PROVE  /\ f[i] \in Parts
             /\ \/ f[i] = TableRow(b.nodes[i])
                \/ /\ <<b, i>> \in lost \/ b.nodes[i] \in Blank
                   /\ \E k \in 0 .. Dim : f[i] = Part(b.nodes[i], k)
  <2> DEFINE k == Arrived(short, b, i)
  <2> DEFINE r == b.nodes[i]
  <2>1. r \in Rows
    BY NodesAreRows
  <2>2. k \in 0 .. Dim /\ (<<b, i>> \notin DOMAIN short => k = Dim)
    BY ArrivedBound
  <2>3. f[i] = IF Buffered(r) THEN cpu_buffer[r + 1] ELSE Transfer(r, Dim, Dim, k)
    BY DEF ReadFeature, ReadRow
  <2> HIDE DEF f, k, r
  <2>4. CASE Buffered(r)
    <3>1. cpu_buffer \in Seq({BlankRow}) /\ r < Len(cpu_buffer) /\ r \in Nat
      BY <2>1, <2>4, StoreAssumption DEF StoreOK, Buffered, Rows
    <3>2. f[i] = BlankRow
      BY <2>3, <2>4, <3>1
    <3>3. r \in Blank
      BY <2>1, <2>4 DEF Blank
    <3>4. f[i] = Part(r, 0) /\ 0 \in 0 .. Dim
      BY <2>1, <3>2, PartsOfRow, StoreAssumption
    <3>5. QED
      BY <2>1, <3>3, <3>4, PartsOfRow DEF r
  <2>5. CASE ~Buffered(r)
    <3>1. f[i] = Part(r, k)
      BY <2>1, <2>2, <2>3, <2>5, OneFile
    <3>2. QED
      BY <2>1, <2>2, <3>1, PartsOfRow DEF r
  <2>6. QED
    BY <2>4, <2>5
<1>2. f = [i \in 1 .. Len(b.nodes) |-> f[i]]
  BY DEF ReadFeature
<1> HIDE DEF f
<1>3. f \in Features(b, lost, Blank)
  BY <1>1, <1>2 DEF Features
<1>4. QED
  BY <1>3 DEF f

\* Features stay a batch's own when more rows are lost.
LEMMA FeaturesGrow ==
  ASSUME NEW b, NEW lost, NEW more, lost \subseteq more, NEW blank
  PROVE  Features(b, lost, blank) \subseteq Features(b, more, blank)
BY DEF Features

\* They are a list of parts of rows.
LEMMA FeaturesAreLists ==
  ASSUME NEW b \in Batch, NEW lost, NEW blank
  PROVE  Features(b, lost, blank) \subseteq FeatureLists
BY DEF Features, FeatureLists
------------------------------------------------------------------------------
(* LoaderInv is inductive                                                     *)

\* The loader starts with nothing drawn and nothing read.
LEMMA InitInv ==
  Init => LoaderInv
<1> SUFFICES ASSUME Init
             PROVE  LoaderInv
  OBVIOUS
<1> USE DEF Init, StoreInit
<1>1. wb_size \in Nat /\ required_accesses \in Nat
  BY LoaderAssumption
<1>2. 0 \in 0 .. MaxLoops /\ 0 \in 0 .. NBatches /\ 0 \in 0 .. wb_size
  BY <1>1, LoaderAssumption
<1>3. <<>> \in Seq(Batch)
  OBVIOUS
<1>4. TypeOK
  <2>1. /\ cpu_buffer_flag \in BOOLEAN /\ seq_flag \in BOOLEAN
        /\ window_buffering_flag \in BOOLEAN /\ accumulator_flag \in BOOLEAN
        /\ wb_size \in Nat /\ required_accesses \in Nat /\ wb_init \in BOOLEAN
        /\ window_buffer \in Seq(Batch) /\ sampled \in Seq(Batch)
        /\ announced \in Seq(Batch)
    BY <1>1, <1>3
  <2>2. /\ prev_cpu_access \in Nat /\ loop \in 0 .. MaxLoops
        /\ drawn \in 0 .. NBatches /\ filled \in 0 .. wb_size
        /\ current_access \in Nat /\ required \in Nat
    BY <1>2
  <2>3. QED
    BY <2>1, <2>2 DEF TypeOK
<1>5. SeqsOK /\ StoreOK /\ GroupOK /\ FeaturesAligned
  BY DEF SeqsOK, StoreOK, GroupOK, FeaturesAligned, InGroup
<1>6. InOrder /\ WindowOK
  BY DEF InOrder, WindowOK, InGroup
<1>7. QED
  BY <1>4, <1>5, <1>6 DEF LoaderInv

\* The quotient of the rows served by the batches of a group.
LEMMA DivNat ==
  ASSUME NEW a \in Nat, NEW e \in Nat \ {0}
  PROVE  a \div e \in Nat
  OBVIOUS

\* A group's features become those that wait.
LEMMA Joined ==
  ASSUME NEW S, NEW n \in Nat, NEW f \in [1 .. n -> S]
  PROVE  /\ <<>> \o f \in Seq(S)
         /\ Len(<<>> \o f) = n
         /\ \A i \in 1 .. n : (<<>> \o f)[i] = f[i]
<1>1. f \in Seq(S) /\ Len(f) = n
  OBVIOUS
<1>2. QED
  BY <1>1

\* What Append and Tail do to a sequence.
LEMMA Appended ==
  ASSUME NEW S, NEW s \in Seq(S), NEW e \in S
  PROVE  /\ Append(s, e) \in Seq(S)
         /\ Len(Append(s, e)) = Len(s) + 1
         /\ \A i \in 1 .. Len(s) : Append(s, e)[i] = s[i]
         /\ Append(s, e)[Len(s) + 1] = e
  OBVIOUS

\* What Head and Tail do to one that is not empty.
LEMMA Dropped ==
  ASSUME NEW S, NEW s \in Seq(S), s # <<>>
  PROVE  /\ Head(s) = s[1]
         /\ Head(s) \in S
         /\ Tail(s) \in Seq(S)
         /\ Len(s) > 0
         /\ Len(Tail(s)) = Len(s) - 1
         /\ \A i \in 1 .. Len(Tail(s)) : Tail(s)[i] = s[i + 1]
  OBVIOUS

\* A batch drawn is the newest of the window and of those drawn.
LEMMA DrawAppends ==
  ASSUME TypeOK, NEW b \in Batch, NEW announce \in BOOLEAN, Draw(b, announce)
  PROVE  /\ window_buffer' \in Seq(Batch)
         /\ Len(window_buffer') = Len(window_buffer) + 1
         /\ \A i \in 1 .. Len(window_buffer) : window_buffer'[i] = window_buffer[i]
         /\ window_buffer'[Len(window_buffer) + 1] = b
         /\ sampled' \in Seq(Batch)
         /\ Len(sampled') = Len(sampled) + 1
         /\ \A i \in 1 .. Len(sampled) : sampled'[i] = sampled[i]
         /\ sampled'[Len(sampled) + 1] = b
         /\ announced' \in Seq(Batch)
         /\ announce /\ announced = sampled => announced' = sampled'
         /\ drawn' \in 0 .. NBatches
         /\ Len(window_buffer) \in Nat /\ Len(sampled) \in Nat
<1>1. window_buffer \in Seq(Batch) /\ sampled \in Seq(Batch) /\ announced \in Seq(Batch)
  BY DEF TypeOK
<1>2. window_buffer' = Append(window_buffer, b) /\ sampled' = Append(sampled, b)
  BY DEF Draw
<1>3. announced' \in Seq(Batch)
  BY <1>1, Appended DEF Draw
<1>4. announce /\ announced = sampled => announced' = sampled'
  BY DEF Draw
<1>5. drawn' \in 0 .. NBatches
  BY LoaderAssumption DEF TypeOK, Draw
<1>6. QED
  BY <1>1, <1>2, <1>3, <1>4, <1>5, Appended

\* What read_feature_merged leaves for the group: a list per batch.
LEMMA MergedRead ==
  ASSUME NFiles = 1, TypeOK, GroupOK, NEW hits, Merge(hits)
  PROVE  /\ return_torch_buffer' # <<>>
         /\ return_torch_buffer' \in Seq(FeatureLists)
         /\ num_iter \in 1 .. Len(window_buffer)
         /\ Len(return_torch_buffer') = num_iter
         /\ \A i \in 1 .. num_iter :
              return_torch_buffer'[i] \in Features(window_buffer[i], warned', Blank)
<1>0. PICK short \in Shorts(RowsRead(Group)) :
         /\ return_torch_buffer' = return_torch_buffer \o
              [i \in 1 .. num_iter |-> ReadFeatureMerged(window_buffer[i], short)]
         /\ Warn(RowsRead(Group), short)
  BY DEF Merge
<1> DEFINE f == [i \in 1 .. num_iter |-> ReadFeatureMerged(window_buffer[i], short)]
<1>1. pc = "merge" /\ return_torch_buffer = <<>>
  BY DEF Merge, GroupOK, InGroup
<1>2. /\ num_iter \in Nat /\ num_iter > 0 /\ num_iter \in 1 .. Len(window_buffer)
      /\ window_buffer \in Seq(Batch)
  BY <1>1 DEF TypeOK
<1>3. return_torch_buffer' = <<>> \o f
  BY <1>0, <1>1
<1>4. DOMAIN short \subseteq warned'
  BY <1>0 DEF Warn
<1>5. ASSUME NEW i \in 1 .. num_iter
      PROVE  /\ f[i] \in Features(window_buffer[i], warned', Blank)
             /\ f[i] \in FeatureLists
  <2>1. window_buffer[i] \in Batch
    BY <1>2
  <2>2. ReadFeatureMerged(window_buffer[i], short)
          \in Features(window_buffer[i], warned', Blank)
    BY <1>4, <2>1, MergedIsOwn
  <2>3. QED
    BY <2>1, <2>2, FeaturesAreLists
<1>6. f \in [1 .. num_iter -> FeatureLists]
  BY <1>5
<1> HIDE DEF f
<1>7. /\ <<>> \o f \in Seq(FeatureLists)
      /\ Len(<<>> \o f) = num_iter
      /\ \A i \in 1 .. num_iter : (<<>> \o f)[i] = f[i]
  BY <1>2, <1>6, Joined
<1>8. <<>> \o f # <<>>
  BY <1>2, <1>7
<1>9. QED
  BY <1>2, <1>3, <1>5, <1>7, <1>8

\* Every step keeps the types, and never leaves a batch to be taken from an empty list.
LEMMA TypeStep ==
  ASSUME NFiles = 1
  PROVE  LoaderInv /\ Next => TypeOK'
<1> SUFFICES ASSUME LoaderInv, Next
             PROVE  TypeOK'
  OBVIOUS
<1> USE DEF LoaderInv, TypeOK, FeaturesAligned, GroupOK, SeqsOK, InGroup
<1>1. CASE AllocateBuffer
  BY <1>1 DEF AllocateBuffer, CpuBackingBuffer, scriptVars, optionVars, groupVars
<1>2. CASE PinRows
  BY <1>2 DEF PinRows, SetCpuBuffer, scriptVars, optionVars, groupVars
<1>3. CASE StartLoop
  BY <1>3, LoaderAssumption DEF StartLoop, scriptVars, storeVars, optionVars, groupVars
<1>4. CASE Fetch
  BY <1>4, LoaderAssumption DEF Fetch, storeVars, optionVars, drawVars, groupVars
<1>5. CASE FillDone
  BY <1>5 DEF FillDone, storeVars, optionVars, drawVars, groupVars
<1>6. CASE GatherBuffered
  BY <1>6 DEF GatherBuffered, Count, storeVars, optionVars, drawVars
<1>7. CASE Pop
  BY <1>7 DEF Pop, Hand, storeVars, optionVars, groupVars
<1>8. CASE Read
  BY <1>8 DEF Read, Hand, storeVars, optionVars, groupVars
<1>9. CASE StopIteration
  BY <1>9 DEF StopIteration, AtDraw, storeVars, optionVars, drawVars, groupVars
<1>10. ASSUME NEW b \in Batch, Fill(b)
      PROVE  TypeOK'
  <2>1. Draw(b, TRUE) /\ TRUE \in BOOLEAN
    BY <1>10 DEF Fill
  <2> DEFINE n == Len(window_buffer)
  <2>2. /\ window_buffer' \in Seq(Batch) /\ Len(window_buffer') = n + 1 /\ n \in Nat
        /\ \A i \in 1 .. n : window_buffer'[i] = window_buffer[i]
        /\ sampled' \in Seq(Batch) /\ announced' \in Seq(Batch)
        /\ drawn' \in 0 .. NBatches
    BY <2>1, DrawAppends
  <2>3. QED
    BY <1>10, <2>2 DEF Fill, storeVars, optionVars, groupVars
<1>11. ASSUME NEW b \in Batch, NextBatch(b)
      PROVE  TypeOK'
  <2>1. Draw(b, window_buffering_flag) /\ window_buffering_flag \in BOOLEAN
    BY <1>11 DEF NextBatch
  <2> DEFINE n == Len(window_buffer)
  <2>2. /\ window_buffer' \in Seq(Batch) /\ Len(window_buffer') = n + 1 /\ n \in Nat
        /\ \A i \in 1 .. n : window_buffer'[i] = window_buffer[i]
        /\ sampled' \in Seq(Batch) /\ announced' \in Seq(Batch)
        /\ drawn' \in 0 .. NBatches
    BY <2>1, DrawAppends
  <2>3. /\ UNCHANGED <<cpu_buffer_flag, seq_flag, window_buffering_flag,
                       accumulator_flag, wb_size, required_accesses>>
        /\ UNCHANGED <<wb_init, prev_cpu_access, loop, filled, return_torch_buffer>>
    BY <1>11 DEF NextBatch, storeVars, optionVars
  <2>4. window_buffer' # <<>>
    BY <2>2
  <2> HIDE DEF n
  <2>5. CASE pc' = "gather" /\ EnterGroup
    <3>1. /\ buffer_size' \in 1 .. Len(window_buffer')
          /\ num_iter' \in 0 .. Len(window_buffer')
          /\ current_access' \in Nat /\ required' \in Nat
      BY <2>2, <2>5 DEF EnterGroup
    <3>2. QED
      BY <2>2, <2>3, <2>5, <3>1
  <2>6. CASE pc' \in {"read", "pop"} /\ UNCHANGED groupVars
    <3>1. pc' = "pop" => return_torch_buffer' # <<>>
      BY <1>11, <2>3 DEF NextBatch
    <3>2. UNCHANGED <<current_access, required>>
      BY <2>6 DEF groupVars
    <3>3. QED
      BY <2>2, <2>3, <2>4, <2>6, <3>1, <3>2
  <2>7. QED
    BY <1>11, <2>5, <2>6 DEF NextBatch
<1>12. ASSUME NEW b \in Batch, Gather(b)
      PROVE  TypeOK'
  <2>1. Draw(b, window_buffering_flag) /\ window_buffering_flag \in BOOLEAN
    BY <1>12 DEF Gather
  <2> DEFINE n == Len(window_buffer)
  <2>2. /\ window_buffer' \in Seq(Batch) /\ Len(window_buffer') = n + 1 /\ n \in Nat
        /\ \A i \in 1 .. n : window_buffer'[i] = window_buffer[i]
        /\ sampled' \in Seq(Batch) /\ announced' \in Seq(Batch)
        /\ drawn' \in 0 .. NBatches
    BY <2>1, DrawAppends
  <2>3. /\ UNCHANGED <<cpu_buffer_flag, seq_flag, window_buffering_flag,
                       accumulator_flag, wb_size, required_accesses>>
        /\ UNCHANGED <<wb_init, prev_cpu_access, loop, filled, buffer_size>>
        /\ pc = "gather" /\ pc' \in {"gather", "merge"}
    BY <1>12 DEF Gather, Count, storeVars, optionVars
  <2>4. /\ num_iter' = num_iter + 1
        /\ current_access' = current_access + Len(b.nodes)
        /\ required' = required + prev_cpu_access
    BY <1>12 DEF Gather, Count
  <2>5. Len(b.nodes) \in Nat
    BY LoaderAssumption DEF Batch
  <2>6. /\ buffer_size' \in 1 .. Len(window_buffer')
        /\ num_iter' \in 0 .. Len(window_buffer') /\ num_iter' > 0
    BY <2>2, <2>3, <2>4
  <2>7. current_access' \in Nat /\ required' \in Nat
    BY <2>4, <2>5
  <2> HIDE DEF n
  <2>8. QED
    BY <2>2, <2>3, <2>6, <2>7
<1>13. ASSUME NEW hits \in 0 .. current_access, Merge(hits)
      PROVE  TypeOK'
  <2>1. /\ pc = "merge" /\ pc' = "pop"
        /\ prev_cpu_access' = hits \div num_iter
        /\ UNCHANGED <<storeVars, optionVars, wb_init, drawVars, loop, filled,
                       groupVars, returned>>
    BY <1>13 DEF Merge, mergeRest
  <2>2. num_iter \in Nat \ {0} /\ hits \in Nat /\ num_iter <= Len(window_buffer)
    BY <2>1
  <2>3. prev_cpu_access' \in Nat
    BY <2>1, <2>2, DivNat
  <2>4. return_torch_buffer' # <<>>
    BY <1>13, MergedRead
  <2>5. window_buffer # <<>>
    BY <2>2
  <2>6. /\ UNCHANGED <<cpu_buffer_flag, seq_flag, window_buffering_flag,
                       accumulator_flag, wb_size, required_accesses>>
        /\ UNCHANGED <<window_buffer, sampled, announced, drawn, wb_init, loop,
                       filled, current_access, required>>
    BY <2>1 DEF storeVars, optionVars, drawVars, groupVars
  <2>7. pc' \notin {"gather", "merge", "read"} /\ window_buffer' # <<>>
    BY <2>1, <2>5, <2>6
  <2>8. QED
    BY <2>1, <2>3, <2>4, <2>6, <2>7
<1>14. CASE UNCHANGED vars
  BY <1>14 DEF vars, storeVars, optionVars, groupVars
<1>15. QED
  BY <1>1, <1>2, <1>3, <1>4, <1>5, <1>6, <1>7, <1>8,
     <1>9, <1>10, <1>11, <1>12, <1>13, <1>14
     DEF Next, FetchFeature

\* Nothing is drawn before the store is prepared, and a buffer that read_feature looks
\* at stays empty.
LEMMA StoreStep ==
  LoaderInv /\ Next => StoreOK'
<1> SUFFICES ASSUME LoaderInv, Next
             PROVE  StoreOK'
  OBVIOUS
<1> USE DEF LoaderInv, TypeOK, StoreOK
<1>1. CASE AllocateBuffer
  <2>1. pinning[1] \in Nat
    BY <1>1, LoaderAssumption DEF AllocateBuffer
  <2>2. [i \in 1 .. pinning[1] |-> BlankRow] \in Seq({BlankRow})
    BY <2>1
  <2>3. QED
    BY <1>1, <2>2 DEF AllocateBuffer, CpuBackingBuffer, scriptVars, optionVars
<1>2. CASE PinRows
  BY <1>2 DEF PinRows, SetCpuBuffer, scriptVars, optionVars
<1>3. CASE StartLoop
  <2>1. loop \in Nat /\ loop' = loop + 1
    BY <1>3, LoaderAssumption DEF StartLoop
  <2>2. QED
    BY <1>3, <2>1 DEF StartLoop, scriptVars, storeVars, optionVars
<1>4. CASE Fetch
  BY <1>4 DEF Fetch, storeVars, optionVars, drawVars, groupVars
<1>5. CASE FillDone
  BY <1>5 DEF FillDone, storeVars, optionVars, drawVars, groupVars
<1>6. CASE GatherBuffered
  BY <1>6 DEF GatherBuffered, Count, storeVars, optionVars, drawVars
<1>7. CASE Pop
  BY <1>7 DEF Pop, Hand, storeVars, optionVars, groupVars
<1>8. CASE Read
  BY <1>8 DEF Read, Hand, storeVars, optionVars, groupVars
<1>9. CASE StopIteration
  BY <1>9 DEF StopIteration, AtDraw, storeVars, optionVars, drawVars, groupVars
<1>10. ASSUME NEW b \in Batch, Fill(b)
      PROVE  StoreOK'
  BY <1>10, DrawAppends DEF Fill, storeVars, optionVars, groupVars
<1>11. ASSUME NEW b \in Batch, NextBatch(b)
      PROVE  StoreOK'
  BY <1>11, DrawAppends DEF NextBatch, EnterGroup, storeVars, optionVars, groupVars
<1>12. ASSUME NEW b \in Batch, Gather(b)
      PROVE  StoreOK'
  BY <1>12, DrawAppends DEF Gather, Count, storeVars, optionVars
<1>13. ASSUME NEW hits \in 0 .. current_access, Merge(hits)
      PROVE  StoreOK'
  BY <1>13 DEF Merge, mergeRest, storeVars, optionVars, drawVars, groupVars
<1>14. CASE UNCHANGED vars
  BY <1>14 DEF vars, storeVars, optionVars, groupVars
<1>15. QED
  BY <1>1, <1>2, <1>3, <1>4, <1>5, <1>6, <1>7, <1>8,
     <1>9, <1>10, <1>11, <1>12, <1>13, <1>14
     DEF Next, FetchFeature

\* Features wait only with the accumulator, and a group starts without any.
LEMMA GroupStep ==
  LoaderInv /\ Next => GroupOK'
<1> SUFFICES ASSUME LoaderInv, Next
             PROVE  GroupOK'
  OBVIOUS
<1> USE DEF LoaderInv, TypeOK, GroupOK, InGroup, SeqsOK
<1>1. CASE AllocateBuffer
  BY <1>1 DEF AllocateBuffer, CpuBackingBuffer, scriptVars, optionVars, groupVars
<1>2. CASE PinRows
  BY <1>2 DEF PinRows, SetCpuBuffer, scriptVars, optionVars, groupVars
<1>3. CASE StartLoop
  BY <1>3 DEF StartLoop, scriptVars, storeVars, optionVars, groupVars
<1>4. CASE Fetch
  BY <1>4 DEF Fetch, storeVars, optionVars, drawVars, groupVars
<1>5. CASE FillDone
  BY <1>5 DEF FillDone, storeVars, optionVars, drawVars, groupVars
<1>6. CASE GatherBuffered
  BY <1>6 DEF GatherBuffered, Count, storeVars, optionVars, drawVars
<1>7. CASE Pop
  BY <1>7 DEF Pop, Hand, storeVars, optionVars, groupVars
<1>8. CASE Read
  BY <1>8 DEF Read, Hand, storeVars, optionVars, groupVars
<1>9. CASE StopIteration
  BY <1>9 DEF StopIteration, AtDraw, storeVars, optionVars, drawVars, groupVars
<1>10. ASSUME NEW b \in Batch, Fill(b)
      PROVE  GroupOK'
  BY <1>10, DrawAppends DEF Fill, storeVars, optionVars, groupVars
<1>11. ASSUME NEW b \in Batch, NextBatch(b)
      PROVE  GroupOK'
  BY <1>11, DrawAppends DEF NextBatch, EnterGroup, storeVars, optionVars, groupVars
<1>12. ASSUME NEW b \in Batch, Gather(b)
      PROVE  GroupOK'
  BY <1>12, DrawAppends DEF Gather, Count, storeVars, optionVars
<1>13. ASSUME NEW hits \in 0 .. current_access, Merge(hits)
      PROVE  GroupOK'
  BY <1>13 DEF Merge, mergeRest, storeVars, optionVars, drawVars, groupVars
<1>14. CASE UNCHANGED vars
  BY <1>14 DEF vars, storeVars, optionVars, groupVars
<1>15. QED
  BY <1>1, <1>2, <1>3, <1>4, <1>5, <1>6, <1>7, <1>8,
     <1>9, <1>10, <1>11, <1>12, <1>13, <1>14
     DEF Next, FetchFeature

\* Drawing keeps the order: the new batch is the last of both sequences.
LEMMA DrawInOrder ==
  ASSUME LoaderInv, NEW b \in Batch, NEW announce \in BOOLEAN, Draw(b, announce),
         UNCHANGED returned
  PROVE  InOrder'
<1>1. TypeOK /\ InOrder /\ returned \in Seq(Returned)
  BY DEF LoaderInv, SeqsOK
<1> DEFINE n == Len(window_buffer)
<1> DEFINE m == Len(returned)
<1>2. n \in Nat /\ m \in Nat /\ Len(sampled) = m + n
  BY <1>1 DEF TypeOK, InOrder
<1>3. /\ Len(window_buffer') = n + 1
      /\ \A i \in 1 .. n : window_buffer'[i] = window_buffer[i]
      /\ window_buffer'[n + 1] = b
      /\ Len(sampled') = m + n + 1
      /\ \A i \in 1 .. m + n : sampled'[i] = sampled[i]
      /\ sampled'[m + n + 1] = b
  BY <1>1, <1>2, DrawAppends
<1>4. ASSUME NEW i \in 1 .. m
      PROVE  returned[i].batch = sampled'[i]
  BY <1>1, <1>2, <1>3 DEF InOrder
<1>5. ASSUME NEW i \in 1 .. n + 1
      PROVE  window_buffer'[i] = sampled'[m + i]
  <2>1. CASE i \in 1 .. n
    <3>1. m + i \in 1 .. m + n
      BY <1>2, <2>1
    <3>2. window_buffer[i] = sampled[m + i]
      BY <1>1, <2>1 DEF InOrder
    <3>3. QED
      BY <1>3, <2>1, <3>1, <3>2
  <2>2. CASE i = n + 1
    BY <1>2, <1>3, <2>2
  <2>3. QED
    BY <1>2, <2>1, <2>2
<1>6. returned' = returned
  OBVIOUS
<1>7. /\ Len(sampled') = Len(returned') + Len(window_buffer')
      /\ \A i \in 1 .. Len(returned') : returned'[i].batch = sampled'[i]
      /\ \A i \in 1 .. Len(window_buffer') :
           window_buffer'[i] = sampled'[Len(returned') + i]
  <2>1. Len(returned') = m
    BY <1>6
  <2> HIDE DEF n, m
  <2>2. QED
    BY <1>2, <1>3, <1>4, <1>5, <1>6, <2>1
<1>8. QED
  BY <1>7 DEF InOrder

\* A batch handed out moves from the front of the window to the end of "returned".
LEMMA HandInOrder ==
  ASSUME LoaderInv, window_buffer # <<>>, NEW f \in FeatureLists, Hand(f)
  PROVE  InOrder' /\ returned' \in Seq(Returned)
<1>1. InOrder /\ returned \in Seq(Returned) /\ window_buffer \in Seq(Batch)
  BY DEF LoaderInv, SeqsOK, TypeOK
<1> DEFINE n == Len(window_buffer)
<1> DEFINE m == Len(returned)
<1> DEFINE r == [batch |-> Head(window_buffer), features |-> f]
<1>2. n \in Nat /\ m \in Nat /\ Len(sampled) = m + n
  BY <1>1 DEF InOrder
<1>3. returned' = Append(returned, r) /\ window_buffer' = Tail(window_buffer)
      /\ sampled' = sampled
  BY DEF Hand
<1>4. /\ Head(window_buffer) = window_buffer[1]
      /\ Head(window_buffer) \in Batch
      /\ n > 0
      /\ Len(window_buffer') = n - 1
      /\ \A i \in 1 .. n - 1 : window_buffer'[i] = window_buffer[i + 1]
  BY <1>1, <1>3, Dropped
<1>5. r \in Returned
  BY <1>4 DEF Returned
<1>6. /\ returned' \in Seq(Returned)
      /\ Len(returned') = m + 1
      /\ \A i \in 1 .. m : returned'[i] = returned[i]
      /\ returned'[m + 1] = r
  BY <1>1, <1>3, <1>5, Appended
<1>7. window_buffer[1] = sampled[m + 1]
  BY <1>1, <1>2, <1>4 DEF InOrder
<1>8. ASSUME NEW i \in 1 .. m + 1
      PROVE  returned'[i].batch = sampled[i]
  <2>1. CASE i \in 1 .. m
    BY <1>1, <1>6, <2>1 DEF InOrder
  <2>2. CASE i = m + 1
    BY <1>4, <1>6, <1>7, <2>2
  <2>3. QED
    BY <1>2, <2>1, <2>2
<1>9. ASSUME NEW i \in 1 .. n - 1
      PROVE  window_buffer'[i] = sampled[m + 1 + i]
  <2>1. i + 1 \in 1 .. n /\ m + 1 + i = m + (i + 1)
    BY <1>2
  <2>2. window_buffer[i + 1] = sampled[m + (i + 1)]
    BY <1>1, <2>1 DEF InOrder
  <2>3. QED
    BY <1>4, <2>1, <2>2
<1>10. /\ Len(sampled') = Len(returned') + Len(window_buffer')
       /\ \A i \in 1 .. Len(returned') : returned'[i].batch = sampled'[i]
       /\ \A i \in 1 .. Len(window_buffer') :
            window_buffer'[i] = sampled'[Len(returned') + i]
  <2> HIDE DEF n, m, r
  <2>1. Len(sampled') = Len(returned') + Len(window_buffer')
    BY <1>2, <1>3, <1>4, <1>6
  <2>2. \A i \in 1 .. Len(returned') : returned'[i].batch = sampled'[i]
    BY <1>3, <1>6, <1>8
  <2>3. \A i \in 1 .. Len(window_buffer') :
          window_buffer'[i] = sampled'[Len(returned') + i]
    BY <1>3, <1>4, <1>6, <1>9
  <2>4. QED
    BY <2>1, <2>2, <2>3
<1>11. QED
  BY <1>6, <1>10 DEF InOrder

\* Features are handed out with the batch they are those of.
LEMMA PopHands ==
  ASSUME LoaderInv, Pop
  PROVE  /\ window_buffer # <<>> /\ Head(window_buffer) \in Batch
         /\ UNCHANGED warned
         /\ \E f \in Features(Head(window_buffer), warned', Blank) : Hand(f)
<1>1. pc = "pop" /\ Hand(Head(return_torch_buffer)) /\ UNCHANGED warned
  BY DEF Pop
<1>2. /\ window_buffer # <<>> /\ window_buffer \in Seq(Batch)
      /\ return_torch_buffer # <<>> /\ return_torch_buffer \in Seq(FeatureLists)
  BY <1>1 DEF LoaderInv, TypeOK, SeqsOK
<1>3. /\ Head(return_torch_buffer) = return_torch_buffer[1]
      /\ Len(return_torch_buffer) > 0
      /\ Head(window_buffer) = window_buffer[1] /\ Head(window_buffer) \in Batch
  BY <1>2, Dropped
<1>4. 1 \in 1 .. Len(return_torch_buffer)
  BY <1>2, <1>3
<1>5. return_torch_buffer[1] \in Features(window_buffer[1], warned, Blank)
  BY <1>4 DEF LoaderInv, FeaturesAligned
<1>6. QED
  BY <1>1, <1>2, <1>3, <1>5

\* read_feature reads the features of the batch that leaves.
LEMMA ReadHands ==
  ASSUME NFiles = 1, LoaderInv, Read
  PROVE  /\ window_buffer # <<>> /\ Head(window_buffer) \in Batch
         /\ warned \subseteq warned'
         /\ \E f \in Features(Head(window_buffer), warned', Blank) : Hand(f)
<1> DEFINE b == Head(window_buffer)
<1>1. PICK short \in Shorts(Unbuffered(b)) :
         Hand(ReadFeature(b, short)) /\ Warn(Unbuffered(b), short)
  BY DEF Read
<1>2. window_buffer # <<>> /\ window_buffer \in Seq(Batch) /\ ~accumulator_flag
  BY DEF Read, LoaderInv, TypeOK, GroupOK
<1>3. b \in Batch
  BY <1>2, Dropped
<1>4. DOMAIN short \subseteq warned' /\ warned \subseteq warned'
  BY <1>1 DEF Warn
<1> HIDE DEF b
<1>5. ReadFeature(b, short) \in Features(b, warned', Blank)
  BY <1>2, <1>3, <1>4, ReadIsOwn DEF LoaderInv
<1>6. QED
  BY <1>1, <1>2, <1>3, <1>4, <1>5 DEF b

\* Every step keeps the order of the batches.
LEMMA OrderStep ==
  ASSUME NFiles = 1
  PROVE  LoaderInv /\ Next => InOrder'
<1> SUFFICES ASSUME LoaderInv, Next
             PROVE  InOrder'
  OBVIOUS
<1>0. InOrder
  BY DEF LoaderInv
<1> USE <1>0 DEF InOrder
<1>1. CASE AllocateBuffer
  BY <1>1 DEF AllocateBuffer, scriptVars, optionVars
<1>2. CASE PinRows
  BY <1>2 DEF PinRows, scriptVars, optionVars
<1>3. CASE StartLoop
  BY <1>3 DEF StartLoop, scriptVars, optionVars
<1>4. CASE Fetch
  BY <1>4 DEF Fetch, optionVars, drawVars
<1>5. CASE FillDone
  BY <1>5 DEF FillDone, optionVars, drawVars
<1>6. CASE GatherBuffered
  BY <1>6 DEF GatherBuffered, Count, optionVars, drawVars
<1>7. CASE Pop
  BY <1>7, PopHands, HandInOrder, FeaturesAreLists
<1>8. CASE Read
  BY <1>8, ReadHands, HandInOrder, FeaturesAreLists
<1>9. CASE StopIteration
  BY <1>9 DEF StopIteration, optionVars, drawVars
<1>10. ASSUME NEW b \in Batch, Fill(b)
      PROVE  InOrder'
  <2>1. Draw(b, TRUE) /\ TRUE \in BOOLEAN /\ UNCHANGED returned
    BY <1>10 DEF Fill
  <2>2. QED
    BY <2>1, DrawInOrder
<1>11. ASSUME NEW b \in Batch, NextBatch(b)
      PROVE  InOrder'
  <2>1. /\ Draw(b, window_buffering_flag) /\ window_buffering_flag \in BOOLEAN
        /\ UNCHANGED returned
    BY <1>11 DEF NextBatch, LoaderInv, TypeOK
  <2>2. QED
    BY <2>1, DrawInOrder
<1>12. ASSUME NEW b \in Batch, Gather(b)
      PROVE  InOrder'
  <2>1. /\ Draw(b, window_buffering_flag) /\ window_buffering_flag \in BOOLEAN
        /\ UNCHANGED returned
    BY <1>12 DEF Gather, Count, LoaderInv, TypeOK
  <2>2. QED
    BY <2>1, DrawInOrder
<1>13. ASSUME NEW hits \in 0 .. current_access, Merge(hits)
      PROVE  InOrder'
  BY <1>13 DEF Merge, mergeRest, optionVars, drawVars
<1>14. CASE UNCHANGED vars
  BY <1>14 DEF vars, optionVars
<1>15. QED
  BY <1>1, <1>2, <1>3, <1>4, <1>5, <1>6, <1>7, <1>8,
     <1>9, <1>10, <1>11, <1>12, <1>13, <1>14
     DEF Next, FetchFeature

\* What is read and returned are features of the table.
LEMMA SeqsStep ==
  ASSUME NFiles = 1
  PROVE  LoaderInv /\ Next => SeqsOK'
<1> SUFFICES ASSUME LoaderInv, Next
             PROVE  SeqsOK'
  OBVIOUS
<1> USE DEF SeqsOK, LoaderInv
<1>1. CASE AllocateBuffer
  BY <1>1 DEF AllocateBuffer, scriptVars, optionVars
<1>2. CASE PinRows
  BY <1>2 DEF PinRows, scriptVars, optionVars
<1>3. CASE StartLoop
  BY <1>3 DEF StartLoop, scriptVars, optionVars
<1>4. CASE Fetch
  BY <1>4 DEF Fetch, optionVars, drawVars
<1>5. CASE FillDone
  BY <1>5 DEF FillDone, optionVars, drawVars
<1>6. CASE GatherBuffered
  BY <1>6 DEF GatherBuffered, Count, optionVars, drawVars
<1>7. CASE Pop
  <2>1. returned' \in Seq(Returned)
    BY <1>7, PopHands, HandInOrder, FeaturesAreLists
  <2>2. return_torch_buffer' \in Seq(FeatureLists)
    BY <1>7, Dropped DEF Pop, TypeOK
  <2>3. QED
    BY <2>1, <2>2
<1>8. CASE Read
  <2>1. returned' \in Seq(Returned)
    BY <1>8, ReadHands, HandInOrder, FeaturesAreLists
  <2>2. QED
    BY <1>8, <2>1 DEF Read
<1>9. CASE StopIteration
  BY <1>9 DEF StopIteration, optionVars, drawVars
<1>10. ASSUME NEW b \in Batch, Fill(b)
      PROVE  SeqsOK'
  BY <1>10 DEF Fill
<1>11. ASSUME NEW b \in Batch, NextBatch(b)
      PROVE  SeqsOK'
  BY <1>11 DEF NextBatch
<1>12. ASSUME NEW b \in Batch, Gather(b)
      PROVE  SeqsOK'
  BY <1>12 DEF Gather, Count
<1>13. ASSUME NEW hits \in 0 .. current_access, Merge(hits)
      PROVE  SeqsOK'
  <2>1. UNCHANGED returned
    BY <1>13 DEF Merge, mergeRest
  <2>2. QED
    BY <1>13, <2>1, MergedRead
<1>14. CASE UNCHANGED vars
  BY <1>14 DEF vars, optionVars
<1>15. QED
  BY <1>1, <1>2, <1>3, <1>4, <1>5, <1>6, <1>7, <1>8,
     <1>9, <1>10, <1>11, <1>12, <1>13, <1>14
     DEF Next, FetchFeature

\* The rows that are not served are the same as long as nothing changes in the store.
LEMMA BlankSame ==
  ASSUME UNCHANGED <<storeVars, accumulator_flag>>
  PROVE  UNCHANGED Blank
BY DEF storeVars, Blank, Buffered

\* A batch drawn stands behind those whose features wait.
LEMMA DrawAligned ==
  ASSUME LoaderInv, NEW b \in Batch, NEW announce \in BOOLEAN, Draw(b, announce),
         UNCHANGED <<return_torch_buffer, storeVars, accumulator_flag, warned>>
  PROVE  FeaturesAligned'
<1>1. TypeOK /\ FeaturesAligned /\ return_torch_buffer \in Seq(FeatureLists)
  BY DEF LoaderInv, SeqsOK
<1>2. /\ Len(window_buffer') = Len(window_buffer) + 1
      /\ Len(window_buffer) \in Nat
      /\ \A i \in 1 .. Len(window_buffer) : window_buffer'[i] = window_buffer[i]
  BY <1>1, DrawAppends
<1>3. Len(return_torch_buffer) \in Nat /\ Len(return_torch_buffer) <= Len(window_buffer)
  BY <1>1 DEF FeaturesAligned
<1>4. ASSUME NEW i \in 1 .. Len(return_torch_buffer)
      PROVE  return_torch_buffer[i] \in Features(window_buffer'[i], warned, Blank)
  BY <1>1, <1>2, <1>3 DEF FeaturesAligned
<1>5. UNCHANGED Blank
  BY BlankSame
<1>6. QED
  BY <1>2, <1>3, <1>4, <1>5 DEF FeaturesAligned

\* A batch handed out takes its features along.
LEMMA PopAligned ==
  ASSUME LoaderInv, Pop
  PROVE  FeaturesAligned'
<1> DEFINE w == window_buffer
<1> DEFINE f == return_torch_buffer
<1>1. w \in Seq(Batch) /\ w # <<>> /\ f \in Seq(FeatureLists) /\ f # <<>>
  BY DEF Pop, LoaderInv, TypeOK, SeqsOK
<1>2. window_buffer' = Tail(w) /\ return_torch_buffer' = Tail(f)
  BY DEF Pop, Hand
<1>3. /\ Len(window_buffer') = Len(w) - 1 /\ Len(w) > 0
      /\ \A i \in 1 .. Len(w) - 1 : window_buffer'[i] = w[i + 1]
  BY <1>1, <1>2, Dropped
<1>4. /\ Len(return_torch_buffer') = Len(f) - 1 /\ Len(f) > 0
      /\ \A i \in 1 .. Len(f) - 1 : return_torch_buffer'[i] = f[i + 1]
  BY <1>1, <1>2, Dropped
<1>5. Len(f) <= Len(w) /\ \A i \in 1 .. Len(f) : f[i] \in Features(w[i], warned, Blank)
  BY DEF LoaderInv, FeaturesAligned
<1>6. Len(f) \in Nat /\ Len(w) \in Nat
  BY <1>1
<1>0. UNCHANGED warned /\ UNCHANGED Blank
  BY BlankSame DEF Pop, Hand, optionVars
<1> HIDE DEF f, w
<1>7. ASSUME NEW i \in 1 .. Len(f) - 1
      PROVE  return_torch_buffer'[i] \in Features(window_buffer'[i], warned, Blank)
  <2>1. i + 1 \in 1 .. Len(f) /\ i \in 1 .. Len(w) - 1
    BY <1>5, <1>6
  <2>2. QED
    BY <1>3, <1>4, <1>5, <2>1
<1>8. Len(return_torch_buffer') <= Len(window_buffer')
  BY <1>3, <1>4, <1>5, <1>6
<1>9. QED
  BY <1>0, <1>4, <1>7, <1>8 DEF FeaturesAligned

\* Every step keeps the features that wait aligned with their batches.
LEMMA AlignedStep ==
  ASSUME NFiles = 1
  PROVE  LoaderInv /\ Next => FeaturesAligned'
<1> SUFFICES ASSUME LoaderInv, Next
             PROVE  FeaturesAligned'
  OBVIOUS
<1>0. FeaturesAligned
  BY DEF LoaderInv
<1> USE <1>0 DEF FeaturesAligned
<1>1. CASE AllocateBuffer
  <2>1. return_torch_buffer' = <<>> /\ UNCHANGED window_buffer
    BY <1>1 DEF AllocateBuffer, scriptVars, LoaderInv, StoreOK
  <2>2. QED
    BY <2>1
<1>2. CASE PinRows
  <2>1. return_torch_buffer' = <<>> /\ UNCHANGED window_buffer
    BY <1>2 DEF PinRows, scriptVars, LoaderInv, StoreOK
  <2>2. QED
    BY <2>1
<1>a. ASSUME UNCHANGED <<storeVars, accumulator_flag, warned, window_buffer,
                         return_torch_buffer>>
      PROVE  FeaturesAligned'
  BY <1>a, BlankSame
<1>3. CASE StartLoop
  BY <1>3, <1>a DEF StartLoop, scriptVars, optionVars
<1>4. CASE Fetch
  BY <1>4, <1>a DEF Fetch, optionVars, drawVars
<1>5. CASE FillDone
  BY <1>5, <1>a DEF FillDone, optionVars, drawVars
<1>6. CASE GatherBuffered
  BY <1>6, <1>a DEF GatherBuffered, Count, optionVars, drawVars
<1>7. CASE Pop
  BY <1>7, PopAligned
<1>8. CASE Read
  <2>1. window_buffer # <<>> /\ window_buffer \in Seq(Batch)
    BY <1>8, ReadHands DEF LoaderInv, TypeOK
  <2>2. return_torch_buffer' = <<>>
    BY <1>8 DEF Read, LoaderInv, GroupOK
  <2>3. Len(window_buffer') \in Nat
    BY <1>8, <2>1, ReadHands, Dropped DEF Hand
  <2>4. QED
    BY <2>2, <2>3
<1>9. CASE StopIteration
  BY <1>9, <1>a DEF StopIteration, optionVars, drawVars
<1>10. ASSUME NEW b \in Batch, Fill(b)
      PROVE  FeaturesAligned'
  <2>1. /\ Draw(b, TRUE) /\ TRUE \in BOOLEAN
        /\ UNCHANGED <<return_torch_buffer, storeVars, accumulator_flag, warned>>
    BY <1>10 DEF Fill, optionVars
  <2>2. QED
    BY <2>1, DrawAligned
<1>11. ASSUME NEW b \in Batch, NextBatch(b)
      PROVE  FeaturesAligned'
  <2>1. /\ Draw(b, window_buffering_flag) /\ window_buffering_flag \in BOOLEAN
        /\ UNCHANGED <<return_torch_buffer, storeVars, accumulator_flag, warned>>
    BY <1>11 DEF NextBatch, LoaderInv, TypeOK, optionVars
  <2>2. QED
    BY <2>1, DrawAligned
<1>12. ASSUME NEW b \in Batch, Gather(b)
      PROVE  FeaturesAligned'
  <2>1. /\ Draw(b, window_buffering_flag) /\ window_buffering_flag \in BOOLEAN
        /\ UNCHANGED <<return_torch_buffer, storeVars, accumulator_flag, warned>>
    BY <1>12 DEF Gather, Count, LoaderInv, TypeOK, optionVars
  <2>2. QED
    BY <2>1, DrawAligned
<1>13. ASSUME NEW hits \in 0 .. current_access, Merge(hits)
      PROVE  FeaturesAligned'
  <2>1. /\ num_iter \in 1 .. Len(window_buffer)
        /\ Len(return_torch_buffer') = num_iter
        /\ \A i \in 1 .. num_iter :
             return_torch_buffer'[i] \in Features(window_buffer[i], warned', Blank)
    BY <1>13, MergedRead DEF LoaderInv
  <2>2. window_buffer' = window_buffer /\ UNCHANGED Blank
    BY <1>13, BlankSame DEF Merge, mergeRest, drawVars, optionVars
  <2>3. Len(window_buffer) \in Nat
    BY DEF LoaderInv, TypeOK
  <2>4. QED
    BY <2>1, <2>2, <2>3
<1>14. CASE UNCHANGED vars
  BY <1>14, <1>a DEF vars, optionVars
<1>15. QED
  BY <1>1, <1>2, <1>3, <1>4, <1>5, <1>6, <1>7, <1>8,
     <1>9, <1>10, <1>11, <1>12, <1>13, <1>14
     DEF Next, FetchFeature

\* Every step keeps the window as long as fetch_feature needs it there.
LEMMA WindowStep ==
  ASSUME NFiles = 1
  PROVE  LoaderInv /\ Next => WindowOK'
<1> SUFFICES ASSUME LoaderInv, Next
             PROVE  WindowOK'
  OBVIOUS
<1> USE DEF LoaderInv, TypeOK, WindowOK, InGroup
<1>1. CASE AllocateBuffer
  BY <1>1 DEF AllocateBuffer, scriptVars, optionVars
<1>2. CASE PinRows
  BY <1>2 DEF PinRows, scriptVars, optionVars
<1>3. CASE StartLoop
  BY <1>3 DEF StartLoop, scriptVars, optionVars
<1>4. CASE Fetch
  BY <1>4 DEF Fetch, optionVars, drawVars
<1>5. CASE FillDone
  BY <1>5 DEF FillDone, optionVars, drawVars
<1>6. CASE GatherBuffered
  BY <1>6 DEF GatherBuffered, Count, optionVars, drawVars
<1>7. CASE Pop
  <2>1. Hand(Head(return_torch_buffer)) /\ window_buffer # <<>>
    BY <1>7 DEF Pop
  <2>2. Len(window_buffer') = Len(window_buffer) - 1 /\ Len(window_buffer) \in Nat
    BY <2>1, Dropped DEF Hand
  <2>3. QED
    BY <1>7, <2>1, <2>2 DEF Pop, Hand, optionVars
<1>8. CASE Read
  <2>1. PICK f : Hand(f) /\ window_buffer # <<>>
    BY <1>8, ReadHands
  <2>2. Len(window_buffer') = Len(window_buffer) - 1 /\ Len(window_buffer) \in Nat
    BY <2>1, Dropped DEF Hand
  <2>3. QED
    BY <1>8, <2>1, <2>2 DEF Read, Hand, optionVars
<1>9. CASE StopIteration
  BY <1>9 DEF StopIteration, optionVars, drawVars
<1>10. ASSUME NEW b \in Batch, Fill(b)
      PROVE  WindowOK'
  <2>1. Draw(b, TRUE) /\ TRUE \in BOOLEAN
    BY <1>10 DEF Fill
  <2>2. /\ Len(window_buffer') = Len(window_buffer) + 1 /\ Len(window_buffer) \in Nat
        /\ window_buffering_flag /\ announced = sampled => announced' = sampled'
    BY <2>1, DrawAppends
  <2>3. QED
    BY <1>10, <2>2 DEF Fill, optionVars
<1>11. ASSUME NEW b \in Batch, NextBatch(b)
      PROVE  WindowOK'
  <2>1. Draw(b, window_buffering_flag) /\ window_buffering_flag \in BOOLEAN
    BY <1>11 DEF NextBatch, LoaderInv, TypeOK
  <2>2. /\ Len(window_buffer') = Len(window_buffer) + 1 /\ Len(window_buffer) \in Nat
        /\ window_buffering_flag /\ announced = sampled => announced' = sampled'
    BY <2>1, DrawAppends
  <2>3. QED
    BY <1>11, <2>2 DEF NextBatch, optionVars
<1>12. ASSUME NEW b \in Batch, Gather(b)
      PROVE  WindowOK'
  <2>1. Draw(b, window_buffering_flag) /\ window_buffering_flag \in BOOLEAN
    BY <1>12 DEF Gather
  <2>2. /\ Len(window_buffer') = Len(window_buffer) + 1 /\ Len(window_buffer) \in Nat
        /\ window_buffering_flag /\ announced = sampled => announced' = sampled'
    BY <2>1, DrawAppends
  <2>3. QED
    BY <1>12, <2>2 DEF Gather, Count, optionVars
<1>13. ASSUME NEW hits \in 0 .. current_access, Merge(hits)
      PROVE  WindowOK'
  BY <1>13 DEF Merge, mergeRest, optionVars, drawVars
<1>14. CASE UNCHANGED vars
  BY <1>14 DEF vars, optionVars
<1>15. QED
  BY <1>1, <1>2, <1>3, <1>4, <1>5, <1>6, <1>7, <1>8,
     <1>9, <1>10, <1>11, <1>12, <1>13, <1>14
     DEF Next, FetchFeature

\* All of it together.
LEMMA LoaderInvInductive ==
  ASSUME NFiles = 1
  PROVE  LoaderInv /\ [Next]_vars => LoaderInv'
<1> SUFFICES ASSUME LoaderInv, [Next]_vars
             PROVE  LoaderInv'
  OBVIOUS
<1>1. CASE Next
  BY <1>1, TypeStep, SeqsStep, StoreStep, GroupStep, OrderStep, AlignedStep, WindowStep
     DEF LoaderInv
<1>2. CASE UNCHANGED vars
  <2>1. FeaturesAligned'
    BY <1>2, BlankSame DEF vars, optionVars, LoaderInv, FeaturesAligned
  <2>2. (TypeOK /\ SeqsOK /\ StoreOK /\ GroupOK /\ InOrder /\ WindowOK)'
    BY <1>2 DEF vars, storeVars, optionVars, groupVars, LoaderInv, TypeOK, SeqsOK, StoreOK,
                GroupOK, InOrder, WindowOK, InGroup
  <2>3. QED
    BY <2>1, <2>2 DEF LoaderInv
<1>3. QED
  BY <1>1, <1>2
------------------------------------------------------------------------------
(* Its consequences, and the refinement of BatchPipe *)

\* The inductive invariant holds.
THEOREM LoaderInvariant ==
  ASSUME NFiles = 1
  PROVE  Spec => []LoaderInv
<1>1. Init => LoaderInv
  BY InitInv
<1>2. LoaderInv /\ [Next]_vars => LoaderInv'
  BY LoaderInvInductive
<1>3. QED
  BY <1>1, <1>2, PTL DEF Spec

\* Type correctness, and with it that fetch_feature never takes a batch or its
\* features from an empty list, in whatever place an earlier loop ended.
THEOREM LoaderTypes ==
  ASSUME NFiles = 1
  PROVE  Spec => []TypeOK
<1>1. LoaderInv => TypeOK
  BY DEF LoaderInv
<1>2. QED
  BY <1>1, LoaderInvariant, PTL

\* return_torch_buffer and window_buffer stay aligned: the features read ahead are
\* those of the oldest batches, however loops end (GIDS_IX.py:327-329).
THEOREM LoaderFeaturesAligned ==
  ASSUME NFiles = 1
  PROVE  Spec => []FeaturesAligned
<1>1. LoaderInv => FeaturesAligned
  BY DEF LoaderInv
<1>2. QED
  BY <1>1, LoaderInvariant, PTL

\* Whenever a batch has been returned, the store was told of wb_size batches
\* beyond those returned (window_buffering, GIDS_IX.py:271-294).
THEOREM LoaderWindowStaysOpen ==
  ASSUME NFiles = 1
  PROVE  Spec => []WindowStaysOpen
<1>1. LoaderInv => WindowStaysOpen
  <2> SUFFICES ASSUME LoaderInv
               PROVE  WindowStaysOpen
    OBVIOUS
  <2>1. /\ Len(returned) \in Nat /\ Len(window_buffer) \in Nat /\ wb_size \in Nat
        /\ Len(sampled) = Len(returned) + Len(window_buffer)
    BY DEF LoaderInv, TypeOK, SeqsOK, InOrder
  <2>2. window_buffering_flag =>
          /\ announced = sampled
          /\ returned # <<>> => Len(window_buffer) >= wb_size
    BY DEF LoaderInv, WindowOK
  <2>3. QED
    BY <2>1, <2>2 DEF WindowStaysOpen
<1>2. QED
  BY <1>1, LoaderInvariant, PTL
------------------------------------------------------------------------------
\* One step of the loader is a step of BatchPipe or leaves what it shows alone.
LEMMA StepOfPipe ==
  ASSUME NFiles = 1
  PROVE  LoaderInv /\ [Next]_vars => [Pipe!Next]_<<sampled, returned, warned, Blank>>
<1> SUFFICES ASSUME LoaderInv, [Next]_vars
             PROVE  [Pipe!Next]_<<sampled, returned, warned, Blank>>
  OBVIOUS
<1>a. ASSUME NEW f \in Features(Head(window_buffer), warned', Blank), Hand(f),
             window_buffer # <<>>, warned \subseteq warned'
      PROVE  Pipe!Return
  <2>1. /\ window_buffer \in Seq(Batch) /\ returned \in Seq(Returned)
        /\ Len(sampled) = Len(returned) + Len(window_buffer)
        /\ \A i \in 1 .. Len(window_buffer) :
             window_buffer[i] = sampled[Len(returned) + i]
    BY DEF LoaderInv, TypeOK, SeqsOK, InOrder
  <2>2. Head(window_buffer) = window_buffer[1] /\ Len(window_buffer) > 0
    BY <1>a, <2>1, Dropped
  <2>3. Len(returned) \in Nat /\ Len(window_buffer) \in Nat
    BY <2>1
  <2>4. 1 \in 1 .. Len(window_buffer)
    BY <2>2, <2>3
  <2>5. Head(window_buffer) = sampled[Len(returned) + 1]
    BY <2>1, <2>2, <2>4
  <2>6. Len(returned) < Len(sampled)
    BY <2>1, <2>2, <2>3
  <2>7. /\ returned' = Append(returned, [batch |-> Head(window_buffer), features |-> f])
        /\ UNCHANGED sampled
    BY <1>a DEF Hand
  <2>8. UNCHANGED Blank
    BY <1>a, BlankSame DEF Hand, optionVars
  <2>9. QED
    BY <1>a, <2>5, <2>6, <2>7, <2>8 DEF Pipe!Return
<1>b. ASSUME UNCHANGED <<storeVars, accumulator_flag, sampled, returned, warned>>
      PROVE  UNCHANGED <<sampled, returned, warned, Blank>>
  BY <1>b, BlankSame
<1>c. ASSUME NEW b \in Batch, NEW announce, Draw(b, announce),
             UNCHANGED <<storeVars, accumulator_flag, returned, warned>>
      PROVE  Pipe!Next
  BY <1>c, BlankSame DEF Draw, Pipe!Next, Pipe!Sample
<1>1. CASE AllocateBuffer
  BY <1>1 DEF AllocateBuffer, scriptVars, LoaderInv, StoreOK, Pipe!Next, Pipe!SetUp
<1>2. CASE PinRows
  BY <1>2 DEF PinRows, scriptVars, LoaderInv, StoreOK, Pipe!Next, Pipe!SetUp
<1>3. CASE StartLoop
  BY <1>3, <1>b DEF StartLoop, scriptVars, optionVars
<1>4. CASE Fetch
  BY <1>4, <1>b DEF Fetch, drawVars, optionVars
<1>5. CASE FillDone
  BY <1>5, <1>b DEF FillDone, drawVars, optionVars
<1>6. CASE GatherBuffered
  BY <1>6, <1>b DEF GatherBuffered, Count, drawVars, optionVars
<1>7. CASE Pop
  BY <1>7, PopHands, <1>a DEF Pipe!Next
<1>8. CASE Read
  BY <1>8, ReadHands, <1>a DEF Pipe!Next
<1>9. CASE StopIteration
  BY <1>9, <1>b DEF StopIteration, drawVars, optionVars
<1>10. ASSUME NEW b \in Batch, Fill(b)
      PROVE  Pipe!Next
  BY <1>10, <1>c DEF Fill, optionVars
<1>11. ASSUME NEW b \in Batch, NextBatch(b)
      PROVE  Pipe!Next
  BY <1>11, <1>c DEF NextBatch, optionVars
<1>12. ASSUME NEW b \in Batch, Gather(b)
      PROVE  Pipe!Next
  BY <1>12, <1>c DEF Gather, Count, optionVars
<1>13. ASSUME NEW hits \in 0 .. current_access, Merge(hits)
      PROVE  Pipe!Next
  <2>1. UNCHANGED <<storeVars, accumulator_flag, sampled, returned>>
    BY <1>13 DEF Merge, mergeRest, drawVars, optionVars
  <2>2. warned \subseteq warned'
    BY <1>13 DEF Merge, Warn
  <2>3. QED
    BY <2>1, <2>2, BlankSame DEF Pipe!Next, Pipe!Lose
<1>14. CASE UNCHANGED vars
  BY <1>14, <1>b DEF vars, optionVars
<1>15. QED
  BY <1>1, <1>2, <1>3, <1>4, <1>5, <1>6, <1>7,
     <1>8, <1>9, <1>10, <1>11, <1>12, <1>13, <1>14 DEF Next, FetchFeature

\* The loader implements BatchPipe: every batch the sampler draws is handed out
\* once, in the order it was drawn, with the features of its own nodes as far as they
\* were read (fetch_feature, GIDS_IX.py:307-505), however the script prepares the
\* store and whatever reads come short.
THEOREM LoaderIsBatchPipe ==
  ASSUME NFiles = 1
  PROVE  Spec => IsBatchPipe
<1>1. Init => Pipe!Init
  BY DEF Init, StoreInit, Blank, Buffered, Pipe!Init
<1>2. LoaderInv /\ [Next]_vars => [Pipe!Next]_<<sampled, returned, warned, Blank>>
  BY StepOfPipe
<1>3. Spec => []LoaderInv
  BY LoaderInvariant
<1>4. QED
  BY <1>1, <1>2, <1>3, PTL DEF Spec, IsBatchPipe, Pipe!Spec
------------------------------------------------------------------------------
\* What is appended to "returned" is a batch with its own features, and what was
\* there stays so when more rows are lost.
LEMMA OwnStep ==
  ASSUME NFiles = 1
  PROVE  LoaderInv /\ OwnFeatures /\ [Next]_vars => OwnFeatures'
<1> SUFFICES ASSUME LoaderInv, OwnFeatures, [Next]_vars
             PROVE  OwnFeatures'
  OBVIOUS
<1>a. ASSUME NEW i \in 1 .. Len(returned), warned \subseteq warned'
      PROVE  returned[i].features \in Features(returned[i].batch, warned', Blank)
  BY <1>a, FeaturesGrow DEF OwnFeatures
<1>1. CASE Pipe!SetUp
  <2>1. sampled = <<>> /\ UNCHANGED returned
    BY <1>1 DEF Pipe!SetUp
  <2>2. Len(returned) = 0
    BY <2>1 DEF LoaderInv, SeqsOK, TypeOK, InOrder
  <2>3. QED
    BY <2>1, <2>2 DEF OwnFeatures
<1>2. CASE Pipe!Return
  <2> DEFINE b == sampled[Len(returned) + 1]
  <2>0. PICK f \in Features(b, warned', Blank) :
          returned' = Append(returned, [batch |-> b, features |-> f])
    BY <1>2 DEF Pipe!Return
  <2>1. UNCHANGED Blank /\ warned \subseteq warned' /\ returned \in Seq(Returned)
    BY <1>2 DEF Pipe!Return, LoaderInv, SeqsOK
  <2> DEFINE r == [batch |-> b, features |-> f]
  <2> DEFINE S == Returned \cup {r}
  <2>2. returned' = Append(returned, r) /\ returned \in Seq(S) /\ r \in S
    BY <2>0, <2>1
  <2>3. r.features \in Features(r.batch, warned', Blank)
    OBVIOUS
  <2> HIDE DEF r, S
  <2>4. /\ Len(returned') = Len(returned) + 1 /\ Len(returned) \in Nat
        /\ \A i \in 1 .. Len(returned) : returned'[i] = returned[i]
        /\ returned'[Len(returned) + 1] = r
    BY <2>2, Appended
  <2>5. ASSUME NEW i \in 1 .. Len(returned')
        PROVE  returned'[i].features \in Features(returned'[i].batch, warned', Blank)
    <3>1. CASE i \in 1 .. Len(returned)
      BY <1>a, <2>1, <2>4, <3>1
    <3>2. CASE i = Len(returned) + 1
      BY <2>3, <2>4, <3>2
    <3>3. QED
      BY <2>4, <3>1, <3>2
  <2>6. QED
    BY <2>1, <2>5 DEF OwnFeatures
<1>3. CASE UNCHANGED <<returned, Blank>> /\ warned \subseteq warned'
  BY <1>3, <1>a DEF OwnFeatures
<1>4. QED
  BY <1>1, <1>2, <1>3, StepOfPipe DEF Pipe!Next, Pipe!Sample, Pipe!Lose

\* With one file no batch ever comes with the features of others (read_feature,
\* read_feature_merged), and what is missing was warned of or is in a CPU buffer that
\* nobody filled; the run ix_stripe shows that more files break it.
THEOREM LoaderOwnFeatures ==
  ASSUME NFiles = 1
  PROVE  Spec => []OwnFeatures
<1>1. Init => OwnFeatures
  BY DEF Init, OwnFeatures
<1>2. LoaderInv /\ OwnFeatures /\ [Next]_vars => OwnFeatures'
  BY OwnStep
<1>3. Spec => []LoaderInv
  BY LoaderInvariant
<1>4. QED
  BY <1>1, <1>2, <1>3, PTL DEF Spec
==============================================================================
