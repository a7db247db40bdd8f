---------------------------- MODULE IxFeatureStore ----------------------------
(***************************************************************************)
(* The feature store of the cuFile port (GIDS/gids_module_ix): a table of   *)
(* node features in one file per SSD, written by tensor_write_ix.py and     *)
(* read row by row at offsets that get_file_idx and get_file_offset compute *)
(* from the number of the row, with a buffer in CPU memory for the rows the *)
(* caller pins.                                                             *)
(*                                                                          *)
(* A read may come short, for an error or at the end of a file: a warning   *)
(* is all that follows, and the rest of its row stays as it was.            *)
(*                                                                          *)
(* Sizes and offsets are in elements.  An element of the table is its       *)
(* number in row-major order; what is not of the table is Nothing.          *)
(***************************************************************************)
EXTENDS Integers, Sequences

CONSTANTS
  NRows,          \* rows of the table: nodes of the graph
  Dim,            \* elements of a row, cache_dim of every call
  ElemsPerPage,   \* pageSize / sizeof(TYPE)
  NFiles,         \* n_ctrls: one file per SSD
  Nothing         \* memory nobody wrote, or beyond the end of a file

Rows == 0 .. NRows - 1
Elements == 0 .. NRows * Dim - 1

ASSUME StoreAssumption ==
  /\ NRows \in Nat \ {0}
  /\ Dim \in Nat \ {0}
  /\ ElemsPerPage \in Nat \ {0}
  /\ NFiles \in Nat \ {0}
  /\ Nothing \notin Elements

VARIABLES
  cpu_buffer_flag,   \* a CPU buffer was allocated
  seq_flag,          \* it holds the first rows of the table, in their order
  cpu_buffer         \* its content, row after row

storeVars == <<cpu_buffer_flag, seq_flag, cpu_buffer>>

StoreInit ==
  /\ cpu_buffer_flag = FALSE
  /\ seq_flag = TRUE
  /\ cpu_buffer = <<>>
------------------------------------------------------------------------------
\* prepare_node_features: page p of the table is appended to file p % NFiles.
\* FileAt(f, o) is what it leaves at offset o of file f.
FileAt(f, o) ==
  LET page == (o \div ElemsPerPage) * NFiles + f
      element == page * ElemsPerPage + (o % ElemsPerPage)
  IN IF element \in Elements THEN element ELSE Nothing

\* The content of a row.
TableRow(r) == [i \in 1 .. Dim |-> r * Dim + i - 1]

get_file_idx(r) ==
  IF NFiles <= 1 THEN 0 ELSE (r \div ElemsPerPage) % NFiles

\* dim is the argument cache_dim; read_offset is 0.
get_file_offset(r, dim) ==
  LET page == (r * dim) \div ElemsPerPage
  IN IF NFiles <= 1
       THEN r * dim
       ELSE (page \div NFiles) * ElemsPerPage + ((r * dim) % ElemsPerPage)

\* Memory that is as torch.zeros or the allocator left it.
BlankRow == [i \in 1 .. Dim |-> Nothing]

\* file_read_to_gpu of the n elements of row r into memory nobody wrote, of which the
\* first "arrived" get there.
Transfer(r, dim, n, arrived) ==
  [i \in 1 .. n |->
     IF i <= arrived THEN FileAt(get_file_idx(r), get_file_offset(r, dim) + i - 1)
                     ELSE Nothing]

\* A read of the row runs into the end of its file.
PastEnd(r) == \E i \in 1 .. Dim : Transfer(r, Dim, Dim, Dim)[i] = Nothing

\* Fault: the buffer is used in whatever order its rows are.
BufferedAnyOrder(r) == cpu_buffer_flag /\ r < Len(cpu_buffer)

\* read_feature takes a row below cpu_buffer_len from the buffer, as long as the
\* buffer is in the order of the table.
Buffered(r) == cpu_buffer_flag /\ seq_flag /\ r < Len(cpu_buffer)

ReadRow(r, arrived) ==
  IF Buffered(r) THEN cpu_buffer[r + 1] ELSE Transfer(r, Dim, Dim, arrived)

\* read_feature_merged never looks at the CPU buffer.
ReadRowMerged(r, arrived) == Transfer(r, Dim, Dim, arrived)
------------------------------------------------------------------------------
\* cpu_backing_buffer(dim, len): memory from ixHostAlloc, not written.
CpuBackingBuffer(len) ==
  /\ cpu_buffer' = [i \in 1 .. len |-> BlankRow]
  /\ cpu_buffer_flag' = TRUE
  /\ UNCHANGED seq_flag

\* set_cpu_buffer: rows "pinned" are read into the buffer one after the other, and of
\* each the first "arrived" elements get there: it does not look at what a read returns.
\* Its stride is the member dim, the elements of a page, and not that of the
\* buffer: the model has only the layouts in which a row is a page.
SetCpuBuffer(pinned, arrived) ==
  /\ cpu_buffer_flag
  /\ Dim = ElemsPerPage
  /\ cpu_buffer' = [i \in 1 .. Len(cpu_buffer) |->
       IF i <= Len(pinned) THEN Transfer(pinned[i], ElemsPerPage, ElemsPerPage, arrived)
                           ELSE cpu_buffer[i]]
  /\ seq_flag' = FALSE
  /\ UNCHANGED cpu_buffer_flag
==============================================================================
