---------------------------- MODULE GidsLoaderInv ----------------------------
(***************************************************************************)
(* The inductive invariant of GidsLoader, for a store of one file.          *)
(***************************************************************************)
EXTENDS GidsLoader

FeatureLists == UNION {[1 .. Len(b.nodes) -> Parts] : b \in Batch}
Returned == [batch : Batch, features : FeatureLists]

InGroup == {"gather", "merge"}

\* Types that hold because a row that is read comes from its own place.
SeqsOK ==
  /\ return_torch_buffer \in Seq(FeatureLists)
  /\ returned \in Seq(Returned)

\* Nothing is drawn before the store is as the script wants it, and a CPU buffer that
\* read_feature looks at has nothing in it.
StoreOK ==
  /\ pinning \in Pinnings
  /\ pc # "script" => loop > 0
  /\ loop = 0 => sampled = <<>> /\ return_torch_buffer = <<>>
  /\ seq_flag => cpu_buffer \in Seq({BlankRow})

\* Features are read ahead with the accumulator only, and a group is gathered
\* when there are none left.
GroupOK ==
  /\ ~accumulator_flag => return_torch_buffer = <<>>
  /\ pc = "read" => ~accumulator_flag
  /\ pc \in InGroup \cup {"pop"} => accumulator_flag
  /\ pc \in InGroup => return_torch_buffer = <<>>

\* The batches drawn are those returned and, after them, those of the window.
InOrder ==
  /\ Len(sampled) = Len(returned) + Len(window_buffer)
  /\ \A i \in 1 .. Len(returned) : returned[i].batch = sampled[i]
  /\ \A i \in 1 .. Len(window_buffer) :
       window_buffer[i] = sampled[Len(returned) + i]

\* The window is full whenever it is used, with the batch drawn beyond it.
WindowOK ==
  window_buffering_flag =>
    /\ announced = sampled
    /\ returned # <<>> => wb_init
    /\ pc \in InGroup \cup {"next", "pop", "read"} => wb_init
    /\ pc = "fill" => Len(window_buffer) >= filled
    /\ wb_init => Len(window_buffer) >= wb_size
    /\ pc \in InGroup \cup {"pop", "read"} => Len(window_buffer) > wb_size

\* The inductive invariant: the batches and features that wait in the loader are
\* the right ones, wherever fetch_feature is and however its last call ended.
LoaderInv ==
  /\ TypeOK
  /\ SeqsOK
  /\ StoreOK
  /\ GroupOK
  /\ InOrder
  /\ FeaturesAligned
  /\ WindowOK
==============================================================================
