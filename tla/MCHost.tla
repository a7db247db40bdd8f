------------------------------- MODULE MCHost -------------------------------
(* The admin queue's memory, one more mapping, and two threads. *)
EXTENDS Host, TLC

CONSTANTS t1, t2, w, q, d, m1, m2

MapsOf == w :> m1 @@ q :> m1 @@ d :> m2

\* As in Controller's destructor, one thread unmaps all that share a mapping.
OneThreadEach == w :> t1 @@ q :> t1 @@ d :> t2

\* The window is unmapped by another thread than the reference.
WindowApart == w :> t2 @@ q :> t1 @@ d :> t2
==============================================================================
