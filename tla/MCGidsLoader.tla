----------------------------- MODULE MCGidsLoader -----------------------------
(***************************************************************************)
(* Instances of GidsLoader: a table of three rows, one per page.             *)
(***************************************************************************)
EXTENDS GidsLoaderInv

\* Batches of one and of two nodes.
OneOrTwo == {<<2>>, <<1, 0>>}

\* No CPU buffer; one of a row that nobody fills; and one of two rows, of which row 2
\* is read into the first.
Pinned == {<<>>, <<1>>, <<2, <<2>>>>}

\* No CPU buffer.
Unpinned == {<<>>}
==============================================================================
