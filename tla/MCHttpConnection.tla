---------------------------- MODULE MCHttpConnection ----------------------------
(***************************************************************************)
(* The sizes of chunks for model checking.                                 *)
(***************************************************************************)
EXTENDS HttpConnection

\* Two that fit; one so large that the sum with its line end overflows; and those below 0 of
\* which one byte, none, and more than there can be are waited for.
MCChunkLength == {1, 2, IntMax, -1, -2, -3}
=============================================================================
