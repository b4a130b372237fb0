----------------------------- MODULE MCLz4Blocks -----------------------------
(***************************************************************************)
(* Chunks of three bytes, fed in pieces that hold none, part of one, one   *)
(* and more than two of them, and packed to fewer, as many and more bytes. *)
(***************************************************************************)
EXTENDS Lz4Blocks

MCPieces == {0, 1, 3, 7}
MCBlockLens == {1, 3, 5}
=============================================================================
