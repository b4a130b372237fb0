----------------------------- MODULE MCHexPatch -----------------------------
(***************************************************************************)
(* TLC instance of HexPatch: every file of up to six bytes of two values,  *)
(* and patterns that overlap themselves, shorter, as long as and longer    *)
(* than their replacement; texts with spaces and signs, and such as are    *)
(* refused.                                                                *)
(***************************************************************************)
EXTENDS HexPatch

MCContents == UNION {[1 .. n -> {0, 1}] : n \in 0 .. 6}

MCPatterns ==
  {<<"0", "0">>, <<"0", "1">>, <<" ", "+", "1", "0", "0", " ">>, <<>>,
   <<"0", "0", "0", "0">>, <<"0", "1", "0", "0", "+", "1">>,
   <<"0", "1", "1", "f", "0", "0", "0", "1">>,
   <<"0">>, <<"-", "1">>, <<"0", " ", "1">>, <<"1", "g">>, <<"1", "+">>}
=============================================================================
