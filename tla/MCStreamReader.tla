---------------------------- MODULE MCStreamReader ---------------------------
(* An instance of StreamReader for TLC: two whole parts and a shorter one,  *)
(* and uneven parts; with and without a nonce that overflows.               *)
EXTENDS StreamReader
SomeFiles == {<<5, 5, 3>>, <<5, 3, 5>>, <<3, 5>>}
TwoNonces  == {<<1, 1, 0>>, <<0, 0, 1>>}
==============================================================================
