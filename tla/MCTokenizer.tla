---------------------------- MODULE MCTokenizer ----------------------------
(* Tokenizer for TLC: three frames, in this order.                         *)
EXTENDS Tokenizer

CONSTANTS f1, f2, f3

ThreeFrames == <<f1, f2, f3>>
=============================================================================
