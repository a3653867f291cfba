---------------------------- MODULE MCHybridbuf ----------------------------
(* Model-checking instance of Hybridbuf.  Byte values are only moved,      *)
(* never compared, so they may be permuted.                                *)
EXTENDS Hybridbuf, TLC

Symmetry == Permutations(Byte)
=============================================================================
