--------------------------- MODULE MCCircularbuf ---------------------------
(* Model-checking instance of Circularbuf.  Byte values are only moved,    *)
(* never compared, so they may be permuted.                                *)
EXTENDS Circularbuf, TLC

Symmetry == Permutations(Byte)
=============================================================================
