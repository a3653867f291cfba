------------------------------ MODULE MCProxy ------------------------------
(* Model-checking instances of Proxy. *)
EXTENDS Proxy, TLC

Symmetry == Permutations(Conn) \union Permutations(Buf)
=============================================================================
