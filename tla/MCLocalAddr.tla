---------------------------- MODULE MCLocalAddr ----------------------------
(* Model-checking instance of LocalAddr: three hosts and two ports, so     *)
(* that both wrap and a search can begin anywhere in the circle.           *)
EXTENDS LocalAddr
=============================================================================
