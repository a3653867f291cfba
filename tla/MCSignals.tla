----------------------------- MODULE MCSignals -----------------------------
(* Model-checking instances of Signals. *)
EXTENDS Signals
=============================================================================
