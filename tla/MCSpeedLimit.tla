---------------------------- MODULE MCSpeedLimit ----------------------------
(* Model-checking instance of SpeedLimit: queues of 2 bytes, a speed below *)
(* and one above that, and the 0 of an argument that is not a number.      *)
EXTENDS SpeedLimit
=============================================================================
