------------------------------ MODULE MCRates ------------------------------
(* Model-checking instances of Rates: thresholds of 2 and 5 bytes, so that *)
(* a counter can be below, at and above each of them.                      *)
EXTENDS Rates
=============================================================================
