---------------------------- MODULE MCConnection ----------------------------
(***************************************************************************)
(* Model-checking instances of Connection; the .cfg files give the         *)
(* constants their values.  A request is two tokens, so that a request can *)
(* be incomplete, and a buffer holds three, so that one read can bring the *)
(* end of a request together with the beginning of the next.  The peers'   *)
(* bounds allow a second request after the mode switch.                    *)
(***************************************************************************)
EXTENDS Connection
=============================================================================
