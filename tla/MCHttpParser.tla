---------------------------- MODULE MCHttpParser ----------------------------
(* Model-checking instance of HttpParser: three requests, so that a HEAD   *)
(* can come before, between and after requests with another method, and    *)
(* blocks of four tokens, so that one read can bring two whole requests.   *)
EXTENDS HttpParser
=============================================================================
