----------------------------- MODULE MCNextApp -----------------------------
(* Two threads, one message and one proposal. *)
EXTENDS NextApp

CONSTANTS t1, t2
=============================================================================
