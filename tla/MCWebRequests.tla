--------------------------- MODULE MCWebRequests ---------------------------
(* Both clients, one proposal. *)
EXTENDS WebRequests
=============================================================================
