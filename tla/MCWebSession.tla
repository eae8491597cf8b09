---------------------------- MODULE MCWebSession ----------------------------
(* Two tabs, a key that may write and one that may read. *)
EXTENDS WebSession

CONSTANTS r, w
=============================================================================
