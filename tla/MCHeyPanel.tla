----------------------------- MODULE MCHeyPanel -----------------------------
(* Two threads: hey.md, and one that bears the id of hey.md as its name. *)
EXTENDS HeyPanel

CONSTANTS t1, t2, c1, c2, inbox, doing, old, new

MCNameOf == [t \in Thread |-> IF t = t1 THEN Alias ELSE t1]
MCFirstBoard == [t \in Thread |-> [c \in Card |->
                  IF t = t1 /\ c = c1 THEN [lane |-> inbox, text |-> old] ELSE None]]
=============================================================================
