-------------------------- MODULE MCConsolidation --------------------------
(* Small instances of Consolidation.                                       *)
(*                                                                         *)
(* a1, a2 and a3 are exact copies, q1 only resembles them (Jaccard over    *)
(* 0.92, not over 0.95).  A full sync can take a1 alone; q1 declares that  *)
(* it supersedes a1.                                                       *)
EXTENDS Consolidation

CONSTANTS a1, a2, a3, q1, t1, t2, t3

MCSource == {"docs", "notes"}
MCSourceOf == [a \in Atom |-> IF a = a1 THEN "docs" ELSE "notes"]
MCContentOf == [a \in Atom |-> IF a = q1 THEN "related" ELSE "body"]
MCTagsOf == [a \in Atom |-> CASE a = a1 -> {t1} [] a = a2 -> {t2} [] OTHER -> {t3}]
MCOneProject == [a \in Atom |-> "project"]
MCDeclares == [a \in Atom |-> IF a = q1 THEN {a1} ELSE {}]
MCSimilar == {{a, b} : a, b \in Atom} \ {{a} : a \in Atom}
MCSafeSimilar == {ab \in MCSimilar : q1 \notin ab}
============================================================================
