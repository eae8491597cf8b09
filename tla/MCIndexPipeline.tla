-------------------------- MODULE MCIndexPipeline --------------------------
(* Small instances of IndexPipeline.                                       *)
(*                                                                         *)
(* All atoms but d3 carry the same body.  d1, d2 and d3 come from one      *)
(* connector, so that one batch may hold both copies, and d1 and d3 both   *)
(* declare that they supersede g1.  l1 comes from a connector whose atoms  *)
(* are all quarantined.  i1 is ingested, g1 is remembered.                 *)
EXTENDS IndexPipeline, TLC

CONSTANTS d1, d2, d3, l1, i1, g1

MCSource == {"docs", "logs", "ingest", "agent"}

MCSourceOf == [a \in Atom |-> CASE a \in {d1, d2, d3} -> "docs"
                                [] a = l1 -> "logs"
                                [] a = i1 -> "ingest"
                                [] OTHER -> "agent"]

MCContentOf == [a \in Atom |-> IF a = d3 THEN "other" ELSE "body"]

MCDeclares == [a \in Atom |-> IF a \in {d1, d3} THEN {g1} ELSE {}]

\* The copies that the passes of other processes fold.
MCOneCopy == {{d1, g1}}
MCCopies == {{a, b} : a, b \in {d1, d2, i1, g1}} \ {{a} : a \in Atom}

MCSymmetry == Permutations(Worker) \cup Permutations(RowId)
============================================================================
