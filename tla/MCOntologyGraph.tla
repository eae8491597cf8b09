-------------------------- MODULE MCOntologyGraph --------------------------
(* A small instance of OntologyGraph: one atom, its entity, one seeded     *)
(* class and one entity that may be proposed, and a draft of every kind.   *)
EXTENDS OntologyGraph, TLC

CONSTANTS x, entX, class, other

MCEntOf == [a \in Atom |-> entX]

MCDrafts ==
    { [kind |-> "promote_atom", atom |-> x, class |-> class],
      [kind |-> "new_link", from |-> class, to |-> other, rel |-> "references"],
      [kind |-> "new_entity", id |-> other, as |-> "instance", atom |-> x] }

MCSymmetry == Permutations(Task) \cup Permutations(ProposalId)
============================================================================
