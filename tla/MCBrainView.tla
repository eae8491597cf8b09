---------------------------- MODULE MCBrainView ----------------------------
(* Small instances of BrainView: a graph of two links that share an atom. *)
EXTENDS BrainView

CONSTANTS a1, a2, a3

MCLinks == {<<a1, a2>>, <<a2, a3>>}
MCAtomSets == {{a1, a2}, {a2, a3}}
============================================================================
