--------------------------- MODULE ViewAlgorithms ---------------------------
(***************************************************************************)
(* Two algorithms behind the cortex renderer: the layers in which the      *)
(* class hierarchy is drawn (sugiyama.ts) and the choice of the synapses   *)
(* among the links that shared tags give (buildLinks, linkSelect.ts).      *)
(*                                                                         *)
(* A behaviour is one call: of assignLayers, its depth-first search step   *)
(* by step because it edits the lists it walks, or of buildLinks.          *)
(*                                                                         *)
(* Ids are numbers, in the order of the arrays and of the link keys.       *)
(* Where the layers and links are drawn is not modelled.                   *)
(***************************************************************************)
EXTENDS Integers, FiniteSets, FiniteSetsExt, SequencesExt, Functions

CONSTANTS
  Node,         \* ids: 1 .. n
  Stranger,     \* an id that is not among them
  MaxEdges,     \* bound: is_a links of a call
  Tag,
  PerTag,       \* MAX_LINKS_PER_TAG
  Nominations,  \* nominationsPerNode
  LowDegree,    \* lowDegreeKeepAll
  MaxLinks      \* maxLinks

ASSUME NodeAssumption == IsFiniteSet(Node) /\ Node \subseteq Nat /\ Stranger \notin Node
ASSUME TagsFinite == IsFiniteSet(Tag)
ASSUME NumbersAssumption == {MaxEdges, PerTag, Nominations, LowDegree, MaxLinks} \subseteq Nat
ASSUME EveryAtomNominates == Nominations > 0
ASSUME TagsLinkAtoms == PerTag > 1

VARIABLES
  pc,      \* "search", then "layered"; or "select", then "selected"
  isA,     \* the links: class and superclass
  succs,   \* the lists of assignLayers
  color,   \* of reverseBackEdges
  stack,   \* its calls of visit: the node, and the places of its list left to look at
  layers,
  tags,    \* [Node -> tags of the atom]
  kept     \* the links that buildLinks returns

search == <<isA, succs, color, stack, layers>>
links == <<tags, kept>>
callVars == <<pc, search, links>>

----------------------------------------------------------------------------
(* assignLayers *)

\* The superclasses of a class in the order of its links; links to a stranger,
\* and of a class to itself, are left out.
Listed(u) ==
  LET own == {i \in DOMAIN isA : isA[i][1] = u /\ isA[i][2] \in Node \ {u}}
      nth(k) == CHOOSE i \in own : Cardinality({j \in own : j < i}) = k - 1
  IN  [k \in 1 .. Cardinality(own) |-> isA[nth(k)][2]]

Top == Last(stack)
Looking == pc = "search" /\ stack # <<>> /\ Top.left > 0
Seen == succs[Top.node][Top.left]
LookOn == Front(stack) \o <<[Top EXCEPT !.left = @ - 1]>>
Calls(u) == [node |-> u, left |-> Len(succs[u])]

\* The next node that no call has reached.
Visit ==
  /\ pc = "search" /\ stack = <<>>
  /\ \E u \in Node :
       /\ color[u] = "white" /\ \A w \in Node : color[w] = "white" => u <= w
       /\ color' = [color EXCEPT ![u] = "gray"]
       /\ stack' = <<Calls(u)>>
  /\ UNCHANGED <<pc, isA, succs, layers, links>>

\* Fault: the edge is pushed without being spliced.
Doubled(u, i, v) == [succs EXCEPT ![v] = Append(@, u)]
Reversed(u, i, v) == [succs EXCEPT ![u] = RemoveAt(@, i), ![v] = Append(@, u)]

\* The list of a call in progress grows at its end: what is left of it stays.
BackEdge ==
  /\ Looking /\ color[Seen] = "gray"
  /\ succs' = Reversed(Top.node, Top.left, Seen)
  /\ stack' = LookOn
  /\ UNCHANGED <<pc, isA, color, layers, links>>

TreeEdge ==
  /\ Looking /\ color[Seen] = "white"
  /\ color' = [color EXCEPT ![Seen] = "gray"]
  /\ stack' = Append(LookOn, Calls(Seen))
  /\ UNCHANGED <<pc, isA, succs, layers, links>>

OtherEdge ==
  /\ Looking /\ color[Seen] = "black"
  /\ stack' = LookOn
  /\ UNCHANGED <<pc, isA, succs, color, layers, links>>

Leave ==
  /\ pc = "search" /\ stack # <<>> /\ Top.left = 0
  /\ color' = [color EXCEPT ![Top.node] = "black"]
  /\ stack' = Front(stack)
  /\ UNCHANGED <<pc, isA, succs, layers, links>>

\* With the nodes that are being visited; without cycles the memo only saves calls.
layerOf[visiting \in SUBSET Node] ==
  [u \in Node |->
     IF u \in visiting \/ succs[u] = <<>> THEN 0
     ELSE 1 + Max({layerOf[visiting \cup {u}][v] : v \in Range(succs[u])})]

Layer ==
  /\ pc = "search" /\ stack = <<>> /\ \A u \in Node : color[u] = "black"
  /\ layers' = layerOf[{}]
  /\ pc' = "layered"
  /\ UNCHANGED <<isA, succs, color, stack, links>>

----------------------------------------------------------------------------
(* buildLinks and selectIntentionalLinks *)

\* A tag links the first PerTag atoms that bear it.
LinkedBy(t) ==
  {a \in Node : t \in tags[a] /\ Cardinality({b \in Node : b < a /\ t \in tags[b]}) < PerTag}

Strength(l) == Cardinality({t \in Tag : l \subseteq LinkedBy(t)})
TagLinks == {l \in kSubset(2, Node) : Strength(l) > 0}
LinksAt(a) == {l \in TagLinks : a \in l}

\* By strength, then by key.
Before(l, m) ==
  \/ Strength(l) > Strength(m)
  \/ /\ Strength(l) = Strength(m)
     /\ \/ Min(l) < Min(m)
        \/ Min(l) = Min(m) /\ Max(l) < Max(m)

First(n, set) == {l \in set : Cardinality({m \in set : Before(m, l)}) < n}

\* Fault: both ends have to nominate a link.
NominatedByBoth == {l \in TagLinks : \A a \in l : l \in First(Nominations, LinksAt(a))}
Nominated == UNION {First(Nominations, LinksAt(a)) : a \in Node}

LoadBearing == {l \in TagLinks : \E a \in l : Cardinality(LinksAt(a)) <= LowDegree}

\* Links of low degree are unconditional; the others share what is left.
Selected ==
  LET budget == Max({0, MaxLinks - Cardinality(LoadBearing)})
  IN  LoadBearing \cup First(budget, Nominated \ LoadBearing)

BuildLinks ==
  /\ pc = "select"
  /\ kept' = Selected
  /\ pc' = "selected"
  /\ UNCHANGED <<search, tags>>

----------------------------------------------------------------------------
\* One list per class: the order of links of different classes is of no account.
AsksForLayers ==
  /\ pc = "search"
  /\ \E n \in 0 .. MaxEdges :
       \E from \in [1 .. n -> Node], to \in [1 .. n -> Node \cup {Stranger}] :
         /\ \A i, j \in 1 .. n : i < j => from[i] <= from[j]
         /\ isA = [i \in 1 .. n |-> <<from[i], to[i]>>]
  /\ tags = [a \in Node |-> {}]

AsksForLinks ==
  /\ pc = "select"
  /\ isA = <<>>
  /\ tags \in [Node -> SUBSET Tag]

CallInit ==
  /\ AsksForLayers \/ AsksForLinks
  /\ succs = [u \in Node |-> Listed(u)]
  /\ color = [u \in Node |-> "white"] /\ stack = <<>>
  /\ layers = [u \in Node |-> 0] /\ kept = {}

CallNext == Visit \/ BackEdge \/ TreeEdge \/ OtherEdge \/ Leave \/ Layer \/ BuildLinks

CallSpec == CallInit /\ [][CallNext]_callVars

----------------------------------------------------------------------------
(* Properties *)

Hierarchy == {e \in Range(isA) : e[2] \in Node \ {e[1]}}
Layering == {e \in Node \X Node : e[2] \in Range(succs[e[1]])}

\* Whatever holds u and all that its members link to holds v.
Reaches(edge, u, v) ==
  \A S \in SUBSET Node : u \in S /\ (\A e \in edge : e[1] \in S => e[2] \in S) => v \in S

\* The links that are layered have no cycle left (so that the order in which
\* layerOf fills its memo does not matter).  A class is drawn on another layer
\* than each of its superclasses, above it if the two are not on a cycle; and
\* below no layer is skipped: a class that is not on layer 0 has a neighbour on
\* the layer before.  (assignLayers has to cope with cycles that the ontology
\* may hold, sugiyama.ts:20-24.)
LayersAreProper ==
  pc = "layered" =>
    /\ \A u, v \in Node : Reaches(Layering, u, v) /\ Reaches(Layering, v, u) => u = v
    /\ \A e \in Hierarchy :
         /\ layers[e[1]] # layers[e[2]]
         /\ ~Reaches(Hierarchy, e[2], e[1]) => layers[e[1]] > layers[e[2]]
    /\ \A u \in Node : layers[u] > 0 =>
         \E e \in Hierarchy : u \in {e[1], e[2]} /\ layers[u] - 1 \in {layers[e[1]], layers[e[2]]}

\* One of the first PerTag atoms of a tag that another atom bears.
SharesATag(a) == \E t \in Tag : a \in LinkedBy(t) /\ \E b \in Node \ {a} : t \in tags[b]

\* Only the limits leave an atom without a synapse.  One that is beyond the first
\* PerTag atoms of each of its tags has none, whatever it shares
\* (BrainStage.tsx:218-219).  Any other that shares a tag has one of its strongest
\* while there is room below MaxLinks, also if only one end nominates it
\* (linkSelect.ts:7-8; BrainStage.tsx:233 speaks of mutual nominations), and all it
\* has if they are few, room or not: those, and no others, exceed MaxLinks
\* (linkSelect.ts:63-64; line 20 calls it a hard budget).
OnlyLimitsCutOff ==
  pc = "selected" =>
    /\ \A a \in Node :
         LET own == LinksAt(a) \cap kept IN
         /\ own # {} => SharesATag(a)
         /\ SharesATag(a) /\ Cardinality(kept) < MaxLinks =>
              \E l \in own : \A m \in LinksAt(a) : Strength(l) >= Strength(m)
         /\ Cardinality(LinksAt(a)) <= LowDegree => own = LinksAt(a)
    /\ Cardinality(kept) > MaxLinks =>
         \A l \in kept : \E a \in l : Cardinality(LinksAt(a)) <= LowDegree
=============================================================================
