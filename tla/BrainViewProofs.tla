-------------------------- MODULE BrainViewProofs --------------------------
(***************************************************************************)
(* What the cortex renderer keeps for any graph, any number of slots and   *)
(* any budget of ticks.  The invariant adds to the properties the types of *)
(* the two queues of the worker and that edges end at atoms on stage.      *)
(*                                                                         *)
(* The part after it follows the layout: while the edges are not where the *)
(* nodes are, a tick or its answer is in one of the queues, whatever graph *)
(* it was for.                                                             *)
(*                                                                         *)
(* The last two parts are about ViewAlgorithms, whose specification is     *)
(* CallSpec: the choice of the synapses that are drawn, and the layers of  *)
(* the hierarchy.  The invariant of the depth-first search says what is    *)
(* in a list before and behind the place that is looked at, and that the   *)
(* classes done can be ranked so that their links lead downwards.          *)
(***************************************************************************)
EXTENDS BrainView, ViewAlgorithms, FiniteSetTheorems, SequenceTheorems,
        WellFoundedInduction, TLAPS

InMessage == [type : {"init"}, nodes : SUBSET Atoms, at : Position]
               \union [type : {"tick"}]
Layout == [nodes : SUBSET Atoms, at : Position]

QueuesOK == toWorker \in Seq(InMessage) /\ fromWorker \in Seq(Layout) /\ inWorker \in Layout

EdgesOnStage == \A i \in DOMAIN edges : edges[i][1] \in shown /\ edges[i][2] \in shown

IInv == /\ TypeOK /\ QueuesOK /\ EdgesOnStage
        /\ TooltipIsNeverOrphaned /\ AttachedToTheStage
        /\ SpikesRideTheirEdge /\ PoolIsConserved

----------------------------------------------------------------------------
(* Sequences                                                               *)

\* SetToSeq lists every element of a finite set once.
LEMMA SetToSeqLists ==
  ASSUME NEW S, IsFiniteSet(S)
  PROVE  /\ SetToSeq(S) \in [1..Cardinality(S) -> S]
         /\ SetToSeq(S) \in Seq(S)
         /\ \A i, j \in DOMAIN SetToSeq(S) : SetToSeq(S)[i] = SetToSeq(S)[j] => i = j
         /\ \A s \in S : \E i \in DOMAIN SetToSeq(S) : SetToSeq(S)[i] = s
<1> DEFINE n == Cardinality(S)
           f == SetToSeq(S)
<1>1. n \in Nat /\ ExistsBijection(1..n, S)
  BY FS_CardinalityType
<1>2. \E g \in [1..n -> S] : IsInjective(g)
  BY <1>1 DEF ExistsBijection, Bijection, Injection
<1>3. f \in [1..n -> S] /\ IsInjective(f)
  BY <1>2 DEF SetToSeq
<1>4. \A i, j \in 1..n : f[i] = f[j] => i = j
  BY <1>3 DEF IsInjective
<1>5. \A s \in S : \E i \in 1..n : f[i] = s
  <2>1. Cardinality(1..n) = n
    <3>1. n \in Int /\ 1 \in Int /\ (1 > n => n = 0) /\ (~(1 > n) => n - 1 + 1 = n)
      BY <1>1
    <3> QED BY <3>1, FS_Interval
  <2>2. f \in Injection(1..n, S)
    BY <1>3 DEF Injection
  <2>3. f \in Surjection(1..n, S)
    BY <2>1, <2>2, FS_Injection
  <2> QED BY <2>3 DEF Surjection
<1>6. f \in Seq(S)
  BY <1>1, <1>3
<1>7. DOMAIN f = 1..n
  BY <1>3
<1> QED BY <1>3, <1>4, <1>5, <1>6, <1>7

\* The edges of a graph are links, with both ends in it.
LEMMA EdgesOfGraph ==
  ASSUME NEW g
  PROVE  /\ EdgesOf(g) \in Seq(Links)
         /\ \A i \in DOMAIN EdgesOf(g) : EdgesOf(g)[i][1] \in g /\ EdgesOf(g)[i][2] \in g
<1> DEFINE L == {l \in Links : l[1] \in g /\ l[2] \in g}
<1>1. IsFiniteSet(L)
  BY LinksFinite, FS_Subset
<1>2. SetToSeq(L) \in [1..Cardinality(L) -> L] /\ SetToSeq(L) \in Seq(L)
  BY <1>1, SetToSeqLists
<1>3. Seq(L) \subseteq Seq(Links)
  OBVIOUS
<1> QED BY <1>2, <1>3 DEF EdgesOf

----------------------------------------------------------------------------
(* The pool                                                                *)

PoolInv == /\ slot \in [Slots -> [live : BOOLEAN, edge : Nat, dir : {1, 2}, fired : Links \union {None}]]
           /\ free \in Seq(Slots)
           /\ PoolIsConserved

\* Conservation, said without sets of values.
Conserved(sl, fr) ==
  /\ \A i, j \in DOMAIN fr : fr[i] = fr[j] => i = j
  /\ \A s \in Slots : sl[s].live <=> ~ \E i \in DOMAIN fr : fr[i] = s

\* The two say the same,
LEMMA ConservedMeans == (PoolIsConserved <=> Conserved(slot, free))
BY DEF PoolIsConserved, Conserved

\* also of the next state.
LEMMA ConservedMeansNext == (PoolIsConserved' <=> Conserved(slot', free'))
BY DEF PoolIsConserved, Conserved

SlotOf == [live : BOOLEAN, edge : Nat, dir : {1, 2}, fired : Links \union {None}]

\* The pool as the constructor and clear leave it.
LEMMA FullPool ==
  /\ [s \in Slots |-> FreeSlot] \in [Slots -> SlotOf]
  /\ SetToSeq(Slots) \in Seq(Slots)
  /\ Conserved([s \in Slots |-> FreeSlot], SetToSeq(Slots))
<1>1. /\ SetToSeq(Slots) \in Seq(Slots)
      /\ \A i, j \in DOMAIN SetToSeq(Slots) : SetToSeq(Slots)[i] = SetToSeq(Slots)[j] => i = j
      /\ \A s \in Slots : \E i \in DOMAIN SetToSeq(Slots) : SetToSeq(Slots)[i] = s
  BY SlotsAssumption, SetToSeqLists
<1>2. FreeSlot \in SlotOf /\ ~FreeSlot.live
  BY DEF FreeSlot, SlotOf
<1>3. [s \in Slots |-> FreeSlot] \in [Slots -> SlotOf]
  BY <1>2
<1>4. \A s \in Slots : ~[t \in Slots |-> FreeSlot][s].live
  BY <1>2
<1> QED BY <1>1, <1>3, <1>4 DEF Conserved

\* clear leaves the pool full.
LEMMA PoolFull ==
  ASSUME PoolCleared
  PROVE  PoolInv' /\ \A s \in Slots : ~slot'[s].live
<1>1. PoolIsConserved'
  BY FullPool, ConservedMeansNext DEF PoolCleared
<1>2. \A s \in Slots : ~slot'[s].live
  BY DEF PoolCleared, FreeSlot
<1> QED BY <1>1, <1>2, FullPool DEF PoolCleared, PoolInv, SlotOf

\* The first numbers and the last one.
LEMMA LastOfInterval ==
  ASSUME NEW n \in Nat, n > 0
  PROVE  /\ \A i \in 1..n : i \in 1..(n - 1) \/ i = n
         /\ \A i \in 1..(n - 1) : i \in 1..n /\ i # n
OBVIOUS

\* A slot that is released was live and goes back to the stack.
LEMMA PoolReleases ==
  ASSUME PoolInv, NEW s \in Slots, slot[s].live, Released(s)
  PROVE  PoolInv' /\ ~slot'[s].live /\ \A t \in Slots \ {s} : slot'[t] = slot[t]
<1> DEFINE n == Len(free)
<1>1. /\ free' \in Seq(Slots) /\ n \in Nat /\ DOMAIN free = 1..n
      /\ DOMAIN free' = 1..(n + 1)
      /\ \A i \in 1..n : free'[i] = free[i]
      /\ free'[n + 1] = s
  BY DEF Released, PoolInv
<1>2. /\ slot'[s] = FreeSlot /\ \A t \in Slots \ {s} : slot'[t] = slot[t]
      /\ slot' \in [Slots -> [live : BOOLEAN, edge : Nat, dir : {1, 2}, fired : Links \union {None}]]
  BY DEF Released, PoolInv, FreeSlot
<1>3. slot'[s].live = FALSE
  BY <1>2 DEF FreeSlot
<1>4. /\ \A i, j \in 1..n : free[i] = free[j] => i = j
      /\ \A t \in Slots : slot[t].live <=> ~ \E i \in 1..n : free[i] = t
  BY <1>1, ConservedMeans DEF PoolInv, Conserved
<1>5. /\ \A i \in 1..(n + 1) : i \in 1..n \/ i = n + 1
      /\ \A i \in 1..n : i \in 1..(n + 1)
      /\ n + 1 \in 1..(n + 1)
  BY <1>1
<1> HIDE DEF n
<1>6. \A i, j \in 1..(n + 1) : free'[i] = free'[j] => i = j
  BY <1>1, <1>4, <1>5
<1>7. \A t \in Slots \ {s} : (\E i \in 1..(n + 1) : free'[i] = t) <=> \E i \in 1..n : free[i] = t
  BY <1>1, <1>5
<1>8. \E i \in 1..(n + 1) : free'[i] = s
  BY <1>1, <1>5
<1>9. \A t \in Slots : slot'[t].live <=> ~ \E i \in 1..(n + 1) : free'[i] = t
  BY <1>2, <1>3, <1>4, <1>7, <1>8
<1>10. PoolIsConserved'
  BY <1>1, <1>6, <1>9, ConservedMeansNext DEF Conserved
<1> QED BY <1>1, <1>2, <1>3, <1>10 DEF PoolInv

\* The slot that is claimed leaves the stack.
LEMMA PoolClaims ==
  ASSUME PoolInv, NEW spike \in [live : {TRUE}, edge : Nat, dir : {1, 2}, fired : Links],
         free # <<>>,
         slot' = [slot EXCEPT ![Last(free)] = spike],
         free' = Front(free)
  PROVE  /\ PoolInv' /\ Last(free) \in Slots /\ slot'[Last(free)] = spike
         /\ \A t \in Slots \ {Last(free)} : slot'[t] = slot[t]
<1> DEFINE n == Len(free)
           s == Last(free)
<1>1. n \in Nat /\ n > 0 /\ DOMAIN free = 1..n /\ n \in 1..n
  BY DEF PoolInv
<1>2. s = free[n] /\ s \in Slots
  <2>1. free \in [1..n -> Slots]
    BY DEF PoolInv
  <2> QED BY <2>1, <1>1 DEF Last
<1>3. /\ free' \in Seq(Slots) /\ DOMAIN free' = 1..(n - 1)
      /\ \A i \in 1..(n - 1) : free'[i] = free[i]
  BY <1>1 DEF PoolInv, Front
<1>4. slot'[s] = spike /\ \A t \in Slots \ {s} : slot'[t] = slot[t]
  BY <1>2 DEF PoolInv
<1>5. slot' \in [Slots -> [live : BOOLEAN, edge : Nat, dir : {1, 2}, fired : Links \union {None}]]
  <2>1. spike \in [live : BOOLEAN, edge : Nat, dir : {1, 2}, fired : Links \union {None}]
    OBVIOUS
  <2> QED BY <2>1 DEF PoolInv
<1>6. /\ \A i, j \in 1..n : free[i] = free[j] => i = j
      /\ \A t \in Slots : slot[t].live <=> ~ \E i \in 1..n : free[i] = t
  BY <1>1, ConservedMeans DEF PoolInv, Conserved
<1>7. /\ \A i \in 1..n : i \in 1..(n - 1) \/ i = n
      /\ \A i \in 1..(n - 1) : i \in 1..n /\ i # n
  BY <1>1, LastOfInterval
<1>8. slot'[s].live = TRUE
  BY <1>4
<1> HIDE DEF n, s
<1>9. \A i, j \in 1..(n - 1) : free'[i] = free'[j] => i = j
  BY <1>3, <1>6, <1>7
<1>10. \A t \in Slots \ {s} : (\E i \in 1..n : free[i] = t) <=> \E i \in 1..(n - 1) : free'[i] = t
  BY <1>1, <1>2, <1>3, <1>7
<1>11. ~ \E i \in 1..(n - 1) : free'[i] = s
  BY <1>1, <1>2, <1>3, <1>6, <1>7
<1>12. \A t \in Slots : slot'[t].live <=> ~ \E i \in 1..(n - 1) : free'[i] = t
  BY <1>4, <1>6, <1>8, <1>10, <1>11
<1>13. PoolIsConserved'
  BY <1>3, <1>9, <1>12, ConservedMeansNext DEF Conserved
<1> QED BY <1>2, <1>3, <1>4, <1>5, <1>13 DEF PoolInv, s

----------------------------------------------------------------------------
(* The invariant                                                           *)

\* The invariant holds when the page opens.
LEMMA InitInv == Init => IInv
<1> SUFFICES ASSUME Init PROVE IInv
  OBVIOUS
<1>1. PoolIsConserved /\ slot \in [Slots -> SlotOf] /\ free \in Seq(Slots)
  BY FullPool, ConservedMeans DEF Init
<1>2. TypeOK
  <2>1. edges \in Seq(Links)
    BY DEF Init
  <2> QED BY <1>1, <2>1 DEF Init, TypeOK, SlotOf
<1>3. QueuesOK
  BY DEF Init, QueuesOK, InMessage, Layout, Position, Spawned
<1>4. EdgesOnStage
  BY DEF Init, EdgesOnStage
<1>5. TooltipIsNeverOrphaned /\ AttachedToTheStage
  BY DEF Init, TooltipIsNeverOrphaned, AttachedToTheStage
<1>6. SpikesRideTheirEdge
  BY DEF Init, SpikesRideTheirEdge, FreeSlot
<1> QED BY <1>1, <1>2, <1>3, <1>4, <1>5, <1>6 DEF IInv

PointerTypes == /\ hover \in Atoms \union {None} /\ zoom \in Atoms \union {None}
                /\ hoverLabel \in Atoms \union {None} /\ tooltip \in Atoms \union {None}

\* Actions that leave the scene and the pool alone keep the rest of the invariant.
LEMMA OnlyPointer ==
  ASSUME IInv, UNCHANGED <<graph, dirty, ready, refresh>>, disposed' \in BOOLEAN,
         UNCHANGED <<sceneVars, busy, iters, inWorker, spikeVars>>,
         worker' \in {"alive", "dead"},
         toWorker' \in Seq(InMessage), fromWorker' \in Seq(Layout),
         PointerTypes', TooltipIsNeverOrphaned', AttachedToTheStage'
  PROVE  IInv'
<1>1. TypeOK'
  BY DEF IInv, TypeOK, PointerTypes, sceneVars, spikeVars
<1>2. QueuesOK'
  BY DEF IInv, QueuesOK
<1>3. EdgesOnStage'
  BY DEF IInv, EdgesOnStage, sceneVars
<1>4. SpikesRideTheirEdge' /\ PoolIsConserved'
  BY DEF IInv, SpikesRideTheirEdge, PoolIsConserved, sceneVars, spikeVars
<1> QED BY <1>1, <1>2, <1>3, <1>4 DEF IInv

\* What an action of the pointer or the keyboard may do to the selection.
LEMMA SelectionStep ==
  ASSUME IInv, UNCHANGED <<shown, flares>>,
         \/ UNCHANGED <<hover, hoverLabel>> /\ tooltip' \in {tooltip, hover}
         \/ hover' = None /\ hoverLabel' = None /\ tooltip' = None
         \/ \E a \in shown : hover' = a /\ hoverLabel' \in {a, hoverLabel} /\ tooltip' \in {a, tooltip},
         zoom' \in {zoom, None} \union shown
  PROVE  PointerTypes' /\ TooltipIsNeverOrphaned' /\ AttachedToTheStage'
<1>1. shown \subseteq Atoms
  BY DEF IInv, TypeOK
<1>2. \A a \in shown : a # None
  BY <1>1, NoneAssumption
<1>3. PointerTypes'
  BY <1>1 DEF PointerTypes, IInv, TypeOK
<1>4. TooltipIsNeverOrphaned'
  BY <1>2 DEF IInv, TooltipIsNeverOrphaned, AttachedToTheStage
<1>5. AttachedToTheStage'
  BY <1>2 DEF IInv, AttachedToTheStage
<1> QED BY <1>3, <1>4, <1>5

\* Pointer and keyboard.
LEMMA PointerSteps ==
  ASSUME IInv,
         \/ \E a \in Atoms : PointerOver(a) \/ ClickAtom(a) \/ RandomConnection(a) \/ FocusAtom(a)
         \/ PointerOff \/ ClickEmpty \/ Escape
  PROVE  IInv'
<1>1. SUFFICES /\ UNCHANGED <<appVars, sceneVars, workerVars, spikeVars>>
               /\ \/ UNCHANGED <<hover, hoverLabel>> /\ tooltip' \in {tooltip, hover}
                  \/ hover' = None /\ hoverLabel' = None /\ tooltip' = None
                  \/ \E a \in shown : hover' = a /\ hoverLabel' \in {a, hoverLabel}
                                      /\ tooltip' \in {a, tooltip}
               /\ zoom' \in {zoom, None} \union shown
  <2>1. disposed' \in BOOLEAN /\ worker' \in {"alive", "dead"}
        /\ toWorker' \in Seq(InMessage) /\ fromWorker' \in Seq(Layout)
    BY <1>1 DEF IInv, TypeOK, QueuesOK, appVars, workerVars
  <2>2. PointerTypes' /\ TooltipIsNeverOrphaned' /\ AttachedToTheStage'
    BY <1>1, SelectionStep DEF sceneVars, spikeVars
  <2> QED BY <1>1, <2>1, <2>2, OnlyPointer DEF appVars, workerVars
<1>2. ASSUME NEW a \in Atoms, PointerOver(a)
      PROVE  /\ UNCHANGED <<appVars, sceneVars, workerVars, spikeVars>>
             /\ a \in shown /\ hover' = a /\ hoverLabel' \in {a, hoverLabel} /\ tooltip' = a
             /\ zoom' = zoom
  BY <1>2 DEF PointerOver, Highlighted
<1>3. ASSUME NEW a \in Atoms, RandomConnection(a)
      PROVE  /\ UNCHANGED <<appVars, sceneVars, workerVars, spikeVars>>
             /\ a \in shown /\ hover' = a /\ hoverLabel' \in {a, hoverLabel} /\ tooltip' = tooltip
             /\ zoom' = a
  BY <1>3 DEF RandomConnection, Highlighted
<1>4. ASSUME NEW a \in Atoms, FocusAtom(a)
      PROVE  /\ UNCHANGED <<appVars, sceneVars, workerVars, spikeVars, hover, hoverLabel, tooltip>>
             /\ zoom' \in {zoom} \union shown
  BY <1>4 DEF FocusAtom, IInv, TypeOK
<1>5. ASSUME NEW a \in Atoms, ClickAtom(a)
      PROVE  /\ UNCHANGED <<appVars, sceneVars, workerVars, spikeVars>>
             /\ \/ UNCHANGED <<hover, hoverLabel, tooltip>>
                \/ hover' = None /\ hoverLabel' = None /\ tooltip' = None
             /\ zoom' \in {zoom, None} \union shown
  BY <1>5 DEF ClickAtom, ZoomedOut, HoverCleared, pointerVars
<1>6. ASSUME PointerOff \/ ClickEmpty \/ Escape
      PROVE  /\ UNCHANGED <<appVars, sceneVars, workerVars, spikeVars>>
             /\ \/ UNCHANGED <<hover, hoverLabel, tooltip>>
                \/ hover' = None /\ hoverLabel' = None /\ tooltip' = None
             /\ zoom' \in {zoom, None}
  BY <1>6 DEF PointerOff, ClickEmpty, Escape, ZoomedOut, HoverCleared, pointerVars
<1> QED BY <1>2, <1>3, <1>4, <1>5, <1>6

\* The page is closed, or an answer of the worker is lost with it.
LEMMA ClosingSteps ==
  ASSUME IInv, Dispose \/ WorkerFails
  PROVE  IInv'
<1>1. CASE Dispose
  <2>1. /\ <<>> \in Seq(InMessage) /\ <<>> \in Seq(Layout)
    OBVIOUS
  <2>2. PointerTypes' /\ TooltipIsNeverOrphaned' /\ AttachedToTheStage'
    BY <1>1, SelectionStep DEF Dispose, sceneVars, spikeVars
  <2> QED BY <1>1, <2>1, <2>2, OnlyPointer DEF Dispose
<1>2. CASE WorkerFails
  <2>1. /\ <<>> \in Seq(InMessage) /\ <<>> \in Seq(Layout)
    OBVIOUS
  <2>2. PointerTypes' /\ TooltipIsNeverOrphaned' /\ AttachedToTheStage'
    BY <1>2, SelectionStep DEF WorkerFails, sceneVars, spikeVars, pointerVars
  <2>3. fromWorker' \in Seq(Layout) /\ disposed' \in BOOLEAN
    BY <1>2, <2>1 DEF WorkerFails, IInv, QueuesOK, TypeOK, appVars
  <2> QED BY <1>2, <2>1, <2>2, <2>3, OnlyPointer DEF WorkerFails, appVars
<1> QED BY <1>1, <1>2

\* The app's own steps.
LEMMA AppSteps ==
  ASSUME IInv, (\E g \in AtomSets : AppPasses(g)) \/ ModelLoads
  PROVE  IInv'
<1>1. /\ graph' \in SUBSET Atoms /\ dirty' \in BOOLEAN /\ ready' \in BOOLEAN
      /\ UNCHANGED <<disposed, refresh, sceneVars, workerVars, pointerVars, spikeVars>>
  BY AtomSetsAssumption DEF AppPasses, ModelLoads, IInv, TypeOK
<1>2. TypeOK'
  BY <1>1 DEF IInv, TypeOK, sceneVars, workerVars, pointerVars, spikeVars
<1>3. QueuesOK' /\ EdgesOnStage'
  BY <1>1 DEF IInv, QueuesOK, EdgesOnStage, sceneVars, workerVars
<1>4. TooltipIsNeverOrphaned' /\ AttachedToTheStage'
  BY <1>1 DEF IInv, TooltipIsNeverOrphaned, AttachedToTheStage, sceneVars, pointerVars, spikeVars
<1>5. SpikesRideTheirEdge' /\ PoolIsConserved'
  BY <1>1 DEF IInv, SpikesRideTheirEdge, PoolIsConserved, sceneVars, spikeVars
<1> QED BY <1>2, <1>3, <1>4, <1>5 DEF IInv

\* Frames: only the pool and the flares change.
LEMMA OnlyFrame ==
  ASSUME IInv, UNCHANGED <<appVars, sceneVars, workerVars, pointerVars>>,
         PoolInv', flares' \subseteq shown, SpikesRideTheirEdge'
  PROVE  IInv'
<1>1. TypeOK'
  BY DEF IInv, TypeOK, PoolInv, appVars, sceneVars, workerVars, pointerVars
<1>2. QueuesOK' /\ EdgesOnStage'
  BY DEF IInv, QueuesOK, EdgesOnStage, sceneVars, workerVars
<1>3. TooltipIsNeverOrphaned' /\ AttachedToTheStage'
  BY DEF IInv, TooltipIsNeverOrphaned, AttachedToTheStage, sceneVars, pointerVars
<1> QED BY <1>1, <1>2, <1>3 DEF IInv, PoolInv

\* Spikes and flares.
LEMMA FrameSteps ==
  ASSUME IInv,
         \/ \E i \in 1..Len(edges), dir \in {1, 2} : SpikeFires(i, dir)
         \/ \E s \in Slots : SpikeArrives(s)
         \/ \E a \in Atoms : FlareFades(a)
  PROVE  IInv'
<1>0. PoolInv /\ flares \subseteq shown /\ edges \in Seq(Links) /\ DOMAIN edges = 1..Len(edges)
  BY DEF IInv, PoolInv, TypeOK, AttachedToTheStage
<1>1. ASSUME NEW i \in 1..Len(edges), NEW dir \in {1, 2}, SpikeFires(i, dir)
      PROVE  IInv'
  <2> DEFINE spike == [live |-> TRUE, edge |-> i, dir |-> dir, fired |-> edges[i]]
  <2>1. spike \in [live : {TRUE}, edge : Nat, dir : {1, 2}, fired : Links]
    BY <1>0
  <2>2. free # <<>> /\ slot' = [slot EXCEPT ![Last(free)] = spike] /\ free' = Front(free)
    BY <1>1 DEF SpikeFires
  <2>3. /\ PoolInv' /\ Last(free) \in Slots /\ slot'[Last(free)] = spike
        /\ \A t \in Slots \ {Last(free)} : slot'[t] = slot[t]
    BY <1>0, <2>1, <2>2, PoolClaims
  <2>4. SpikesRideTheirEdge'
    BY <1>0, <1>1, <2>3 DEF IInv, SpikesRideTheirEdge, SpikeFires, sceneVars
  <2> QED BY <1>0, <1>1, <2>3, <2>4, OnlyFrame DEF SpikeFires
<1>2. ASSUME NEW s \in Slots, SpikeArrives(s)
      PROVE  IInv'
  <2>1. PoolInv' /\ ~slot'[s].live /\ \A t \in Slots \ {s} : slot'[t] = slot[t]
    BY <1>0, <1>2, PoolReleases DEF SpikeArrives
  <2>2. SpikesRideTheirEdge'
    BY <1>2, <2>1 DEF IInv, SpikesRideTheirEdge, SpikeArrives, sceneVars
  <2>3. flares' \subseteq shown
    BY <1>0, <1>2 DEF SpikeArrives, IInv, EdgesOnStage
  <2> QED BY <1>2, <2>1, <2>2, <2>3, OnlyFrame DEF SpikeArrives
<1>3. ASSUME NEW a \in Atoms, FlareFades(a)
      PROVE  IInv'
  <2>1. PoolInv'
    BY <1>0, <1>3 DEF FlareFades, PoolInv, PoolIsConserved
  <2>2. SpikesRideTheirEdge'
    BY <1>3 DEF IInv, SpikesRideTheirEdge, FlareFades, sceneVars
  <2> QED BY <1>0, <1>3, <2>1, <2>2, OnlyFrame DEF FlareFades
<1> QED BY <1>1, <1>2, <1>3

\* None tells a missing position from any position.
LEMMA NoneIsNoPosition == None \notin Position
BY NoneAssumption DEF Position

\* The worker: what it takes and what it answers.
LEMMA WorkerSteps ==
  ASSUME IInv, WorkerStep
  PROVE  IInv'
<1>1. toWorker \in Seq(InMessage) /\ toWorker # <<>> /\ Head(toWorker) \in InMessage
      /\ fromWorker \in Seq(Layout) /\ inWorker \in Layout
  BY DEF WorkerStep, IInv, QueuesOK
<1>2. Tail(toWorker) \in Seq(InMessage)
  BY <1>1
<1> DEFINE m == Head(toWorker)
           moved == <<inWorker.at[1], inWorker.at[2] + 1>>
<1>3. moved \in Position
  BY <1>1 DEF Layout, Position
<1>4. [nodes |-> inWorker.nodes, at |-> moved] \in Layout /\ [inWorker EXCEPT !.at = moved] \in Layout
  BY <1>1, <1>3 DEF Layout
<1>5. m.type = "init" => [nodes |-> m.nodes, at |-> m.at] \in Layout
  BY <1>1 DEF InMessage, Layout
<1>6. QueuesOK'
  <2>1. toWorker' = Tail(toWorker)
    BY DEF WorkerStep
  <2>2. CASE m.type = "init"
    <3>1. inWorker' = [nodes |-> m.nodes, at |-> m.at] /\ fromWorker' = fromWorker
      BY <2>2 DEF WorkerStep
    <3> QED BY <1>1, <1>2, <1>5, <2>1, <2>2, <3>1 DEF QueuesOK
  <2>3. CASE m.type # "init"
    <3>1. /\ inWorker' = [inWorker EXCEPT !.at = moved]
          /\ fromWorker' = Append(fromWorker, [nodes |-> inWorker.nodes, at |-> moved])
      BY <2>3 DEF WorkerStep
    <3> QED BY <1>1, <1>2, <1>4, <2>1, <3>1 DEF QueuesOK
  <2> QED BY <2>2, <2>3
<1>7. UNCHANGED <<worker, busy, iters, appVars, sceneVars, pointerVars, spikeVars>>
  BY DEF WorkerStep
<1>8. TypeOK'
  BY <1>7 DEF IInv, TypeOK, appVars, sceneVars, pointerVars, spikeVars
<1>9. EdgesOnStage' /\ TooltipIsNeverOrphaned' /\ AttachedToTheStage'
  BY <1>7 DEF IInv, EdgesOnStage, TooltipIsNeverOrphaned, AttachedToTheStage, sceneVars, pointerVars, spikeVars
<1>10. SpikesRideTheirEdge' /\ PoolIsConserved'
  BY <1>7 DEF IInv, SpikesRideTheirEdge, PoolIsConserved, sceneVars, spikeVars
<1> QED BY <1>6, <1>8, <1>9, <1>10 DEF IInv

\* An answer of the worker.
LEMMA PositionsStep ==
  ASSUME IInv, OnWorkerPositions
  PROVE  IInv'
<1> DEFINE answer == Head(fromWorker)
           known == [a \in Atoms |-> IF a \in answer.nodes THEN answer.at ELSE brainPos[a]]
<1>1. /\ fromWorker \in Seq(Layout) /\ fromWorker # <<>> /\ answer \in Layout
      /\ toWorker \in Seq(InMessage) /\ iters \in Nat /\ refresh \in Nat /\ inWorker \in Layout
      /\ brainPos \in [Atoms -> Position \union {None}]
  BY DEF OnWorkerPositions, IInv, QueuesOK, TypeOK
<1>2. known \in [Atoms -> Position \union {None}] /\ brainPos' = known
  BY <1>1 DEF Layout, OnWorkerPositions
<1>3. /\ pos' \in [Atoms -> Position \union {None}]
      /\ \A a \in Atoms : pos'[a] # None <=> a \in shown
  <2>1. ASSUME NEW a \in Atoms
        PROVE  BrainTarget(a, known) \in Position
    BY <1>1, <1>2 DEF BrainTarget, Spawned, Position
  <2>2. pos' = [a \in Atoms |-> IF a \in shown THEN BrainTarget(a, known) ELSE None]
    BY DEF OnWorkerPositions
  <2>3. None \notin Position
    BY NoneIsNoPosition
  <2> QED BY <2>1, <2>2, <2>3
<1>4. QueuesOK' /\ iters' \in Nat /\ busy' \in BOOLEAN
  <2>1. Tail(fromWorker) \in Seq(Layout)
    BY <1>1
  <2>2. TickMessage \in InMessage
    BY DEF TickMessage, InMessage
  <2>3. Append(toWorker, TickMessage) \in Seq(InMessage) /\ iters + 1 \in Nat
    BY <1>1, <2>2
  <2>4. fromWorker' = Tail(fromWorker) /\ inWorker' = inWorker
    BY DEF OnWorkerPositions
  <2>5. /\ toWorker' \in {toWorker, Append(toWorker, TickMessage)}
        /\ iters' \in {iters, iters + 1} /\ busy' \in BOOLEAN
    BY DEF OnWorkerPositions
  <2> QED BY <1>1, <2>1, <2>3, <2>4, <2>5 DEF QueuesOK
<1>5. /\ UNCHANGED <<shown, flares, worker, inWorker, appVars, pointerVars>>
  BY DEF OnWorkerPositions
<1>6. \/ /\ edges' = EdgesOf(shown) /\ drawn' = pos' /\ PoolCleared
      \/ UNCHANGED <<edges, drawn, slot, free>>
  BY DEF OnWorkerPositions, RebuildBrainEdges
<1>7. edges' \in Seq(Links) /\ EdgesOnStage' /\ drawn' \in [Atoms -> Position \union {None}]
  BY <1>3, <1>5, <1>6, EdgesOfGraph DEF IInv, TypeOK, EdgesOnStage
<1>8. PoolInv' /\ SpikesRideTheirEdge'
  BY <1>6, PoolFull DEF IInv, PoolInv, SpikesRideTheirEdge, TypeOK, PoolIsConserved
<1>9. TypeOK'
  BY <1>2, <1>3, <1>4, <1>5, <1>7, <1>8 DEF IInv, TypeOK, PoolInv, appVars, pointerVars
<1>10. TooltipIsNeverOrphaned' /\ AttachedToTheStage'
  BY <1>5 DEF IInv, TooltipIsNeverOrphaned, AttachedToTheStage, pointerVars
<1> QED BY <1>4, <1>7, <1>8, <1>9, <1>10 DEF IInv, PoolInv

\* A refresh.
LEMMA SetDataStep ==
  ASSUME IInv, SetData
  PROVE  IInv'
<1>1. graph \in SUBSET Atoms /\ refresh \in Nat /\ refresh + 1 \in Nat /\ refresh' = refresh + 1
      /\ toWorker \in Seq(InMessage)
  BY DEF SetData, IInv, TypeOK, QueuesOK
<1>2. Spawned(refresh + 1) \in Position
  BY <1>1 DEF Spawned, Position
<1>3. /\ pos' \in [Atoms -> Position \union {None}] /\ drawn' = pos'
      /\ \A a \in Atoms : pos'[a] # None <=> a \in shown'
  BY <1>2, NoneIsNoPosition DEF SetData
<1>4. edges' \in Seq(Links) /\ EdgesOnStage'
  BY EdgesOfGraph DEF SetData, EdgesOnStage
<1>5. PoolInv' /\ SpikesRideTheirEdge'
  BY PoolFull DEF SetData, SpikesRideTheirEdge
<1>6. InitMessage(graph, refresh + 1) \in InMessage /\ TickMessage \in InMessage
  BY <1>1, <1>2 DEF InitMessage, InMessage, TickMessage
<1>7. /\ QueuesOK' /\ iters' \in Nat /\ busy' \in BOOLEAN /\ worker' = worker
  <2> DEFINE init == InitMessage(graph, refresh + 1)
  <2>1. /\ toWorker \o <<init, TickMessage>> \in Seq(InMessage)
        /\ Append(toWorker, init) \in Seq(InMessage)
    BY <1>1, <1>6
  <2>2. /\ toWorker' \in {toWorker, Append(toWorker, init), toWorker \o <<init, TickMessage>>}
        /\ iters' \in {0, 1} /\ busy' \in BOOLEAN
        /\ UNCHANGED <<worker, fromWorker, inWorker>>
    <3>1. LayoutStarted(graph, refresh + 1)
      BY DEF SetData
    <3> HIDE DEF init
    <3> QED BY <3>1 DEF LayoutStarted, init
  <2> HIDE DEF init
  <2>3. toWorker' \in Seq(InMessage)
    BY <1>1, <2>1, <2>2
  <2>4. QueuesOK'
    BY <2>2, <2>3 DEF QueuesOK, IInv
  <2> QED BY <2>2, <2>4
<1>8. /\ hover' = None /\ hoverLabel' = None /\ zoom' = None /\ tooltip' = None /\ flares' = {}
  BY DEF SetData, SelectionCleared, IInv, TooltipIsNeverOrphaned
<1>9. TypeOK'
  BY <1>1, <1>3, <1>4, <1>5, <1>7, <1>8 DEF SetData, IInv, TypeOK, PoolInv
<1>10. TooltipIsNeverOrphaned' /\ AttachedToTheStage'
  BY <1>8 DEF TooltipIsNeverOrphaned, AttachedToTheStage
<1> QED BY <1>4, <1>5, <1>7, <1>9, <1>10 DEF IInv, PoolInv

\* Every step keeps the invariant.
LEMMA StepInv == IInv /\ [Next]_vars => IInv'
<1> SUFFICES ASSUME IInv, [Next]_vars PROVE IInv'
  OBVIOUS
<1>1. CASE UNCHANGED vars
  <2>1. PoolInv' /\ flares' \subseteq shown /\ SpikesRideTheirEdge'
    BY <1>1 DEF IInv, TypeOK, PoolInv, PoolIsConserved, AttachedToTheStage,
                SpikesRideTheirEdge, vars, sceneVars, spikeVars
  <2> QED BY <1>1, <2>1, OnlyFrame DEF vars
<1> QED BY <1>1, PointerSteps, ClosingSteps, AppSteps, FrameSteps, WorkerSteps, PositionsStep,
           SetDataStep DEF Next

\* The renderer keeps its invariant.
LEMMA SceneIsSound == Spec => []IInv
BY InitInv, StepInv, PTL DEF Spec

\* Types, and positions for exactly the atoms on stage.
THEOREM TypesHold == Spec => []TypeOK
<1>1. IInv => TypeOK
  BY DEF IInv
<1> QED BY <1>1, SceneIsSound, PTL

\* The tooltip can always be closed by the next pointer event.
THEOREM TooltipHolds == Spec => []TooltipIsNeverOrphaned
<1>1. IInv => TooltipIsNeverOrphaned
  BY DEF IInv
<1> QED BY <1>1, SceneIsSound, PTL

\* Hover, camera, label and flares stay with atoms on stage.
THEOREM AttachmentHolds == Spec => []AttachedToTheStage
<1>1. IInv => AttachedToTheStage
  BY DEF IInv
<1> QED BY <1>1, SceneIsSound, PTL

\* No spike is carried over to another edge by its index.
THEOREM SpikesHold == Spec => []SpikesRideTheirEdge
<1>1. IInv => SpikesRideTheirEdge
  BY DEF IInv
<1> QED BY <1>1, SceneIsSound, PTL

\* The pool of spikes neither leaks nor doubles a slot, for any capacity.
THEOREM PoolHolds == Spec => []PoolIsConserved
<1>1. IInv => PoolIsConserved
  BY DEF IInv
<1> QED BY <1>1, SceneIsSound, PTL

----------------------------------------------------------------------------
(* The edges and the layout                                                *)

EdgesMet ==
  \A i \in DOMAIN edges, end \in {1, 2} : drawn[edges[i][end]] = pos[edges[i][end]]

\* The page will hear of the layout again.
AnswerDue ==
  \/ fromWorker # <<>>
  \/ \E i \in DOMAIN toWorker : toWorker[i].type = "tick"

EdgeInv ==
  /\ graph \in AtomSets \union {{}} /\ shown \in AtomSets \union {{}}
  /\ worker = "alive" /\ ~disposed => EdgesMet \/ AnswerDue

\* An atom alone on stage is not linked with itself.  buildLinks joins an atom
\* with itself when it lists a tag twice, and no layout follows for one node.
LoneAtomsUnlinked ==
  \A g \in AtomSets : \A a \in g : <<a, a>> \in Links => Cardinality(g) > 1

\* Where there is an edge there is a layout.
LEMMA EdgeNeedsTwo ==
  ASSUME LoneAtomsUnlinked, IInv, EdgeInv, NEW i \in DOMAIN edges
  PROVE  Cardinality(shown) > 1
<1>1. PICK a \in shown, b \in shown : edges[i] = <<a, b>> /\ <<a, b>> \in Links
  <2>1. edges[i] \in Links
    BY DEF IInv, TypeOK
  <2>2. edges[i] \in Atoms \X Atoms /\ edges[i] = <<edges[i][1], edges[i][2]>>
    BY <2>1, LinksAssumption
  <2>3. edges[i][1] \in shown /\ edges[i][2] \in shown
    BY DEF IInv, EdgesOnStage
  <2> QED BY <2>1, <2>2, <2>3
<1>2. shown \in AtomSets /\ IsFiniteSet(shown)
  BY <1>1, AtomSetsAssumption DEF EdgeInv
<1>3. CASE a = b
  BY <1>1, <1>2, <1>3 DEF LoneAtomsUnlinked
<1>4. CASE a # b
  <2>1. IsFiniteSet({a}) /\ Cardinality({a}) = 1
    BY FS_Singleton
  <2>2. Cardinality({a} \union {b}) = 2 /\ {a} \union {b} \subseteq shown
    BY <1>1, <1>4, <2>1, FS_AddElement
  <2>3. Cardinality({a} \union {b}) <= Cardinality(shown) /\ Cardinality(shown) \in Nat
    BY <1>2, <2>2, FS_Subset, FS_CardinalityType
  <2> QED BY <2>2, <2>3
<1> QED BY <1>3, <1>4

\* The steps of the layout.
LEMMA LayoutSteps ==
  ASSUME LoneAtomsUnlinked, IInv, EdgeInv, SetData \/ WorkerStep \/ OnWorkerPositions
  PROVE  EdgeInv'
<1>0. toWorker \in Seq(InMessage) /\ fromWorker \in Seq(Layout) /\ iters \in Nat
  BY DEF IInv, QueuesOK, TypeOK
<1>1. CASE SetData
  <2>1. EdgesMet'
    BY <1>1 DEF SetData, EdgesMet
  <2> QED BY <1>1, <2>1 DEF SetData, EdgeInv
<1>2. CASE WorkerStep
  <2>1. UNCHANGED <<graph, shown, worker, disposed, edges, drawn, pos>>
    BY <1>2 DEF WorkerStep, appVars, sceneVars
  <2>2. ASSUME AnswerDue PROVE AnswerDue'
    <3>1. CASE Head(toWorker).type = "init"
      <4>1. fromWorker' = fromWorker /\ toWorker' = Tail(toWorker) /\ toWorker # <<>>
        BY <1>2, <3>1 DEF WorkerStep
      <4>2. ASSUME NEW i \in DOMAIN toWorker, toWorker[i].type = "tick"
            PROVE  i - 1 \in DOMAIN toWorker' /\ toWorker'[i - 1].type = "tick"
        <5>1. i # 1
          BY <1>0, <3>1, <4>1, <4>2
        <5> QED BY <1>0, <4>1, <4>2, <5>1
      <4> QED BY <2>2, <4>1, <4>2 DEF AnswerDue
    <3>2. CASE Head(toWorker).type # "init"
      <4>1. PICK m : fromWorker' = Append(fromWorker, m)
        BY <1>2, <3>2 DEF WorkerStep
      <4>2. fromWorker' # <<>>
        BY <1>0, <4>1
      <4> QED BY <4>2 DEF AnswerDue
    <3> QED BY <3>1, <3>2
  <2>3. EdgesMet => EdgesMet'
    BY <2>1 DEF EdgesMet
  <2> QED BY <2>1, <2>2, <2>3 DEF EdgeInv
<1>3. CASE OnWorkerPositions
  <2>1. UNCHANGED <<graph, shown, worker, disposed>>
    BY <1>3 DEF OnWorkerPositions, appVars
  <2>2. CASE iters >= MaxTicks
    <3>1. EdgesMet'
      BY <1>3, <2>2 DEF OnWorkerPositions, RebuildBrainEdges, EdgesMet
    <3> QED BY <2>1, <3>1 DEF EdgeInv
  <2>3. CASE ~(iters >= MaxTicks) /\ TickWanted(FALSE, iters, Cardinality(shown))
    <3>1. toWorker' = Append(toWorker, TickMessage)
      BY <1>3, <2>3 DEF OnWorkerPositions
    <3>2. /\ Len(toWorker) + 1 \in DOMAIN toWorker'
          /\ toWorker'[Len(toWorker) + 1].type = "tick"
      BY <1>0, <3>1 DEF TickMessage
    <3> QED BY <2>1, <3>2 DEF EdgeInv, AnswerDue
  <2>4. CASE ~(iters >= MaxTicks) /\ ~TickWanted(FALSE, iters, Cardinality(shown))
    <3>1. SUFFICES ASSUME worker = "alive", ~disposed PROVE EdgesMet'
      BY <2>1 DEF EdgeInv
    <3>2. ~(Cardinality(shown) > 1)
      BY <1>0, <2>4, <3>1, BoundsAssumption DEF TickWanted
    <3>3. edges' = edges /\ DOMAIN edges = {}
      BY <1>3, <2>4, <3>2, EdgeNeedsTwo DEF OnWorkerPositions
    <3> QED BY <3>3 DEF EdgesMet
  <2> QED BY <2>2, <2>3, <2>4
<1> QED BY <1>1, <1>2, <1>3

\* The other steps move neither an edge nor a node; a failure of the worker and
\* the end of the page are exempt.
LEMMA EdgeStep ==
  ASSUME LoneAtomsUnlinked, IInv, EdgeInv, [Next]_vars
  PROVE  EdgeInv'
<1> DEFINE Still == UNCHANGED <<shown, worker, disposed, edges, drawn, pos, toWorker, fromWorker>>
<1>1. ASSUME Still, graph' \in AtomSets \union {{}}
      PROVE  EdgeInv'
  BY <1>1 DEF EdgeInv, EdgesMet, AnswerDue
<1>2. ASSUME NEW g \in AtomSets, AppPasses(g) PROVE EdgeInv'
  BY <1>1, <1>2 DEF AppPasses, sceneVars, workerVars
<1>3. CASE ModelLoads \/ UNCHANGED vars
  <2>1. Still /\ graph' = graph
    BY <1>3 DEF ModelLoads, vars, appVars, sceneVars, workerVars
  <2> QED BY <1>1, <2>1 DEF EdgeInv
<1>4. CASE WorkerFails \/ Dispose
  <2>1. UNCHANGED <<graph, shown>> /\ (worker' = "dead" \/ disposed')
    BY <1>4 DEF WorkerFails, Dispose, appVars, sceneVars
  <2> QED BY <2>1 DEF EdgeInv
<1>5. CASE \/ \E a \in Atoms : PointerOver(a) \/ ClickAtom(a) \/ RandomConnection(a) \/ FocusAtom(a)
           \/ PointerOff \/ ClickEmpty \/ Escape
  <2>1. Still /\ graph' = graph
    BY <1>5 DEF PointerOver, ClickAtom, RandomConnection, FocusAtom, PointerOff, ClickEmpty,
                Escape, appVars, sceneVars, workerVars
  <2> QED BY <1>1, <2>1 DEF EdgeInv
<1>6. CASE \/ \E i \in 1..Len(edges), dir \in {1, 2} : SpikeFires(i, dir)
           \/ \E s \in Slots : SpikeArrives(s)
           \/ \E a \in Atoms : FlareFades(a)
  <2>1. Still /\ graph' = graph
    BY <1>6 DEF SpikeFires, SpikeArrives, FlareFades, appVars, sceneVars, workerVars
  <2> QED BY <1>1, <2>1 DEF EdgeInv
<1> QED BY <1>2, <1>3, <1>4, <1>5, <1>6, LayoutSteps DEF Next

\* Whatever refreshes fall between the ticks, the edges are rebuilt after the last
\* answer that moves a node, also when it was computed for a graph that is gone.
THEOREM EdgesFollowTheirNodes ==
  ASSUME LoneAtomsUnlinked
  PROVE  Spec => []EdgesMeetTheirNodes
<1>1. Init => EdgeInv
  BY DEF Init, EdgeInv, EdgesMet
<1>2. EdgeInv => EdgesMeetTheirNodes
  BY DEF EdgeInv, EdgesMet, AnswerDue, EdgesMeetTheirNodes, Quiet
<1>3. IInv /\ EdgeInv /\ [Next]_vars => EdgeInv'
  BY EdgeStep
<1> QED BY <1>1, <1>2, <1>3, SceneIsSound, PTL DEF Spec

----------------------------------------------------------------------------
(* The choice of the synapses                                              *)

\* A nonempty set of numbers has a least one.
LEMMA LeastNumber ==
  ASSUME NEW T \in SUBSET Nat, T # {}
  PROVE  \E n \in T : \A m \in T : n <= m
<1>1. \E n \in T : \A m \in T : ~ (<<m, n>> \in OpToRel(<, Nat))
  BY WFMin, NatLessThanWellFounded, Zenon
<1>2. PICK n \in T : \A m \in T : ~ (<<m, n>> \in OpToRel(<, Nat))
  BY <1>1, Zenon
<1>3. \A m \in T : ~ (m < n)
  BY <1>2, Zenon DEF OpToRel
<1> QED BY <1>3

\* A nonempty bounded set of numbers has a greatest, which is what Max chooses.
LEMMA GreatestNumber ==
  ASSUME NEW b \in Nat, NEW S \in SUBSET (0..b), S # {}
  PROVE  Max(S) \in S /\ \A x \in S : x <= Max(S)
<1> DEFINE N == {b - x : x \in S}
<1>1. \A x \in S : b - x \in Nat
  OBVIOUS
<1>2. PICK n \in N : \A m \in N : n <= m
  <2>1. N \in SUBSET Nat /\ N # {}
    BY <1>1
  <2> QED BY <2>1, LeastNumber
<1>3. PICK g \in S : n = b - g
  BY <1>2
<1>4. \A x \in S : g >= x
  BY <1>2, <1>3
<1>5. \E x \in S : \A y \in S : x >= y
  BY <1>4
<1>6. Max(S) \in S /\ \A y \in S : Max(S) >= y
  BY <1>5 DEF Max
<1> QED BY <1>6

\* A link has two ends, the smaller and the greater.
LEMMA EndsOfLink ==
  ASSUME NEW l \in TagLinks
  PROVE  /\ l \subseteq Node
         /\ Min(l) \in Nat /\ Max(l) \in Nat /\ Min(l) < Max(l) /\ l = {Min(l), Max(l)}
<1>1. l \in SUBSET Node /\ Cardinality(l) = 2
  BY DEF TagLinks, kSubset
<1>2. IsFiniteSet(l)
  BY <1>1, FS_Subset, NodeAssumption
<1>3. PICK x \in l : TRUE
  BY <1>1, FS_EmptySet
<1>4. IsFiniteSet(l \ {x}) /\ Cardinality(l \ {x}) = 1
  BY <1>1, <1>2, <1>3, FS_RemoveElement
<1>5. PICK y : l \ {x} = {y}
  BY <1>4, FS_Singleton
<1>6. x # y /\ l = {x, y} /\ x \in Nat /\ y \in Nat
  BY <1>1, <1>3, <1>5, NodeAssumption
<1>7. \E n \in l : \A m \in l : n <= m
  BY <1>6
<1>8. \E n \in l : \A m \in l : n >= m
  BY <1>6
<1>9. Min(l) \in l /\ \A m \in l : Min(l) <= m
  BY <1>7 DEF Min
<1>10. Max(l) \in l /\ \A m \in l : Max(l) >= m
  BY <1>8 DEF Max
<1> QED BY <1>1, <1>6, <1>9, <1>10

\* The strength of a link is a number.
LEMMA StrengthIsNumber ==
  ASSUME NEW l
  PROVE  Strength(l) \in Nat
BY TagsFinite, FS_Subset, FS_CardinalityType DEF Strength

\* Links are ordered: by strength, then by the smaller end, then by the greater.
LEMMA LinksOrdered ==
  ASSUME NEW l \in TagLinks, NEW m \in TagLinks
  PROVE  /\ ~Before(l, l)
         /\ Before(l, m) => ~Before(m, l)
         /\ l # m => Before(l, m) \/ Before(m, l)
         /\ \A k \in TagLinks : Before(l, m) /\ Before(m, k) => Before(l, k)
         /\ ~Before(m, l) => Strength(l) >= Strength(m)
<1>1. \A k \in TagLinks : /\ Strength(k) \in Nat /\ Min(k) \in Nat /\ Max(k) \in Nat
                          /\ k = {Min(k), Max(k)}
  BY StrengthIsNumber, EndsOfLink
<1>2. l # m => Min(l) # Min(m) \/ Max(l) # Max(m)
  BY <1>1
<1> QED BY <1>1, <1>2 DEF Before

\* There are finitely many.
LEMMA LinksAreFew ==
  ASSUME NEW S \in SUBSET TagLinks
  PROVE  IsFiniteSet(S) /\ Cardinality(S) \in Nat
<1>1. IsFiniteSet(SUBSET Node) /\ S \subseteq SUBSET Node
  BY FS_SUBSET, NodeAssumption DEF TagLinks, kSubset
<1> QED BY <1>1, FS_Subset, FS_CardinalityType

\* The links of a set that come before a link.
Ahead(S, l) == {m \in S : Before(m, l)}
Rank(S, l) == Cardinality(Ahead(S, l))

\* A link that comes before another has fewer before it.
LEMMA RankIsOrder ==
  ASSUME NEW S \in SUBSET TagLinks, NEW l \in S
  PROVE  /\ Rank(S, l) \in Nat
         /\ \A m \in S : Before(m, l) => Rank(S, m) < Rank(S, l)
<1>1. \A m \in S : Ahead(S, m) \in SUBSET S
  BY DEF Ahead
<1>2. \A m \in S : IsFiniteSet(Ahead(S, m)) /\ Rank(S, m) \in Nat
  BY <1>1, LinksAreFew DEF Rank
<1>3. ASSUME NEW m \in S, Before(m, l)
      PROVE  Rank(S, m) < Rank(S, l)
  <2>1. Ahead(S, m) \subseteq Ahead(S, l)
    <3> SUFFICES ASSUME NEW k \in S, Before(k, m) PROVE Before(k, l)
      BY DEF Ahead
    <3> QED BY <1>3, LinksOrdered
  <2>2. m \in Ahead(S, l) /\ m \notin Ahead(S, m)
    BY <1>3, LinksOrdered DEF Ahead
  <2>3. Rank(S, m) <= Rank(S, l) /\ (Rank(S, l) = Rank(S, m) => Ahead(S, l) = Ahead(S, m))
    BY <1>2, <2>1, FS_Subset DEF Rank
  <2> QED BY <1>2, <2>2, <2>3
<1> QED BY <1>2, <1>3

\* A nonempty set of links has a first one.
LEMMA FirstLink ==
  ASSUME NEW S \in SUBSET TagLinks, NEW T \in SUBSET S, T # {}
  PROVE  \E l \in T : \A m \in T : Rank(S, l) <= Rank(S, m)
<1> DEFINE N == {Rank(S, l) : l \in T}
<1>1. N \in SUBSET Nat /\ N # {}
  BY RankIsOrder
<1>2. PICK n \in N : \A m \in N : n <= m
  BY <1>1, LeastNumber
<1> QED BY <1>2

\* and a last one.
LEMMA LastLink ==
  ASSUME NEW S \in SUBSET TagLinks, NEW T \in SUBSET S, T # {}
  PROVE  \E l \in T : \A m \in T : Rank(S, m) <= Rank(S, l)
<1> DEFINE c == Cardinality(S)
           N == {c - Rank(S, l) : l \in T}
<1>1. ASSUME NEW l \in T PROVE c - Rank(S, l) \in Nat /\ Rank(S, l) \in Nat /\ c \in Nat
  <2>1. Ahead(S, l) \in SUBSET S
    BY DEF Ahead
  <2>2. Rank(S, l) <= c
    BY <2>1, LinksAreFew, FS_Subset DEF Rank
  <2> QED BY <2>2, LinksAreFew, RankIsOrder
<1>2. N \in SUBSET Nat /\ N # {}
  BY <1>1
<1>3. PICK n \in N : \A m \in N : n <= m
  BY <1>2, LeastNumber
<1>4. PICK l \in T : n = c - Rank(S, l)
  BY <1>3
<1>5. ASSUME NEW m \in T PROVE Rank(S, m) <= Rank(S, l)
  <2>1. c - Rank(S, l) <= c - Rank(S, m)
    BY <1>3, <1>4
  <2> QED BY <1>1, <2>1
<1> QED BY <1>5

\* The first n are at most n; they are all, or at least n; and a link that no other
\* precedes is among them.
LEMMA FirstLinks ==
  ASSUME NEW S \in SUBSET TagLinks, NEW n \in Nat
  PROVE  /\ First(n, S) \subseteq S
         /\ Cardinality(First(n, S)) <= n
         /\ First(n, S) # S => Cardinality(First(n, S)) >= n
         /\ S # {} /\ n > 0 => \E l \in First(n, S) : \A m \in S : ~Before(m, l)
<1> DEFINE F == First(n, S)
<1>1. F = {l \in S : Rank(S, l) < n}
  BY DEF First, Rank, Ahead
<1> HIDE DEF F
<1>2. F \in SUBSET S /\ IsFiniteSet(F) /\ Cardinality(F) \in Nat
  <2>1. F \in SUBSET S
    BY <1>1
  <2> QED BY <2>1, LinksAreFew
<1>3. Cardinality(F) <= n
  <2>1. CASE F = {}
    BY <2>1, FS_EmptySet
  <2>2. CASE F # {}
    <3>1. PICK l \in F : \A m \in F : Rank(S, m) <= Rank(S, l)
      BY <1>2, <2>2, LastLink
    <3>2. F \ {l} \subseteq Ahead(S, l)
      <4> SUFFICES ASSUME NEW m \in F, m # l PROVE Before(m, l)
        BY <1>2 DEF Ahead
      <4>1. Before(l, m) => Rank(S, l) < Rank(S, m)
        BY <1>2, RankIsOrder
      <4>2. Rank(S, l) \in Nat /\ Rank(S, m) \in Nat
        BY <1>2, RankIsOrder
      <4> QED BY <1>2, <3>1, <4>1, <4>2, LinksOrdered
    <3>3. Ahead(S, l) \in SUBSET S
      BY DEF Ahead
    <3>4. Cardinality(F \ {l}) <= Rank(S, l)
      BY <3>2, <3>3, LinksAreFew, FS_Subset DEF Rank
    <3>5. Cardinality(F \ {l}) = Cardinality(F) - 1
      BY <1>2, <3>1, FS_RemoveElement
    <3>6. Rank(S, l) < n /\ Rank(S, l) \in Nat
      BY <1>1, <1>2, <3>1, RankIsOrder
    <3> QED BY <1>2, <3>4, <3>5, <3>6
  <2> QED BY <2>1, <2>2
<1>4. ASSUME F # S
      PROVE  Cardinality(F) >= n
  <2>1. S \ F \in SUBSET S /\ S \ F # {}
    BY <1>2, <1>4
  <2>2. PICK l \in S \ F : \A m \in S \ F : Rank(S, l) <= Rank(S, m)
    BY <2>1, FirstLink
  <2>3. Ahead(S, l) \subseteq F
    <3> SUFFICES ASSUME NEW m \in S, Before(m, l), m \notin F PROVE FALSE
      BY DEF Ahead
    <3>1. Rank(S, m) < Rank(S, l) /\ Rank(S, m) \in Nat /\ Rank(S, l) \in Nat
      BY RankIsOrder
    <3> QED BY <2>2, <3>1
  <2>4. Rank(S, l) <= Cardinality(F)
    BY <1>2, <2>3, FS_Subset DEF Rank
  <2>5. ~(Rank(S, l) < n) /\ Rank(S, l) \in Nat
    BY <1>1, RankIsOrder
  <2> QED BY <1>2, <2>4, <2>5
<1>5. ASSUME S # {}, n > 0
      PROVE  \E l \in F : \A m \in S : ~Before(m, l)
  <2>1. PICK l \in S : \A m \in S : Rank(S, l) <= Rank(S, m)
    BY <1>5, FirstLink
  <2>2. \A m \in S : ~Before(m, l)
    <3> SUFFICES ASSUME NEW m \in S, Before(m, l) PROVE FALSE
      OBVIOUS
    <3>1. Rank(S, m) < Rank(S, l) /\ Rank(S, m) \in Nat /\ Rank(S, l) \in Nat
      BY RankIsOrder
    <3> QED BY <2>1, <3>1
  <2>3. Ahead(S, l) = {}
    BY <2>2 DEF Ahead
  <2>4. Rank(S, l) = 0
    BY <2>3, FS_EmptySet DEF Rank
  <2>5. l \in F
    BY <1>1, <1>5, <2>4
  <2> QED BY <2>2, <2>5
<1> QED BY <1>2, <1>3, <1>4, <1>5 DEF F

\* An atom has a link exactly if it shares a tag within the limit: the first other
\* atom that bears the tag is within the limit too.
LEMMA SharersHaveLinks ==
  ASSUME NEW a \in Node
  PROVE  SharesATag(a) <=> LinksAt(a) # {}
<1>1. ASSUME SharesATag(a)
      PROVE  LinksAt(a) # {}
  <2>1. PICK t \in Tag : a \in LinkedBy(t) /\ \E b \in Node \ {a} : t \in tags[b]
    BY <1>1 DEF SharesATag
  <2> DEFINE others == {b \in Node \ {a} : t \in tags[b]}
  <2>2. others \in SUBSET Nat /\ others # {}
    BY <2>1, NodeAssumption
  <2>3. PICK c \in others : \A b \in others : c <= b
    BY <2>2, LeastNumber
  <2>4. c \in Node /\ c # a /\ t \in tags[c]
    BY <2>3
  <2>5. {b \in Node : b < c /\ t \in tags[b]} \in SUBSET {a}
    <3> SUFFICES ASSUME NEW b \in Node, b < c, t \in tags[b], b # a PROVE FALSE
      OBVIOUS
    <3>1. c <= b
      BY <2>3
    <3> QED BY <3>1, <2>4, NodeAssumption
  <2>6. Cardinality({b \in Node : b < c /\ t \in tags[b]}) <= 1
    <3>1. IsFiniteSet({a}) /\ Cardinality({a}) = 1
      BY FS_Singleton
    <3> QED BY <2>5, <3>1, FS_Subset
  <2>7. Cardinality({b \in Node : b < c /\ t \in tags[b]}) \in Nat
    BY NodeAssumption, FS_Subset, FS_CardinalityType
  <2>8. c \in LinkedBy(t)
    <3>1. PerTag \in Nat /\ PerTag > 1
      BY NumbersAssumption, TagsLinkAtoms
    <3>2. Cardinality({b \in Node : b < c /\ t \in tags[b]}) < PerTag
      BY <2>6, <2>7, <3>1
    <3> QED BY <2>4, <3>2 DEF LinkedBy
  <2> HIDE DEF others
  <2>9. {a, c} \in kSubset(2, Node)
    <3>1. Cardinality({a, c}) = 2
      <4>1. IsFiniteSet({c}) /\ Cardinality({c}) = 1
        BY FS_Singleton
      <4>2. Cardinality({c} \cup {a}) = 1 + 1
        <5>1. a \notin {c}
          BY <2>4
        <5> QED BY <4>1, <5>1, FS_AddElement
      <4>3. {c} \cup {a} = {a, c}
        OBVIOUS
      <4>4. Cardinality({a, c}) = 1 + 1
        BY <4>2, <4>3
      <4> QED BY <4>4
    <3> QED BY <2>4, <3>1 DEF kSubset
  <2>10. Strength({a, c}) > 0
    <3>1. t \in {u \in Tag : {a, c} \subseteq LinkedBy(u)}
      BY <2>1, <2>8
    <3>2. Strength({a, c}) # 0
      <4>1. IsFiniteSet({u \in Tag : {a, c} \subseteq LinkedBy(u)})
        BY TagsFinite, FS_Subset
      <4> QED BY <3>1, <4>1, FS_EmptySet DEF Strength
    <3> QED BY <3>2, StrengthIsNumber
  <2>11. {a, c} \in LinksAt(a)
    BY <2>9, <2>10 DEF LinksAt, TagLinks
  <2> QED BY <2>11
<1>2. ASSUME LinksAt(a) # {}
      PROVE  SharesATag(a)
  <2>1. PICK l \in TagLinks : a \in l
    BY <1>2 DEF LinksAt
  <2>2. PICK t \in Tag : l \subseteq LinkedBy(t)
    <3>1. Strength(l) > 0
      BY <2>1 DEF TagLinks
    <3>2. {u \in Tag : l \subseteq LinkedBy(u)} # {}
      BY <3>1, FS_EmptySet DEF Strength
    <3> QED BY <3>2
  <2>3. PICK b \in l : b # a
    BY <2>1, EndsOfLink
  <2>4. b \in Node \ {a} /\ t \in tags[b] /\ a \in LinkedBy(t)
    BY <2>1, <2>2, <2>3 DEF LinkedBy
  <2> QED BY <2>4 DEF SharesATag
<1> QED BY <1>1, <1>2

\* What OnlyLimitsCutOff says of the links that are kept.
KeepsAtoms(K) ==
  /\ \A a \in Node :
       /\ LinksAt(a) \cap K # {} => SharesATag(a)
       /\ SharesATag(a) /\ Cardinality(K) < MaxLinks =>
            \E l \in LinksAt(a) \cap K : \A m \in LinksAt(a) : Strength(l) >= Strength(m)
       /\ Cardinality(LinksAt(a)) <= LowDegree => LinksAt(a) \subseteq K
  /\ Cardinality(K) > MaxLinks => \A l \in K : \E a \in l : Cardinality(LinksAt(a)) <= LowDegree

\* It is that.
LEMMA CutOffMeans == (OnlyLimitsCutOff <=> (pc = "selected" => KeepsAtoms(kept)))
<1>1. \A a : LinksAt(a) \subseteq kept <=> LinksAt(a) \cap kept = LinksAt(a)
  OBVIOUS
<1> QED BY <1>1 DEF OnlyLimitsCutOff, KeepsAtoms

\* The same of the next state.
LEMMA CutOffMeansNext ==
  ASSUME NEW K, K = kept'
  PROVE  OnlyLimitsCutOff' <=> (pc' = "selected" => KeepsAtoms(K)')
<1>1. \A a : LinksAt(a)' \subseteq kept' <=> LinksAt(a)' \cap kept' = LinksAt(a)'
  OBVIOUS
<1> QED BY <1>1 DEF OnlyLimitsCutOff, KeepsAtoms

\* The budget is what the links of low degree leave.
LEMMA GreaterOfTwo ==
  ASSUME NEW n \in Int
  PROVE  Max({0, n}) = IF n > 0 THEN n ELSE 0
<1>1. \E x \in {0, n} : \A y \in {0, n} : x >= y
  OBVIOUS
<1>2. Max({0, n}) \in {0, n} /\ \A y \in {0, n} : Max({0, n}) >= y
  BY <1>1 DEF Max
<1> QED BY <1>2

\* selectIntentionalLinks keeps what it promises: the links it drops are neither
\* those of a node of low degree nor, below the budget, anyone's strongest.
LEMMA SelectionKeepsAtoms == KeepsAtoms(Selected)
<1> DEFINE low == LoadBearing
           rest == Nominated \ LoadBearing
           budget == Max({0, MaxLinks - Cardinality(LoadBearing)})
           share == First(budget, rest)
<1>1. /\ low \in SUBSET TagLinks
      /\ IsFiniteSet(low) /\ Cardinality(low) \in Nat
  <2>1. low \in SUBSET TagLinks
    BY DEF LoadBearing
  <2> QED BY <2>1, LinksAreFew
<1>2. ASSUME NEW a
      PROVE  /\ LinksAt(a) \in SUBSET TagLinks
             /\ First(Nominations, LinksAt(a)) \subseteq LinksAt(a)
  <2>1. LinksAt(a) \in SUBSET TagLinks
    BY DEF LinksAt
  <2> QED BY <2>1, FirstLinks, NumbersAssumption
<1>3. rest \in SUBSET TagLinks
  BY <1>2 DEF Nominated
<1>4. /\ budget \in Nat
      /\ budget > 0 => Cardinality(low) + budget = MaxLinks
      /\ Cardinality(low) + budget >= MaxLinks
  BY <1>1, GreaterOfTwo, NumbersAssumption
<1> HIDE DEF budget
<1>5. /\ share \subseteq rest /\ Cardinality(share) <= budget
      /\ share # rest => Cardinality(share) >= budget
  BY <1>3, <1>4, FirstLinks
<1>6. IsFiniteSet(share) /\ Cardinality(share) \in Nat
  BY <1>3, <1>5, LinksAreFew
<1>7. Selected = low \cup share
  BY DEF Selected, budget
<1>8. Cardinality(Selected) = Cardinality(low) + Cardinality(share)
  <2>1. low \cap share = {}
    BY <1>5
  <2>2. Cardinality(low \cap share) = 0
    BY <2>1, FS_EmptySet
  <2> HIDE DEF low, share
  <2>3. Cardinality(low \cup share)
          = Cardinality(low) + Cardinality(share) - Cardinality(low \cap share)
    BY <1>1, <1>6, FS_Union
  <2> QED BY <1>1, <1>6, <1>7, <2>2, <2>3
<1>9. ASSUME NEW a \in Node, Cardinality(LinksAt(a)) <= LowDegree
      PROVE  LinksAt(a) \subseteq Selected
  BY <1>7, <1>9 DEF LinksAt, LoadBearing
<1>10. ASSUME NEW a \in Node, LinksAt(a) # {}, Cardinality(Selected) < MaxLinks
       PROVE  \E l \in LinksAt(a) \cap Selected : \A m \in LinksAt(a) : Strength(l) >= Strength(m)
  <2>1. share = rest
    <3> HIDE DEF low, rest, share
    <3>1. MaxLinks \in Nat
      BY NumbersAssumption
    <3>2. ~(Cardinality(share) >= budget)
      BY <1>1, <1>4, <1>6, <1>8, <1>10, <3>1
    <3> QED BY <1>5, <3>2
  <2>2. PICK l \in First(Nominations, LinksAt(a)) : \A m \in LinksAt(a) : ~Before(m, l)
    BY <1>2, <1>10, FirstLinks, NumbersAssumption, EveryAtomNominates
  <2>3. l \in LinksAt(a) /\ l \in Nominated
    BY <1>2, <2>2 DEF Nominated
  <2>4. l \in Selected
    BY <1>7, <2>1, <2>3
  <2>5. \A m \in LinksAt(a) : Strength(l) >= Strength(m)
    BY <1>2, <2>2, <2>3, LinksOrdered
  <2> QED BY <2>3, <2>4, <2>5
<1>11. ASSUME Cardinality(Selected) > MaxLinks, NEW l \in Selected
       PROVE  \E a \in l : Cardinality(LinksAt(a)) <= LowDegree
  <2>1. budget = 0
    <3> HIDE DEF low, rest, share
    <3>1. MaxLinks \in Nat
      BY NumbersAssumption
    <3> QED BY <1>1, <1>4, <1>5, <1>6, <1>8, <1>11, <3>1
  <2>2. share = {}
    BY <1>5, <1>6, <2>1, FS_EmptySet
  <2> QED BY <1>7, <1>11, <2>2 DEF LoadBearing
<1>12. \A a \in Node : SharesATag(a) <=> LinksAt(a) # {}
  BY SharersHaveLinks
<1> HIDE DEF low, rest, share
<1> QED BY <1>9, <1>10, <1>11, <1>12 DEF KeepsAtoms

\* The links depend on the tags alone.
LEMMA SameTagsSameLinks ==
  ASSUME tags' = tags, NEW K
  PROVE  KeepsAtoms(K)' <=> KeepsAtoms(K)
<1>1. \A t : LinkedBy(t)' = LinkedBy(t)
  BY DEF LinkedBy
<1>2. \A l : Strength(l)' = Strength(l)
  BY <1>1 DEF Strength
<1>3. TagLinks' = TagLinks
  BY <1>2 DEF TagLinks
<1>4. \A a : LinksAt(a)' = LinksAt(a)
  BY <1>3 DEF LinksAt
<1>5. \A a : SharesATag(a)' <=> SharesATag(a)
  BY <1>1 DEF SharesATag
<1> QED BY <1>2, <1>4, <1>5 DEF KeepsAtoms

\* What a call has selected keeps the promise until it is returned.
LEMMA CallStep ==
  ASSUME OnlyLimitsCutOff, [CallNext]_callVars
  PROVE  OnlyLimitsCutOff'
<1>1. tags' = tags
  <2>1. CASE BuildLinks
    BY <2>1 DEF BuildLinks
  <2>2. CASE ~BuildLinks
    <3>1. links' = links
      <4>1. CASE Visit \/ Leave \/ UNCHANGED callVars
        BY <4>1 DEF Visit, Leave, callVars
      <4>2. CASE BackEdge \/ TreeEdge \/ OtherEdge
        BY <4>2 DEF BackEdge, TreeEdge, OtherEdge
      <4>3. CASE Layer
        BY <4>3 DEF Layer
      <4> QED BY <2>2, <4>1, <4>2, <4>3 DEF CallNext
    <3> QED BY <3>1 DEF links
  <2> QED BY <2>1, <2>2
<1>2. PICK K : K = kept'
  OBVIOUS
<1>3. SUFFICES ASSUME pc' = "selected" PROVE KeepsAtoms(K)
  BY <1>1, <1>2, CutOffMeansNext, SameTagsSameLinks
<1>4. CASE BuildLinks
  BY <1>2, <1>4, SelectionKeepsAtoms DEF BuildLinks
<1>5. CASE ~BuildLinks
  <2>1. pc = "selected" /\ kept' = kept
    BY <1>3, <1>5 DEF CallNext, Visit, BackEdge, TreeEdge, OtherEdge, Leave, Layer, links, callVars
  <2> QED BY <1>2, <2>1, CutOffMeans
<1> QED BY <1>4, <1>5

\* For any atoms, tags and limits: an atom has a synapse only if it is within the
\* limit of a tag it shares, and then, while the budget is not used up, one of its
\* strongest; links of low degree are kept whatever the budget.
THEOREM OnlyLimitsTakeLinks == CallSpec => []OnlyLimitsCutOff
<1>1. CallInit => OnlyLimitsCutOff
  BY DEF CallInit, AsksForLayers, AsksForLinks, OnlyLimitsCutOff
<1> QED BY <1>1, CallStep, PTL DEF CallSpec

----------------------------------------------------------------------------
(* The layers of the hierarchy                                             *)

\* Whoever has a link to v reaches it.
LEMMA ReachesNext ==
  ASSUME NEW edge, NEW u \in Node, NEW v \in Node, <<u, v>> \in edge
  PROVE  Reaches(edge, u, v)
<1> SUFFICES ASSUME NEW S \in SUBSET Node, u \in S, \A e \in edge : e[1] \in S => e[2] \in S
             PROVE  v \in S
  BY DEF Reaches
<1>1. <<u, v>>[1] \in S => <<u, v>>[2] \in S
  OBVIOUS
<1> QED BY <1>1

\* Reaching is transitive.
LEMMA ReachesOn ==
  ASSUME NEW edge, NEW u \in Node, NEW v \in Node, NEW w \in Node, Reaches(edge, u, v), Reaches(edge, v, w)
  PROVE  Reaches(edge, u, w)
BY DEF Reaches

\* What layerOf returns for a set of visited nodes, given its results for larger ones.
LayersFrom(L, V) ==
  [u \in Node |->
     IF u \in V \/ succs[u] = <<>> THEN 0
     ELSE 1 + Max({L[V \cup {u}][v] : v \in Range(succs[u])})]

\* The sets that leave out n nodes or less.
Visited(n) == {V \in SUBSET Node : Cardinality(Node \ V) <= n}

\* There is such a result for each of these sets: what CHOOSE, behind layerOf, needs.
LayersExist(n) == \E L : L = [V \in Visited(n) |-> LayersFrom(L, V)]

\* With all nodes visited nothing is left to call: the recursion ends.
LEMMA LayersStart == LayersExist(0)
<1> DEFINE L == [V \in Visited(0) |-> [u \in Node |-> 0]]
<1>1. ASSUME NEW V \in Visited(0) PROVE V = Node
  <2>1. IsFiniteSet(Node \ V) /\ Cardinality(Node \ V) \in Nat /\ Cardinality(Node \ V) <= 0
    BY NodeAssumption, FS_Subset, FS_CardinalityType DEF Visited
  <2>2. Node \ V = {}
    BY <2>1, FS_EmptySet
  <2> QED BY <2>2 DEF Visited
<1>2. ASSUME NEW V \in Visited(0) PROVE LayersFrom(L, V) = [u \in Node |-> 0]
  BY <1>1 DEF LayersFrom
<1>3. L = [V \in Visited(0) |-> LayersFrom(L, V)]
  BY <1>2
<1> QED BY <1>3 DEF LayersExist

\* A result for each set that leaves out n nodes gives one for the sets that leave out n + 1.
LEMMA LayersGrow ==
  ASSUME NEW n \in Nat, LayersExist(n)
  PROVE  LayersExist(n + 1)
<1>1. PICK L : L = [V \in Visited(n) |-> LayersFrom(L, V)]
  BY DEF LayersExist
<1> DEFINE G == [V \in Visited(n + 1) |-> LayersFrom(L, V)]
<1>2. ASSUME NEW V \in Visited(n + 1), NEW u \in Node \ V
      PROVE  V \cup {u} \in Visited(n)
  <2>1. IsFiniteSet(Node \ V) /\ Cardinality(Node \ V) \in Nat /\ Cardinality(Node \ V) <= n + 1
    BY NodeAssumption, FS_Subset, FS_CardinalityType DEF Visited
  <2>2. Cardinality((Node \ V) \ {u}) = Cardinality(Node \ V) - 1
    BY <2>1, FS_RemoveElement
  <2>3. (Node \ V) \ {u} = Node \ (V \cup {u})
    OBVIOUS
  <2>4. Cardinality(Node \ (V \cup {u})) = Cardinality(Node \ V) - 1
    BY <2>2, <2>3, Zenon
  <2> DEFINE c == Cardinality(Node \ V)
             d == Cardinality(Node \ (V \cup {u}))
  <2>6. d <= n
    <3>1. d = c - 1 /\ c \in Nat /\ c <= n + 1
      BY <2>1, <2>4, Zenon
    <3> HIDE DEF c, d
    <3> QED BY <3>1
  <2>5. V \cup {u} \in SUBSET Node
    BY DEF Visited
  <2> QED BY <2>5, <2>6, Zenon DEF Visited
<1>3. ASSUME NEW V \in Visited(n) PROVE V \in Visited(n + 1)
  BY NodeAssumption, FS_Subset, FS_CardinalityType DEF Visited
<1>4. ASSUME NEW V \in Visited(n) PROVE G[V] = L[V]
  BY <1>1, <1>3
<1> HIDE DEF G
<1>5. ASSUME NEW V \in Visited(n + 1) PROVE LayersFrom(L, V) = LayersFrom(G, V)
  <2>1. ASSUME NEW u \in Node, u \notin V
        PROVE  L[V \cup {u}] = G[V \cup {u}]
    BY <1>2, <1>4, <2>1
  <2> QED BY <2>1, Zenon DEF LayersFrom
<1>6. G = [V \in Visited(n + 1) |-> LayersFrom(G, V)]
  BY <1>5 DEF G
<1> QED BY <1>6 DEF LayersExist

\* The recursion of layerOf is well defined: each call visits one node more.
LEMMA LayerOfIsDefined ==
  \A V \in SUBSET Node : layerOf[V] = LayersFrom(layerOf, V)
<1>1. Cardinality(Node) \in Nat
  BY NodeAssumption, FS_CardinalityType
<1>2. LayersExist(Cardinality(Node))
  <2> SUFFICES ASSUME ~LayersExist(Cardinality(Node)) PROVE FALSE
    OBVIOUS
  <2> DEFINE T == {n \in Nat : ~LayersExist(n)}
  <2>1. T \in SUBSET Nat /\ T # {}
    BY <1>1
  <2>2. PICK n \in T : \A m \in T : n <= m
    BY <2>1, LeastNumber
  <2>3. n # 0 /\ n \in Nat
    BY LayersStart
  <2>4. n - 1 \in Nat /\ n - 1 \notin T
    BY <2>2, <2>3
  <2>5. LayersExist(n - 1)
    BY <2>4
  <2>6. LayersExist((n - 1) + 1)
    BY <2>4, <2>5, LayersGrow
  <2>7. (n - 1) + 1 = n
    BY <2>3
  <2> QED BY <2>6, <2>7
<1>3. Visited(Cardinality(Node)) = SUBSET Node
  <2> SUFFICES ASSUME NEW V \in SUBSET Node PROVE Cardinality(Node \ V) <= Cardinality(Node)
    BY DEF Visited
  <2> QED BY NodeAssumption, FS_Subset
<1>4. \E L : L = [V \in SUBSET Node |-> LayersFrom(L, V)]
  BY <1>2, <1>3 DEF LayersExist
<1>5. layerOf = (CHOOSE L : L = [V \in SUBSET Node |-> LayersFrom(L, V)])
  BY DEF layerOf, LayersFrom
<1>6. layerOf = [V \in SUBSET Node |-> LayersFrom(layerOf, V)]
  BY <1>4, <1>5
<1> QED BY <1>6

\* The lists of all nodes lead downwards.
Descends(f) ==
  \A u \in Node : succs[u] \in Seq(Node) /\ \A v \in Range(succs[u]) : v \in Node /\ f[v] < f[u]

\* Among the classes of a set one has the least rank.
LEMMA LowestNode ==
  ASSUME NEW f \in [Node -> Nat], NEW B \in SUBSET Node, B # {}
  PROVE  \E u \in B : \A v \in B : f[u] <= f[v]
<1> DEFINE N == {f[u] : u \in B}
<1>1. N \in SUBSET Nat /\ N # {}
  OBVIOUS
<1>2. PICK n \in N : \A m \in N : n <= m
  BY <1>1, LeastNumber
<1>3. PICK u \in B : n = f[u]
  BY <1>2
<1> QED BY <1>2, <1>3

\* Without cycles it does not matter which nodes are being visited.
LEMMA VisitedDoNotMatter ==
  ASSUME NEW f \in [Node -> Nat], Descends(f),
         NEW u \in Node, NEW V \in SUBSET Node, \A w \in V : f[w] > f[u]
  PROVE  layerOf[V][u] = layerOf[{}][u]
<1> DEFINE Differs(w) == \E W \in SUBSET Node : (\A x \in W : f[x] > f[w]) /\ layerOf[W][w] # layerOf[{}][w]
           B == {w \in Node : Differs(w)}
<1> SUFFICES ASSUME B # {} PROVE FALSE
  OBVIOUS
<1>1. PICK b \in B : \A v \in B : f[b] <= f[v]
  BY LowestNode
<1>2. PICK W \in SUBSET Node : (\A x \in W : f[x] > f[b]) /\ layerOf[W][b] # layerOf[{}][b]
  BY <1>1
<1>3. b \in Node /\ b \notin W /\ f[b] \in Nat /\ \A x \in Node : f[x] \in Nat
  BY <1>1, <1>2
<1>4. ASSUME NEW v \in Range(succs[b])
      PROVE  layerOf[W \cup {b}][v] = layerOf[{b}][v]
  <2>1. v \in Node /\ f[v] < f[b]
    BY <1>3 DEF Descends
  <2>2. f[v] \in Nat
    BY <1>3, <2>1
  <2>3. v \notin B
    BY <1>1, <1>3, <2>1, <2>2
  <2>4. /\ W \cup {b} \in SUBSET Node /\ \A x \in W \cup {b} : f[x] > f[v]
        /\ {b} \in SUBSET Node /\ \A x \in {b} : f[x] > f[v]
    BY <1>2, <1>3, <2>1, <2>2
  <2>5. layerOf[W \cup {b}][v] = layerOf[{}][v] /\ layerOf[{b}][v] = layerOf[{}][v]
    BY <2>1, <2>3, <2>4
  <2> QED BY <2>5
<1>5. {layerOf[W \cup {b}][v] : v \in Range(succs[b])} = {layerOf[{} \cup {b}][v] : v \in Range(succs[b])}
  <2>1. {} \cup {b} = {b}
    OBVIOUS
  <2> QED BY <1>4, <2>1, Zenon
<1>6. layerOf[W] = LayersFrom(layerOf, W) /\ layerOf[{}] = LayersFrom(layerOf, {})
  BY LayerOfIsDefined
<1>7. LayersFrom(layerOf, W)[b] = LayersFrom(layerOf, {})[b]
  BY <1>3, <1>5, Zenon DEF LayersFrom
<1> QED BY <1>2, <1>6, <1>7, Zenon

\* A class is one layer above the highest of its list, and not above its rank.
LEMMA LayersAreLengths ==
  ASSUME NEW f \in [Node -> Nat], Descends(f), NEW u \in Node
  PROVE  /\ layerOf[{}][u] \in 0 .. f[u]
         /\ \A v \in Range(succs[u]) : layerOf[{}][v] < layerOf[{}][u]
         /\ layerOf[{}][u] > 0 => \E v \in Range(succs[u]) : layerOf[{}][v] = layerOf[{}][u] - 1
<1> DEFINE layer(w) == layerOf[{}][w]
           Next1(w) == {layer(v) : v \in Range(succs[w])}
<1>1. ASSUME NEW w \in Node
      PROVE  layer(w) = IF succs[w] = <<>> THEN 0 ELSE 1 + Max(Next1(w))
  <2>1. ASSUME NEW v \in Range(succs[w]) PROVE layerOf[{} \cup {w}][v] = layerOf[{}][v]
    <3>1. v \in Node /\ f[v] < f[w]
      BY DEF Descends
    <3>2. {} \cup {w} \in SUBSET Node /\ \A x \in {} \cup {w} : f[x] > f[v]
      BY <3>1
    <3> QED BY <3>1, <3>2, VisitedDoNotMatter
  <2>2. {layerOf[{} \cup {w}][v] : v \in Range(succs[w])} = Next1(w)
    BY <2>1, Zenon
  <2>3. layerOf[{}] = LayersFrom(layerOf, {})
    BY LayerOfIsDefined
  <2>4. LayersFrom(layerOf, {})[w] = IF succs[w] = <<>> THEN 0 ELSE 1 + Max(Next1(w))
    <3> HIDE DEF Next1
    <3> QED BY <2>2, Zenon DEF LayersFrom
  <2> QED BY <2>3, <2>4, Zenon
<1>2. ASSUME NEW w \in Node, \A v \in Range(succs[w]) : layer(v) \in 0 .. f[v]
      PROVE  /\ layer(w) \in 0 .. f[w]
             /\ \A v \in Range(succs[w]) : layer(v) < layer(w)
             /\ layer(w) > 0 => \E v \in Range(succs[w]) : layer(v) = layer(w) - 1
  <2>1. CASE succs[w] = <<>>
    <3>1. Range(succs[w]) = {}
      BY <2>1 DEF Range
    <3>2. layer(w) = 0
      BY <1>1, <2>1
    <3> QED BY <3>1, <3>2
  <2>2. CASE succs[w] # <<>>
    <3>1. \A v \in Range(succs[w]) : layer(v) \in 0 .. f[w] - 1 /\ f[w] - 1 \in Nat
      <4> SUFFICES ASSUME NEW v \in Range(succs[w]) PROVE layer(v) \in 0 .. f[w] - 1 /\ f[w] - 1 \in Nat
        OBVIOUS
      <4>1. v \in Node /\ f[v] < f[w] /\ layer(v) \in 0 .. f[v]
        BY <1>2 DEF Descends
      <4>2. f[v] \in Nat /\ f[w] \in Nat
        BY <4>1
      <4> HIDE DEF layer
      <4> QED BY <4>1, <4>2
    <3>2. Range(succs[w]) # {}
      <4>1. succs[w] \in Seq(Node) /\ Len(succs[w]) > 0
        BY <2>2 DEF Descends
      <4>2. 1 \in DOMAIN succs[w]
        BY <4>1
      <4> QED BY <4>2 DEF Range
    <3>3. f[w] - 1 \in Nat /\ Next1(w) \in SUBSET (0 .. f[w] - 1) /\ Next1(w) # {}
      <4> HIDE DEF layer
      <4> QED BY <3>1, <3>2
    <3>4. Max(Next1(w)) \in Next1(w) /\ \A x \in Next1(w) : x <= Max(Next1(w))
      <4> HIDE DEF Next1
      <4> QED BY <3>3, GreatestNumber
    <3>5. layer(w) = 1 + Max(Next1(w))
      BY <1>1, <2>2
    <3> DEFINE g == Max(Next1(w))
    <3>6. /\ g \in 0 .. f[w] - 1 /\ layer(w) = 1 + g
          /\ \E v \in Range(succs[w]) : layer(v) = g
          /\ \A v \in Range(succs[w]) : layer(v) <= g
      <4>1. g \in 0 .. f[w] - 1
        BY <3>3, <3>4
      <4> HIDE DEF layer, g
      <4> QED BY <3>4, <3>5, <4>1 DEF g
    <3> HIDE DEF layer, g
    <3> QED BY <3>1, <3>6
  <2> QED BY <2>1, <2>2
<1> DEFINE B == {w \in Node : ~(layer(w) \in 0 .. f[w])}
<1>3. B = {}
  <2> HIDE DEF layer
  <2> SUFFICES ASSUME B # {} PROVE FALSE
    OBVIOUS
  <2>1. PICK b \in B : \A v \in B : f[b] <= f[v]
    BY LowestNode
  <2>2. ASSUME NEW v \in Range(succs[b]) PROVE layer(v) \in 0 .. f[v]
    <3>1. v \in Node /\ f[v] < f[b] /\ b \in Node
      BY DEF Descends
    <3>2. v \notin B
      BY <2>1, <3>1
    <3> QED BY <3>1, <3>2
  <2>3. b \in Node
    OBVIOUS
  <2>4. layer(b) \in 0 .. f[b]
    BY <1>2, <2>2, <2>3
  <2> QED BY <2>4
<1>4. \A v \in Range(succs[u]) : v \in Node /\ layer(v) \in 0 .. f[v]
  <2>1. \A v \in Range(succs[u]) : v \in Node
    BY DEF Descends
  <2> HIDE DEF layer
  <2> QED BY <1>3, <2>1
<1> QED BY <1>2, <1>4

\* Calls of visit are on the way from the first to the last, in classes of their own, and
\* those are the gray ones.
CallsNested ==
  /\ \A j, k \in DOMAIN stack : stack[j].node = stack[k].node => j = k
  /\ \A u \in Node : color[u] = "gray" <=> \E k \in DOMAIN stack : stack[k].node = u
  /\ \A k \in DOMAIN stack : stack[k].left <= Len(succs[stack[k].node])
  /\ \A j, k \in DOMAIN stack : j <= k => Reaches(Hierarchy, stack[j].node, stack[k].node)

\* Of a class that no call has reached the whole list is as it was given, of one that is
\* visited what is left of it.
AheadAsGiven ==
  /\ \A u \in Node : color[u] = "white" => \A v \in Range(succs[u]) : <<u, v>> \in Hierarchy
  /\ \A k \in DOMAIN stack : \A i \in 1 .. stack[k].left :
       <<stack[k].node, succs[stack[k].node][i]>> \in Hierarchy

\* What a call has been past is done, or is being visited by a call further up: also what
\* those have added to its list.
BehindDone ==
  \A k \in DOMAIN stack : \A i \in DOMAIN succs[stack[k].node] : i > stack[k].left =>
    \/ color[succs[stack[k].node][i]] = "black"
    \/ \E m \in DOMAIN stack : m > k /\ stack[m].node = succs[stack[k].node][i]

\* A link of the lists is given, or was given reversed and closes a cycle; and none is lost.
ListsAreLinks ==
  /\ \A u \in Node : \A v \in Range(succs[u]) :
       /\ u # v
       /\ \/ <<u, v>> \in Hierarchy
          \/ <<v, u>> \in Hierarchy /\ Reaches(Hierarchy, u, v)
  /\ \A e \in Hierarchy : e[2] \in Range(succs[e[1]]) \/ e[1] \in Range(succs[e[2]])

\* Black classes link to black ones, and downwards.
Ranked(f, bound) ==
  \A u \in Node :
    /\ f[u] < bound
    /\ color[u] = "black" => \A v \in Range(succs[u]) : color[v] = "black" /\ f[v] < f[u]

\* A call of visit: its class, and how much of the list it has still to look at.
Calling == [node : Node, left : Nat]

SearchTypes ==
  /\ isA \in Seq(Node \X (Node \cup {Stranger}))
  /\ succs \in [Node -> Seq(Node)]
  /\ color \in [Node -> {"white", "gray", "black"}]
  /\ stack \in Seq(Calling)

\* What the search keeps at every step, whatever it has done to the lists.
SearchInv ==
  /\ SearchTypes /\ CallsNested /\ AheadAsGiven /\ BehindDone /\ ListsAreLinks
  /\ \E f \in [Node -> Nat], bound \in Nat : Ranked(f, bound)

\* Given links are pairs of different classes.
LEMMA GivenLinks ==
  ASSUME SearchTypes, NEW e \in Hierarchy
  PROVE  e[1] \in Node /\ e[2] \in Node /\ e[1] # e[2] /\ e = <<e[1], e[2]>>
BY DEF SearchTypes, Hierarchy, Range

\* The search edits the lists, never the links it was given.
LEMMA SameGivenLinks == isA' = isA => Hierarchy' = Hierarchy
BY DEF Hierarchy

\* A list without its i-th member.
LEMMA OneRemoved ==
  ASSUME NEW S, NEW s \in Seq(S), NEW i \in 1 .. Len(s)
  PROVE  /\ RemoveAt(s, i) \in Seq(S)
         /\ Len(RemoveAt(s, i)) = Len(s) - 1
         /\ \A j \in 1 .. i - 1 : RemoveAt(s, i)[j] = s[j]
         /\ \A j \in i .. Len(s) - 1 : RemoveAt(s, i)[j] = s[j + 1]
         /\ \A v \in Range(RemoveAt(s, i)) : v \in Range(s)
         /\ \A v \in Range(s) : v = s[i] \/ v \in Range(RemoveAt(s, i))
<1> DEFINE r == RemoveAt(s, i)
<1> DEFINE a == SubSeq(s, 1, i - 1)
           b == SubSeq(s, i + 1, Len(s))
<1>1. /\ a \in Seq(S) /\ Len(a) = i - 1 /\ \A j \in 1 .. i - 1 : a[j] = s[j]
      /\ b \in Seq(S) /\ Len(b) = Len(s) - i /\ \A j \in 1 .. Len(s) - i : b[j] = s[i + j]
  <2>1. /\ a \in Seq(S) /\ Len(a) = (IF 1 <= i - 1 THEN i - 1 - 1 + 1 ELSE 0)
        /\ \A j \in 1 .. i - 1 - 1 + 1 : a[j] = s[1 + j - 1]
    BY SubSeqProperties, SMT
  <2>2. /\ b \in Seq(S) /\ Len(b) = (IF i + 1 <= Len(s) THEN Len(s) - (i + 1) + 1 ELSE 0)
        /\ \A j \in 1 .. Len(s) - (i + 1) + 1 : b[j] = s[i + 1 + j - 1]
    BY SubSeqProperties, SMT
  <2> HIDE DEF a, b
  <2>3. i \in Int /\ 1 <= i /\ i <= Len(s) /\ Len(s) \in Int
    OBVIOUS
  <2>4. Len(a) = i - 1 /\ Len(b) = Len(s) - i
    BY <2>1, <2>2, <2>3
  <2>5. ASSUME NEW j \in 1 .. i - 1 PROVE a[j] = s[j]
    <3>1. j \in 1 .. i - 1 - 1 + 1 /\ 1 + j - 1 = j
      BY <2>3
    <3> QED BY <2>1, <3>1
  <2>6. ASSUME NEW j \in 1 .. Len(s) - i PROVE b[j] = s[i + j]
    <3>1. j \in 1 .. Len(s) - (i + 1) + 1 /\ i + 1 + j - 1 = i + j
      BY <2>3
    <3> QED BY <2>2, <3>1
  <2> QED BY <2>1, <2>2, <2>4, <2>5, <2>6
<1>2. /\ r \in Seq(S) /\ Len(r) = Len(s) - 1
      /\ \A j \in 1 .. i - 1 : r[j] = s[j]
      /\ \A j \in i .. Len(s) - 1 : r[j] = s[j + 1]
  <2>1. r = a \o b
    BY DEF RemoveAt
  <2> HIDE DEF a, b, r
  <2>2. /\ r \in Seq(S) /\ Len(r) = Len(a) + Len(b)
        /\ \A j \in 1 .. Len(a) + Len(b) : r[j] = IF j <= Len(a) THEN a[j] ELSE b[j - Len(a)]
    BY <1>1, <2>1, ConcatProperties
  <2>3. ASSUME NEW j \in i .. Len(s) - 1 PROVE r[j] = s[j + 1]
    <3>0. /\ i \in Int /\ j \in Int /\ 1 <= i /\ i <= Len(s) /\ Len(s) \in Int
          /\ i <= j /\ j <= Len(s) - 1
          /\ Len(a) = i - 1 /\ Len(b) = Len(s) - i
      BY <1>1
    <3>1. r[j] = b[j - (i - 1)] /\ j - (i - 1) \in 1 .. Len(s) - i
      <4>1. j \in 1 .. Len(a) + Len(b) /\ ~(j <= Len(a)) /\ j - Len(a) = j - (i - 1)
        BY <3>0
      <4>2. r[j] = b[j - Len(a)]
        BY <2>2, <4>1
      <4>3. j - (i - 1) \in 1 .. Len(s) - i
        BY <3>0
      <4> QED BY <4>1, <4>2, <4>3
    <3>2. b[j - (i - 1)] = s[i + (j - (i - 1))] /\ i + (j - (i - 1)) = j + 1
      BY <1>1, <3>1
    <3> QED BY <3>1, <3>2
  <2>4. Len(r) = Len(s) - 1
    BY <1>1, <2>2
  <2>5. ASSUME NEW j \in 1 .. i - 1 PROVE r[j] = s[j]
    <3>1. j \in 1 .. Len(a) + Len(b) /\ j <= Len(a)
      BY <1>1
    <3>2. r[j] = a[j]
      BY <2>2, <3>1
    <3> QED BY <1>1, <3>2
  <2> QED BY <2>2, <2>3, <2>4, <2>5
<1> HIDE DEF r, a, b
<1>3. ASSUME NEW v \in Range(r) PROVE v \in Range(s)
  <2>1. PICK j \in DOMAIN r : v = r[j]
    BY DEF Range
  <2>2. v = s[j] \/ (v = s[j + 1] /\ j + 1 \in DOMAIN s)
    BY <1>2, <2>1
  <2> QED BY <1>2, <2>1, <2>2 DEF Range
<1>4. ASSUME NEW v \in Range(s), v # s[i] PROVE v \in Range(r)
  <2>1. PICK j \in DOMAIN s : v = s[j] /\ j # i
    BY <1>4 DEF Range
  <2>2. CASE j < i
    <3>1. j \in DOMAIN r /\ r[j] = s[j]
      BY <1>2, <2>1, <2>2
    <3> QED BY <2>1, <3>1 DEF Range
  <2>3. CASE j > i
    <3>1. j - 1 \in DOMAIN r /\ r[j - 1] = s[j]
      BY <1>2, <2>1, <2>3
    <3> QED BY <2>1, <3>1 DEF Range
  <2> QED BY <2>1, <2>2, <2>3
<1> QED BY <1>2, <1>3, <1>4 DEF r

\* A list with a member more.
LEMMA OneAdded ==
  \A s \in Seq(Node), x \in Node :
    LET t == Append(s, x)
    IN  /\ t \in Seq(Node) /\ Len(t) = Len(s) + 1
        /\ \A i \in 1 .. Len(s) : t[i] = s[i]
        /\ t[Len(s) + 1] = x
        /\ \A v : v \in Range(t) <=> v \in Range(s) \/ v = x
<1> SUFFICES ASSUME NEW s \in Seq(Node), NEW x \in Node, NEW t, t = Append(s, x)
             PROVE  /\ t \in Seq(Node) /\ Len(t) = Len(s) + 1
                    /\ \A i \in 1 .. Len(s) : t[i] = s[i]
                    /\ t[Len(s) + 1] = x
                    /\ \A v : v \in Range(t) <=> v \in Range(s) \/ v = x
  BY Zenon
<1>1. t \in Seq(Node) /\ Len(t) = Len(s) + 1 /\ (\A i \in 1 .. Len(s) : t[i] = s[i]) /\ t[Len(s) + 1] = x
  OBVIOUS
<1>2. ASSUME NEW v \in Range(t) PROVE v \in Range(s) \cup {x}
  <2>1. PICK i \in DOMAIN t : v = t[i]
    BY DEF Range
  <2>2. i \in 1 .. Len(s) \/ i = Len(s) + 1
    BY <1>1, <2>1
  <2> QED BY <1>1, <2>1, <2>2 DEF Range
<1>3. ASSUME NEW v \in Range(s) PROVE v \in Range(t)
  <2>1. PICK i \in DOMAIN s : v = s[i]
    BY DEF Range
  <2>2. i \in DOMAIN t /\ t[i] = v
    BY <1>1, <2>1
  <2> QED BY <2>2 DEF Range
<1>4. x \in Range(t)
  <2>1. Len(s) + 1 \in DOMAIN t
    BY <1>1
  <2> QED BY <1>1, <2>1 DEF Range
<1> QED BY <1>1, <1>2, <1>3, <1>4

\* A list without its last member.
LEMMA FrontIs ==
  ASSUME NEW S, NEW s \in Seq(S), s # <<>>
  PROVE  /\ Len(s) \in Nat \ {0} /\ Len(s) \in DOMAIN s /\ Last(s) = s[Len(s)] /\ Last(s) \in S
         /\ Front(s) \in Seq(S) /\ Len(Front(s)) = Len(s) - 1
         /\ \A k \in 1 .. Len(s) - 1 : Front(s)[k] = s[k]
<1> DEFINE f == SubSeq(s, 1, Len(s) - 1)
<1>1. Len(s) \in Nat \ {0} /\ \A i \in 1 .. Len(s) : s[i] \in S
  OBVIOUS
<1>2. /\ f \in Seq(S) /\ Len(f) = (IF 1 <= Len(s) - 1 THEN Len(s) - 1 - 1 + 1 ELSE 0)
      /\ \A k \in 1 .. Len(s) - 1 - 1 + 1 : f[k] = s[1 + k - 1]
  BY <1>1, SubSeqProperties, SMT
<1>3. Front(s) = f
  BY DEF Front
<1> HIDE DEF f
<1>4. f \in Seq(S) /\ Len(f) = Len(s) - 1 /\ \A k \in 1 .. Len(s) - 1 : f[k] = s[k]
  <2>1. Len(s) - 1 - 1 + 1 = Len(s) - 1 /\ \A k \in 1 .. Len(s) - 1 : 1 + k - 1 = k
    BY <1>1
  <2>2. f \in Seq(S) /\ Len(f) = Len(s) - 1
    <3> DEFINE n == Len(s)
    <3>1. n \in Nat \ {0} /\ Len(f) = IF 1 <= n - 1 THEN n - 1 - 1 + 1 ELSE 0
      BY <1>1, <1>2
    <3> HIDE DEF n
    <3>2. Len(f) = n - 1
      BY <3>1
    <3> QED BY <1>2, <3>2 DEF n
  <2>3. ASSUME NEW k \in 1 .. Len(s) - 1 PROVE f[k] = s[k]
    <3>1. k \in 1 .. Len(s) - 1 - 1 + 1 /\ 1 + k - 1 = k
      BY <2>1
    <3>2. f[k] = s[1 + k - 1]
      BY <1>2, <3>1
    <3> QED BY <3>1, <3>2
  <2> QED BY <2>2, <2>3
<1> QED BY <1>1, <1>3, <1>4 DEF Last

\* The call at the top, and what it looks at.
LEMMA TopLooks ==
  ASSUME SearchTypes, CallsNested, Looking
  PROVE  /\ Len(stack) \in Nat \ {0} /\ Len(stack) \in DOMAIN stack /\ Top = stack[Len(stack)]
         /\ Top.node \in Node /\ Top.left \in DOMAIN succs[Top.node] /\ Top.left \in Nat \ {0}
         /\ Seen \in Node /\ Seen \in Range(succs[Top.node])
         /\ LookOn \in Seq(Calling) /\ Len(LookOn) = Len(stack)
         /\ \A k \in DOMAIN stack : k # Len(stack) => LookOn[k] = stack[k]
         /\ LookOn[Len(stack)] = [node |-> Top.node, left |-> Top.left - 1]
<1>1. stack \in Seq(Calling) /\ stack # <<>>
  BY DEF SearchTypes, Looking
<1>2. Len(stack) \in Nat \ {0} /\ Len(stack) \in DOMAIN stack /\ Top = stack[Len(stack)] /\ Top \in Calling
  BY <1>1, FrontIs DEF Top
<1>3. Top.node \in Node /\ Top.left \in Nat \ {0} /\ Top.left <= Len(succs[Top.node])
  <2>1. stack[Len(stack)].left <= Len(succs[stack[Len(stack)].node])
    BY <1>2 DEF CallsNested
  <2> QED BY <1>2, <2>1 DEF Looking, Calling
<1>4. succs[Top.node] \in Seq(Node)
  BY <1>3 DEF SearchTypes
<1>5. Top.left \in DOMAIN succs[Top.node] /\ Seen \in Node
  BY <1>3, <1>4 DEF Seen
<1>6. Seen \in Range(succs[Top.node])
  BY <1>5 DEF Seen, Range
<1>7. [Top EXCEPT !.left = @ - 1] = [node |-> Top.node, left |-> Top.left - 1]
  BY <1>2 DEF Calling
<1>8. /\ Front(stack) \in Seq(Calling) /\ Len(Front(stack)) = Len(stack) - 1
      /\ \A k \in 1 .. Len(stack) - 1 : Front(stack)[k] = stack[k]
  BY <1>1, FrontIs
<1>9. [node |-> Top.node, left |-> Top.left - 1] \in Calling
  BY <1>3 DEF Calling
<1>10. /\ LookOn \in Seq(Calling) /\ Len(LookOn) = Len(stack)
       /\ \A k \in DOMAIN stack : k # Len(stack) => LookOn[k] = stack[k]
       /\ LookOn[Len(stack)] = [node |-> Top.node, left |-> Top.left - 1]
  <2> DEFINE a == Front(stack)
             c == [node |-> Top.node, left |-> Top.left - 1]
             b == <<c>>
  <2>1. LookOn = a \o b
    BY <1>7 DEF LookOn
  <2>2. a \in Seq(Calling) /\ Len(a) = Len(stack) - 1 /\ \A k \in 1 .. Len(stack) - 1 : a[k] = stack[k]
    BY <1>8
  <2>3. b \in Seq(Calling) /\ Len(b) = 1 /\ b[1] = c
    BY <1>9
  <2> HIDE DEF a, b, c
  <2>4. /\ LookOn \in Seq(Calling) /\ Len(LookOn) = Len(a) + Len(b)
        /\ \A k \in 1 .. Len(a) + Len(b) : LookOn[k] = IF k <= Len(a) THEN a[k] ELSE b[k - Len(a)]
    BY <2>1, <2>2, <2>3, ConcatProperties
  <2>5. Len(LookOn) = Len(stack) /\ LookOn[Len(stack)] = c
    BY <1>2, <2>2, <2>3, <2>4
  <2>6. ASSUME NEW k \in DOMAIN stack, k # Len(stack) PROVE LookOn[k] = stack[k]
    <3>1. k \in 1 .. Len(stack) - 1
      BY <1>1, <1>2, <2>6
    <3> QED BY <1>2, <2>2, <2>3, <2>4, <3>1
  <2> QED BY <2>4, <2>5, <2>6 DEF c
<1> QED BY <1>2, <1>3, <1>5, <1>6, <1>10 DEF Calling

\* The search has found a cycle: the link is taken out of the list it is in and put at the
\* end of the other, which is the list of a call in progress.
LEMMA BackEdgeKeeps ==
  ASSUME SearchInv, BackEdge
  PROVE  SearchInv'
<1> DEFINE n == Len(stack)
           u == Top.node
           i == Top.left
           v == Seen
<1>0. SearchTypes /\ CallsNested /\ AheadAsGiven /\ BehindDone /\ ListsAreLinks /\ Looking
  BY DEF SearchInv, BackEdge
<1>1. /\ n \in Nat \ {0} /\ n \in DOMAIN stack /\ DOMAIN stack = 1 .. n
      /\ u \in Node /\ i \in DOMAIN succs[u] /\ i \in Nat \ {0}
      /\ v \in Node /\ v \in Range(succs[u]) /\ v = succs[u][i]
      /\ u = stack[n].node /\ i = stack[n].left
  BY <1>0, TopLooks DEF Seen, SearchTypes
<1>2. /\ LookOn \in Seq(Calling) /\ Len(LookOn) = n
      /\ \A k \in 1 .. n : k # n => LookOn[k] = stack[k]
      /\ LookOn[n] = [node |-> u, left |-> i - 1]
  <2>1. /\ LookOn \in Seq(Calling) /\ Len(LookOn) = n
        /\ \A k \in DOMAIN stack : k # n => LookOn[k] = stack[k]
        /\ LookOn[n] = [node |-> u, left |-> i - 1]
    BY <1>0, TopLooks
  <2> QED BY <1>1, <2>1, Zenon
<1>3. color' = color /\ isA' = isA /\ stack' = LookOn /\ Hierarchy' = Hierarchy
      /\ color[v] = "gray" /\ succs' = [succs EXCEPT ![u] = RemoveAt(@, i), ![v] = Append(@, u)]
  BY SameGivenLinks DEF BackEdge, Reversed
<1> HIDE DEF n, u, i, v
<1>4. u # v /\ <<u, v>> \in Hierarchy
  <2>1. u # v
    BY <1>0, <1>1 DEF ListsAreLinks
  <2>2. i \in 1 .. stack[n].left
    BY <1>1
  <2>3. <<stack[n].node, succs[stack[n].node][i]>> \in Hierarchy
    BY <1>0, <1>1, <2>2 DEF AheadAsGiven
  <2> QED BY <1>1, <2>1, <2>3
<1>5. PICK m \in 1 .. n : stack[m].node = v
  BY <1>0, <1>1, <1>3 DEF CallsNested
<1>6. m < n /\ Reaches(Hierarchy, v, u)
  <2>1. m # n
    BY <1>1, <1>4, <1>5
  <2>2. m < n
    BY <1>1, <1>5, <2>1
  <2>3. m \in DOMAIN stack /\ n \in DOMAIN stack /\ m <= n
    BY <1>1, <2>2
  <2>4. Reaches(Hierarchy, stack[m].node, stack[n].node)
    BY <1>0, <2>3 DEF CallsNested
  <2> QED BY <1>1, <1>5, <2>2, <2>4
<1>7. succs[u] \in Seq(Node) /\ succs[v] \in Seq(Node) /\ i \in 1 .. Len(succs[u])
  BY <1>0, <1>1 DEF SearchTypes
<1> DEFINE cut == RemoveAt(succs[u], i)
           long == Append(succs[v], u)
<1>8. /\ cut \in Seq(Node) /\ Len(cut) = Len(succs[u]) - 1
      /\ \A j \in 1 .. i - 1 : cut[j] = succs[u][j]
      /\ \A j \in i .. Len(succs[u]) - 1 : cut[j] = succs[u][j + 1]
      /\ \A w \in Range(cut) : w \in Range(succs[u])
      /\ \A w \in Range(succs[u]) : w = v \/ w \in Range(cut)
  <2> DEFINE s == succs[u]
  <2>1. s \in Seq(Node) /\ i \in 1 .. Len(s) /\ s[i] = v
    BY <1>1, <1>7
  <2> HIDE DEF s
  <2>2. /\ RemoveAt(s, i) \in Seq(Node)
        /\ Len(RemoveAt(s, i)) = Len(s) - 1
        /\ \A j \in 1 .. i - 1 : RemoveAt(s, i)[j] = s[j]
        /\ \A j \in i .. Len(s) - 1 : RemoveAt(s, i)[j] = s[j + 1]
        /\ \A w \in Range(RemoveAt(s, i)) : w \in Range(s)
        /\ \A w \in Range(s) : w = s[i] \/ w \in Range(RemoveAt(s, i))
    BY <2>1, OneRemoved, Zenon
  <2> QED BY <2>1, <2>2 DEF s
<1>9. /\ long \in Seq(Node) /\ Len(long) = Len(succs[v]) + 1
      /\ \A j \in 1 .. Len(succs[v]) : long[j] = succs[v][j]
      /\ long[Len(succs[v]) + 1] = u
      /\ \A w : w \in Range(long) <=> w \in Range(succs[v]) \/ w = u
  <2>1. long = Append(succs[v], u)
    OBVIOUS
  <2>2. u \in Node /\ succs[v] \in Seq(Node)
    BY <1>1, <1>7
  <2> HIDE DEF long
  <2> QED BY <2>1, <2>2, OneAdded
<1> HIDE DEF cut, long
<1>10. /\ succs' \in [Node -> Seq(Node)] /\ succs'[u] = cut /\ succs'[v] = long
       /\ \A w \in Node : w # u /\ w # v => succs'[w] = succs[w]
  <2>1. succs' = [succs EXCEPT ![u] = cut, ![v] = long]
    BY <1>0, <1>1, <1>3, <1>4 DEF cut, long, SearchTypes
  <2>2. succs \in [Node -> Seq(Node)]
    BY <1>0 DEF SearchTypes
  <2> QED BY <1>1, <1>4, <1>8, <1>9, <2>1, <2>2
<1>11. DOMAIN stack' = 1 .. n /\ \A k \in 1 .. n : stack'[k].node = stack[k].node
  <2>1. DOMAIN stack' = 1 .. n
    BY <1>1, <1>2, <1>3
  <2>2. stack'[n].node = u
    BY <1>2, <1>3
  <2>3. \A k \in 1 .. n : k # n => stack'[k] = stack[k]
    BY <1>2, <1>3
  <2> QED BY <1>1, <2>1, <2>2, <2>3
<1>12. SearchTypes'
  BY <1>0, <1>2, <1>3, <1>10 DEF SearchTypes
<1>13. /\ stack'[n].left = i - 1
       /\ \A k \in 1 .. n : k # n => stack'[k].left = stack[k].left
       /\ \A k \in 1 .. n : k # n => stack[k].node # u
       /\ \A k \in 1 .. n : stack[k].node \in Node /\ stack[k].left \in Nat
       /\ \A k \in 1 .. n : stack[k].left <= Len(succs[stack[k].node])
       /\ \A w \in Node : Len(succs[w]) \in Nat
  <2>1. stack'[n].left = i - 1
    BY <1>2, <1>3
  <2>2. \A k \in 1 .. n : k # n => stack'[k].left = stack[k].left
    BY <1>2, <1>3
  <2>3. \A k \in 1 .. n : k # n => stack[k].node # u
    BY <1>0, <1>1 DEF CallsNested
  <2>4. \A k \in 1 .. n : stack[k] \in Calling
    BY <1>0, <1>1 DEF SearchTypes, n
  <2>5. \A k \in 1 .. n : stack[k].left <= Len(succs[stack[k].node])
    BY <1>0, <1>1 DEF CallsNested
  <2>6. \A w \in Node : Len(succs[w]) \in Nat
    BY <1>0 DEF SearchTypes
  <2> QED BY <2>1, <2>2, <2>3, <2>4, <2>5, <2>6 DEF Calling
<1> DEFINE K == Len(succs[u])
           L == Len(succs[v])
<1>14. /\ K \in Nat /\ L \in Nat /\ DOMAIN cut = 1 .. K - 1 /\ Len(cut) = K - 1
       /\ DOMAIN long = 1 .. L + 1 /\ Len(long) = L + 1 /\ i \in 1 .. K
       /\ DOMAIN succs[u] = 1 .. K /\ DOMAIN succs[v] = 1 .. L
  BY <1>7, <1>8, <1>9
<1>15. /\ \A j \in 1 .. i - 1 : cut[j] = succs[u][j]
       /\ \A j \in i .. K - 1 : cut[j] = succs[u][j + 1]
       /\ \A j \in 1 .. L : long[j] = succs[v][j]
       /\ long[L + 1] = u
  BY <1>8, <1>9
<1> HIDE DEF K, L
<1>16. CallsNested'
  <2>1. \A j, k \in 1 .. n : stack'[j].node = stack'[k].node => j = k
    BY <1>0, <1>1, <1>11 DEF CallsNested
  <2>2. \A w \in Node : color'[w] = "gray" <=> \E k \in 1 .. n : stack'[k].node = w
    <3>1. \A w \in Node : color[w] = "gray" <=> \E k \in DOMAIN stack : stack[k].node = w
      BY <1>0 DEF CallsNested
    <3> QED BY <1>1, <1>3, <1>11, <3>1, Zenon
  <2>3. ASSUME NEW k \in 1 .. n PROVE stack'[k].left <= Len(succs'[stack'[k].node])
    <3>1. CASE k = n
      BY <1>1, <1>7, <1>8, <1>10, <1>11, <1>13, <3>1
    <3>2. CASE k # n /\ stack[k].node = v
      <4>1. stack'[k].left = stack[k].left /\ stack'[k].node = v /\ succs'[v] = long
        BY <1>10, <1>11, <1>13, <3>2
      <4>2. stack[k].left <= L /\ stack[k].left \in Nat
        BY <1>13, <3>2 DEF L
      <4> QED BY <1>14, <4>1, <4>2
    <3>3. CASE k # n /\ stack[k].node # v
      BY <1>10, <1>11, <1>13, <3>3
    <3> QED BY <3>1, <3>2, <3>3
  <2>4. \A j, k \in 1 .. n : j <= k => Reaches(Hierarchy, stack'[j].node, stack'[k].node)
    BY <1>0, <1>1, <1>11 DEF CallsNested
  <2> QED BY <1>3, <1>11, <2>1, <2>2, <2>3, <2>4 DEF CallsNested
<1>17. AheadAsGiven'
  <2>1. ASSUME NEW w \in Node, color'[w] = "white", NEW x \in Range(succs'[w])
        PROVE  <<w, x>> \in Hierarchy
    <3>1. color[w] = "white" /\ w # u /\ w # v
      BY <1>0, <1>1, <1>3, <2>1 DEF CallsNested
    <3>2. x \in Range(succs[w])
      BY <1>10, <2>1, <3>1
    <3> QED BY <1>0, <3>1, <3>2 DEF AheadAsGiven
  <2>2. ASSUME NEW k \in 1 .. n, NEW p \in 1 .. stack'[k].left
        PROVE  <<stack'[k].node, succs'[stack'[k].node][p]>> \in Hierarchy
    <3>1. p \in 1 .. stack[k].left /\ succs'[stack[k].node][p] = succs[stack[k].node][p]
      <4>1. CASE k = n
        BY <1>1, <1>7, <1>8, <1>10, <1>13, <4>1
      <4>2. CASE k # n /\ stack[k].node = v
        <5>1. stack'[k].left = stack[k].left /\ succs'[stack[k].node] = long
          BY <1>10, <1>13, <4>2
        <5>2. stack[k].left <= L /\ stack[k].left \in Nat
          BY <1>13, <4>2 DEF L
        <5> QED BY <1>14, <1>15, <4>2, <5>1, <5>2
      <4>3. CASE k # n /\ stack[k].node # v
        BY <1>10, <1>13, <4>3
      <4> QED BY <4>1, <4>2, <4>3
    <3>2. <<stack[k].node, succs[stack[k].node][p]>> \in Hierarchy
      BY <1>0, <1>1, <3>1 DEF AheadAsGiven
    <3> QED BY <1>11, <3>1, <3>2
  <2>3. \A k \in DOMAIN stack' : \A p \in 1 .. stack'[k].left :
          <<stack'[k].node, succs'[stack'[k].node][p]>> \in Hierarchy'
    <3> SUFFICES ASSUME NEW k \in DOMAIN stack', NEW p \in 1 .. stack'[k].left
                 PROVE  <<stack'[k].node, succs'[stack'[k].node][p]>> \in Hierarchy'
      OBVIOUS
    <3>1. k \in 1 .. n
      BY <1>11
    <3>2. <<stack'[k].node, succs'[stack'[k].node][p]>> \in Hierarchy
      BY <2>2, <3>1
    <3> QED BY <1>3, <3>2, Zenon
  <2>4. \A w \in Node : color'[w] = "white" => \A x \in Range(succs'[w]) : <<w, x>> \in Hierarchy'
    BY <1>3, <2>1
  <2> QED BY <2>3, <2>4, Zenon DEF AheadAsGiven
<1> DEFINE Done(k, x) == color[x] = "black" \/ \E j \in 1 .. n : j > k /\ stack[j].node = x
<1>18. BehindDone'
  <2>1. ASSUME NEW k \in 1 .. n, NEW p \in DOMAIN succs[stack[k].node], p > stack[k].left
        PROVE  Done(k, succs[stack[k].node][p])
    BY <1>0, <1>1, <2>1 DEF BehindDone
  <2>2. Done(m, u)
    BY <1>1, <1>6
  <2>3. \A w \in Node : DOMAIN succs[w] = 1 .. Len(succs[w])
    BY <1>0 DEF SearchTypes
  <2> HIDE DEF Done
  <2>4. ASSUME NEW k \in 1 .. n, NEW p \in DOMAIN succs'[stack[k].node], p > stack'[k].left
        PROVE  Done(k, succs'[stack[k].node][p])
    <3>1. CASE k = n
      <4>1. succs'[stack[k].node] = cut /\ stack'[k].left = i - 1
        BY <1>1, <1>10, <1>13, <3>1
      <4>2. p \in i .. K - 1
        BY <1>1, <1>14, <2>4, <4>1
      <4>3. cut[p] = succs[u][p + 1] /\ p + 1 \in DOMAIN succs[u] /\ p + 1 > i
        BY <1>14, <1>15, <4>2
      <4>4. stack[k].node = u /\ stack[k].left = i
        BY <1>1, <3>1
      <4> QED BY <2>1, <4>1, <4>3, <4>4
    <3>2. CASE k # n /\ stack[k].node = v
      <4>1. k = m
        <5>1. k \in DOMAIN stack /\ m \in DOMAIN stack /\ stack[k].node = stack[m].node
          BY <1>1, <1>5, <3>2
        <5> QED BY <1>0, <5>1 DEF CallsNested
      <4>2. succs'[stack[k].node] = long /\ stack'[k].left = stack[k].left
        BY <1>10, <1>13, <3>2
      <4>3. p \in 1 .. L + 1
        BY <1>14, <2>4, <4>2
      <4>4. CASE p = L + 1
        BY <1>15, <2>2, <4>1, <4>2, <4>4
      <4>5. CASE p \in 1 .. L
        <5>1. long[p] = succs[v][p] /\ p \in DOMAIN succs[stack[k].node]
          BY <1>14, <1>15, <3>2, <4>5
        <5> QED BY <2>1, <2>4, <3>2, <4>2, <5>1
      <4> QED BY <1>14, <4>3, <4>4, <4>5
    <3>3. CASE k # n /\ stack[k].node # v
      <4>1. succs'[stack[k].node] = succs[stack[k].node]
        BY <1>10, <1>13, <3>3
      <4> QED BY <1>13, <2>1, <2>4, <3>3, <4>1
    <3> QED BY <3>1, <3>2, <3>3
  <2>5. ASSUME NEW k \in DOMAIN stack', NEW p \in DOMAIN succs'[stack'[k].node], p > stack'[k].left
        PROVE  \/ color'[succs'[stack'[k].node][p]] = "black"
               \/ \E j \in DOMAIN stack' : j > k /\ stack'[j].node = succs'[stack'[k].node][p]
    <3>1. k \in 1 .. n /\ stack'[k].node = stack[k].node
      BY <1>11
    <3>2. Done(k, succs'[stack[k].node][p])
      BY <2>4, <2>5, <3>1
    <3> QED BY <1>3, <1>11, <3>1, <3>2 DEF Done
  <2> QED BY <2>5, Zenon DEF BehindDone
<1>19. ListsAreLinks'
  <2>1. ASSUME NEW w \in Node, NEW x \in Range(succs'[w])
        PROVE  x \in Range(succs[w]) \/ (w = v /\ x = u)
    <3>1. CASE w = u
      BY <1>8, <1>10, <3>1
    <3>2. CASE w = v
      BY <1>9, <1>10, <3>2
    <3>3. CASE w # u /\ w # v
      BY <1>10, <3>3
    <3> QED BY <3>1, <3>2, <3>3
  <2>2. ASSUME NEW w \in Node, NEW x \in Range(succs'[w])
        PROVE  /\ w # x
               /\ \/ <<w, x>> \in Hierarchy
                  \/ <<x, w>> \in Hierarchy /\ Reaches(Hierarchy, w, x)
    BY <1>0, <1>4, <1>6, <2>1 DEF ListsAreLinks
  <2>3. ASSUME NEW w \in Node, NEW x \in Range(succs[w])
        PROVE  x \in Range(succs'[w]) \/ (w = u /\ x = v)
    <3>1. CASE w = u
      BY <1>8, <1>10, <3>1
    <3>2. CASE w = v
      BY <1>9, <1>10, <3>2
    <3>3. CASE w # u /\ w # v
      BY <1>10, <3>3
    <3> QED BY <3>1, <3>2, <3>3
  <2>4. u \in Range(succs'[v])
    BY <1>9, <1>10
  <2>5. ASSUME NEW e \in Hierarchy
        PROVE  e[2] \in Range(succs'[e[1]]) \/ e[1] \in Range(succs'[e[2]])
    <3>1. e[1] \in Node /\ e[2] \in Node
      BY <1>0, GivenLinks
    <3>2. e[2] \in Range(succs[e[1]]) \/ e[1] \in Range(succs[e[2]])
      BY <1>0 DEF ListsAreLinks
    <3>3. CASE e[2] \in Range(succs[e[1]])
      <4>1. e[2] \in Range(succs'[e[1]]) \/ (e[1] = u /\ e[2] = v)
        BY <2>3, <3>1, <3>3
      <4> QED BY <2>4, <4>1
    <3>4. CASE e[1] \in Range(succs[e[2]])
      <4>1. e[1] \in Range(succs'[e[2]]) \/ (e[2] = u /\ e[1] = v)
        BY <2>3, <3>1, <3>4
      <4> QED BY <2>4, <4>1
    <3> QED BY <3>2, <3>3, <3>4
  <2> QED BY <1>3, <2>2, <2>5 DEF ListsAreLinks
<1>20. \E f \in [Node -> Nat], bound \in Nat : Ranked(f, bound)'
  <2>1. PICK f \in [Node -> Nat], bound \in Nat : Ranked(f, bound)
    BY DEF SearchInv
  <2>2. \A w \in Node : color[w] = "black" => w # u /\ w # v
    BY <1>0, <1>1, <1>3 DEF CallsNested
  <2>3. Ranked(f, bound)'
    BY <1>3, <1>10, <2>1, <2>2 DEF Ranked
  <2> QED BY <2>3
<1> QED BY <1>12, <1>16, <1>17, <1>18, <1>19, <1>20 DEF SearchInv

\* The stack with the call at the top one place further.
LEMMA LooksOn ==
  ASSUME SearchTypes, CallsNested, Looking, NEW n, n = Len(stack)
  PROVE  /\ n \in Nat \ {0} /\ DOMAIN stack = 1 .. n
         /\ LookOn \in Seq(Calling) /\ Len(LookOn) = n /\ DOMAIN LookOn = 1 .. n
         /\ \A k \in 1 .. n : LookOn[k].node = stack[k].node /\ stack[k].node \in Node
         /\ \A k \in 1 .. n : k # n => LookOn[k].left = stack[k].left
         /\ LookOn[n].left = stack[n].left - 1 /\ stack[n].left \in Nat \ {0}
         /\ \A k \in 1 .. n :
              stack[k].left \in Nat /\ LookOn[k].left \in Nat /\ LookOn[k].left <= stack[k].left
         /\ stack[n].left \in DOMAIN succs[stack[n].node]
         /\ Seen \in Node /\ Seen = succs[stack[n].node][stack[n].left]
<1>1. /\ n \in Nat \ {0} /\ Top = stack[n] /\ n \in DOMAIN stack
      /\ Top.left \in DOMAIN succs[Top.node] /\ Top.left \in Nat \ {0}
      /\ Seen \in Node
      /\ LookOn \in Seq(Calling) /\ Len(LookOn) = n
      /\ \A k \in DOMAIN stack : k # n => LookOn[k] = stack[k]
      /\ LookOn[n] = [node |-> Top.node, left |-> Top.left - 1]
  BY TopLooks
<1>2. DOMAIN stack = 1 .. n /\ \A k \in 1 .. n : stack[k] \in Calling
  BY DEF SearchTypes
<1>3. DOMAIN LookOn = 1 .. n
  BY <1>1
<1>4. \A k \in 1 .. n : stack[k].node \in Node /\ stack[k].left \in Nat
  BY <1>2 DEF Calling
<1>5. /\ LookOn[n].node = stack[n].node /\ LookOn[n].left = stack[n].left - 1
      /\ stack[n].left \in Nat \ {0} /\ stack[n].left - 1 \in Nat /\ stack[n].left - 1 <= stack[n].left
  BY <1>1
<1>6. \A k \in 1 .. n : k # n => LookOn[k] = stack[k]
  BY <1>1, <1>2, Zenon
<1>7. ASSUME NEW k \in 1 .. n
      PROVE  LookOn[k].node = stack[k].node /\ LookOn[k].left \in Nat /\ LookOn[k].left <= stack[k].left
  <2>1. CASE k = n
    BY <1>5, <2>1
  <2>2. CASE k # n
    <3>1. LookOn[k] = stack[k] /\ stack[k].left \in Nat
      BY <1>4, <1>6, <2>2
    <3> QED BY <3>1
  <2> QED BY <2>1, <2>2
<1>8. Seen = succs[stack[n].node][stack[n].left] /\ stack[n].left \in DOMAIN succs[stack[n].node]
  BY <1>1 DEF Seen
<1> HIDE DEF Calling
<1> QED BY <1>1, <1>2, <1>3, <1>4, <1>5, <1>6, <1>7, <1>8

\* What is seen was seen to its end before.
LEMMA OtherEdgeKeeps ==
  ASSUME SearchInv, OtherEdge
  PROVE  SearchInv'
<1> DEFINE n == Len(stack)
<1>0. SearchTypes /\ CallsNested /\ AheadAsGiven /\ BehindDone /\ ListsAreLinks /\ Looking
  BY DEF SearchInv, OtherEdge
<1>1. /\ color' = color /\ succs' = succs /\ isA' = isA /\ stack' = LookOn
      /\ Hierarchy' = Hierarchy /\ color[Seen] = "black"
  BY SameGivenLinks DEF OtherEdge
<1>2. /\ n \in Nat \ {0} /\ DOMAIN stack = 1 .. n
      /\ stack' \in Seq(Calling) /\ DOMAIN stack' = 1 .. n
      /\ \A k \in 1 .. n : stack'[k].node = stack[k].node /\ stack[k].node \in Node
      /\ \A k \in 1 .. n : k # n => stack'[k].left = stack[k].left
      /\ stack'[n].left = stack[n].left - 1
      /\ \A k \in 1 .. n : stack[k].left \in Nat /\ stack'[k].left \in Nat /\ stack'[k].left <= stack[k].left
      /\ Seen = succs[stack[n].node][stack[n].left]
  BY <1>0, <1>1, LooksOn
<1> HIDE DEF n
<1>3. SearchTypes'
  BY <1>0, <1>1, <1>2 DEF SearchTypes
<1>4. CallsNested'
  <2>1. \A w \in Node : color'[w] = "gray" <=> \E k \in DOMAIN stack' : stack'[k].node = w
    <3>1. \A w \in Node : color[w] = "gray" <=> \E k \in DOMAIN stack : stack[k].node = w
      BY <1>0 DEF CallsNested
    <3>2. /\ DOMAIN stack = 1 .. n /\ DOMAIN stack' = 1 .. n
          /\ \A k \in 1 .. n : stack'[k].node = stack[k].node
      BY <1>2
    <3>3. color' = color
      BY <1>1
    <3> QED BY <3>1, <3>2, <3>3, Zenon
  <2>2. ASSUME NEW k \in DOMAIN stack' PROVE stack'[k].left <= Len(succs'[stack'[k].node])
    <3>1. stack[k].left <= Len(succs[stack[k].node])
      BY <1>0, <1>2 DEF CallsNested
    <3>2. Len(succs[stack[k].node]) \in Nat
      BY <1>0, <1>2 DEF SearchTypes
    <3>3. /\ stack'[k].node = stack[k].node /\ stack'[k].left <= stack[k].left
          /\ stack[k].left \in Nat /\ stack'[k].left \in Nat
      BY <1>2
    <3> QED BY <1>1, <3>1, <3>2, <3>3
  <2>3. \A j, k \in DOMAIN stack' : stack'[j].node = stack'[k].node => j = k
    BY <1>0, <1>2 DEF CallsNested
  <2>4. \A j, k \in DOMAIN stack' : j <= k => Reaches(Hierarchy', stack'[j].node, stack'[k].node)
    BY <1>0, <1>1, <1>2 DEF CallsNested
  <2> QED BY <2>1, <2>2, <2>3, <2>4 DEF CallsNested
<1>5. AheadAsGiven'
  <2>1. ASSUME NEW k \in DOMAIN stack', NEW p \in 1 .. stack'[k].left
        PROVE  <<stack'[k].node, succs'[stack'[k].node][p]>> \in Hierarchy'
    <3>1. k \in 1 .. n /\ p \in 1 .. stack[k].left
      BY <1>2
    <3>2. <<stack[k].node, succs[stack[k].node][p]>> \in Hierarchy
      BY <1>0, <1>2, <3>1 DEF AheadAsGiven
    <3> QED BY <1>1, <1>2, <3>1, <3>2
  <2>2. \A w \in Node : color'[w] = "white" => \A x \in Range(succs'[w]) : <<w, x>> \in Hierarchy'
    BY <1>0, <1>1 DEF AheadAsGiven
  <2> QED BY <2>1, <2>2, Zenon DEF AheadAsGiven
<1>6. BehindDone'
  <2> SUFFICES ASSUME NEW k \in DOMAIN stack', NEW p \in DOMAIN succs'[stack'[k].node], p > stack'[k].left
               PROVE  \/ color'[succs'[stack'[k].node][p]] = "black"
                      \/ \E j \in DOMAIN stack' : j > k /\ stack'[j].node = succs'[stack'[k].node][p]
    BY Zenon DEF BehindDone
  <2>1. k \in 1 .. n /\ stack'[k].node = stack[k].node /\ p \in DOMAIN succs[stack[k].node] /\ p \in Nat
    <3>1. k \in 1 .. n /\ stack'[k].node = stack[k].node /\ p \in DOMAIN succs[stack[k].node]
      BY <1>1, <1>2
    <3>2. succs[stack[k].node] \in Seq(Node)
      BY <1>0, <1>2, <3>1 DEF SearchTypes
    <3> QED BY <3>1, <3>2
  <2>2. CASE p > stack[k].left
    <3>1. \/ color[succs[stack[k].node][p]] = "black"
          \/ \E j \in DOMAIN stack : j > k /\ stack[j].node = succs[stack[k].node][p]
      BY <1>0, <1>2, <2>1, <2>2 DEF BehindDone
    <3> QED BY <1>1, <1>2, <2>1, <3>1
  <2>3. CASE ~ (p > stack[k].left)
    <3>1. k = n
      BY <1>2, <2>1, <2>3
    <3>2. p = stack[n].left
      BY <1>2, <2>1, <2>3, <3>1
    <3> QED BY <1>1, <1>2, <2>1, <3>1, <3>2
  <2> QED BY <2>2, <2>3
<1>7. ListsAreLinks'
  BY <1>0, <1>1 DEF ListsAreLinks
<1>8. \E f \in [Node -> Nat], bound \in Nat : Ranked(f, bound)'
  BY <1>1 DEF SearchInv, Ranked
<1> QED BY <1>3, <1>4, <1>5, <1>6, <1>7, <1>8 DEF SearchInv

\* A call of visit on a class that is seen for the first time.
LEMMA TreeEdgeKeeps ==
  ASSUME SearchInv, TreeEdge
  PROVE  SearchInv'
<1> DEFINE n == Len(stack)
           c == Calls(Seen)
<1>0. SearchTypes /\ CallsNested /\ AheadAsGiven /\ BehindDone /\ ListsAreLinks /\ Looking
  BY DEF SearchInv, TreeEdge
<1>1. /\ color' = [color EXCEPT ![Seen] = "gray"] /\ succs' = succs /\ isA' = isA
      /\ stack' = Append(LookOn, c) /\ Hierarchy' = Hierarchy /\ color[Seen] = "white"
  BY SameGivenLinks DEF TreeEdge
<1>2. /\ n \in Nat \ {0} /\ DOMAIN stack = 1 .. n
      /\ LookOn \in Seq(Calling) /\ Len(LookOn) = n
      /\ \A k \in 1 .. n : LookOn[k].node = stack[k].node /\ stack[k].node \in Node
      /\ \A k \in 1 .. n : k # n => LookOn[k].left = stack[k].left
      /\ LookOn[n].left = stack[n].left - 1 /\ stack[n].left \in Nat \ {0}
      /\ \A k \in 1 .. n : stack[k].left \in Nat /\ LookOn[k].left \in Nat /\ LookOn[k].left <= stack[k].left
      /\ stack[n].left \in DOMAIN succs[stack[n].node]
      /\ Seen \in Node /\ Seen = succs[stack[n].node][stack[n].left]
  BY <1>0, LooksOn
<1>3. succs[Seen] \in Seq(Node) /\ Len(succs[Seen]) \in Nat /\ DOMAIN succs[Seen] = 1 .. Len(succs[Seen])
  <2>1. succs[Seen] \in Seq(Node)
    BY <1>0, <1>2 DEF SearchTypes
  <2> QED BY <2>1
<1>4. c \in Calling /\ c.node = Seen /\ c.left = Len(succs[Seen])
  BY <1>2, <1>3 DEF Calls, Calling
<1> HIDE DEF n, c
<1>5. /\ stack' \in Seq(Calling) /\ DOMAIN stack' = 1 .. n + 1
      /\ \A k \in 1 .. n : stack'[k] = LookOn[k]
      /\ stack'[n + 1] = c
  BY <1>1, <1>2, <1>4
<1>6. /\ \A k \in 1 .. n : stack'[k].node = stack[k].node
      /\ \A k \in 1 .. n : stack'[k].left \in Nat /\ stack'[k].left <= stack[k].left
      /\ \A k \in 1 .. n : k # n => stack'[k].left = stack[k].left
      /\ stack'[n].left = stack[n].left - 1
      /\ stack'[n + 1].node = Seen /\ stack'[n + 1].left = Len(succs[Seen])
  BY <1>2, <1>4, <1>5
<1>7. /\ color' \in [Node -> {"white", "gray", "black"}]
      /\ color'[Seen] = "gray" /\ \A w \in Node : w # Seen => color'[w] = color[w]
      /\ \A w \in Node : color'[w] = "black" <=> color[w] = "black"
  BY <1>0, <1>1, <1>2 DEF SearchTypes
<1>8. /\ \A w \in Node : color[w] = "gray" <=> \E k \in 1 .. n : stack[k].node = w
      /\ \A k \in 1 .. n : stack[k].node # Seen
  <2>1. \A w \in Node : color[w] = "gray" <=> \E k \in 1 .. n : stack[k].node = w
    BY <1>0, <1>2 DEF CallsNested
  <2> QED BY <1>1, <1>2, <2>1
<1>9. <<stack[n].node, Seen>> \in Hierarchy
  <2>1. stack[n].left \in 1 .. stack[n].left /\ n \in DOMAIN stack
    BY <1>2
  <2> QED BY <1>0, <1>2, <2>1 DEF AheadAsGiven
<1>10. SearchTypes'
  BY <1>0, <1>1, <1>5, <1>7 DEF SearchTypes
<1>11. ASSUME NEW k \in 1 .. n + 1 PROVE k \in 1 .. n \/ k = n + 1
  BY <1>2
<1>12. CallsNested'
  <2>1. ASSUME NEW j \in DOMAIN stack', NEW k \in DOMAIN stack', stack'[j].node = stack'[k].node PROVE j = k
    <3>1. CASE j \in 1 .. n /\ k \in 1 .. n
      <4>1. stack[j].node = stack[k].node /\ j \in DOMAIN stack /\ k \in DOMAIN stack
        BY <1>2, <1>6, <2>1, <3>1
      <4> QED BY <1>0, <4>1 DEF CallsNested
    <3>2. CASE j = n + 1 \/ k = n + 1
      BY <1>5, <1>6, <1>8, <1>11, <2>1, <3>2
    <3> QED BY <1>5, <1>11, <3>1, <3>2
  <2>2. ASSUME NEW w \in Node PROVE color'[w] = "gray" <=> \E k \in DOMAIN stack' : stack'[k].node = w
    <3>1. CASE w = Seen
      <4>1. n + 1 \in DOMAIN stack'
        BY <1>2, <1>5
      <4> QED BY <1>6, <1>7, <3>1, <4>1
    <3>2. CASE w # Seen
      <4>1. (\E k \in DOMAIN stack' : stack'[k].node = w) <=> \E k \in 1 .. n : stack[k].node = w
        <5>1. \A k \in 1 .. n : k \in DOMAIN stack'
          BY <1>2, <1>5
        <5>2. \A k \in DOMAIN stack' : k \in 1 .. n \/ k = n + 1
          BY <1>5, <1>11
        <5> QED BY <1>6, <3>2, <5>1, <5>2
      <4> QED BY <1>7, <1>8, <3>2, <4>1
    <3> QED BY <3>1, <3>2
  <2>3. ASSUME NEW k \in DOMAIN stack' PROVE stack'[k].left <= Len(succs'[stack'[k].node])
    <3>1. CASE k \in 1 .. n
      <4>1. stack[k].left <= Len(succs[stack[k].node])
        BY <1>0, <1>2, <3>1 DEF CallsNested
      <4>2. Len(succs[stack[k].node]) \in Nat
        BY <1>0, <1>2, <3>1 DEF SearchTypes
      <4>3. /\ stack'[k].node = stack[k].node /\ stack'[k].left <= stack[k].left
            /\ stack[k].left \in Nat /\ stack'[k].left \in Nat
        BY <1>2, <1>6, <3>1
      <4> QED BY <1>1, <4>1, <4>2, <4>3
    <3>2. CASE k = n + 1
      BY <1>1, <1>3, <1>6, <3>2
    <3> QED BY <1>5, <1>11, <3>1, <3>2
  <2>4. ASSUME NEW j \in DOMAIN stack', NEW k \in DOMAIN stack', j <= k
        PROVE  Reaches(Hierarchy', stack'[j].node, stack'[k].node)
    <3>1. CASE j \in 1 .. n /\ k \in 1 .. n
      BY <1>0, <1>1, <1>2, <1>6, <2>4, <3>1 DEF CallsNested
    <3>2. CASE j \in 1 .. n /\ k = n + 1
      <4>1. Reaches(Hierarchy, stack[j].node, stack[n].node)
        BY <1>0, <1>2, <3>2 DEF CallsNested
      <4>2. Reaches(Hierarchy, stack[n].node, Seen)
        BY <1>2, <1>9, ReachesNext
      <4>3. stack[j].node \in Node /\ stack[n].node \in Node /\ Seen \in Node
        BY <1>2, <3>2
      <4>4. Reaches(Hierarchy, stack[j].node, Seen)
        BY <4>1, <4>2, <4>3, ReachesOn
      <4> QED BY <1>1, <1>6, <3>2, <4>4
    <3>3. CASE j = n + 1 /\ k = n + 1
      <4>1. Reaches(Hierarchy, Seen, Seen)
        BY DEF Reaches
      <4> QED BY <1>1, <1>6, <3>3, <4>1
    <3>4. ~ (j = n + 1 /\ k \in 1 .. n)
      BY <1>2, <2>4
    <3> QED BY <1>5, <1>11, <3>1, <3>2, <3>3, <3>4
  <2> QED BY <2>1, <2>2, <2>3, <2>4, Zenon DEF CallsNested
<1>13. AheadAsGiven'
  <2>1. ASSUME NEW k \in DOMAIN stack', NEW p \in 1 .. stack'[k].left
        PROVE  <<stack'[k].node, succs'[stack'[k].node][p]>> \in Hierarchy'
    <3>1. CASE k \in 1 .. n
      <4>1. p \in 1 .. stack[k].left
        BY <1>2, <1>6, <3>1
      <4>2. <<stack[k].node, succs[stack[k].node][p]>> \in Hierarchy
        BY <1>0, <1>2, <3>1, <4>1 DEF AheadAsGiven
      <4> QED BY <1>1, <1>6, <3>1, <4>2
    <3>2. CASE k = n + 1
      <4>1. p \in DOMAIN succs[Seen]
        BY <1>3, <1>6, <3>2
      <4>2. succs[Seen][p] \in Range(succs[Seen])
        BY <4>1 DEF Range
      <4>3. <<Seen, succs[Seen][p]>> \in Hierarchy
        BY <1>0, <1>1, <1>2, <4>2 DEF AheadAsGiven
      <4> QED BY <1>1, <1>6, <3>2, <4>3
    <3> QED BY <1>5, <1>11, <3>1, <3>2
  <2>2. ASSUME NEW w \in Node, color'[w] = "white", NEW x \in Range(succs'[w])
        PROVE  <<w, x>> \in Hierarchy'
    <3>1. color[w] = "white"
      BY <1>7, <2>2
    <3> QED BY <1>0, <1>1, <3>1 DEF AheadAsGiven
  <2> QED BY <2>1, <2>2, Zenon DEF AheadAsGiven
<1>14. BehindDone'
  <2> SUFFICES ASSUME NEW k \in DOMAIN stack', NEW p \in DOMAIN succs'[stack'[k].node], p > stack'[k].left
               PROVE  \/ color'[succs'[stack'[k].node][p]] = "black"
                      \/ \E j \in DOMAIN stack' : j > k /\ stack'[j].node = succs'[stack'[k].node][p]
    BY Zenon DEF BehindDone
  <2>1. CASE k \in 1 .. n
    <3>1. stack'[k].node = stack[k].node /\ p \in DOMAIN succs[stack[k].node]
      BY <1>1, <1>6, <2>1
    <3>2. p \in Nat /\ succs[stack[k].node][p] \in Node
      <4>1. succs[stack[k].node] \in Seq(Node)
        BY <1>0, <1>2, <2>1 DEF SearchTypes
      <4> QED BY <3>1, <4>1
    <3>3. n + 1 \in DOMAIN stack' /\ \A j \in 1 .. n : j \in DOMAIN stack'
      BY <1>2, <1>5
    <3>4. CASE p > stack[k].left
      <4>1. \/ color[succs[stack[k].node][p]] = "black"
            \/ \E j \in DOMAIN stack : j > k /\ stack[j].node = succs[stack[k].node][p]
        BY <1>0, <1>2, <2>1, <3>1, <3>4 DEF BehindDone
      <4> DEFINE x == succs[stack[k].node][p]
      <4>2. x \in Node /\ succs'[stack'[k].node][p] = x
        BY <1>1, <3>1, <3>2
      <4>3. color[x] = "black" \/ \E j \in 1 .. n : j > k /\ stack[j].node = x
        BY <1>2, <4>1
      <4> HIDE DEF x
      <4>4. color'[x] = "black" \/ \E j \in DOMAIN stack' : j > k /\ stack'[j].node = x
        <5>1. CASE color[x] = "black"
          BY <1>7, <4>2, <5>1
        <5>2. ASSUME NEW j \in 1 .. n, j > k, stack[j].node = x PROVE j \in DOMAIN stack' /\ stack'[j].node = x
          BY <1>6, <3>3, <5>2
        <5> QED BY <4>3, <5>1, <5>2
      <4> QED BY <4>2, <4>4
    <3>5. CASE ~ (p > stack[k].left)
      <4>1. k = n /\ p = stack[n].left
        BY <1>2, <1>6, <2>1, <3>2, <3>5
      <4>2. n + 1 > k /\ stack'[n + 1].node = succs'[stack'[k].node][p]
        BY <1>1, <1>2, <1>6, <3>1, <4>1
      <4> QED BY <3>3, <4>2
    <3> QED BY <3>4, <3>5
  <2>2. CASE k = n + 1
    BY <1>1, <1>3, <1>6, <2>2
  <2> QED BY <1>5, <1>11, <2>1, <2>2
<1>15. ListsAreLinks'
  BY <1>0, <1>1 DEF ListsAreLinks
<1>16. \E f \in [Node -> Nat], bound \in Nat : Ranked(f, bound)'
  <2>1. PICK f \in [Node -> Nat], bound \in Nat : Ranked(f, bound)
    BY DEF SearchInv
  <2>2. ASSUME NEW w \in Node PROVE Range(succs[w]) \subseteq Node
    BY <1>0 DEF SearchTypes, Range
  <2>3. Ranked(f, bound)'
    BY <1>1, <1>7, <2>1, <2>2 DEF Ranked
  <2> QED BY <2>3
<1> QED BY <1>10, <1>12, <1>13, <1>14, <1>15, <1>16 DEF SearchInv

\* A class all of whose list has been looked at ranks above all that are done.
LEMMA LeaveKeeps ==
  ASSUME SearchInv, Leave
  PROVE  SearchInv'
<1> DEFINE n == Len(stack)
           u == Top.node
<1>0. SearchTypes /\ CallsNested /\ AheadAsGiven /\ BehindDone /\ ListsAreLinks
  BY DEF SearchInv
<1>1. /\ color' = [color EXCEPT ![u] = "black"] /\ succs' = succs /\ isA' = isA
      /\ stack' = Front(stack) /\ Hierarchy' = Hierarchy
  BY SameGivenLinks DEF Leave
<1>2. /\ n \in Nat \ {0} /\ DOMAIN stack = 1 .. n /\ n \in DOMAIN stack
      /\ u = stack[n].node /\ stack[n].left = 0 /\ u \in Node
      /\ stack' \in Seq(Calling) /\ DOMAIN stack' = 1 .. n - 1
      /\ \A k \in 1 .. n - 1 : stack'[k] = stack[k]
  <2>1. stack \in Seq(Calling) /\ stack # <<>> /\ Top.left = 0
    BY <1>0 DEF SearchTypes, Leave
  <2>2. /\ n \in Nat \ {0} /\ n \in DOMAIN stack /\ Top = stack[n] /\ Top \in Calling
        /\ Front(stack) \in Seq(Calling) /\ Len(Front(stack)) = n - 1
        /\ \A k \in 1 .. n - 1 : Front(stack)[k] = stack[k]
    BY <2>1, FrontIs DEF Top
  <2>3. u \in Node
    BY <2>2 DEF Calling
  <2>4. DOMAIN stack = 1 .. n
    BY <2>1
  <2>5. DOMAIN stack' = 1 .. n - 1
    BY <1>1, <2>2
  <2> QED BY <1>1, <2>1, <2>2, <2>3, <2>4, <2>5
<1> HIDE DEF n, u
<1>3. \A w \in Node : color[w] = "gray" <=> \E k \in 1 .. n : stack[k].node = w
  BY <1>0, <1>2 DEF CallsNested
<1>4. \A j, k \in 1 .. n : stack[j].node = stack[k].node => j = k
  BY <1>0, <1>2 DEF CallsNested
<1>5. /\ color' \in [Node -> {"white", "gray", "black"}]
      /\ color[u] = "gray" /\ color'[u] = "black" /\ \A w \in Node : w # u => color'[w] = color[w]
  BY <1>0, <1>1, <1>2, <1>3 DEF SearchTypes
<1>6. ASSUME NEW k \in 1 .. n - 1 PROVE k \in 1 .. n /\ k # n /\ stack[k].node # u
  BY <1>2, <1>4
<1>7. ASSUME NEW k \in 1 .. n PROVE k \in 1 .. n - 1 \/ k = n
  BY <1>2
<1>8. SearchTypes'
  BY <1>0, <1>1, <1>2, <1>5 DEF SearchTypes
<1>9. CallsNested'
  <2>1. \A j, k \in DOMAIN stack' : stack'[j].node = stack'[k].node => j = k
    BY <1>2, <1>4, <1>6
  <2>2. ASSUME NEW w \in Node PROVE color'[w] = "gray" <=> \E k \in DOMAIN stack' : stack'[k].node = w
    <3>1. CASE w = u
      BY <1>2, <1>5, <1>6, <3>1
    <3>2. CASE w # u
      BY <1>2, <1>3, <1>5, <1>6, <1>7, <3>2
    <3> QED BY <3>1, <3>2
  <2>3. \A k \in DOMAIN stack' : stack'[k].left <= Len(succs'[stack'[k].node])
    BY <1>0, <1>1, <1>2, <1>6 DEF CallsNested
  <2>4. \A j, k \in DOMAIN stack' : j <= k => Reaches(Hierarchy', stack'[j].node, stack'[k].node)
    BY <1>0, <1>1, <1>2, <1>6 DEF CallsNested
  <2> QED BY <2>1, <2>2, <2>3, <2>4, Zenon DEF CallsNested
<1>10. AheadAsGiven'
  <2>1. \A k \in DOMAIN stack' : \A p \in 1 .. stack'[k].left :
          <<stack'[k].node, succs'[stack'[k].node][p]>> \in Hierarchy'
    BY <1>0, <1>1, <1>2, <1>6 DEF AheadAsGiven
  <2>2. \A w \in Node : color'[w] = "white" => \A x \in Range(succs'[w]) : <<w, x>> \in Hierarchy'
    BY <1>0, <1>1, <1>5 DEF AheadAsGiven
  <2> QED BY <2>1, <2>2, Zenon DEF AheadAsGiven
<1>11. ASSUME NEW k \in 1 .. n, NEW p \in DOMAIN succs[stack[k].node], p > stack[k].left
       PROVE  /\ succs[stack[k].node][p] \in Node
              /\ \/ color[succs[stack[k].node][p]] = "black"
                 \/ \E j \in 1 .. n : j > k /\ stack[j].node = succs[stack[k].node][p]
  <2>1. stack[k] \in Calling
    BY <1>0, <1>2 DEF SearchTypes
  <2>2. succs[stack[k].node] \in Seq(Node)
    BY <1>0, <2>1 DEF SearchTypes, Calling
  <2>3. \/ color[succs[stack[k].node][p]] = "black"
        \/ \E j \in 1 .. n : j > k /\ stack[j].node = succs[stack[k].node][p]
    BY <1>0, <1>2, <1>11 DEF BehindDone
  <2> QED BY <2>2, <2>3
<1>12. BehindDone'
  <2> SUFFICES ASSUME NEW k \in DOMAIN stack', NEW p \in DOMAIN succs'[stack'[k].node], p > stack'[k].left
               PROVE  \/ color'[succs'[stack'[k].node][p]] = "black"
                      \/ \E j \in DOMAIN stack' : j > k /\ stack'[j].node = succs'[stack'[k].node][p]
    BY Zenon DEF BehindDone
  <2> DEFINE x == succs[stack[k].node][p]
  <2>1. k \in 1 .. n /\ stack'[k] = stack[k] /\ succs'[stack'[k].node][p] = x
    BY <1>1, <1>2, <1>6
  <2>2. x \in Node /\ (color[x] = "black" \/ \E j \in 1 .. n : j > k /\ stack[j].node = x)
    BY <1>1, <1>11, <2>1
  <2> HIDE DEF x
  <2>3. CASE color[x] = "black"
    BY <1>5, <2>1, <2>2, <2>3
  <2>4. ASSUME NEW j \in 1 .. n, j > k, stack[j].node = x
        PROVE  color'[x] = "black" \/ (j \in DOMAIN stack' /\ stack'[j].node = x)
    BY <1>2, <1>5, <1>7, <2>4
  <2> QED BY <2>1, <2>2, <2>3, <2>4
<1>13. ListsAreLinks'
  BY <1>0, <1>1 DEF ListsAreLinks
<1>14. \E f \in [Node -> Nat], bound \in Nat : Ranked(f, bound)'
  <2>1. PICK f \in [Node -> Nat], bound \in Nat : Ranked(f, bound)
    BY DEF SearchInv
  <2>2. PICK g \in [Node -> Nat] : g[u] = bound /\ \A w \in Node : w # u => g[w] = f[w]
    <3>1. [f EXCEPT ![u] = bound] \in [Node -> Nat]
      BY <2>1
    <3> QED BY <1>2, <3>1
  <2>3. ASSUME NEW x \in Range(succs[u]) PROVE x \in Node /\ color[x] = "black"
    <3>1. PICK p \in DOMAIN succs[u] : x = succs[u][p]
      BY DEF Range
    <3>2. succs[u] \in Seq(Node)
      BY <1>0, <1>2 DEF SearchTypes
    <3>3. p > stack[n].left /\ p \in DOMAIN succs[stack[n].node]
      BY <1>2, <3>1, <3>2
    <3>4. x \in Node /\ (color[x] = "black" \/ \E j \in 1 .. n : j > n /\ stack[j].node = x)
      BY <1>2, <1>11, <3>1, <3>3
    <3> QED BY <1>2, <3>4
  <2>4. ASSUME NEW w \in Node
        PROVE  /\ g[w] < bound + 1
               /\ color'[w] = "black" => \A x \in Range(succs'[w]) : color'[x] = "black" /\ g[x] < g[w]
    <3>1. g[w] < bound + 1
      <4>1. f[w] < bound /\ f[w] \in Nat
        BY <2>1 DEF Ranked
      <4> QED BY <2>1, <2>2, <4>1
    <3>2. ASSUME color'[w] = "black", NEW x \in Range(succs'[w]) PROVE color'[x] = "black" /\ g[x] < g[w]
      <4>1. CASE w = u
        <5>1. x \in Node /\ color[x] = "black" /\ x # u
          BY <1>1, <1>5, <2>3, <3>2, <4>1
        <5>2. f[x] < bound
          BY <2>1, <5>1 DEF Ranked
        <5> QED BY <1>5, <2>2, <4>1, <5>1, <5>2
      <4>2. CASE w # u
        <5>1. color[w] = "black"
          BY <1>5, <3>2, <4>2
        <5>2. x \in Node
          BY <1>0, <1>1, <3>2 DEF SearchTypes, Range
        <5>3. color[x] = "black" /\ f[x] < f[w]
          BY <1>1, <2>1, <3>2, <5>1 DEF Ranked
        <5> QED BY <1>5, <2>2, <4>2, <5>2, <5>3
      <4> QED BY <4>1, <4>2
    <3> QED BY <3>1, <3>2
  <2>5. Ranked(g, bound + 1)'
    BY <2>4 DEF Ranked
  <2> QED BY <2>5
<1> QED BY <1>8, <1>9, <1>10, <1>12, <1>13, <1>14 DEF SearchInv

\* A call of visit from the outer loop: the calls before are all over.
LEMMA VisitKeeps ==
  ASSUME SearchInv, Visit
  PROVE  SearchInv'
<1>0. SearchTypes /\ CallsNested /\ AheadAsGiven /\ BehindDone /\ ListsAreLinks
  BY DEF SearchInv
<1>1. PICK u \in Node :
        /\ color[u] = "white" /\ color' = [color EXCEPT ![u] = "gray"] /\ stack' = <<Calls(u)>>
  BY DEF Visit
<1>2. stack = <<>> /\ succs' = succs /\ isA' = isA /\ Hierarchy' = Hierarchy
  BY SameGivenLinks DEF Visit
<1> DEFINE c == Calls(u)
<1>3. succs[u] \in Seq(Node) /\ Len(succs[u]) \in Nat /\ DOMAIN succs[u] = 1 .. Len(succs[u])
  <2>1. succs[u] \in Seq(Node)
    BY <1>0 DEF SearchTypes
  <2> QED BY <2>1
<1>4. c \in Calling /\ c.node = u /\ c.left = Len(succs[u])
  BY <1>3 DEF Calls, Calling
<1> HIDE DEF c
<1>5. stack' \in Seq(Calling) /\ DOMAIN stack' = {1} /\ stack'[1] = c
  <2>1. stack' = <<c>>
    BY <1>1 DEF c
  <2> QED BY <1>4, <2>1
<1>6. /\ color' \in [Node -> {"white", "gray", "black"}]
      /\ color'[u] = "gray" /\ \A w \in Node : w # u => color'[w] = color[w]
      /\ \A w \in Node : color'[w] = "black" <=> color[w] = "black"
  BY <1>0, <1>1 DEF SearchTypes
<1>7. \A w \in Node : color[w] # "gray"
  BY <1>0, <1>2 DEF CallsNested
<1>8. SearchTypes'
  BY <1>0, <1>2, <1>5, <1>6 DEF SearchTypes
<1>9. CallsNested'
  <2>1. \A w \in Node : color'[w] = "gray" <=> \E k \in DOMAIN stack' : stack'[k].node = w
    BY <1>4, <1>5, <1>6, <1>7
  <2>2. \A k \in DOMAIN stack' : stack'[k].left <= Len(succs'[stack'[k].node])
    BY <1>2, <1>3, <1>4, <1>5
  <2>3. \A j, k \in DOMAIN stack' : j <= k => Reaches(Hierarchy', stack'[j].node, stack'[k].node)
    <3>1. Reaches(Hierarchy', u, u)
      BY DEF Reaches
    <3> QED BY <1>4, <1>5, <3>1
  <2>4. \A j, k \in DOMAIN stack' : stack'[j].node = stack'[k].node => j = k
    BY <1>5
  <2> QED BY <2>1, <2>2, <2>3, <2>4, Zenon DEF CallsNested
<1>10. AheadAsGiven'
  <2>1. ASSUME NEW k \in DOMAIN stack', NEW p \in 1 .. stack'[k].left
        PROVE  <<stack'[k].node, succs'[stack'[k].node][p]>> \in Hierarchy'
    <3>1. p \in DOMAIN succs[u]
      BY <1>3, <1>4, <1>5
    <3>2. succs[u][p] \in Range(succs[u])
      BY <3>1 DEF Range
    <3>3. <<u, succs[u][p]>> \in Hierarchy
      BY <1>0, <1>1, <3>2 DEF AheadAsGiven
    <3> QED BY <1>2, <1>4, <1>5, <3>3
  <2>2. \A w \in Node : color'[w] = "white" => \A x \in Range(succs'[w]) : <<w, x>> \in Hierarchy'
    BY <1>0, <1>2, <1>6 DEF AheadAsGiven
  <2> QED BY <2>1, <2>2, Zenon DEF AheadAsGiven
<1>11. BehindDone'
  <2>1. \A k \in DOMAIN stack' : \A p \in DOMAIN succs'[stack'[k].node] : ~ (p > stack'[k].left)
    BY <1>2, <1>3, <1>4, <1>5
  <2> QED BY <2>1, Zenon DEF BehindDone
<1>12. ListsAreLinks'
  BY <1>0, <1>2 DEF ListsAreLinks
<1>13. \E f \in [Node -> Nat], bound \in Nat : Ranked(f, bound)'
  <2>1. PICK f \in [Node -> Nat], bound \in Nat : Ranked(f, bound)
    BY DEF SearchInv
  <2>2. ASSUME NEW w \in Node PROVE Range(succs[w]) \subseteq Node
    BY <1>0 DEF SearchTypes, Range
  <2>3. Ranked(f, bound)'
    BY <1>2, <1>6, <2>1, <2>2 DEF Ranked
  <2> QED BY <2>3
<1> QED BY <1>8, <1>9, <1>10, <1>11, <1>12, <1>13 DEF SearchInv

\* The list of a class has its given links, each at the place that is its rank among them.
LEMMA ListedIs ==
  ASSUME isA \in Seq(Node \X (Node \cup {Stranger})), NEW u \in Node
  PROVE  /\ Listed(u) \in Seq(Node)
         /\ \A v : v \in Range(Listed(u)) <=> <<u, v>> \in Hierarchy
<1> DEFINE own == {i \in DOMAIN isA : isA[i][1] = u /\ isA[i][2] \in Node \ {u}}
           n == Cardinality(own)
           earlier(i) == {j \in own : j < i}
           rank == [i \in own |-> Cardinality(earlier(i)) + 1]
           nth(k) == CHOOSE i \in own : Cardinality({j \in own : j < i}) = k - 1
<1>1. own \in SUBSET Nat /\ IsFiniteSet(own) /\ n \in Nat
  <2>1. DOMAIN isA = 1 .. Len(isA) /\ Len(isA) \in Nat
    OBVIOUS
  <2>2. IsFiniteSet(1 .. Len(isA))
    BY <2>1, FS_Interval
  <2>3. own \in SUBSET (1 .. Len(isA))
    BY <2>1
  <2> QED BY <2>1, <2>2, <2>3, FS_Subset, FS_CardinalityType
<1>2. /\ Listed(u) = [k \in 1 .. n |-> isA[nth(k)][2]]
      /\ \A i \in own : i \in DOMAIN isA /\ isA[i][1] = u /\ isA[i][2] \in Node \ {u}
      /\ \A i \in DOMAIN isA : isA[i][1] = u /\ isA[i][2] \in Node \ {u} => i \in own
  BY DEF Listed
<1> HIDE DEF own
<1>3. ASSUME NEW a \in own
      PROVE  rank[a] \in 1 .. n
  <2>1. earlier(a) \in SUBSET own /\ a \notin earlier(a)
    BY <1>1
  <2>2. IsFiniteSet(earlier(a)) /\ Cardinality(earlier(a)) \in Nat /\ Cardinality(earlier(a)) <= n
        /\ (n = Cardinality(earlier(a)) => own = earlier(a))
    BY <1>1, <2>1, FS_Subset, FS_CardinalityType
  <2>3. Cardinality(earlier(a)) # n
    BY <2>1, <2>2
  <2>4. rank[a] = Cardinality(earlier(a)) + 1
    OBVIOUS
  <2> HIDE DEF earlier
  <2> QED BY <1>1, <2>2, <2>3, <2>4
<1>4. ASSUME NEW a \in own, NEW b \in own, a < b
      PROVE  rank[a] < rank[b]
  <2>0. a \in Nat /\ b \in Nat /\ \A j \in own : j \in Nat
    BY <1>1
  <2>1. earlier(a) \in SUBSET earlier(b) /\ a \in earlier(b) /\ a \notin earlier(a)
    <3>1. \A j \in own : j < a => j < b
      BY <1>4, <2>0
    <3>2. ~ (a < a)
      BY <2>0
    <3> QED BY <1>4, <3>1, <3>2
  <2>2. IsFiniteSet(earlier(b)) /\ IsFiniteSet(earlier(a))
    BY <1>1, FS_Subset
  <2>3. /\ Cardinality(earlier(a)) \in Nat /\ Cardinality(earlier(b)) \in Nat
        /\ Cardinality(earlier(a)) <= Cardinality(earlier(b))
        /\ (Cardinality(earlier(b)) = Cardinality(earlier(a)) => earlier(a) = earlier(b))
    <3> HIDE DEF earlier
    <3> QED BY <2>1, <2>2, FS_Subset, FS_CardinalityType
  <2>4. earlier(a) # earlier(b)
    BY <2>1
  <2>5. rank[a] = Cardinality(earlier(a)) + 1 /\ rank[b] = Cardinality(earlier(b)) + 1
    OBVIOUS
  <2> HIDE DEF earlier
  <2> QED BY <2>3, <2>4, <2>5
<1>5. ASSUME NEW a \in own, NEW b \in own, rank[a] = rank[b]
      PROVE  a = b
  <2>1. rank[a] \in 1 .. n /\ rank[b] \in 1 .. n /\ a \in Nat /\ b \in Nat
    BY <1>1, <1>3
  <2> HIDE DEF rank, n
  <2> QED BY <1>1, <1>4, <1>5, <2>1
<1>6. \A k \in 1 .. n : \E a \in own : rank[a] = k
  <2>1. Cardinality(1 .. n) = n /\ IsFiniteSet(1 .. n)
    <3>1. n \in Int /\ 1 \in Int /\ (1 > n => n = 0) /\ (~(1 > n) => n - 1 + 1 = n)
      BY <1>1
    <3> HIDE DEF n
    <3> QED BY <3>1, FS_Interval
  <2>2. rank \in [own -> 1 .. n] /\ DOMAIN rank = own
    BY <1>3
  <2>3. IsInjective(rank)
    <3> HIDE DEF rank
    <3> QED BY <1>5, <2>2 DEF IsInjective
  <2>4. rank \in Injection(own, 1 .. n)
    BY <2>2, <2>3 DEF Injection
  <2>5. rank \in Surjection(own, 1 .. n)
    BY <1>1, <2>1, <2>4, FS_Injection
  <2> QED BY <2>5 DEF Surjection
<1>7. ASSUME NEW k \in 1 .. n
      PROVE  nth(k) \in own /\ rank[nth(k)] = k
  <2>1. PICK a \in own : rank[a] = k
    BY <1>6
  <2>2. Cardinality({j \in own : j < a}) = k - 1
    <3>1. Cardinality(earlier(a)) \in Nat
      <4>1. IsFiniteSet(earlier(a))
        BY <1>1, FS_Subset
      <4> QED BY <4>1, FS_CardinalityType
    <3>2. Cardinality(earlier(a)) + 1 = k
      BY <2>1
    <3> DEFINE c == Cardinality(earlier(a))
    <3>3. c \in Nat /\ c + 1 = k
      BY <3>1, <3>2
    <3> HIDE DEF c
    <3>4. c = k - 1
      BY <3>3
    <3> QED BY <3>4 DEF c
  <2>3. \E i \in own : Cardinality({j \in own : j < i}) = k - 1
    BY <2>2
  <2>4. nth(k) \in own /\ Cardinality({j \in own : j < nth(k)}) = k - 1
    BY <2>3
  <2> HIDE DEF nth
  <2>5. rank[nth(k)] = (k - 1) + 1
    BY <2>4
  <2>6. (k - 1) + 1 = k
    BY <1>1
  <2> QED BY <2>4, <2>5, <2>6
<1> HIDE DEF n, rank, nth
<1>8. DOMAIN Listed(u) = 1 .. n /\ \A k \in 1 .. n : Listed(u)[k] = isA[nth(k)][2]
  BY <1>2
<1>9. Listed(u) \in Seq(Node)
  <2>1. \A k \in 1 .. n : isA[nth(k)][2] \in Node
    BY <1>2, <1>7
  <2>2. Listed(u) \in [1 .. n -> Node]
    BY <1>2, <2>1
  <2> QED BY <1>1, <2>2
<1>10. ASSUME NEW v \in Range(Listed(u)) PROVE <<u, v>> \in Hierarchy
  <2>1. PICK k \in 1 .. n : v = isA[nth(k)][2]
    BY <1>8 DEF Range
  <2>2. nth(k) \in DOMAIN isA /\ isA[nth(k)][1] = u /\ v \in Node \ {u}
    BY <1>2, <1>7, <2>1
  <2>3. isA[nth(k)] = <<u, v>>
    BY <2>1, <2>2
  <2> QED BY <2>2, <2>3 DEF Hierarchy, Range
<1>11. ASSUME NEW v, <<u, v>> \in Hierarchy PROVE v \in Range(Listed(u))
  <2>1. PICK i \in DOMAIN isA : isA[i] = <<u, v>>
    BY <1>11 DEF Hierarchy, Range
  <2>2. v \in Node \ {u}
    BY <1>11 DEF Hierarchy
  <2>3. i \in own /\ isA[i][2] = v
    BY <1>2, <2>1, <2>2
  <2>4. rank[i] \in 1 .. n
    BY <1>3, <2>3
  <2>5. nth(rank[i]) = i
    BY <1>5, <1>7, <2>3, <2>4
  <2>6. Listed(u)[rank[i]] = v
    BY <1>8, <2>3, <2>4, <2>5
  <2> QED BY <1>8, <2>4, <2>6 DEF Range
<1> QED BY <1>9, <1>10, <1>11

\* A call starts with the lists as they are given, and without calls of visit.
LEMMA CallsStart == CallInit => SearchInv
<1> SUFFICES ASSUME CallInit PROVE SearchInv
  OBVIOUS
<1>1. isA \in Seq(Node \X (Node \cup {Stranger}))
  <2>1. CASE AsksForLinks
    BY <2>1 DEF AsksForLinks
  <2>2. CASE AsksForLayers
    <3>1. PICK n \in 0 .. MaxEdges :
            \E from \in [1 .. n -> Node], to \in [1 .. n -> Node \cup {Stranger}] :
              isA = [i \in 1 .. n |-> <<from[i], to[i]>>]
      BY <2>2, Zenon DEF AsksForLayers
    <3>2. PICK from \in [1 .. n -> Node], to \in [1 .. n -> Node \cup {Stranger}] :
            isA = [i \in 1 .. n |-> <<from[i], to[i]>>]
      BY <3>1
    <3>3. n \in Nat
      BY NumbersAssumption
    <3>4. \A i \in 1 .. n : <<from[i], to[i]>> \in Node \X (Node \cup {Stranger})
      OBVIOUS
    <3>5. isA \in [1 .. n -> Node \X (Node \cup {Stranger})]
      BY <3>2, <3>4, Zenon
    <3> QED BY <3>3, <3>5
  <2> QED BY <2>1, <2>2 DEF CallInit
<1>2. /\ succs = [u \in Node |-> Listed(u)] /\ color = [u \in Node |-> "white"] /\ stack = <<>>
  BY DEF CallInit
<1>3. ASSUME NEW u \in Node
      PROVE  succs[u] \in Seq(Node) /\ \A v : v \in Range(succs[u]) <=> <<u, v>> \in Hierarchy
  <2>1. succs[u] = Listed(u)
    BY <1>2
  <2> QED BY <1>1, <2>1, ListedIs
<1>4. SearchTypes
  <2>1. succs \in [Node -> Seq(Node)]
    BY <1>2, <1>3
  <2> QED BY <1>1, <1>2, <2>1 DEF SearchTypes
<1>5. CallsNested /\ BehindDone
  BY <1>2 DEF CallsNested, BehindDone
<1>6. AheadAsGiven
  BY <1>2, <1>3 DEF AheadAsGiven
<1>7. ListsAreLinks
  <2>1. ASSUME NEW u \in Node, NEW v \in Range(succs[u]) PROVE u # v /\ <<u, v>> \in Hierarchy
    BY <1>3 DEF Hierarchy
  <2>2. ASSUME NEW e \in Hierarchy PROVE e[2] \in Range(succs[e[1]])
    <3>1. e[1] \in Node /\ e = <<e[1], e[2]>>
      BY <1>4, GivenLinks
    <3> QED BY <1>3, <3>1
  <2> QED BY <2>1, <2>2 DEF ListsAreLinks
<1>8. \E f \in [Node -> Nat], bound \in Nat : Ranked(f, bound)
  <2> DEFINE f == [u \in Node |-> 0]
  <2>1. f \in [Node -> Nat] /\ Ranked(f, 1)
    BY <1>2 DEF Ranked
  <2>2. f \in [Node -> Nat] /\ 1 \in Nat
    OBVIOUS
  <2> HIDE DEF f
  <2> QED BY <2>1, <2>2
<1> QED BY <1>4, <1>5, <1>6, <1>7, <1>8 DEF SearchInv

\* What the property says, of layers.
ProperLayers(layer) ==
  /\ \A u, v \in Node : Reaches(Layering, u, v) /\ Reaches(Layering, v, u) => u = v
  /\ \A e \in Hierarchy :
       /\ layer[e[1]] # layer[e[2]]
       /\ ~Reaches(Hierarchy, e[2], e[1]) => layer[e[1]] > layer[e[2]]
  /\ \A u \in Node : layer[u] > 0 =>
       \E e \in Hierarchy : u \in {e[1], e[2]} /\ layer[u] - 1 \in {layer[e[1]], layer[e[2]]}

\* The lists, all done, lead downwards: what layerOf makes of them are proper layers.
LEMMA LayersOfDone ==
  ASSUME SearchInv, \A u \in Node : color[u] = "black"
  PROVE  ProperLayers(layerOf[{}])
<1> DEFINE layer == layerOf[{}]
<1>0. SearchTypes /\ ListsAreLinks
  BY DEF SearchInv
<1>1. PICK f \in [Node -> Nat] : Descends(f)
  <2>1. PICK f \in [Node -> Nat], bound \in Nat : Ranked(f, bound)
    BY DEF SearchInv
  <2>2. ASSUME NEW u \in Node
        PROVE  succs[u] \in Seq(Node) /\ \A v \in Range(succs[u]) : v \in Node /\ f[v] < f[u]
    <3>1. succs[u] \in Seq(Node)
      BY <1>0 DEF SearchTypes
    <3>2. \A v \in Range(succs[u]) : v \in Node
      BY <3>1 DEF Range
    <3> QED BY <2>1, <3>1, <3>2 DEF Ranked
  <2> QED BY <2>2 DEF Descends
<1>2. ASSUME NEW u \in Node
      PROVE  /\ layer[u] \in Nat
             /\ \A v \in Range(succs[u]) : v \in Node /\ layer[v] < layer[u]
             /\ layer[u] > 0 => \E v \in Range(succs[u]) : layer[v] = layer[u] - 1
  <2>1. f[u] \in Nat
    OBVIOUS
  <2>2. layer[u] \in 0 .. f[u]
    BY <1>1, LayersAreLengths
  <2>3. /\ \A v \in Range(succs[u]) : layer[v] < layer[u]
        /\ layer[u] > 0 => \E v \in Range(succs[u]) : layer[v] = layer[u] - 1
    BY <1>1, LayersAreLengths
  <2>4. \A v \in Range(succs[u]) : v \in Node
    BY <1>1 DEF Descends
  <2> HIDE DEF layer
  <2> QED BY <2>1, <2>2, <2>3, <2>4
<1> HIDE DEF layer
<1>3. ASSUME NEW u \in Node, NEW v \in Node, Reaches(Layering, u, v), u # v
      PROVE  f[v] < f[u]
  <2> DEFINE S == {u} \cup {w \in Node : f[w] < f[u]}
  <2>1. ASSUME NEW e \in Layering, e[1] \in S PROVE e[2] \in S
    <3>1. e[1] \in Node /\ e[2] \in Node /\ e[2] \in Range(succs[e[1]])
      BY DEF Layering
    <3>2. f[e[2]] < f[e[1]] /\ f[e[2]] \in Nat /\ f[e[1]] \in Nat /\ f[u] \in Nat
      BY <1>1, <3>1 DEF Descends
    <3>3. f[e[2]] < f[u]
      BY <2>1, <3>1, <3>2
    <3> QED BY <3>1, <3>3
  <2>2. S \in SUBSET Node /\ u \in S
    OBVIOUS
  <2> HIDE DEF S
  <2>3. v \in S
    BY <1>3, <2>1, <2>2 DEF Reaches
  <2> QED BY <1>3, <2>3 DEF S
<1>4. ASSUME NEW u \in Node, NEW v \in Node, Reaches(Layering, u, v), Reaches(Layering, v, u)
      PROVE  u = v
  <2>1. f[u] \in Nat /\ f[v] \in Nat
    OBVIOUS
  <2> QED BY <1>3, <1>4, <2>1
<1>5. ASSUME NEW e \in Hierarchy
      PROVE  /\ layer[e[1]] # layer[e[2]]
             /\ ~Reaches(Hierarchy, e[2], e[1]) => layer[e[1]] > layer[e[2]]
  <2>1. e[1] \in Node /\ e[2] \in Node /\ e = <<e[1], e[2]>>
    BY <1>0, GivenLinks
  <2>2. layer[e[1]] \in Nat /\ layer[e[2]] \in Nat
    BY <1>2, <2>1
  <2>3. CASE e[2] \in Range(succs[e[1]])
    <3>1. layer[e[2]] < layer[e[1]]
      BY <1>2, <2>1, <2>3
    <3> QED BY <2>2, <3>1
  <2>4. CASE e[1] \in Range(succs[e[2]])
    <3>1. layer[e[1]] < layer[e[2]]
      BY <1>2, <2>1, <2>4
    <3>2. \/ <<e[2], e[1]>> \in Hierarchy
          \/ Reaches(Hierarchy, e[2], e[1])
      BY <1>0, <2>1, <2>4 DEF ListsAreLinks
    <3>3. Reaches(Hierarchy, e[2], e[1])
      BY <2>1, <3>2, ReachesNext
    <3> QED BY <2>2, <3>1, <3>3
  <2> QED BY <1>0, <2>3, <2>4 DEF ListsAreLinks
<1>6. ASSUME NEW u \in Node, layer[u] > 0
      PROVE  \E e \in Hierarchy : u \in {e[1], e[2]} /\ layer[u] - 1 \in {layer[e[1]], layer[e[2]]}
  <2>1. PICK v \in Range(succs[u]) : layer[v] = layer[u] - 1
    BY <1>2, <1>6
  <2>2. <<u, v>> \in Hierarchy \/ <<v, u>> \in Hierarchy
    BY <1>0 DEF ListsAreLinks
  <2>3. CASE <<u, v>> \in Hierarchy
    <3>1. u \in {<<u, v>>[1], <<u, v>>[2]} /\ layer[u] - 1 \in {layer[<<u, v>>[1]], layer[<<u, v>>[2]]}
      BY <2>1
    <3> QED BY <2>3, <3>1
  <2>4. CASE <<v, u>> \in Hierarchy
    <3>1. u \in {<<v, u>>[1], <<v, u>>[2]} /\ layer[u] - 1 \in {layer[<<v, u>>[1]], layer[<<v, u>>[2]]}
      BY <2>1
    <3> QED BY <2>4, <3>1
  <2> QED BY <2>2, <2>3, <2>4
<1>7. ProperLayers(layer)
  BY <1>4, <1>5, <1>6 DEF ProperLayers
<1> QED BY <1>7 DEF layer

\* A step of the search keeps what it goes by, and the last makes proper layers of it.
LEMMA LayersStep ==
  SearchInv /\ LayersAreProper /\ [CallNext]_callVars => SearchInv' /\ LayersAreProper'
<1> SUFFICES ASSUME SearchInv, LayersAreProper, [CallNext]_callVars
             PROVE  SearchInv' /\ LayersAreProper'
  OBVIOUS
<1>1. ASSUME isA' = isA, succs' = succs, color' = color, stack' = stack PROVE SearchInv'
  <2>1. Hierarchy' = Hierarchy
    BY <1>1, SameGivenLinks
  <2>2. SearchTypes'
    BY <1>1 DEF SearchInv, SearchTypes
  <2>3. CallsNested'
    BY <1>1, <2>1 DEF SearchInv, CallsNested
  <2>4. AheadAsGiven'
    BY <1>1, <2>1 DEF SearchInv, AheadAsGiven
  <2>5. BehindDone'
    BY <1>1 DEF SearchInv, BehindDone
  <2>6. ListsAreLinks'
    BY <1>1, <2>1 DEF SearchInv, ListsAreLinks
  <2>7. \E f \in [Node -> Nat], bound \in Nat : Ranked(f, bound)'
    BY <1>1 DEF SearchInv, Ranked
  <2> QED BY <2>2, <2>3, <2>4, <2>5, <2>6, <2>7 DEF SearchInv
<1>2. CASE Visit
  BY <1>2, VisitKeeps DEF Visit, LayersAreProper
<1>3. CASE BackEdge
  BY <1>3, BackEdgeKeeps DEF BackEdge, Looking, LayersAreProper
<1>4. CASE TreeEdge
  BY <1>4, TreeEdgeKeeps DEF TreeEdge, Looking, LayersAreProper
<1>5. CASE OtherEdge
  BY <1>5, OtherEdgeKeeps DEF OtherEdge, Looking, LayersAreProper
<1>6. CASE Leave
  BY <1>6, LeaveKeeps DEF Leave, LayersAreProper
<1>7. CASE Layer
  <2>1. /\ isA' = isA /\ succs' = succs /\ color' = color /\ stack' = stack
        /\ layers' = layerOf[{}] /\ \A u \in Node : color[u] = "black"
    BY <1>7 DEF Layer
  <2>2. ProperLayers(layers')
    BY <2>1, LayersOfDone
  <2>3. Hierarchy' = Hierarchy /\ Layering' = Layering
    BY <2>1, SameGivenLinks DEF Layering
  <2>4. LayersAreProper'
    BY <2>2, <2>3 DEF ProperLayers, LayersAreProper
  <2> QED BY <1>1, <2>1, <2>4
<1>8. CASE BuildLinks
  BY <1>1, <1>8 DEF BuildLinks, search, LayersAreProper
<1>9. CASE UNCHANGED callVars
  <2>1. isA' = isA /\ succs' = succs /\ color' = color /\ stack' = stack /\ layers' = layers /\ pc' = pc
    BY <1>9 DEF callVars, search
  <2>2. Hierarchy' = Hierarchy /\ Layering' = Layering
    BY <2>1, SameGivenLinks DEF Layering
  <2>3. LayersAreProper'
    BY <2>1, <2>2 DEF LayersAreProper
  <2> QED BY <1>1, <2>1, <2>3
<1> QED BY <1>2, <1>3, <1>4, <1>5, <1>6, <1>7, <1>8, <1>9 DEF CallNext

\* Classes, whatever cycles they form, are drawn on layers apart from their superclasses,
\* above them unless they are on a cycle, and no layer between is skipped, for any
\* hierarchy and any order of its links: what reverseBackEdges leaves in the lists that it
\* edits while it walks them has no cycle.
THEOREM ClassesLieOnLayers == CallSpec => []LayersAreProper
<1>1. CallInit => SearchInv /\ LayersAreProper
  <2>1. CallInit => LayersAreProper
    BY DEF CallInit, AsksForLayers, AsksForLinks, LayersAreProper
  <2> QED BY <2>1, CallsStart
<1> QED BY <1>1, LayersStep, PTL DEF CallSpec
============================================================================
