----------------------------- MODULE BrainView -----------------------------
(***************************************************************************)
(* The cortex renderer of the web client: BrainView, the stage component   *)
(* that feeds it (BrainStage), the layout worker it shares its positions   *)
(* with, and the pool of spikes that travel along the edges.               *)
(*                                                                         *)
(* The page is one thread: a handler runs to its end.  What interleaves is *)
(* the order of handlers: the model file arriving, React running an        *)
(* effect, an answer of the worker, a pointer event, a frame.  The worker  *)
(* is a thread of its own; both directions are FIFO queues.                *)
(*                                                                         *)
(* A position is the pair <<refresh, ticks>>: the call of setData that     *)
(* spawned the node and the number of layout ticks since.  Coordinates,    *)
(* colours, materials and the camera are not modelled.  The ontology mode  *)
(* of BrainView is not either: the stage never selects it.                 *)
(***************************************************************************)
EXTENDS Naturals, Sequences, FiniteSets, SequencesExt

CONSTANTS
  Atoms,       \* atom ids
  Links,       \* pairs of atoms that share a tag and pass selectIntentionalLinks
  AtomSets,    \* the sets of atoms the app may pass to the stage
  Slots,       \* the slots of the spike pool (SPIKE_POOL_CAPACITY of them)
  MaxTicks,    \* FDG_MAX_ITERATIONS, in ticks
  MaxRefresh,  \* bound: calls of setData
  None

ASSUME LinksAssumption == Links \subseteq Atoms \X Atoms
ASSUME AtomSetsAssumption == AtomSets \subseteq SUBSET Atoms /\ \A g \in AtomSets : IsFiniteSet(g)
ASSUME NoneAssumption == None \notin Atoms /\ None \notin Nat \X Nat
ASSUME LinksFinite == IsFiniteSet(Links)
ASSUME SlotsAssumption == IsFiniteSet(Slots)
ASSUME BoundsAssumption == MaxTicks \in Nat /\ MaxRefresh \in Nat

VARIABLES
  graph,       \* the atoms the app has passed to the stage
  dirty,       \* the stage's setData effect has to run
  ready,       \* verts and hull are loaded and the stage was told (onReady)
  disposed,
  refresh,     \* number of setData calls (history; names a position)
  shown,       \* _shownIds, the keys of atomsById and atomPositions
  pos,         \* atomPositions
  brainPos,    \* brainPos: the last answer of the worker for an atom
  edges,       \* edgeGroup.children, as links
  drawn,       \* where the nodes were when the edges were built
  worker,      \* layoutWorker: "alive" or "dead"
  busy,        \* workerBusy
  iters,       \* workerIters, in ticks
  toWorker, fromWorker,
  inWorker,    \* the worker's own nodes and their position
  hover, zoom, \* hoverAtomId, zoomAtomId
  hoverLabel,  \* the atom whose spriteHoverLabel is in the scene
  tooltip,     \* the tooltip state of the stage
  slot,        \* slotEdge, slotDir and whether slotAlpha is not 0
  free,        \* the free stack of the pool
  flares       \* somaFlares

appVars == <<graph, dirty, ready, disposed, refresh>>
sceneVars == <<shown, pos, brainPos, edges, drawn>>
workerVars == <<worker, busy, iters, toWorker, fromWorker, inWorker>>
pointerVars == <<hover, zoom, hoverLabel, tooltip>>
spikeVars == <<slot, free, flares>>
vars == <<appVars, sceneVars, workerVars, pointerVars, spikeVars>>

----------------------------------------------------------------------------
(* Operators *)

Position == Nat \X Nat
Spawned(r) == <<r, 0>>

\* setData, buildEdges: the links with both ends on stage, strongest first
\* (the order is fixed by the set).
EdgesOf(g) == SetToSeq({l \in Links : l[1] \in g /\ l[2] \in g})

\* SpikePool: a slot is free exactly when its alpha is 0.
FreeSlot == [live |-> FALSE, edge |-> 0, dir |-> 1, fired |-> None]

\* Fault: the spikes of the previous edges go on.
PoolGoesOn == UNCHANGED <<slot, free>>

\* Fault: the free stack is not emptied before it is filled.
PoolRefilled == /\ slot' = [s \in Slots |-> FreeSlot]
                /\ free' = free \o SetToSeq(Slots)

\* SpikePool.clear
PoolCleared == /\ slot' = [s \in Slots |-> FreeSlot]
               /\ free' = SetToSeq(Slots)

\* SpikePool.release
Released(s) == /\ slot' = [slot EXCEPT ![s] = FreeSlot]
               /\ free' = Append(free, s)

\* Fault: the budget spent on the previous graph counts.
TickOnOldCount(isBusy, done, n) ==
  worker = "alive" /\ ~disposed /\ ~isBusy /\ n > 1 /\ iters < MaxTicks

\* requestWorkerTick: may a tick be posted with these values of the fields?
TickWanted(isBusy, done, n) ==
  worker = "alive" /\ ~disposed /\ ~isBusy /\ n > 1 /\ done < MaxTicks

InitMessage(g, r) == [type |-> "init", nodes |-> g, at |-> Spawned(r)]
TickMessage == [type |-> "tick"]

\* Fault: no fallback.
WorkerTarget(a, known) == known[a]

\* brainTarget: the worker's position if it ever gave one, else the lattice.
BrainTarget(a, known) ==
  IF known[a] # None THEN known[a] ELSE Spawned(refresh)

\* clearHover: nothing happens when nothing is hovered.
HoverCleared ==
  IF hover = None THEN UNCHANGED <<hover, hoverLabel, tooltip>>
  ELSE hover' = None /\ hoverLabel' = None /\ tooltip' = None

\* Fault: the tooltip of the page is not told.
SelectionDropped == hover' = None /\ hoverLabel' = None /\ zoom' = None /\ UNCHANGED tooltip

\* Fault: the camera stays with its atom.
SelectionKeepsZoom ==
  /\ hover' = None /\ hoverLabel' = None /\ UNCHANGED zoom
  /\ tooltip' = IF hover # None THEN None ELSE tooltip

\* setData: the consumer is told before the hovered atom disappears.
SelectionCleared ==
  /\ hover' = None /\ hoverLabel' = None /\ zoom' = None
  /\ tooltip' = IF hover # None THEN None ELSE tooltip

\* Fault: nothing is rebuilt.
BrainEdgesKept == UNCHANGED <<edges, drawn, slot, free>>

\* rebuildBrainEdges, once the layout has settled.
RebuildBrainEdges == edges' = EdgesOf(shown) /\ drawn' = pos' /\ PoolCleared

\* highlightConnections: nothing when the atom is already highlighted.
Highlighted(a) ==
  IF a = hover THEN UNCHANGED <<hover, hoverLabel>>
  ELSE hover' = a /\ hoverLabel' = a

----------------------------------------------------------------------------
(* The page is opened *)

Init ==
  /\ graph = {} /\ dirty = FALSE /\ ready = FALSE /\ disposed = FALSE /\ refresh = 0
  /\ shown = {} /\ edges = <<>>
  /\ pos = [a \in Atoms |-> None] /\ brainPos = [a \in Atoms |-> None]
  /\ drawn = [a \in Atoms |-> None]
  /\ worker \in {"alive", "dead"}
  /\ busy = FALSE /\ iters = 0 /\ toWorker = <<>> /\ fromWorker = <<>>
  /\ inWorker = [nodes |-> {}, at |-> Spawned(0)]
  /\ hover = None /\ zoom = None /\ hoverLabel = None /\ tooltip = None
  /\ slot = [s \in Slots |-> FreeSlot] /\ free = SetToSeq(Slots) /\ flares = {}

\* The app loads a graph: a new atoms property, whose effect runs later.
AppPasses(g) ==
  /\ ~disposed /\ refresh < MaxRefresh
  /\ graph' = g /\ dirty' = TRUE
  /\ UNCHANGED <<ready, disposed, refresh, sceneVars, workerVars, pointerVars, spikeVars>>

\* loadModel: the mesh has arrived; the hull is baked and the stage told.
ModelLoads ==
  /\ ~disposed /\ ~ready
  /\ ready' = TRUE /\ dirty' = TRUE
  /\ UNCHANGED <<graph, disposed, refresh, sceneVars, workerVars, pointerVars, spikeVars>>

\* startWorkerLayout, then requestWorkerTick: the counters start again
\* although a tick of the previous graph may still be under way.
LayoutStarted(g, r) ==
  LET n == Cardinality(g) IN
  /\ UNCHANGED <<worker, fromWorker, inWorker>>
  /\ IF worker = "dead" \/ n = 0
     THEN busy' = FALSE /\ iters' = 0 /\ UNCHANGED toWorker
     ELSE IF TickWanted(FALSE, 0, n)
     THEN /\ busy' = TRUE /\ iters' = 1
          /\ toWorker' = toWorker \o <<InitMessage(g, r), TickMessage>>
     ELSE /\ busy' = FALSE /\ iters' = 0
          /\ toWorker' = Append(toWorker, InitMessage(g, r))

\* BrainStage's effect and setData: the scene is rebuilt from the graph.
SetData ==
  /\ ~disposed /\ ready /\ dirty
  /\ dirty' = FALSE /\ refresh' = refresh + 1
  /\ shown' = graph
  /\ pos' = [a \in Atoms |-> IF a \in graph THEN Spawned(refresh + 1) ELSE None]
  /\ drawn' = pos'
  /\ edges' = EdgesOf(graph)
  /\ SelectionCleared
  /\ PoolCleared /\ flares' = {}
  /\ LayoutStarted(graph, refresh + 1)
  /\ UNCHANGED <<graph, ready, disposed, brainPos>>

----------------------------------------------------------------------------
(* The worker *)

\* fdg.worker onmessage: init replaces the nodes, tick advances and answers.
WorkerStep ==
  /\ worker = "alive" /\ toWorker # <<>>
  /\ LET m == Head(toWorker)
         moved == <<inWorker.at[1], inWorker.at[2] + 1>> IN
       IF m.type = "init"
       THEN /\ inWorker' = [nodes |-> m.nodes, at |-> m.at]
            /\ UNCHANGED fromWorker
       ELSE /\ inWorker' = [inWorker EXCEPT !.at = moved]
            /\ fromWorker' = Append(fromWorker, [nodes |-> inWorker.nodes, at |-> moved])
  /\ toWorker' = Tail(toWorker)
  /\ UNCHANGED <<worker, busy, iters, appVars, sceneVars, pointerVars, spikeVars>>

\* onWorkerPositions, snapLayoutTo, and at the end of the budget
\* rebuildBrainEdges: an answer is used whatever graph it was computed for.
OnWorkerPositions ==
  /\ ~disposed /\ fromWorker # <<>>
  /\ LET answer == Head(fromWorker)
         known == [a \in Atoms |-> IF a \in answer.nodes THEN answer.at ELSE brainPos[a]]
     IN
       /\ brainPos' = known
       /\ pos' = [a \in Atoms |-> IF a \in shown THEN BrainTarget(a, known) ELSE None]
  /\ fromWorker' = Tail(fromWorker)
  /\ IF iters >= MaxTicks
     THEN RebuildBrainEdges /\ busy' = FALSE /\ UNCHANGED <<iters, toWorker>>
     ELSE /\ IF TickWanted(FALSE, iters, Cardinality(shown))
             THEN busy' = TRUE /\ iters' = iters + 1 /\ toWorker' = Append(toWorker, TickMessage)
             ELSE busy' = FALSE /\ UNCHANGED <<iters, toWorker>>
          /\ UNCHANGED <<edges, drawn, slot, free>>
  /\ UNCHANGED <<shown, flares, worker, inWorker, appVars, pointerVars>>

\* layoutWorker.onerror: the worker is given up; what it had answered may
\* still be delivered.
WorkerFails ==
  /\ ~disposed /\ worker = "alive"
  /\ worker' = "dead" /\ toWorker' = <<>>
  /\ fromWorker' \in {fromWorker, <<>>}
  /\ UNCHANGED <<busy, iters, inWorker, appVars, sceneVars, pointerVars, spikeVars>>

----------------------------------------------------------------------------
(* Pointer, keyboard and the commands of the app *)

\* onPointerMove, not dragging: over a node, or over none.
PointerOver(a) ==
  /\ ~disposed /\ a \in shown
  /\ Highlighted(a) /\ tooltip' = a
  /\ UNCHANGED <<zoom, appVars, sceneVars, workerVars, spikeVars>>

PointerOff ==
  /\ ~disposed
  /\ HoverCleared
  /\ UNCHANGED <<zoom, appVars, sceneVars, workerVars, spikeVars>>

\* zoomOut: leaves the atom the camera flew to.
ZoomedOut ==
  IF zoom # None THEN zoom' = None /\ HoverCleared
  ELSE UNCHANGED pointerVars

\* onClick on a node flies to it, or back when it was the target already.
ClickAtom(a) ==
  /\ ~disposed /\ a \in shown
  /\ IF zoom = a THEN ZoomedOut
     ELSE zoom' = a /\ UNCHANGED <<hover, hoverLabel, tooltip>>
  /\ UNCHANGED <<appVars, sceneVars, workerVars, spikeVars>>

ClickEmpty ==
  /\ ~disposed /\ ZoomedOut
  /\ UNCHANGED <<appVars, sceneVars, workerVars, spikeVars>>

\* onKeydown, Escape: clearHover and zoomOut.
Escape ==
  /\ ~disposed
  /\ HoverCleared /\ zoom' = None
  /\ UNCHANGED <<appVars, sceneVars, workerVars, spikeVars>>

\* randomConnection: highlights without a hover callback, so the tooltip of
\* another atom may stay on the page.
RandomConnection(a) ==
  /\ ~disposed /\ a \in shown
  /\ Highlighted(a) /\ zoom' = a
  /\ UNCHANGED <<tooltip, appVars, sceneVars, workerVars, spikeVars>>

\* focusAtom of the stage: an atom that is not on stage is ignored.
FocusAtom(a) ==
  /\ ~disposed
  /\ zoom' = IF pos[a] # None THEN a ELSE zoom
  /\ UNCHANGED <<hover, hoverLabel, tooltip, appVars, sceneVars, workerVars, spikeVars>>

----------------------------------------------------------------------------
(* Frames *)

\* tickSpikes, SpikePool.claim: a spike fires on an edge when a slot is free.
SpikeFires(i, dir) ==
  /\ ~disposed /\ i \in DOMAIN edges /\ free # <<>>
  /\ LET s == Last(free) IN
       slot' = [slot EXCEPT ![s] = [live |-> TRUE, edge |-> i, dir |-> dir,
                                    fired |-> edges[i]]]
  /\ free' = Front(free)
  /\ UNCHANGED <<flares, appVars, sceneVars, workerVars, pointerVars>>

\* SpikePool.advance, onSpikeArrive: at the end of its edge a spike frees its
\* slot and the soma there flares; on a missing edge it is only dropped.
SpikeArrives(s) ==
  /\ ~disposed /\ slot[s].live
  /\ Released(s)
  /\ LET i == slot[s].edge IN
       flares' = IF i \in DOMAIN edges
                 THEN flares \union {IF slot[s].dir = 1 THEN edges[i][2] ELSE edges[i][1]}
                 ELSE flares
  /\ UNCHANGED <<appVars, sceneVars, workerVars, pointerVars>>

\* tickSomaFlares: a flare dies down.
FlareFades(a) ==
  /\ ~disposed /\ a \in flares
  /\ flares' = flares \ {a}
  /\ UNCHANGED <<slot, free, appVars, sceneVars, workerVars, pointerVars>>

\* dispose, when the stage is unmounted.
Dispose ==
  /\ ~disposed /\ disposed' = TRUE
  /\ worker' = "dead" /\ toWorker' = <<>> /\ fromWorker' = <<>>
  /\ hoverLabel' = None /\ tooltip' = None /\ hover' = None
  /\ UNCHANGED <<graph, dirty, ready, refresh, sceneVars, busy, iters, inWorker, zoom, spikeVars>>

----------------------------------------------------------------------------
Next ==
  \/ \E g \in AtomSets : AppPasses(g)
  \/ ModelLoads
  \/ SetData
  \/ WorkerStep
  \/ OnWorkerPositions
  \/ WorkerFails
  \/ \E a \in Atoms : PointerOver(a) \/ ClickAtom(a) \/ RandomConnection(a) \/ FocusAtom(a)
  \/ PointerOff \/ ClickEmpty \/ Escape
  \/ \E i \in 1..Len(edges), dir \in {1, 2} : SpikeFires(i, dir)
  \/ \E s \in Slots : SpikeArrives(s)
  \/ \E a \in Atoms : FlareFades(a)
  \/ Dispose

\* The event loop runs a queued effect and delivers messages; the worker
\* handles its queue.  Nobody has to move the pointer, and no frame is owed.
Fairness == WF_vars(SetData) /\ WF_vars(WorkerStep) /\ WF_vars(OnWorkerPositions)

Spec == Init /\ [][Next]_vars /\ Fairness

----------------------------------------------------------------------------
(* Properties *)

\* Types of the variables; atomPositions holds exactly the atoms on stage.
TypeOK ==
  /\ graph \in SUBSET Atoms /\ shown \in SUBSET Atoms
  /\ dirty \in BOOLEAN /\ ready \in BOOLEAN /\ disposed \in BOOLEAN
  /\ refresh \in Nat /\ iters \in Nat
  /\ pos \in [Atoms -> Position \union {None}]
  /\ \A a \in Atoms : pos[a] # None <=> a \in shown
  /\ brainPos \in [Atoms -> Position \union {None}]
  /\ drawn \in [Atoms -> Position \union {None}]
  /\ edges \in Seq(Links)
  /\ worker \in {"alive", "dead"} /\ busy \in BOOLEAN
  /\ hover \in Atoms \union {None} /\ zoom \in Atoms \union {None}
  /\ hoverLabel \in Atoms \union {None} /\ tooltip \in Atoms \union {None}
  /\ flares \in SUBSET Atoms
  /\ slot \in [Slots -> [live : BOOLEAN, edge : Nat, dir : {1, 2}, fired : Links \union {None}]]
  /\ free \in Seq(Slots)

\* The tooltip of the page is never orphaned: as long as it is open some atom
\* is hovered, so that the next pointer event can close it, and it names an
\* atom of the graph on stage.  Refreshes, the random command and Escape all
\* change the hover behind React's back.
TooltipIsNeverOrphaned == tooltip # None => hover # None /\ tooltip \in shown

\* Whatever the order of refreshes, answers and frames, everything the pointer
\* or the camera is attached to is an atom that is on stage, and so is every
\* soma that flares, also when its spike was fired before a refresh.
AttachedToTheStage ==
  /\ \A x \in {hover, zoom, hoverLabel} : x # None => x \in shown
  /\ flares \subseteq shown

\* A spike in flight rides the edge it was fired on: edges are addressed by
\* index, and both setData and the rebuild after the layout replace them.
SpikesRideTheirEdge ==
  \A s \in Slots : slot[s].live =>
    slot[s].edge \in DOMAIN edges /\ edges[slot[s].edge] = slot[s].fired

\* A slot is in the free stack, once, exactly when no spike lives in it: no
\* slot leaks and none is claimed twice.
PoolIsConserved ==
  /\ \A i, j \in DOMAIN free : free[i] = free[j] => i = j
  /\ \A s \in Slots : slot[s].live <=> s \notin {free[i] : i \in DOMAIN free}

\* Nothing is under way between the page and a living worker.
Quiet == worker = "alive" /\ ~dirty /\ toWorker = <<>> /\ fromWorker = <<>>

\* When the layout has come to rest, with ticks and answers of replaced
\* graphs possibly in between, the edges end where their nodes are.  An atom
\* linked with itself and alone on stage would be left behind: no layout follows.
EdgesMeetTheirNodes ==
  Quiet /\ ~disposed =>
    \A i \in DOMAIN edges, end \in {1, 2} : drawn[edges[i][end]] = pos[edges[i][end]]

\* Once the graph is not refreshed any more, the layout comes to rest and the
\* positions on the page are those the whole budget of ticks produced, unless
\* the worker failed or the page was closed.
LayoutSettles ==
  <>[](\/ disposed \/ worker = "dead" \/ ~ready
       \/ /\ Quiet
          /\ Cardinality(shown) > 1 =>
               \A a \in shown : pos[a] = <<refresh, MaxTicks>>)
=============================================================================
