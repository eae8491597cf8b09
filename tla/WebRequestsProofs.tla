------------------------- MODULE WebRequestsProofs -------------------------
(***************************************************************************)
(* The three views of WebRequests implement LatestAnswer for any number of *)
(* choices, proposals and answers.  TypeOK is inductive as it stands: it   *)
(* says that whatever is in flight is in flight for the last choice, which *)
(* is what the aborts are for.                                             *)
(***************************************************************************)
EXTENDS WebRequests, TLAPS

USE RequestsAssumption

\* After an abort nothing that was in flight is left.
LEMMA AbortsAll == \A requests : Abort(requests) = {}
BY DEF Abort

\* The first state is typed.
LEMMA InitInv == Init => TypeOK
<1> SUFFICES ASSUME Init PROVE TypeOK
  OBVIOUS
<1>1. GraphTypes
  BY DEF Init, GraphTypes
<1>2. SearchTypes
  BY DEF Init, SearchTypes
<1>3. PollTypes
  <2>1. list \in [of : 0 .. effect, seen : 0 .. rev]
    BY DEF Init, Empty
  <2> QED BY <2>1 DEF Init, PollTypes
<1>4. DecisionTypes
  BY DEF Init, Empty, DecisionTypes
<1> QED BY <1>1, <1>2, <1>3, <1>4 DEF Init, TypeOK

\* A click counts within the bound.
LEMMA ClickType ==
  ASSUME TypeOK, Click \/ clicks' = clicks
  PROVE  clicks' \in 0 .. MaxClicks /\ clicks \in Nat
BY DEF Click, TypeOK

\* Parts of the state that a step leaves alone keep their types.
LEMMA Kept ==
  /\ GraphTypes /\ UNCHANGED graphVars => GraphTypes'
  /\ SearchTypes /\ UNCHANGED <<client, searchVars>> => SearchTypes'
  /\ PollTypes /\ UNCHANGED <<open, rev, pollVars>> => PollTypes'
  /\ DecisionTypes /\ UNCHANGED <<open, list, decisions, busyId, error>> => DecisionTypes'
<1>1. GraphTypes /\ UNCHANGED graphVars => GraphTypes'
  BY DEF graphVars, GraphTypes
<1>2. SearchTypes /\ UNCHANGED <<client, searchVars>> => SearchTypes'
  BY DEF searchVars, SearchTypes
<1>3. PollTypes /\ UNCHANGED <<open, rev, pollVars>> => PollTypes'
  BY DEF pollVars, PollTypes
<1>4. DecisionTypes /\ UNCHANGED <<open, list, decisions, busyId, error>> => DecisionTypes'
  BY DEF DecisionTypes
<1> QED BY <1>1, <1>2, <1>3, <1>4

----------------------------------------------------------------------------
(* The graph and the search                                                *)

\* The requests for the graph,
LEMMA GraphStepInv ==
  ASSUME TypeOK, ChooseTier \/ AtomsCome \/ GraphLands \/ GraphFails
  PROVE  TypeOK'
<1> USE DEF queueVars
<1>1. GraphTypes'
  <2>1. CASE ChooseTier
    <3>1. tier' = tier + 1 /\ graphLoads' = {[of |-> tier + 1, atoms |-> FALSE]}
      BY <2>1, AbortsAll DEF ChooseTier
    <3>2. graph' \in 0 .. tier'
      BY <2>1, <3>1 DEF ChooseTier, TypeOK, GraphTypes
    <3> QED BY <3>1, <3>2 DEF TypeOK, GraphTypes
  <2>2. CASE AtomsCome
    <3>1. PICK g \in graphLoads :
            graphLoads' = (graphLoads \ {g}) \cup {[g EXCEPT !.atoms = TRUE]}
      BY <2>2 DEF AtomsCome
    <3>2. \A h \in graphLoads' : h \in [of : {tier}, atoms : BOOLEAN]
      BY <3>1 DEF TypeOK, GraphTypes
    <3> QED BY <2>2, <3>2 DEF AtomsCome, TypeOK, GraphTypes
  <2>3. CASE GraphLands
    BY <2>3 DEF GraphLands, TypeOK, GraphTypes
  <2>4. CASE GraphFails
    BY <2>4 DEF GraphFails, TypeOK, GraphTypes
  <2> QED BY <2>1, <2>2, <2>3, <2>4
<1>2. UNCHANGED <<client, searchVars, queueVars>> /\ clicks' \in 0 .. MaxClicks
  BY ClickType DEF ChooseTier, AtomsCome, GraphLands, GraphFails
<1> QED BY <1>1, <1>2, Kept DEF TypeOK, pollVars

\* for the search,
LEMMA SearchStepInv ==
  ASSUME TypeOK, TypeQuery \/ ClearQuery \/ SearchStarts \/ HitsArrive \/ SearchFails
  PROVE  TypeOK'
<1> USE DEF queueVars
<1>1. SearchTypes'
  <2>1. CASE TypeQuery
    <3>1. query' = query + 1 /\ blank' = FALSE /\ results' = results /\ client' = client
      BY <2>1 DEF TypeQuery, searchVars
    <3>2. query' \in Nat /\ results' \in 0 .. query'
      BY <3>1 DEF TypeOK, SearchTypes
    <3>3. CASE client = "next"
      <4>1. timer' = query' /\ flight' = {} /\ searchState' = "loading"
        BY <2>1, <3>1, <3>3, AbortsAll DEF TypeQuery
      <4> QED BY <3>1, <3>2, <3>3, <4>1 DEF SearchTypes
    <3>4. CASE client = "legacy"
      <4>1. timer' = 0 /\ flight' = {query'} /\ searchState' = searchState /\ query' # 0
        BY <2>1, <3>1, <3>4, AbortsAll DEF TypeQuery, TypeOK, SearchTypes
      <4> QED BY <3>1, <3>2, <4>1 DEF TypeOK, SearchTypes
    <3> QED BY <3>3, <3>4 DEF TypeOK
  <2>2. CASE ClearQuery
    BY <2>2 DEF ClearQuery, Abort, TypeOK, SearchTypes
  <2>3. CASE SearchStarts
    BY <2>3 DEF SearchStarts, TypeOK, SearchTypes
  <2>4. CASE HitsArrive
    BY <2>4 DEF HitsArrive, TypeOK, SearchTypes
  <2>5. CASE SearchFails
    BY <2>5 DEF SearchFails, TypeOK, SearchTypes
  <2> QED BY <2>1, <2>2, <2>3, <2>4, <2>5
<1>2. UNCHANGED <<client, graphVars, queueVars>> /\ clicks' \in 0 .. MaxClicks
  BY ClickType DEF TypeQuery, ClearQuery, SearchStarts, HitsArrive, SearchFails
<1> QED BY <1>1, <1>2, Kept DEF TypeOK, pollVars

----------------------------------------------------------------------------
(* The queue                                                               *)

\* A restart of the polling effect leaves one poll, and it is of the new effect.
LEMMA RestartInv ==
  ASSUME PollTypes, Restart, list' = list, rev' = rev, open' = TRUE
  PROVE  PollTypes'
<1>1. effect' \in Nat /\ effect' = effect + 1 /\ running' = TRUE
  BY DEF Restart, PollTypes
<1>2. \A p \in polls' : p \in [of : {effect'}, seen : (0 .. rev) \cup {None}]
  BY <1>1 DEF Restart, Abort
<1>3. list \in [of : 0 .. effect', seen : 0 .. rev]
  BY <1>1 DEF PollTypes
<1> QED BY <1>1, <1>2, <1>3 DEF PollTypes

\* the polls of the queue,
LEMMA PollStepInv ==
  ASSUME TypeOK,
         OpenQueue \/ CloseQueue \/ ToggleHistory \/ TimerPoll \/ ServerReads \/ ListArrives \/ PollFails
  PROVE  TypeOK'
<1>1. PollTypes'
  <2>1. CASE OpenQueue \/ ToggleHistory
    BY <2>1, RestartInv DEF OpenQueue, ToggleHistory, TypeOK
  <2>2. CASE CloseQueue
    <3>1. Empty \in [of : 0 .. effect, seen : 0 .. rev]
      BY DEF Empty, TypeOK, PollTypes
    <3> QED BY <2>2, <3>1, AbortsAll DEF CloseQueue, TypeOK, PollTypes
  <2>3. CASE TimerPoll
    BY <2>3 DEF TimerPoll, TypeOK, PollTypes
  <2>4. CASE ServerReads
    <3>1. PICK p \in polls : polls' = (polls \ {p}) \cup {[p EXCEPT !.seen = rev]}
      BY <2>4 DEF ServerReads
    <3>2. \A q \in polls' : open /\ q \in [of : {effect}, seen : (0 .. rev) \cup {None}]
      BY <3>1 DEF TypeOK, PollTypes
    <3> QED BY <2>4, <3>2 DEF ServerReads, TypeOK, PollTypes
  <2>5. CASE ListArrives
    <3>1. PICK p \in polls :
            p.seen # None /\ polls' = polls \ {p} /\ list' = [of |-> p.of, seen |-> p.seen]
      BY <2>5 DEF ListArrives
    <3>2. list' \in [of : 0 .. effect, seen : 0 .. rev]
      BY <3>1 DEF TypeOK, PollTypes
    <3>3. /\ polls' \subseteq polls /\ running' = FALSE
          /\ UNCHANGED <<open, rev, effect>>
      BY <2>5 DEF ListArrives
    <3> QED BY <3>2, <3>3 DEF TypeOK, PollTypes
  <2>6. CASE PollFails
    <3>1. /\ polls' \subseteq polls /\ running' = FALSE
          /\ UNCHANGED <<open, rev, effect, list>>
      BY <2>6 DEF PollFails
    <3> QED BY <3>1 DEF TypeOK, PollTypes
  <2> QED BY <2>1, <2>2, <2>3, <2>4, <2>5, <2>6
<1>2. DecisionTypes'
  <2>1. CASE CloseQueue
    <3>1. decisions' = {[d EXCEPT !.live = FALSE] : d \in decisions}
      BY <2>1 DEF CloseQueue
    <3>2. \A d \in decisions' :
            /\ d \in [n : Nat, of : Proposal, approve : BOOLEAN,
                      st : {"sent", "applied", "ontology"}, live : BOOLEAN]
            /\ d.live = FALSE
      BY <3>1 DEF TypeOK, DecisionTypes
    <3> QED BY <2>1, <3>2 DEF CloseQueue, Empty, TypeOK, DecisionTypes
  <2>2. CASE OpenQueue
    BY <2>2 DEF OpenQueue, TypeOK, DecisionTypes
  <2>3. CASE ListArrives
    <3>1. open
      BY <2>3 DEF ListArrives, TypeOK, PollTypes
    <3> QED BY <2>3, <3>1 DEF ListArrives, TypeOK, DecisionTypes
  <2>4. CASE ToggleHistory \/ TimerPoll \/ ServerReads \/ PollFails
    BY <2>4 DEF ToggleHistory, TimerPoll, ServerReads, PollFails, TypeOK, DecisionTypes
  <2> QED BY <2>1, <2>2, <2>3, <2>4
<1>3. UNCHANGED <<client, graphVars, searchVars>> /\ clicks' \in 0 .. MaxClicks
  BY ClickType DEF OpenQueue, CloseQueue, ToggleHistory, TimerPoll, ServerReads, ListArrives, PollFails
<1> QED BY <1>1, <1>2, <1>3, Kept DEF TypeOK

\* and the decisions leave the variables typed.
LEMMA DecideStepInv ==
  ASSUME TypeOK,
         OthersWrite \/ Decide \/ ServerApplies \/ AsksOntology \/ DecideDone \/ DecideFails
  PROVE  TypeOK'
<1> DEFINE Call == [n : Nat, of : Proposal, approve : BOOLEAN,
                    st : {"sent", "applied", "ontology"}, live : BOOLEAN]
<1>1. PollTypes'
  <2>1. CASE OthersWrite \/ ServerApplies
    <3>1. rev' = rev + 1 /\ rev \in Nat /\ UNCHANGED <<open, pollVars>>
      BY <2>1 DEF OthersWrite, ServerApplies, TypeOK, PollTypes
    <3>2. \A p \in polls : p \in [of : {effect}, seen : (0 .. rev') \cup {None}]
      BY <3>1 DEF TypeOK, PollTypes
    <3>3. list \in [of : 0 .. effect, seen : 0 .. rev']
      BY <3>1 DEF TypeOK, PollTypes
    <3> QED BY <3>1, <3>2, <3>3 DEF pollVars, TypeOK, PollTypes
  <2>2. CASE DecideDone
    <3>1. PICK d \in decisions :
            IF d.live THEN busyId' = None /\ Restart ELSE UNCHANGED <<busyId, effect, running, polls>>
      BY <2>2 DEF DecideDone
    <3>2. CASE d.live
      BY <2>2, <3>1, <3>2, RestartInv DEF DecideDone, TypeOK, DecisionTypes
    <3>3. CASE ~d.live
      BY <2>2, <3>1, <3>3, Kept DEF DecideDone, TypeOK, pollVars
    <3> QED BY <3>2, <3>3
  <2>3. CASE Decide \/ AsksOntology \/ DecideFails
    BY <2>3, Kept DEF Decide, AsksOntology, DecideFails, TypeOK
  <2> QED BY <2>1, <2>2, <2>3
<1>2. DecisionTypes'
  <2>1. CASE Decide
    <3>1. PICK p \in Proposal, yes \in BOOLEAN :
            /\ decisions' = decisions \cup {[n |-> clicks, of |-> p, approve |-> yes, st |-> "sent", live |-> TRUE]}
            /\ list.of # 0 /\ busyId' = p
      BY <2>1 DEF Decide
    <3>2. clicks \in Nat
      BY DEF TypeOK
    <3>3. /\ open /\ error' = FALSE /\ UNCHANGED <<open, list>>
      BY <2>1, <3>1 DEF Decide, pollVars, TypeOK, DecisionTypes
    <3>4. [n |-> clicks, of |-> p, approve |-> yes, st |-> "sent", live |-> TRUE] \in Call
      BY <3>2
    <3>5. \A d \in decisions' : d \in Call /\ (d.live => open)
      BY <3>1, <3>3, <3>4 DEF TypeOK, DecisionTypes
    <3> QED BY <3>1, <3>3, <3>5 DEF TypeOK, DecisionTypes
  <2>2. CASE ServerApplies \/ AsksOntology
    <3>1. PICK d \in decisions, x \in {"applied", "ontology"} :
            decisions' = (decisions \ {d}) \cup {[d EXCEPT !.st = x]}
      BY <2>2 DEF ServerApplies, AsksOntology
    <3>2. d \in Call /\ (d.live => open)
      BY DEF TypeOK, DecisionTypes
    <3>3. [d EXCEPT !.st = x] \in Call /\ ([d EXCEPT !.st = x].live => open)
      BY <3>2
    <3>4. UNCHANGED <<open, list, busyId, error>>
      BY <2>2 DEF ServerApplies, AsksOntology, pollVars
    <3> QED BY <3>1, <3>3, <3>4 DEF TypeOK, DecisionTypes
  <2>3. CASE DecideDone
    BY <2>3 DEF DecideDone, TypeOK, DecisionTypes
  <2>4. CASE DecideFails
    <3>1. /\ decisions' \subseteq decisions /\ UNCHANGED <<open, list>>
          /\ (busyId' = None /\ error' = TRUE) \/ UNCHANGED <<busyId, error>>
      BY <2>4 DEF DecideFails, pollVars
    <3>2. busyId' \in Proposal \cup {None} /\ error' \in BOOLEAN
      BY <3>1 DEF TypeOK, DecisionTypes
    <3> QED BY <3>1, <3>2 DEF TypeOK, DecisionTypes
  <2>5. CASE OthersWrite
    BY <2>5, Kept DEF OthersWrite, pollVars, TypeOK
  <2> QED BY <2>1, <2>2, <2>3, <2>4, <2>5
<1>3. UNCHANGED <<client, graphVars, searchVars>> /\ clicks' \in 0 .. MaxClicks
  BY ClickType DEF OthersWrite, Decide, ServerApplies, AsksOntology, DecideDone, DecideFails
<1> QED BY <1>1, <1>2, <1>3, Kept DEF TypeOK

\* So does every step.
LEMMA StepInv == TypeOK /\ [Next]_vars => TypeOK'
<1> SUFFICES ASSUME TypeOK, [Next]_vars PROVE TypeOK'
  OBVIOUS
<1>1. CASE UNCHANGED vars
  <2>1. /\ UNCHANGED <<client, clicks>> /\ UNCHANGED graphVars /\ UNCHANGED searchVars
        /\ UNCHANGED <<open, rev, pollVars>> /\ UNCHANGED <<open, list, decisions, busyId, error>>
    BY <1>1 DEF vars, queueVars, pollVars
  <2> QED BY <2>1, Kept DEF TypeOK
<1> QED BY <1>1, GraphStepInv, SearchStepInv, PollStepInv, DecideStepInv DEF Next

----------------------------------------------------------------------------
(* Theorems                                                                *)

\* What is in flight, of any view, is in flight for the last choice.
THEOREM TypesHold == Spec => []TypeOK
<1> QED BY InitInv, StepInv, PTL DEF Spec

\* A step is, of the graph, a step of LatestAnswer or none;
LEMMA GraphRefines ==
  ASSUME TypeOK, [Next]_vars
  PROVE  [GraphView!LatestNext]_(GraphView!avars)
<1> USE DEF GraphView!avars, GraphView!LatestNext
<1>1. CASE ChooseTier
  BY <1>1 DEF ChooseTier, GraphView!Choose
<1>2. CASE GraphLands
  BY <1>2 DEF GraphLands, GraphView!Answer, TypeOK, GraphTypes
<1>3. CASE UNCHANGED <<tier, graph>>
  BY <1>3
<1>4. ~ChooseTier /\ ~GraphLands => UNCHANGED <<tier, graph>>
  BY DEF Next, vars, graphVars, AtomsCome, GraphFails, TypeQuery, ClearQuery, SearchStarts,
         HitsArrive, SearchFails, OpenQueue, CloseQueue, ToggleHistory, TimerPoll, ServerReads,
         ListArrives, PollFails, OthersWrite, Decide, ServerApplies, AsksOntology, DecideDone,
         DecideFails
<1> QED BY <1>1, <1>2, <1>3, <1>4

\* so it is of the search,
LEMMA SearchRefines ==
  ASSUME TypeOK, [Next]_vars
  PROVE  [SearchView!LatestNext]_(SearchView!avars)
<1> USE DEF SearchView!avars, SearchView!LatestNext
<1>1. CASE TypeQuery
  BY <1>1 DEF TypeQuery, SearchView!Choose
<1>2. CASE HitsArrive
  BY <1>2 DEF HitsArrive, SearchView!Answer, TypeOK, SearchTypes
<1>3. CASE ClearQuery
  BY <1>3 DEF ClearQuery, SearchView!Blank
<1>4. CASE UNCHANGED <<query, results>>
  BY <1>4
<1>5. ~TypeQuery /\ ~HitsArrive /\ ~ClearQuery => UNCHANGED <<query, results>>
  BY DEF Next, vars, searchVars, ChooseTier, AtomsCome, GraphLands, GraphFails, SearchStarts,
         SearchFails, OpenQueue, CloseQueue, ToggleHistory, TimerPoll, ServerReads,
         ListArrives, PollFails, OthersWrite, Decide, ServerApplies, AsksOntology, DecideDone,
         DecideFails
<1> QED BY <1>1, <1>2, <1>3, <1>4, <1>5

\* and of the queue.
LEMMA QueueRefines ==
  ASSUME TypeOK, [Next]_vars
  PROVE  [QueueView!LatestNext]_(QueueView!avars)
<1> USE DEF QueueView!avars, QueueView!LatestNext
<1>1. CASE OpenQueue \/ ToggleHistory
  BY <1>1 DEF OpenQueue, ToggleHistory, Restart, QueueView!Choose
<1>2. CASE DecideDone
  BY <1>2 DEF DecideDone, Restart, QueueView!Choose
<1>3. CASE ListArrives
  <2>1. PICK p \in polls : list' = [of |-> p.of, seen |-> p.seen]
    BY <1>3 DEF ListArrives
  <2>2. p.of = effect
    BY DEF TypeOK, PollTypes
  <2> QED BY <1>3, <2>1, <2>2 DEF ListArrives, QueueView!Answer
<1>4. CASE CloseQueue
  BY <1>4 DEF CloseQueue, Empty, QueueView!Blank
<1>5. CASE UNCHANGED <<effect, list>>
  BY <1>5
<1>6. ~OpenQueue /\ ~ToggleHistory /\ ~DecideDone /\ ~ListArrives /\ ~CloseQueue => UNCHANGED <<effect, list>>
  BY DEF Next, vars, queueVars, pollVars, ChooseTier, AtomsCome, GraphLands, GraphFails,
         TypeQuery, ClearQuery, SearchStarts, HitsArrive, SearchFails, TimerPoll, ServerReads,
         PollFails, OthersWrite, Decide, ServerApplies, AsksOntology, DecideFails
<1> QED BY <1>1, <1>2, <1>3, <1>4, <1>5, <1>6

\* The graph, the search and the review queue implement LatestAnswer: the answer
\* to an older choice never replaces that to a newer one.
THEOREM ViewsHold == Spec => ViewsShowTheLatest
<1>1. Init => GraphView!LatestInit /\ SearchView!LatestInit /\ QueueView!LatestInit
  BY DEF Init, Empty, GraphView!LatestInit, SearchView!LatestInit, QueueView!LatestInit
<1>2. TypeOK /\ [Next]_vars =>
        /\ [GraphView!LatestNext]_(GraphView!avars)
        /\ [SearchView!LatestNext]_(SearchView!avars)
        /\ [QueueView!LatestNext]_(QueueView!avars)
  BY GraphRefines, SearchRefines, QueueRefines
<1> QED BY <1>1, <1>2, InitInv, StepInv, PTL
        DEF Spec, ViewsShowTheLatest, GraphView!LatestSpec, SearchView!LatestSpec, QueueView!LatestSpec
=============================================================================
