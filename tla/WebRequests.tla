---------------------------- MODULE WebRequests ----------------------------
(***************************************************************************)
(* The requests of the two web clients that replace one another: the graph *)
(* of a load tier, the search, and the review queue of ontology proposals  *)
(* (which the legacy client polls).  Each holds an AbortController that it *)
(* aborts before it asks again; they differ in what they do with a request *)
(* that is aborted when part of it has been answered, and with a query     *)
(* that has become blank.                                                  *)
(*                                                                         *)
(* A tier, a query and an effect of the queue is the number of the choice  *)
(* that made it.  An aborted request has no answer: it leaves the set of   *)
(* those in flight.                                                        *)
(***************************************************************************)
EXTENDS Integers

CONSTANTS
  Proposal,
  MaxClicks,  \* bound: what this user and others do
  None

ASSUME RequestsAssumption == MaxClicks \in Nat /\ None \notin Proposal \cup Nat

VARIABLES
  client,      \* "legacy" or "next", for good
  tier,        \* number of the tier choice
  graphLoads,  \* its request: choice, and whether the atoms have come
  graph,       \* the choice whose atoms are shown
  query,       \* number of the last query that was not blank
  blank,       \* the box is blank now
  timer,       \* next: the query whose 250 ms run, or 0
  flight,      \* queries whose request is in flight
  results,     \* the query whose results are shown, or 0
  searchState, \* next: "idle", "loading", "error"
  open,        \* the tab of the queue is open: the panel is mounted
  rev,         \* states the queue has had on the server
  effect,      \* number of the polling effect (mount, showDecided, refreshVersion)
  running,     \* its flag: a poll has not ended
  polls,       \* the poll in flight: effect, the state read or None
  list,        \* what the panel lists: effect and state
  decisions,   \* own decisions in flight
  busyId,
  error,       \* "decide failed" is shown
  clicks       \* bound

graphVars == <<tier, graphLoads, graph>>
searchVars == <<query, blank, timer, flight, results, searchState>>
pollVars == <<effect, running, polls, list>>
queueVars == <<open, rev, pollVars, decisions, busyId, error>>
vars == <<client, graphVars, searchVars, queueVars, clicks>>

\* What is in flight is in flight for the last choice.
GraphTypes ==
  /\ tier \in Nat /\ graph \in 0 .. tier
  /\ \A g \in graphLoads : g \in [of : {tier}, atoms : BOOLEAN]

SearchTypes ==
  /\ query \in Nat /\ blank \in BOOLEAN /\ timer \in {0, query}
  /\ client = "legacy" => timer = 0
  /\ \A q \in flight : q = query /\ q # timer
  /\ results \in 0 .. query
  /\ searchState \in {"idle", "loading", "error"}

PollTypes ==
  /\ open \in BOOLEAN /\ rev \in Nat /\ effect \in Nat /\ running \in BOOLEAN
  /\ \A p \in polls : open /\ p \in [of : {effect}, seen : (0 .. rev) \cup {None}]
  /\ list \in [of : 0 .. effect, seen : 0 .. rev]

DecisionTypes ==
  /\ \A d \in decisions : d \in [n : Nat, of : Proposal, approve : BOOLEAN,
                                 st : {"sent", "applied", "ontology"}, live : BOOLEAN]
  /\ \A d \in decisions : d.live => open
  /\ list.of # 0 => open
  /\ busyId \in Proposal \cup {None} /\ error \in BOOLEAN

TypeOK == /\ client \in {"legacy", "next"} /\ clicks \in 0 .. MaxClicks
          /\ GraphTypes /\ SearchTypes /\ PollTypes /\ DecisionTypes

Empty == [of |-> 0, seen |-> 0]

Init ==
  /\ client \in {"legacy", "next"}
  /\ tier = 1 /\ graphLoads = {[of |-> 1, atoms |-> FALSE]} /\ graph = 0
  /\ query = 0 /\ blank = TRUE /\ timer = 0 /\ flight = {} /\ results = 0
  /\ searchState = "idle"
  /\ open = FALSE /\ rev = 0 /\ effect = 0 /\ running = FALSE
  /\ polls = {} /\ list = Empty
  /\ decisions = {} /\ busyId = None /\ error = FALSE
  /\ clicks = 0

Click == clicks < MaxClicks /\ clicks' = clicks + 1

\* Fault: a request that is replaced may still be answered.
AbortNothing(requests) == requests
Abort(requests) == requests \ requests

----------------------------------------------------------------------------
(* The graph *)

\* Atoms that came before the abort while the rest was awaited: the others'
\* failures are caught, so the request succeeds.  Next looks at the signal
\* before it shows them, the legacy client does not.
LandsWhenReplaced ==
  client = "legacy" /\ \E g \in graphLoads : g.of = tier /\ g.atoms

ChooseTier ==
  /\ Click
  /\ tier' = tier + 1
  /\ graphLoads' = Abort(graphLoads) \cup {[of |-> tier + 1, atoms |-> FALSE]}
  /\ graph' = IF LandsWhenReplaced THEN tier ELSE graph
  /\ UNCHANGED <<client, searchVars, queueVars>>

AtomsCome == \E g \in graphLoads :
  /\ ~g.atoms
  /\ graphLoads' = (graphLoads \ {g}) \cup {[g EXCEPT !.atoms = TRUE]}
  /\ UNCHANGED <<client, tier, graph, searchVars, queueVars, clicks>>

\* The rest has come, or has failed and is taken as empty.
GraphLands == \E g \in graphLoads :
  /\ g.atoms
  /\ graph' = g.of /\ graphLoads' = graphLoads \ {g}
  /\ UNCHANGED <<client, tier, searchVars, queueVars, clicks>>

\* The graph stays as it is, and nothing asks again.
GraphFails == \E g \in graphLoads :
  /\ ~g.atoms
  /\ graphLoads' = graphLoads \ {g}
  /\ UNCHANGED <<client, tier, graph, searchVars, queueVars, clicks>>

----------------------------------------------------------------------------
(* The search *)

\* Next waits 250 ms, and a new query stops the timer of the last one.
TypeQuery ==
  /\ Click
  /\ query' = query + 1 /\ blank' = FALSE
  /\ IF client = "next"
     THEN /\ timer' = query + 1 /\ flight' = Abort(flight) /\ searchState' = "loading"
     ELSE /\ flight' = Abort(flight) \cup {query + 1} /\ UNCHANGED <<timer, searchState>>
  /\ UNCHANGED <<client, graphVars, results, queueVars>>

\* A blank query: the effect of next returns before it aborts.
ClearQuery ==
  /\ Click /\ ~blank
  /\ blank' = TRUE /\ timer' = 0 /\ results' = 0 /\ searchState' = "idle"
  /\ flight' = IF client = "next" THEN flight ELSE Abort(flight)
  /\ UNCHANGED <<client, graphVars, query, queueVars>>

SearchStarts ==
  /\ timer # 0
  /\ flight' = flight \cup {timer} /\ timer' = 0
  /\ UNCHANGED <<client, graphVars, query, blank, results, searchState, queueVars, clicks>>

HitsArrive == \E q \in flight :
  /\ flight' = flight \ {q}
  /\ results' = q
  /\ searchState' = "idle"
  /\ UNCHANGED <<client, graphVars, query, blank, timer, queueVars, clicks>>

\* The results of the query before stay beside the new one.
SearchFails == \E q \in flight :
  /\ flight' = flight \ {q}
  /\ searchState' = IF client = "next" THEN "error" ELSE searchState
  /\ UNCHANGED <<client, graphVars, query, blank, timer, results, queueVars, clicks>>

----------------------------------------------------------------------------
(* The review queue of the legacy client *)

\* The effect is cleaned up and runs again: it polls at once.
Restart ==
  /\ effect' = effect + 1 /\ running' = TRUE
  /\ polls' = Abort(polls) \cup {[of |-> effect + 1, seen |-> None]}

\* Only the open tab is mounted.
OpenQueue ==
  /\ client = "legacy" /\ ~open
  /\ open' = TRUE
  /\ Restart
  /\ UNCHANGED <<client, graphVars, searchVars, rev, list, decisions, busyId, error, clicks>>

\* Decisions go on, but what they set then is no longer there.
CloseQueue ==
  /\ Click /\ open
  /\ open' = FALSE
  /\ polls' = Abort(polls) /\ running' = FALSE
  /\ list' = Empty /\ busyId' = None /\ error' = FALSE
  /\ decisions' = {[d EXCEPT !.live = FALSE] : d \in decisions}
  /\ UNCHANGED <<client, graphVars, searchVars, rev, effect>>

ToggleHistory ==
  /\ Click /\ open /\ Restart
  /\ UNCHANGED <<client, graphVars, searchVars, open, rev, list, decisions, busyId, error>>

TimerPoll ==
  /\ open /\ ~running
  /\ running' = TRUE /\ polls' = polls \cup {[of |-> effect, seen |-> None]}
  /\ UNCHANGED <<client, graphVars, searchVars, open, rev, effect, list, decisions, busyId, error, clicks>>

ServerReads == \E p \in polls :
  /\ p.seen = None
  /\ polls' = (polls \ {p}) \cup {[p EXCEPT !.seen = rev]}
  /\ UNCHANGED <<client, graphVars, searchVars, open, rev, effect, running, list,
                 decisions, busyId, error, clicks>>

ListArrives == \E p \in polls :
  /\ p.seen # None
  /\ polls' = polls \ {p} /\ running' = FALSE
  /\ list' = [of |-> p.of, seen |-> p.seen]
  /\ error' = FALSE
  /\ UNCHANGED <<client, graphVars, searchVars, open, rev, effect, decisions, busyId, clicks>>

\* Fault: only an answer ends a poll.
RunningStays == \E p \in polls :
  /\ polls' = polls \ {p}
  /\ UNCHANGED <<client, graphVars, searchVars, open, rev, effect, running, list,
                 decisions, busyId, error, clicks>>

\* Keep the last snapshot during transient failures.
PollFails == \E p \in polls :
  /\ polls' = polls \ {p} /\ running' = FALSE
  /\ UNCHANGED <<client, graphVars, searchVars, open, rev, effect, list,
                 decisions, busyId, error, clicks>>

OthersWrite ==
  /\ client = "legacy" /\ Click /\ rev' = rev + 1
  /\ UNCHANGED <<client, graphVars, searchVars, open, pollVars, decisions, busyId, error>>

\* One card at a time is busy: a second decision takes the mark from the first.
Decide == \E p \in Proposal, yes \in BOOLEAN :
  /\ Click /\ list.of # 0 /\ busyId # p
  /\ decisions' = decisions \cup {[n |-> clicks, of |-> p, approve |-> yes, st |-> "sent", live |-> TRUE]}
  /\ busyId' = p /\ error' = FALSE
  /\ UNCHANGED <<client, graphVars, searchVars, open, rev, pollVars>>

ServerApplies == \E d \in decisions :
  /\ d.st = "sent" /\ rev' = rev + 1
  /\ decisions' = (decisions \ {d}) \cup {[d EXCEPT !.st = "applied"]}
  /\ UNCHANGED <<client, graphVars, searchVars, open, pollVars, busyId, error, clicks>>

\* An approval has changed the ontology: it is fetched before the refresh.
AsksOntology == \E d \in decisions :
  /\ d.st = "applied" /\ d.approve
  /\ decisions' = (decisions \ {d}) \cup {[d EXCEPT !.st = "ontology"]}
  /\ UNCHANGED <<client, graphVars, searchVars, open, rev, pollVars, busyId, error, clicks>>

DecideDone == \E d \in decisions :
  /\ d.st = (IF d.approve THEN "ontology" ELSE "applied")
  /\ decisions' = decisions \ {d}
  /\ IF d.live THEN busyId' = None /\ Restart ELSE UNCHANGED <<busyId, effect, running, polls>>
  /\ UNCHANGED <<client, graphVars, searchVars, open, rev, list, error, clicks>>

\* Refused, or an answer is lost: also when the decision has been applied and
\* it is the ontology that does not come.  Nothing is refreshed.
DecideFails == \E d \in decisions :
  /\ decisions' = decisions \ {d}
  /\ IF d.live THEN busyId' = None /\ error' = TRUE ELSE UNCHANGED <<busyId, error>>
  /\ UNCHANGED <<client, graphVars, searchVars, open, rev, pollVars, clicks>>

----------------------------------------------------------------------------
Next ==
  \/ ChooseTier \/ AtomsCome \/ GraphLands \/ GraphFails
  \/ TypeQuery \/ ClearQuery \/ SearchStarts \/ HitsArrive \/ SearchFails
  \/ OpenQueue \/ CloseQueue \/ ToggleHistory
  \/ TimerPoll \/ ServerReads \/ ListArrives \/ PollFails
  \/ OthersWrite \/ Decide \/ ServerApplies \/ AsksOntology \/ DecideDone \/ DecideFails

\* The timer ticks; a daemon that is asked again and again answers in the end.
Fairness == WF_vars(TimerPoll) /\ SF_vars(ServerReads) /\ SF_vars(ListArrives)

Spec == Init /\ [][Next]_vars /\ Fairness

----------------------------------------------------------------------------
(* Properties *)

GraphView == INSTANCE LatestAnswer WITH asked <- tier, shown <- graph
SearchView == INSTANCE LatestAnswer WITH asked <- query, shown <- results
QueueView == INSTANCE LatestAnswer WITH asked <- effect, shown <- list.of

\* Whatever answers overtake one another, the graph, the dropdown and the queue
\* show the answer to the last choice or what they showed before it, and never
\* go back to the answer of an older choice.
ViewsShowTheLatest ==
  GraphView!LatestSpec /\ SearchView!LatestSpec /\ QueueView!LatestSpec

\* What changes in the queue reaches the panel while it is open: neither a poll that fails or is
\* aborted nor a decision that fails half-way ends the polling.
QueueCatchesUp ==
  \A n \in 1 .. MaxClicks : (open /\ rev >= n) ~> (~open \/ list.seen >= n)
=============================================================================
