----------------------------- MODULE WebSession -----------------------------
(***************************************************************************)
(* Who is signed in: the gate in front of the web client (main.tsx), the   *)
(* probe of the daemon that opens and closes it (auth.ts), and the answers *)
(* to the client's own requests that end a session (api.ts).               *)
(*                                                                         *)
(* The token is in the local storage, which all tabs of a browser share    *)
(* and none watches.  A probe is at most two requests, and reads the       *)
(* storage in between.  A request that the daemon refuses clears whatever  *)
(* token is stored by then, also one it was not sent with.                 *)
(*                                                                         *)
(* Behind the gate a router shows the app, which asks for the status again *)
(* and again, or a page, #/db or #/repo, which asks only when it is opened *)
(* or used.                                                                *)
(*                                                                         *)
(* The next client has the same gate without the Access panel.  What the   *)
(* gate's form refuses to send is left out, and so are unload and reload.  *)
(***************************************************************************)
EXTENDS Naturals, FiniteSets

CONSTANTS
  Tab,        \* tabs of one browser
  Token,      \* keys a user may paste
  Writers,    \* keys with which the write routes of a shared store may be called
  MaxProbes,  \* bound: probes of a tab in flight
  MaxCalls,   \* bound: requests of a tab in flight
  MaxClicks,  \* bound: what users and the operator do
  MaxFaults,  \* bound: requests that end without a verdict
  None

ASSUME SessionAssumption ==
  /\ Writers \subseteq Token /\ None \notin Token
  /\ {MaxProbes, MaxCalls, MaxClicks, MaxFaults} \subseteq Nat

VARIABLES
  locked,    \* the daemon asks for a key, for good
  accepted,  \* the keys it accepts now
  token,     \* the stored token
  phase,     \* [Tab -> "booting", "gate" or "ready"]
  shown,     \* [Tab -> "app" or "page"]: what the hash of its address names
  probes,    \* of a tab: number, "bare" or "token", and the token it sent
  calls,     \* requests of the app in flight: the token sent, and whether to a write route
  clicks, faults

daemon == <<locked, accepted>>
client == <<token, phase, shown, probes, calls>>
vars == <<daemon, client, clicks, faults>>

TypeOK ==
  /\ locked \in BOOLEAN /\ accepted \subseteq Token
  /\ token \in Token \cup {None}
  /\ phase \in [Tab -> {"booting", "gate", "ready"}]
  /\ shown \in [Tab -> {"app", "page"}]
  /\ probes \subseteq [tab : Tab, n : 1 .. MaxProbes, stage : {"bare", "token"}, sent : Token \cup {None}]
  /\ calls \subseteq [tab : Tab, sent : Token \cup {None}, write : BOOLEAN]
  /\ clicks \in 0 .. MaxClicks /\ faults \in 0 .. MaxFaults

Probe(t, n) == [tab |-> t, n |-> n, stage |-> "bare", sent |-> None]

\* Fault: an event that nobody listens to.
ProbesOn(t) == UNCHANGED probes
\* refresh(): a new probe, whatever probes are in flight.
Probes(t) == \E n \in 1 .. MaxProbes :
  /\ \A p \in probes : p.tab = t => p.n # n
  /\ \A i \in 1 .. n - 1 : \E p \in probes : p.tab = t /\ p.n = i
  /\ probes' = probes \cup {Probe(t, n)}

Init ==
  /\ locked \in BOOLEAN /\ accepted \in SUBSET Token
  /\ token \in Token \cup {None}
  /\ phase = [t \in Tab |-> "booting"]
  /\ shown \in [Tab -> {"app", "page"}]
  /\ probes = {Probe(t, 1) : t \in Tab}
  /\ calls = {} /\ clicks = 0 /\ faults = 0

----------------------------------------------------------------------------
(* The probe *)

\* What a probe says holds for the tab, also when a later one has said else.
Says(p, what) ==
  /\ phase' = [phase EXCEPT ![p.tab] = what]
  /\ probes' = probes \ {p}

\* Without a token the daemon answers, or asks for one.
BareAnswer(t) == \E p \in probes :
  /\ p.tab = t /\ p.stage = "bare"
  /\ CASE ~locked -> Says(p, "ready")
       [] locked /\ token = None -> Says(p, "gate")
       [] OTHER -> /\ probes' = (probes \ {p}) \cup {[p EXCEPT !.stage = "token", !.sent = token]}
                   /\ UNCHANGED phase
  /\ UNCHANGED <<daemon, token, shown, calls, clicks, faults>>

TokenAnswer(t) == \E p \in probes :
  /\ p.tab = t /\ p.stage = "token"
  /\ IF p.sent \in accepted
     THEN Says(p, "ready") /\ UNCHANGED token
     ELSE Says(p, "gate") /\ token' = None
  /\ UNCHANGED <<daemon, shown, calls, clicks, faults>>

Fault == faults < MaxFaults /\ faults' = faults + 1

\* Without an answer the app starts, to show that it is offline.  An error to
\* the request with the token counts as a refusal.
ProbeFails == \E p \in probes :
  /\ Fault
  /\ \/ Says(p, "ready") /\ UNCHANGED token
     \/ p.stage = "token" /\ Says(p, "gate") /\ token' = None
  /\ UNCHANGED <<daemon, shown, calls, clicks>>

----------------------------------------------------------------------------
(* The app *)

Click == clicks < MaxClicks /\ clicks' = clicks + 1

Asks(t, write) ==
  /\ phase[t] = "ready"
  /\ Cardinality({c \in calls : c.tab = t}) < MaxCalls
  /\ calls' = calls \cup {[tab |-> t, sent |-> token, write |-> write]}
  /\ UNCHANGED <<daemon, token, phase, shown, probes, faults>>

\* The status, every eight seconds.
Polls(t) == shown[t] = "app" /\ Asks(t, FALSE) /\ UNCHANGED clicks

\* A page loads when it is opened, sorted, turned or searched.
PageLoads(t) == shown[t] = "page" /\ Asks(t, FALSE) /\ UNCHANGED clicks

\* A button of the app that writes.
Writes(t) == shown[t] = "app" /\ Click /\ Asks(t, TRUE)

\* An unknown key, or one that may only read: both are 401.
Refused(c) == \/ locked /\ c.sent \notin accepted
              \/ c.write /\ c.sent \notin Writers

\* emitTokenInvalid
CallAnswered(t) == \E c \in calls :
  /\ c.tab = t
  /\ calls' = calls \ {c}
  /\ IF Refused(c) THEN token' = None /\ Probes(t) ELSE UNCHANGED <<token, probes>>
  /\ UNCHANGED <<daemon, phase, shown, clicks, faults>>

CallFails == \E c \in calls :
  /\ Fault
  /\ calls' = calls \ {c}
  /\ UNCHANGED <<daemon, token, phase, shown, probes, clicks>>

----------------------------------------------------------------------------
(* The user and the operator *)

\* The hash of the address changes; the router listens, and the gate does not ask
\* anew.
Navigates == \E t \in Tab :
  /\ Click
  /\ shown' = [shown EXCEPT ![t] = IF @ = "app" THEN "page" ELSE "app"]
  /\ UNCHANGED <<daemon, token, phase, probes, calls, faults>>

\* The form of the gate, and of the Access panel of an app that runs.
SaveToken == \E t \in Tab, k \in Token :
  /\ Click /\ (phase[t] = "gate" \/ (phase[t] = "ready" /\ shown[t] = "app"))
  /\ token' = k
  /\ Probes(t)
  /\ UNCHANGED <<daemon, phase, shown, calls, faults>>

\* Offered by what the last render saw: another tab may have signed out since.
SignOut == \E t \in Tab :
  /\ Click /\ phase[t] = "ready" /\ shown[t] = "app"
  /\ token' = None
  /\ Probes(t)
  /\ UNCHANGED <<daemon, phase, shown, calls, faults>>

\* A key is issued or revoked.
KeysChange ==
  /\ Click
  /\ \E k \in Token : accepted' \in {accepted \cup {k}, accepted \ {k}} \ {accepted}
  /\ UNCHANGED <<locked, client, faults>>

----------------------------------------------------------------------------
Next ==
  \/ \E t \in Tab : BareAnswer(t) \/ TokenAnswer(t) \/ CallAnswered(t)
  \/ \E t \in Tab : Polls(t) \/ PageLoads(t) \/ Writes(t)
  \/ ProbeFails \/ CallFails
  \/ Navigates \/ SaveToken \/ SignOut \/ KeysChange

\* The app polls, and what is asked is answered in the end.  A page owes nothing.
Fairness == \A t \in Tab : /\ WF_vars(BareAnswer(t)) /\ WF_vars(TokenAnswer(t))
                           /\ WF_vars(CallAnswered(t)) /\ WF_vars(Polls(t))

Spec == Init /\ [][Next]_vars /\ Fairness

----------------------------------------------------------------------------
(* Properties *)

\* Once keys, users and network have come to rest, no tab that shows the app goes
\* on as if it were signed in with a token that the daemon does not accept,
\* whatever probes, refusals, navigation and other tabs did in between; and a
\* daemon that asks for no key has no gate (HumanAccess.tsx:13).  A tab left on
\* #/db or #/repo may go on for ever: nothing there asks again (DbView.tsx:107).
GateSettles ==
  <>[] \A t \in Tab :
         IF locked
         THEN phase[t] = "gate" \/ token \in accepted \/ (phase[t] = "ready" /\ shown[t] = "page")
         ELSE phase[t] = "ready"
=============================================================================
