----------------------------- MODULE ThreadPane -----------------------------
(***************************************************************************)
(* What a message pane promises, whatever it polls with: it shows one      *)
(* state of the thread that is open, and while that thread stays open it   *)
(* only moves on to newer states of it.                                    *)
(*                                                                         *)
(* log[t] is every state thread t has had on the server, oldest first; the *)
(* pane shows log[messages.from][messages.seen], or nothing when seen = 0. *)
(***************************************************************************)
EXTENDS Naturals, Sequences

CONSTANTS Thread, Alias, Home, Board, None

\* 'hey.md' is a name: the server reads it as the thread of that name.
Target(t) == IF t = Alias THEN Home ELSE t

Empty == [from |-> None, seen |-> 0]

VARIABLES log, active, messages
pvars == <<log, active, messages>>

PaneInit == active = Alias /\ messages = Empty

Write == /\ \E t \in Thread, b \in Board : log' = [log EXCEPT ![t] = Append(@, b)]
         /\ UNCHANGED <<active, messages>>

Open == /\ active' \in Thread
        /\ messages' = Empty
        /\ UNCHANGED log

Show == /\ messages'.from = Target(active)
        /\ messages'.seen \in messages.seen .. Len(log[Target(active)])
        /\ UNCHANGED <<log, active>>

PaneNext == Write \/ Open \/ Show

PaneSpec == PaneInit /\ [][PaneNext]_pvars
=============================================================================
