------------------------------ MODULE NextApp ------------------------------
(***************************************************************************)
(* The next web client: the shell that loads every slice of data from the  *)
(* daemon (next/App.tsx) and the console that shows the slices and sends   *)
(* the operator's writes (WorkSurface).                                    *)
(*                                                                         *)
(* A slice is a conversation, the thread list or the proposal queue.  rev  *)
(* counts the states a slice has had on the server, so what the page shows *)
(* is a number.  Requests of one slice are not ordered: the answers come   *)
(* back in any order, and the last to come is shown.                       *)
(*                                                                         *)
(* A form sends one write at a time (useMutation), but only as long as it  *)
(* is mounted: a write whose form is gone is no longer live.  Presence,    *)
(* classes and the store table are loaded and never written: left out.     *)
(* The graph and the search are in WebRequests; the pulse never emits.     *)
(***************************************************************************)
EXTENDS Integers, FiniteSets

CONSTANTS
  Thread, Home,  \* thread ids, and the one named hey.md
  Row,           \* messages of a transcript
  Proposal,
  Threads, Queue, \* the names of two slices
  MaxClicks,     \* bound: what this user and others do
  None

Slice == Thread \cup {Threads, Queue}
Composer == [kind : {"composer"}, of : Thread]
RowForm == [kind : {"row"}, of : Thread \X Row]
BoardForm == [kind : {"move", "create"}, of : {None}]
ListForm == [kind : {"open"}, of : {None}]
CardForm == [kind : {"card"}, of : Proposal]
Form == Composer \cup RowForm \cup BoardForm \cup ListForm \cup CardForm

ASSUME NextAppAssumption ==
  /\ Home \in Thread /\ {Threads, Queue} \cap Thread = {} /\ Threads # Queue
  /\ None \notin Thread \cup Nat
  /\ MaxClicks \in Nat

VARIABLES
  rev,       \* [Slice -> Nat]: the server
  shown,     \* [Slice -> status and the state it shows]
  loads,     \* requests in flight: number, slice, the state read or None
  active,    \* activeThread of the shell
  selected,  \* the thread of the conversation pane
  mode,      \* "conversation" or "kanban"
  draft,     \* the composer holds text
  editing,   \* rows with an open edit form
  writes,    \* own writes in flight
  mine,      \* history: [Slice -> the last state an own write led to, once done]
  clicks     \* bound

slices == <<rev, shown, loads>>
console == <<active, selected, mode, draft, editing, writes, mine>>
vars == <<slices, console, clicks>>

SliceTypes ==
  /\ rev \in [Slice -> Nat] /\ mine \in [Slice -> Nat]
  /\ shown \in [Slice -> [st : {"loading", "ready", "error"}, seen : Nat]]
  /\ \A l \in loads : /\ l = [n |-> l.n, of |-> l.of, seen |-> l.seen]
                      /\ l.of \in Slice /\ l.seen \in Nat \cup {None}

\* An open edit form is in a transcript that is shown.
ConsoleTypes ==
  /\ active \in Thread \cup {None} /\ selected \in Thread \cup {None}
  /\ selected # None => active = selected
  /\ mode \in {"conversation", "kanban"}
  /\ draft \in BOOLEAN /\ (draft => selected # None)
  /\ editing \subseteq Row
  /\ editing # {} => selected # None /\ shown[selected].st = "ready"

WriteTypes ==
  \A w \in writes : w \in [form : Form, of : Slice, live : BOOLEAN, rev : Nat \cup {None}]

TypeOK == SliceTypes /\ ConsoleTypes /\ WriteTypes /\ clicks \in 0 .. MaxClicks

Init ==
  /\ rev = [s \in Slice |-> 0]
  /\ shown = [s \in Slice |-> [st |-> "loading", seen |-> 0]]
  /\ loads = {[n |-> 1, of |-> s, seen |-> None] : s \in {Threads, Queue}}
  /\ active = None /\ selected = None /\ mode = "conversation"
  /\ draft = FALSE /\ editing = {} /\ writes = {}
  /\ mine = [s \in Slice |-> 0]
  /\ clicks = 0

Click == clicks < MaxClicks /\ clicks' = clicks + 1

----------------------------------------------------------------------------
(* Slices *)

\* A request of slice s; n tells it from the others of s in flight.
Request(s) ==
  [n |-> CHOOSE n \in 1 .. Cardinality(loads) + 1 :
           \A l \in loads : l.of = s => l.n # n,
   of |-> s, seen |-> None]

\* A form that unmounts forgets its write; the write goes on.
Unmount(forms) ==
  {[w EXCEPT !.live = w.live /\ w.form \notin forms] : w \in writes}

RowsOf(t) == {f \in RowForm : f.of[1] = t}

\* loadMessages shows that it loads, and so unmounts the rows of the thread.
Loading(t) == [shown EXCEPT ![t].st = "loading"]
RowsGone(t) == editing' = IF t = selected THEN {} ELSE editing

Ready(s, seen) == [st |-> "ready", seen |-> seen]

ServerReads == \E l \in loads :
  /\ l.seen = None
  /\ loads' = (loads \ {l}) \cup {[l EXCEPT !.seen = rev[l.of]]}
  /\ UNCHANGED <<rev, shown, console, clicks>>

\* The first list opens hey.md, and an effect loads its messages.
FirstList == \E l \in loads :
  /\ l.of = Threads /\ l.seen # None /\ active = None
  /\ active' = Home
  /\ loads' = (loads \ {l}) \cup {Request(Home)}
  /\ shown' = [Loading(Home) EXCEPT ![Threads] = Ready(Threads, l.seen)]
  /\ UNCHANGED <<rev, selected, mode, draft, editing, writes, mine, clicks>>

\* The list holds twenty threads: a selected thread that others have pushed
\* out of it is closed.
ListArrives == \E l \in loads :
  /\ l.of = Threads /\ l.seen # None /\ active # None
  /\ loads' = loads \ {l}
  /\ shown' = [shown EXCEPT ![Threads] = Ready(Threads, l.seen)]
  /\ \/ UNCHANGED <<selected, draft, editing, writes>>
     \/ /\ selected # None /\ l.seen > 0
        /\ selected' = None /\ draft' = FALSE /\ editing' = {}
        /\ writes' = Unmount(Composer \cup RowForm)
  /\ UNCHANGED <<rev, active, mode, mine, clicks>>

SliceArrives == \E l \in loads :
  /\ l.of # Threads /\ l.seen # None
  /\ loads' = loads \ {l}
  /\ shown' = [shown EXCEPT ![l.of] = Ready(l.of, l.seen)]
  /\ UNCHANGED <<rev, console, clicks>>

\* Fault: a failure leaves the slice as it was.
FailureIsSilent == \E l \in loads :
  /\ loads' = loads \ {l}
  /\ UNCHANGED <<rev, shown, console, clicks>>

\* What the error replaces is unmounted.
LoadFails == \E l \in loads :
  /\ loads' = loads \ {l}
  /\ shown' = [shown EXCEPT ![l.of].st = "error"]
  /\ editing' = IF l.of = selected THEN {} ELSE editing
  /\ writes' = Unmount(IF l.of \in Thread THEN RowsOf(l.of)
                       ELSE IF l.of = Queue THEN CardForm ELSE {})
  /\ UNCHANGED <<rev, active, selected, mode, draft, mine, clicks>>

OthersWrite == \E s \in Slice :
  /\ Click
  /\ rev' = [rev EXCEPT ![s] = @ + 1]
  /\ UNCHANGED <<shown, loads, console>>

----------------------------------------------------------------------------
(* The console *)

\* A conversation is keyed by its thread: another one has an empty composer.
SelectThread(t) ==
  /\ Click /\ mode = "conversation" /\ shown[Threads].st = "ready"
  /\ selected' = t /\ active' = t
  /\ IF t # active
     THEN /\ loads' = loads \cup {Request(t)}
          /\ shown' = Loading(t)
     ELSE UNCHANGED <<loads, shown>>
  /\ IF t # selected
     THEN /\ draft' = FALSE /\ editing' = {}
          /\ writes' = Unmount(Composer \cup RowForm)
     ELSE UNCHANGED <<draft, editing, writes>>
  /\ UNCHANGED <<rev, mode, mine>>

\* Back to the list, or to the other mode: the conversation unmounts.
LeaveConversation ==
  /\ Click
  /\ \/ selected # None /\ mode = "conversation" /\ selected' = None /\ UNCHANGED mode
     \/ mode' \in {"conversation", "kanban"} \ {mode} /\ UNCHANGED selected
  /\ draft' = FALSE /\ editing' = {}
  /\ writes' = Unmount(Composer \cup RowForm \cup BoardForm)
  /\ UNCHANGED <<slices, active, mine>>

\* The board shows a conversation that failed as one that loads: no retry.
Retry == \E s \in Slice :
  /\ Click /\ shown[s].st = "error"
  /\ s \in Thread => s = selected /\ mode = "conversation"
  /\ s = Threads => mode = "conversation"
  /\ loads' = loads \cup {Request(s)}
  /\ shown' = IF s \in Thread THEN Loading(s) ELSE shown
  /\ UNCHANGED <<rev, console>>

\* useMutation: a mounted form has one write in flight.
Free(f) == ~\E w \in writes : w.form = f /\ w.live

Send(f, s) ==
  /\ Click /\ Free(f)
  /\ writes' = writes \cup {[form |-> f, of |-> s, live |-> TRUE, rev |-> None]}
  /\ UNCHANGED <<slices, active, selected, mode, mine>>

InTranscript == mode = "conversation" /\ selected # None

Type == /\ Click /\ InTranscript /\ ~draft
        /\ Free([kind |-> "composer", of |-> selected])
        /\ draft' = TRUE
        /\ UNCHANGED <<slices, active, selected, mode, editing, writes, mine>>

\* Fault: the composer is emptied when the message is sent.
ClearsText == draft' = FALSE
KeepsText == UNCHANGED draft

SendMessage ==
  /\ InTranscript /\ draft /\ shown[selected].st = "ready"
  /\ Send([kind |-> "composer", of |-> selected], selected)
  /\ KeepsText
  /\ UNCHANGED editing

StartEdit ==
  /\ Click /\ InTranscript /\ shown[selected].st = "ready"
  /\ \E r \in Row : /\ Free([kind |-> "row", of |-> <<selected, r>>])
                    /\ editing' = editing \cup {r}
  /\ UNCHANGED <<slices, active, selected, mode, draft, writes, mine>>

\* Save an edit, react to a message or delete it.
RowWrite ==
  /\ InTranscript /\ shown[selected].st = "ready"
  /\ \E r \in Row : Send([kind |-> "row", of |-> <<selected, r>>], selected)
  /\ UNCHANGED <<draft, editing>>

CreateThread ==
  /\ mode = "conversation"
  /\ Send([kind |-> "open", of |-> None], Threads)
  /\ UNCHANGED <<draft, editing>>

\* The board shows the active thread; a task is created even while it loads.
BoardWrite ==
  /\ mode = "kanban" /\ active # None
  /\ \E k \in {"move", "create"} :
       /\ k = "move" => shown[active].st = "ready"
       /\ Send([kind |-> k, of |-> None], active)
  /\ UNCHANGED <<draft, editing>>

Decide ==
  /\ shown[Queue].st = "ready"
  /\ \E p \in Proposal : Send([kind |-> "card", of |-> p], Queue)
  /\ UNCHANGED <<draft, editing>>

ServerApplies == \E w \in writes :
  /\ w.rev = None
  /\ rev' = [rev EXCEPT ![w.of] = @ + 1]
  /\ writes' = (writes \ {w}) \cup {[w EXCEPT !.rev = rev[w.of] + 1]}
  /\ UNCHANGED <<shown, loads, active, selected, mode, draft, editing, mine, clicks>>

Published(w) == mine' = [mine EXCEPT ![w.of] = IF w.rev > @ THEN w.rev ELSE @]

\* mutateThread reloads the messages and the list; then the form is cleared.
WriteDone == \E w \in writes :
  /\ w.rev # None /\ w.of \in Thread
  /\ Published(w)
  /\ loads' = loads \cup {Request(w.of), Request(Threads)}
  /\ shown' = Loading(w.of)
  /\ RowsGone(w.of)
  /\ writes' = Unmount(RowsOf(w.of)) \ {w, [w EXCEPT !.live = FALSE]}
  /\ draft' = (draft /\ ~(w.live /\ w.form \in Composer))
  /\ UNCHANGED <<rev, active, selected, mode, clicks>>

\* A decision and a new thread reload their slice.
ReloadDone == \E w \in writes :
  /\ w.rev # None /\ w.of \notin Thread
  /\ Published(w)
  /\ loads' = loads \cup {Request(w.of)}
  /\ writes' = writes \ {w}
  /\ UNCHANGED <<rev, shown, active, selected, mode, draft, editing, clicks>>

\* The form shows the error; text, row and card stay as they are.
WriteFails == \E w \in writes :
  /\ writes' = writes \ {w}
  /\ UNCHANGED <<slices, active, selected, mode, draft, editing, mine, clicks>>

----------------------------------------------------------------------------
\* A request ends, with an answer or a failure.
LoadEnds == FirstList \/ ListArrives \/ SliceArrives \/ LoadFails

Next ==
  \/ ServerReads \/ LoadEnds \/ OthersWrite
  \/ \E t \in Thread : SelectThread(t)
  \/ LeaveConversation \/ Retry \/ Type \/ SendMessage \/ StartEdit \/ RowWrite
  \/ CreateThread \/ BoardWrite \/ Decide
  \/ ServerApplies \/ WriteDone \/ ReloadDone \/ WriteFails

Spec == Init /\ [][Next]_vars /\ WF_vars(ServerReads) /\ WF_vars(LoadEnds)

----------------------------------------------------------------------------
(* Properties *)

\* Text in the composer goes only when the server has it, or when its
\* conversation is left: a send that fails can be sent again.
SentTextIsKept ==
  [][draft /\ ~draft' =>
       \/ selected' # selected \/ mode' # mode
       \/ \E w \in writes : w.form \in Composer /\ w.live /\ w.rev # None /\ w \notin writes']_vars

\* No slice that was asked for stays on "Loading...".
LoadingEnds ==
  \A s \in Slice : (shown[s].st = "loading" /\ (s \in Thread => s = active))
                     ~> (shown[s].st # "loading" \/ (s \in Thread /\ s # active))

\* worksurface.tsx:288-289: the host publishes updated props after a write.
\* The code does not keep it: of two loads the older may answer last.
OwnWritesArePublished ==
  \A s \in Slice : (shown[s].st = "ready" /\ ~\E l \in loads : l.of = s) => shown[s].seen >= mine[s]
=============================================================================
