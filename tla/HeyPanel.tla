------------------------------ MODULE HeyPanel ------------------------------
(***************************************************************************)
(* The Hey board of the web client: the panel that polls the daemon        *)
(* (HeyPanel), its list view (Chatboard) and its column view (HeyKanban).  *)
(*                                                                         *)
(* A board is what GET /api/hey/threads/{id}/messages answers.  The server *)
(* keeps one per thread; log[t] is every board thread t has had, so a      *)
(* snapshot is an index.  Other clients write too.  A message is its       *)
(* leading [lane] token and the rest of its text; replies, reactions'      *)
(* emoji, presence and unread counts are not modelled.                     *)
(*                                                                         *)
(* The page is one thread.  React runs the poll's effect in the same event *)
(* as a click, and some time after a state change that follows an await:   *)
(* due says that it still has to run.                                      *)
(***************************************************************************)
EXTENDS Naturals, Sequences, FiniteSets, SequencesExt

CONSTANTS
  Thread,     \* thread ids
  Alias,      \* 'hey.md', the name the panel starts with
  Home,       \* the thread of that name
  NameOf,     \* [Thread -> names]: a name may be the id of another thread
  ListCap,    \* length of the thread list (20)
  Card,       \* message ids
  Lane, Inbox, Text,
  FirstBoard, \* [Thread -> board] when the page opens
  MaxLog,     \* bound: boards of a thread
  MaxClicks,  \* bound: what the user does
  MaxCalls,   \* bound: own writes in flight
  None

Message == [lane : Lane, text : Text]
Board == [Card -> Message \cup {None}]

ASSUME ThreadAssumption == IsFiniteSet(Thread) /\ Home \in Thread /\ Alias \notin Thread /\ None \notin Thread
ASSUME BoardAssumption == FirstBoard \in [Thread -> Board]
ASSUME LaneAssumption == Inbox \in Lane /\ None \notin Lane /\ None \notin Message
ASSUME BoundAssumption == {ListCap, MaxLog, MaxClicks, MaxCalls} \subseteq Nat /\ MaxLog > 0

VARIABLES
  log,        \* [Thread -> Seq(Board)]: the server
  age,        \* [Thread -> Nat]: its place by updated_at, 0 the last updated
  active,     \* activeThreadId
  messages,   \* the messages state: which board of which thread
  view,       \* "board" or "kanban"
  columns,    \* [Card -> Lane]: a card the user dragged, in its new column; or None
  editing,    \* the open edit form: the card and its lane token; or None
  due,        \* the poll's effect has to run again
  poll,       \* the poll in progress: phase, its activeThreadId, the board it got
  calls,      \* own writes in flight
  clicks      \* bound

serverVars == <<log, age>>
paneVars == <<active, messages>>
cardVars == <<view, columns, editing>>
pollVars == <<due, poll>>
vars == <<serverVars, paneVars, cardVars, pollVars, calls, clicks>>

Pane == INSTANCE ThreadPane

Undragged == [c \in Card |-> None]
Idle == [phase |-> "idle", of |-> Alias, seen |-> 0]
Lists(t) == [phase |-> "lists", of |-> t, seen |-> 0]
Target(t) == IF t = Alias THEN Home ELSE t
Shown == IF messages.seen = 0 THEN [c \in Card |-> None]
         ELSE log[messages.from][messages.seen]
CurrentBoard(t) == Last(log[t])

\* Fault: the column is looked up among the moved cards only.
ColumnDragged(c) == columns[c]
\* messagesToColumns, and what useKanban has moved since.
ColumnOf(c) == IF columns[c] # None THEN columns[c] ELSE Shown[c].lane

TypeOK ==
  /\ log \in [Thread -> Seq(Board)] /\ \A t \in Thread : Len(log[t]) \in 1 .. MaxLog
  /\ age \in [Thread -> Nat]
  /\ active \in Thread \cup {Alias}
  /\ messages \in [from : Thread \cup {None}, seen : Nat]
  /\ view \in {"board", "kanban"}
  /\ columns \in [Card -> Lane \cup {None}]
  /\ editing \in [card : Card, lane : Lane] \cup {None}
  /\ due \in BOOLEAN
  /\ poll \in [phase : {"idle", "lists", "messages", "answered"}, of : Thread \cup {Alias}, seen : Nat]
  /\ calls \subseteq [op : {"post", "edit", "move", "delete", "react"},
                      card : Card \cup {None}, thread : Thread \cup {Alias},
                      msg : Message \cup {None}, state : {"sent", "applied"}]
  /\ clicks \in 0 .. MaxClicks

Init ==
  /\ log = [t \in Thread |-> <<FirstBoard[t]>>]
  /\ age \in {a \in [Thread -> 0 .. Cardinality(Thread) - 1] : IsInjective(a)}
  /\ active = Alias
  /\ messages = [from |-> None, seen |-> 0]
  /\ view = "board" /\ columns = Undragged /\ editing = None
  /\ due = FALSE /\ poll = Lists(Alias)
  /\ calls = {} /\ clicks = 0

----------------------------------------------------------------------------
(* The server *)

Wrote(t, b) == log' = [log EXCEPT ![t] = Append(@, b)]
Touched(t) == age' = [x \in Thread |-> IF x = t THEN 0
                                       ELSE IF age[x] < age[t] THEN age[x] + 1 ELSE age[x]]

Unused(c) == \A t \in Thread, n \in 1 .. MaxLog : n <= Len(log[t]) => log[t][n][c] = None
Holds(t, c) == CurrentBoard(t)[c] # None

\* post_message: a reply may charge a turn, which touches the thread.
PostedBy(t, m) == \E c \in Card : /\ Unused(c)
                                 /\ Wrote(t, [CurrentBoard(t) EXCEPT ![c] = m])
\* update_message: the whole content is replaced.
UpdatedBy(t, c, m) == Holds(t, c) /\ Wrote(t, [CurrentBoard(t) EXCEPT ![c] = m])
DeletedBy(t, c) == Holds(t, c) /\ Wrote(t, [CurrentBoard(t) EXCEPT ![c] = None])
ReactedBy(t, c) == Holds(t, c) /\ Wrote(t, CurrentBoard(t)) /\ Touched(t)

\* An agent, or the operator in another window.
OthersWrite ==
  /\ \E t \in Thread :
       /\ Len(log[t]) < MaxLog
       /\ \/ \E m \in Message : PostedBy(t, m) /\ (Touched(t) \/ UNCHANGED age)
          \/ \E c \in Card, m \in Message : UpdatedBy(t, c, m) /\ UNCHANGED age
          \/ \E c \in Card : DeletedBy(t, c) /\ UNCHANGED age
          \/ \E c \in Card : ReactedBy(t, c)
  /\ UNCHANGED <<paneVars, cardVars, pollVars, calls, clicks>>

ServerApplies ==
  /\ \E k \in calls :
       /\ k.state = "sent"
       /\ calls' = (calls \ {k}) \cup {[k EXCEPT !.state = "applied"]}
       /\ \E t \in Thread :
            /\ Len(log[t]) < MaxLog
            /\ \/ k.op = "post" /\ t = Target(k.thread) /\ PostedBy(t, k.msg) /\ UNCHANGED age
               \/ k.op \in {"edit", "move"} /\ UpdatedBy(t, k.card, k.msg) /\ UNCHANGED age
               \/ k.op = "delete" /\ DeletedBy(t, k.card) /\ UNCHANGED age
               \/ k.op = "react" /\ ReactedBy(t, k.card)
  /\ UNCHANGED <<paneVars, cardVars, pollVars, clicks>>

----------------------------------------------------------------------------
(* The poll *)

ThreadList == {t \in Thread : age[t] < ListCap}

\* The thread of that id, else the thread of that name, else as it was.
Resolved(t) ==
  LET named == {x \in ThreadList : NameOf[x] = t} IN
  IF t \in ThreadList \/ named = {} THEN t ELSE CHOOSE x \in named : TRUE

\* Fault: the columns are set on the first render only.
ColumnsKept == UNCHANGED columns
\* setColumns(columns) whenever the messages are set.
ColumnsFollow == columns' = Undragged

\* Fault: the old effect is not aborted.
PollGoesOn(t) == due' = FALSE /\ poll' = IF poll.phase = "idle" THEN Lists(t) ELSE poll
\* The cleanup of the old effect aborts its poll; the new one polls at once.
PollAgain(t) == due' = FALSE /\ poll' = Lists(t)

RunEffect == /\ due
             /\ PollAgain(active)
             /\ UNCHANGED <<serverVars, paneVars, cardVars, calls, clicks>>

\* The interval; poll() returns at once when one is running.
TimerPoll == /\ ~due /\ poll.phase = "idle"
             /\ PollAgain(active)
             /\ UNCHANGED <<serverVars, paneVars, cardVars, calls, clicks>>

\* The lists arrive: the panel moves to the thread that bears the name, or
\* asks for the messages.  The columns follow the messages.
ListsArrive ==
  /\ poll.phase = "lists"
  /\ IF Resolved(poll.of) # poll.of
     THEN /\ messages' = [from |-> None, seen |-> 0]
          /\ active' = Resolved(poll.of)
          /\ ColumnsFollow
          /\ due' = TRUE /\ poll' = Idle
     ELSE /\ poll' = [poll EXCEPT !.phase = "messages"]
          /\ UNCHANGED <<paneVars, columns, due>>
  /\ UNCHANGED <<serverVars, view, editing, calls, clicks>>

ServerReads ==
  /\ poll.phase = "messages"
  /\ poll' = [poll EXCEPT !.phase = "answered", !.seen = Len(log[Target(poll.of)])]
  /\ UNCHANGED <<serverVars, paneVars, cardVars, due, calls, clicks>>

MessagesArrive ==
  /\ poll.phase = "answered"
  /\ messages' = [from |-> Target(poll.of), seen |-> poll.seen]
  /\ ColumnsFollow
  /\ poll' = Idle
  /\ UNCHANGED <<serverVars, active, view, editing, due, calls, clicks>>

\* Fault: running is reset on success only.
RunningStays == /\ poll.phase # "idle"
                /\ poll' = [poll EXCEPT !.phase = "stuck"]
                /\ UNCHANGED <<serverVars, paneVars, cardVars, due, calls, clicks>>
\* The last successful snapshot stays.
PollFails == /\ poll.phase # "idle"
             /\ poll' = Idle
             /\ UNCHANGED <<serverVars, paneVars, cardVars, due, calls, clicks>>

----------------------------------------------------------------------------
(* The user *)

Click == clicks < MaxClicks /\ clicks' = clicks + 1

\* onOpenThread, from the thread list of the board view.
OpenThread(t) ==
  /\ Click /\ view = "board"
  /\ active' = t
  /\ IF t # active
     THEN messages' = [from |-> None, seen |-> 0] /\ ColumnsFollow
     ELSE UNCHANGED <<messages, columns>>
  /\ PollAgain(t)
  /\ UNCHANGED <<serverVars, view, editing, calls>>

Refresh == /\ Click
           /\ PollAgain(active)
           /\ UNCHANGED <<serverVars, paneVars, cardVars, calls>>

\* The other view is mounted anew.
SetView == /\ Click
           /\ view' \in {"board", "kanban"} \ {view}
           /\ columns' = Undragged /\ editing' = None
           /\ UNCHANGED <<serverVars, paneVars, pollVars, calls>>

Send(op, c, m) ==
  /\ Click /\ Cardinality(calls) < MaxCalls
  /\ calls' = calls \cup {[op |-> op, card |-> c, thread |-> active, msg |-> m, state |-> "sent"]}

\* send() of the board; addCard puts the card in a column.
Post == /\ \E m \in Message : /\ view = "board" => m.lane = Inbox
                              /\ Send("post", None, m)
        /\ UNCHANGED <<serverVars, paneVars, cardVars, pollVars>>

React == /\ view = "board"
         /\ \E c \in Card : Shown[c] # None /\ Send("react", c, None)
         /\ UNCHANGED <<serverVars, paneVars, cardVars, pollVars>>

Delete == /\ view = "board"
          /\ \E c \in Card : Shown[c] # None /\ Send("delete", c, None)
          /\ UNCHANGED <<serverVars, paneVars, cardVars, pollVars>>

\* The form keeps what it was opened with: the whole content in the board, the
\* text alone in the columns.
StartEdit == /\ Click
             /\ \E c \in Card : /\ Shown[c] # None
                                /\ editing' = [card |-> c, lane |-> Shown[c].lane]
             /\ UNCHANGED <<serverVars, paneVars, view, columns, pollVars, calls>>

CancelEdit == /\ Click /\ editing # None
              /\ editing' = None
              /\ UNCHANGED <<serverVars, paneVars, view, columns, pollVars, calls>>

\* saveEdit: the columns write the token of the column the card is in now.
SaveEdit ==
  /\ editing # None /\ Shown[editing.card] # None
  /\ \E x \in Text :
       LET lane == IF view = "kanban" THEN ColumnOf(editing.card) ELSE editing.lane
       IN  Send("edit", editing.card, [lane |-> lane, text |-> x])
  /\ editing' = None
  /\ UNCHANGED <<serverVars, paneVars, view, columns, pollVars>>

\* onCardMove: the column changes at once; persistMove sends the content of
\* the snapshot under the new token.
MoveCard ==
  /\ view = "kanban"
  /\ \E c \in Card, l \in Lane :
       /\ Shown[c] # None /\ ColumnOf(c) # l
       /\ columns' = [columns EXCEPT ![c] = l]
       /\ Send("move", c, [Shown[c] EXCEPT !.lane = l])
  /\ UNCHANGED <<serverVars, paneVars, view, editing, pollVars>>

WriteDone == \E k \in calls :
  /\ k.state = "applied"
  /\ calls' = calls \ {k}
  /\ due' = TRUE
  /\ UNCHANGED <<serverVars, paneVars, cardVars, poll, clicks>>

\* Refused, or the answer is lost.  A failed move asks for the server's state;
\* any other failure leaves the board as it is.
WriteFails == \E k \in calls :
  /\ calls' = calls \ {k}
  /\ due' = (due \/ k.op = "move")
  /\ UNCHANGED <<serverVars, paneVars, cardVars, poll, clicks>>

Next ==
  \/ OthersWrite \/ ServerApplies
  \/ RunEffect \/ TimerPoll \/ ListsArrive \/ ServerReads \/ MessagesArrive \/ PollFails
  \/ \E t \in Thread : OpenThread(t)
  \/ Refresh \/ SetView \/ Post \/ React \/ Delete
  \/ StartEdit \/ CancelEdit \/ SaveEdit \/ MoveCard
  \/ WriteDone \/ WriteFails

\* Effects run and the timer ticks; a daemon that is asked again and again
\* answers in the end.
Fairness ==
  /\ WF_vars(RunEffect) /\ WF_vars(TimerPoll)
  /\ SF_vars(ListsArrive) /\ SF_vars(ServerReads) /\ SF_vars(MessagesArrive)

Spec == Init /\ [][Next]_vars /\ Fairness

----------------------------------------------------------------------------
(* Properties *)

\* Whatever polls, clicks and failures interleave, the pane shows a state of
\* the open thread and only moves on to newer ones.
PaneRefines == Pane!PaneSpec

\* Every write to the open thread, whoever made it, reaches the pane unless
\* the user goes elsewhere: polls that fail or are aborted do not end polling.
PaneCatchesUp ==
  \A t \in Thread, n \in 1 .. MaxLog :
    (active = t /\ Len(log[t]) >= n) ~> (active # t \/ messages.seen >= n)

\* A dragged card does not stay in a column that nothing but the drag put it
\* in: its column is the server's lane again, whether the write failed or not.
\* (kanbanMapping.ts:1-4: the board and the chatboard never diverge.)
OptimismEnds == \A c \in Card : columns[c] # None ~> columns[c] = None

\* The panel leaves a thread only for the one the user opens (HeyPanel.tsx:36-37,
\* http/hey.rs:398-399: an id must not hop to a thread that bears it as a name).
\* The code does not keep it once the open thread is off the end of the list.
NoHop == [][(active \in Thread /\ active' # active) => (\E t \in Thread : OpenThread(t))]_vars

\* Moving a card rewrites its token (kanbanMapping.ts:3) and nothing else.
\* The code does not keep it: the text written is that of the last poll.
MoveKeepsTheText ==
  [][\A k \in calls : \A t \in Thread :
       (k.op = "move" /\ k \notin calls' /\ log'[t] # log[t]) =>
         (CurrentBoard(t)[k.card].text = Last(log'[t])[k.card].text)]_vars
=============================================================================
