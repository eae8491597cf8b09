--------------------------- MODULE HeyPanelProofs ---------------------------
(***************************************************************************)
(* HeyPanel implements ThreadPane, for any threads, names and bounds.  The *)
(* invariant ties the three asynchronous parts together: a poll in         *)
(* progress was started for the open thread, the messages are of that      *)
(* thread, and an answer on its way is not older than what is shown.       *)
(***************************************************************************)
EXTENDS HeyPanel, FiniteSetTheorems, TLAPS

PaneInv ==
  /\ messages = [from |-> None, seen |-> 0]
       \/ (messages.from = Target(active) /\ messages.seen <= Len(log[Target(active)]))
  /\ poll.phase # "idle" => poll.of = active
  /\ poll.phase = "answered" =>
       messages.seen <= poll.seen /\ poll.seen <= Len(log[Target(active)])

IInv == TypeOK /\ PaneInv

USE ThreadAssumption, BoardAssumption, LaneAssumption, BoundAssumption

----------------------------------------------------------------------------
(* Operators                                                               *)

\* A name resolves to a thread id.
LEMMA TargetIsThread ==
  ASSUME NEW t \in Thread \cup {Alias}
  PROVE  Target(t) \in Thread
BY DEF Target

\* The last board of a thread is a board.
LEMMA CurrentIsBoard ==
  ASSUME TypeOK, NEW t \in Thread
  PROVE  /\ CurrentBoard(t) \in Board
         /\ log[t] \in Seq(Board) /\ Len(log[t]) \in Nat /\ Len(log[t]) > 0
<1>1. log[t] \in Seq(Board) /\ Len(log[t]) \in 1 .. MaxLog
  BY DEF TypeOK
<1>2. Len(log[t]) \in Nat /\ Len(log[t]) > 0
  BY <1>1
<1>3. log[t][Len(log[t])] \in Board
  BY <1>1, <1>2, Z3
<1> QED BY <1>1, <1>2, <1>3 DEF CurrentBoard, Last

\* What the pane shows is a board.
LEMMA ShownIsBoard ==
  ASSUME IInv
  PROVE  Shown \in Board
<1>1. CASE messages.seen = 0
  BY <1>1 DEF Shown, Board
<1>2. CASE messages.seen # 0
  <2> DEFINE t == Target(active)
  <2>1. t \in Thread
    BY TargetIsThread DEF IInv, TypeOK
  <2>2. messages.from = t /\ messages.seen <= Len(log[t]) /\ messages.seen \in Nat
    BY <1>2 DEF IInv, PaneInv, TypeOK
  <2>3. log[t] \in Seq(Board)
    BY <2>1 DEF IInv, TypeOK
  <2>4. messages.seen \in 1 .. Len(log[t])
    BY <1>2, <2>2, <2>3
  <2>5. log[t][messages.seen] \in Board
    BY <2>3, <2>4, Z3
  <2> QED BY <1>2, <2>2, <2>5 DEF Shown
<1> QED BY <1>1, <1>2

\* A write adds one board to one thread and takes none away.
LEMMA WroteLog ==
  ASSUME TypeOK, NEW t \in Thread, NEW b \in Board, Wrote(t, b), Len(log[t]) < MaxLog
  PROVE  /\ log' \in [Thread -> Seq(Board)]
         /\ \A u \in Thread : Len(log'[u]) \in 1 .. MaxLog /\ Len(log[u]) <= Len(log'[u])
         /\ log' = [log EXCEPT ![t] = Append(@, b)]
<1>1. log' = [log EXCEPT ![t] = Append(@, b)]
  BY DEF Wrote
<1>2. log \in [Thread -> Seq(Board)] /\ \A u \in Thread : Len(log[u]) \in 1 .. MaxLog
  BY DEF TypeOK
<1>3. Append(log[t], b) \in Seq(Board) /\ Len(Append(log[t], b)) = Len(log[t]) + 1
  BY <1>2
<1>4. log' \in [Thread -> Seq(Board)]
  BY <1>1, <1>2, <1>3
<1>5. ASSUME NEW u \in Thread
      PROVE  Len(log'[u]) \in 1 .. MaxLog /\ Len(log[u]) <= Len(log'[u])
  <2>1. CASE u = t
    <3>1. Len(log'[u]) = Len(log[t]) + 1
      BY <1>1, <1>2, <1>3, <2>1
    <3> QED BY <3>1, <2>1, <1>2
  <2>2. CASE u # t
    <3>1. log'[u] = log[u]
      BY <1>1, <1>2, <2>2
    <3> QED BY <3>1, <1>2
  <2> QED BY <2>1, <2>2
<1> QED BY <1>1, <1>4, <1>5

\* Every write of a client is such a write.
LEMMA WritesAreBoards ==
  ASSUME TypeOK, NEW t \in Thread, NEW m \in Message \cup {None}, NEW c,
         PostedBy(t, m) \/ UpdatedBy(t, c, m) \/ DeletedBy(t, c) \/ ReactedBy(t, c)
  PROVE  \E b \in Board : Wrote(t, b)
<1>1. CurrentBoard(t) \in Board
  BY CurrentIsBoard
<1>2. \A d : [CurrentBoard(t) EXCEPT ![d] = m] \in Board
  BY <1>1 DEF Board
<1>3. [CurrentBoard(t) EXCEPT ![c] = None] \in Board
  BY <1>1 DEF Board
<1> QED BY <1>1, <1>2, <1>3 DEF PostedBy, UpdatedBy, DeletedBy, ReactedBy

\* The order of the thread list stays one.
LEMMA TouchedAge ==
  ASSUME TypeOK, NEW t \in Thread, Touched(t) \/ UNCHANGED age
  PROVE  age' \in [Thread -> Nat]
<1>1. age \in [Thread -> Nat]
  BY DEF TypeOK
<1> QED BY <1>1 DEF Touched

\* A name or an id resolves to itself or to a thread of the list.
LEMMA ResolvedIsThread ==
  ASSUME NEW t \in Thread \cup {Alias}
  PROVE  Resolved(t) = t \/ Resolved(t) \in Thread
<1> DEFINE named == {x \in ThreadList : NameOf[x] = t}
<1>1. CASE t \in ThreadList \/ named = {}
  BY <1>1 DEF Resolved
<1>2. CASE ~(t \in ThreadList \/ named = {})
  <2>1. Resolved(t) = CHOOSE x \in named : TRUE
    BY <1>2 DEF Resolved
  <2>2. (CHOOSE x \in named : TRUE) \in named
    BY <1>2
  <2> QED BY <2>1, <2>2 DEF ThreadList
<1> QED BY <1>1, <1>2

----------------------------------------------------------------------------
(* The invariant                                                           *)

\* The invariant holds when the panel opens.
LEMMA InitInv == Init => IInv
<1> SUFFICES ASSUME Init PROVE IInv
  OBVIOUS
<1>1. TypeOK
  <2>1. log \in [Thread -> Seq(Board)] /\ \A t \in Thread : Len(log[t]) \in 1 .. MaxLog
    <3>1. \A t \in Thread : <<FirstBoard[t]>> \in Seq(Board) /\ Len(<<FirstBoard[t]>>) = 1
      OBVIOUS
    <3> QED BY <3>1 DEF Init
  <2>2. age \in [Thread -> Nat]
    <3>1. Cardinality(Thread) \in Nat
      BY FS_CardinalityType
    <3>2. 0 .. Cardinality(Thread) - 1 \subseteq Nat
      BY <3>1
    <3>3. age \in [Thread -> 0 .. Cardinality(Thread) - 1]
      BY DEF Init
    <3> QED BY <3>2, <3>3
  <2>3. columns \in [Card -> Lane \cup {None}]
    BY DEF Init, Undragged
  <2>4. clicks \in 0 .. MaxClicks
    BY DEF Init
  <2> QED BY <2>1, <2>2, <2>3, <2>4 DEF TypeOK, Init, Lists
<1>2. PaneInv
  BY DEF PaneInv, Init, Lists
<1> QED BY <1>1, <1>2 DEF IInv

\* A step that only adds a board leaves the rest of the invariant alone.
LEMMA WriteInv ==
  ASSUME IInv, NEW t \in Thread, NEW b \in Board, Wrote(t, b), Len(log[t]) < MaxLog,
         age' \in [Thread -> Nat],
         UNCHANGED <<paneVars, cardVars, pollVars, clicks>>
  PROVE  /\ PaneInv'
         /\ (log \in [Thread -> Seq(Board)] /\ \A u \in Thread : Len(log[u]) \in 1 .. MaxLog)'
<1>1. /\ log' \in [Thread -> Seq(Board)]
      /\ \A u \in Thread : Len(log'[u]) \in 1 .. MaxLog /\ Len(log[u]) <= Len(log'[u])
  BY WroteLog DEF IInv
<1>2. Target(active) \in Thread /\ Target(active)' = Target(active)
  BY TargetIsThread DEF IInv, TypeOK, paneVars, Target
<1>3. /\ Len(log[Target(active)]) \in Nat /\ Len(log'[Target(active)]) \in Nat
      /\ Len(log[Target(active)]) <= Len(log'[Target(active)])
  BY <1>1, <1>2, CurrentIsBoard DEF IInv
<1>4. messages' = messages /\ active' = active /\ poll' = poll
  BY DEF paneVars, pollVars
<1>5. messages.seen \in Nat /\ poll.seen \in Nat
  BY DEF IInv, TypeOK
<1> DEFINE old == Len(log[Target(active)])
           new == Len(log'[Target(active)])
<1>6. new = Len(log[Target(active)])'
  BY <1>2
<1> HIDE DEF old, new
<1>7. \A n \in Nat : n <= old => n <= new
  BY <1>3 DEF old, new
<1>8. (messages = [from |-> None, seen |-> 0]
         \/ (messages.from = Target(active) /\ messages.seen <= Len(log[Target(active)])))'
  BY <1>2, <1>4, <1>5, <1>6, <1>7 DEF IInv, PaneInv, old
<1>9. (poll.phase = "answered" =>
         messages.seen <= poll.seen /\ poll.seen <= Len(log[Target(active)]))'
  BY <1>4, <1>5, <1>6, <1>7 DEF IInv, PaneInv, old
<1>10. (poll.phase # "idle" => poll.of = active)'
  BY <1>4 DEF IInv, PaneInv
<1> QED BY <1>1, <1>8, <1>9, <1>10 DEF PaneInv

\* Clicks stay in their bound.
LEMMA ClickType == TypeOK /\ Click => clicks' \in 0 .. MaxClicks
BY DEF TypeOK, Click

\* A dropped drag is a column assignment.
LEMMA FollowType == ColumnsFollow => columns' \in [Card -> Lane \cup {None}]
BY DEF ColumnsFollow, Undragged

\* A call carries a message, if any.
LEMMA TypesOfCall ==
  ASSUME TypeOK, NEW op \in {"post", "edit", "move", "delete", "react"},
         NEW c \in Card \cup {None}, NEW m \in Message \cup {None}, Send(op, c, m)
  PROVE  /\ calls' \subseteq [op : {"post", "edit", "move", "delete", "react"},
                      card : Card \cup {None}, thread : Thread \cup {Alias},
                      msg : Message \cup {None}, state : {"sent", "applied"}]
         /\ clicks' \in 0 .. MaxClicks
<1>1. clicks' \in 0 .. MaxClicks
  BY DEF Send, Click, TypeOK
<1> QED BY <1>1 DEF Send, TypeOK

\* The writes of others and of this page, on the server.
LEMMA ServerStepInv == IInv /\ (OthersWrite \/ ServerApplies) => IInv'
<1> SUFFICES ASSUME IInv, OthersWrite \/ ServerApplies PROVE IInv'
  OBVIOUS
<1>1. CASE OthersWrite
  <2>1. PICK t \in Thread :
          /\ Len(log[t]) < MaxLog
          /\ \/ \E m \in Message : PostedBy(t, m) /\ (Touched(t) \/ UNCHANGED age)
             \/ \E c \in Card, m \in Message : UpdatedBy(t, c, m) /\ UNCHANGED age
             \/ \E c \in Card : DeletedBy(t, c) /\ UNCHANGED age
             \/ \E c \in Card : ReactedBy(t, c)
    BY <1>1 DEF OthersWrite
  <2>2. UNCHANGED <<paneVars, cardVars, pollVars, clicks>> /\ calls' = calls
    BY <1>1 DEF OthersWrite
  <2>3. \E b \in Board : Wrote(t, b)
    BY <2>1, WritesAreBoards DEF IInv
  <2>4. age' \in [Thread -> Nat]
    <3>1. Touched(t) \/ UNCHANGED age
      BY <2>1 DEF ReactedBy
    <3> QED BY <3>1, TouchedAge DEF IInv
  <2>5. /\ PaneInv'
        /\ (log \in [Thread -> Seq(Board)] /\ \A u \in Thread : Len(log[u]) \in 1 .. MaxLog)'
    BY <2>1, <2>2, <2>3, <2>4, WriteInv
  <2> QED BY <2>2, <2>4, <2>5 DEF IInv, TypeOK, paneVars, cardVars, pollVars
<1>2. CASE ServerApplies
  <2>1. PICK k \in calls, t \in Thread :
          /\ k.state = "sent"
          /\ calls' = (calls \ {k}) \cup {[k EXCEPT !.state = "applied"]}
          /\ Len(log[t]) < MaxLog
          /\ \/ k.op = "post" /\ t = Target(k.thread) /\ PostedBy(t, k.msg) /\ UNCHANGED age
             \/ k.op \in {"edit", "move"} /\ UpdatedBy(t, k.card, k.msg) /\ UNCHANGED age
             \/ k.op = "delete" /\ DeletedBy(t, k.card) /\ UNCHANGED age
             \/ k.op = "react" /\ ReactedBy(t, k.card)
    BY <1>2 DEF ServerApplies
  <2>2. UNCHANGED <<paneVars, cardVars, pollVars, clicks>>
    BY <1>2 DEF ServerApplies
  <2>3. k.msg \in Message \cup {None}
    BY DEF IInv, TypeOK
  <2>4. \E b \in Board : Wrote(t, b)
    BY <2>1, <2>3, WritesAreBoards DEF IInv
  <2>5. age' \in [Thread -> Nat]
    <3>1. Touched(t) \/ UNCHANGED age
      BY <2>1 DEF ReactedBy
    <3> QED BY <3>1, TouchedAge DEF IInv
  <2>6. /\ PaneInv'
        /\ (log \in [Thread -> Seq(Board)] /\ \A u \in Thread : Len(log[u]) \in 1 .. MaxLog)'
    BY <2>1, <2>2, <2>4, <2>5, WriteInv
  <2>7. calls' \subseteq [op : {"post", "edit", "move", "delete", "react"},
                      card : Card \cup {None}, thread : Thread \cup {Alias},
                      msg : Message \cup {None}, state : {"sent", "applied"}]
    BY <2>1 DEF IInv, TypeOK
  <2> QED BY <2>2, <2>5, <2>6, <2>7 DEF IInv, TypeOK, paneVars, cardVars, pollVars
<1> QED BY <1>1, <1>2

\* A poll, from its start to its end.
LEMMA PollStepInv ==
  IInv /\ (RunEffect \/ TimerPoll \/ ListsArrive \/ ServerReads \/ MessagesArrive \/ PollFails)
    => IInv'
<1> SUFFICES ASSUME IInv,
                    RunEffect \/ TimerPoll \/ ListsArrive \/ ServerReads
                      \/ MessagesArrive \/ PollFails
             PROVE  IInv'
  OBVIOUS
<1> USE DEF serverVars, paneVars, cardVars, pollVars
<1>1. CASE RunEffect \/ TimerPoll
  <2>1. PollAgain(active) /\ UNCHANGED <<serverVars, paneVars, cardVars, calls, clicks>>
    BY <1>1 DEF RunEffect, TimerPoll
  <2>2. TypeOK'
    BY <2>1 DEF IInv, TypeOK, PollAgain, Lists
  <2>3. PaneInv'
    BY <2>1 DEF IInv, PaneInv, PollAgain, Lists, Target
  <2> QED BY <2>2, <2>3 DEF IInv
<1>2. CASE ListsArrive
  <2>1. CASE Resolved(poll.of) # poll.of
    <3>1. Resolved(poll.of) \in Thread
      BY <2>1, ResolvedIsThread DEF IInv, TypeOK
    <3>4. messages' \in [from : Thread \cup {None}, seen : Nat]
      BY <1>2, <2>1 DEF ListsArrive
    <3>5. /\ poll' \in [phase : {"idle", "lists", "messages", "answered"},
                       of : Thread \cup {Alias}, seen : Nat]
          /\ active' \in Thread \cup {Alias} /\ due' \in BOOLEAN
      BY <1>2, <2>1, <3>1 DEF ListsArrive, Idle
    <3>6. columns' \in [Card -> Lane \cup {None}]
      BY <1>2, <2>1, FollowType DEF ListsArrive
    <3>2. TypeOK'
      BY <1>2, <3>4, <3>5, <3>6 DEF ListsArrive, IInv, TypeOK
    <3>3. PaneInv'
      BY <1>2, <2>1 DEF ListsArrive, IInv, PaneInv, Idle
    <3> QED BY <3>2, <3>3 DEF IInv
  <2>2. CASE Resolved(poll.of) = poll.of
    <3>1. TypeOK'
      BY <1>2, <2>2 DEF ListsArrive, IInv, TypeOK
    <3>2. PaneInv'
      BY <1>2, <2>2 DEF ListsArrive, IInv, TypeOK, PaneInv, Target
    <3> QED BY <3>1, <3>2 DEF IInv
  <2> QED BY <2>1, <2>2
<1>3. CASE ServerReads
  <2>1. Target(active) \in Thread /\ poll.of = active
    BY <1>3, TargetIsThread DEF ServerReads, IInv, TypeOK, PaneInv
  <2>2. Len(log[Target(active)]) \in Nat
    BY <2>1, CurrentIsBoard DEF IInv
  <2>3. poll' = [poll EXCEPT !.phase = "answered", !.seen = Len(log[Target(active)])]
    BY <1>3, <2>1 DEF ServerReads
  <2>4. TypeOK'
    BY <1>3, <2>2, <2>3 DEF ServerReads, IInv, TypeOK
  <2>5. poll'.of = active /\ poll'.seen = Len(log[Target(active)]) /\ messages.seen \in Nat
    BY <2>1, <2>3 DEF IInv, TypeOK
  <2>6. messages.seen <= Len(log[Target(active)])
    BY <2>2 DEF IInv, PaneInv
  <2>7. messages' = messages /\ active' = active /\ log' = log
    BY <1>3 DEF ServerReads
  <2>8. PaneInv'
    BY <2>2, <2>5, <2>6, <2>7 DEF IInv, PaneInv, Target
  <2> QED BY <2>4, <2>8 DEF IInv
<1>4. CASE MessagesArrive
  <2>1. poll.of = active /\ Target(active) \in Thread
    BY <1>4, TargetIsThread DEF MessagesArrive, IInv, TypeOK, PaneInv
  <2>2. messages' = [from |-> Target(active), seen |-> poll.seen]
    BY <1>4, <2>1 DEF MessagesArrive
  <2>3. TypeOK'
    BY <1>4, <2>1, <2>2, FollowType DEF MessagesArrive, IInv, TypeOK, Idle
  <2>4. PaneInv'
    BY <1>4, <2>2 DEF MessagesArrive, IInv, PaneInv, Idle, Target
  <2> QED BY <2>3, <2>4 DEF IInv
<1>5. CASE PollFails
  <2>1. TypeOK'
    BY <1>5 DEF PollFails, IInv, TypeOK, Idle
  <2>2. PaneInv'
    BY <1>5 DEF PollFails, IInv, PaneInv, Idle, Target
  <2> QED BY <2>1, <2>2 DEF IInv
<1> QED BY <1>1, <1>2, <1>3, <1>4, <1>5

\* What the user does.
LEMMA UserStepInv ==
  ASSUME IInv,
         (\E t \in Thread : OpenThread(t)) \/ Refresh \/ SetView \/ Post \/ React \/ Delete
           \/ StartEdit \/ CancelEdit \/ SaveEdit \/ MoveCard
  PROVE  IInv'
<1> USE DEF serverVars, paneVars, cardVars, pollVars
<1>0. \A c \in Card : Shown[c] # None => Shown[c] \in Message /\ Shown[c].lane \in Lane
  BY ShownIsBoard DEF Board, Message
<1>1. ASSUME NEW t \in Thread, OpenThread(t) PROVE IInv'
  <2>0. clicks' \in 0 .. MaxClicks
    BY <1>1, ClickType DEF OpenThread, IInv
  <2>3. messages' \in [from : Thread \cup {None}, seen : Nat]
    BY <1>1 DEF OpenThread, IInv, TypeOK
  <2>4. columns' \in [Card -> Lane \cup {None}]
    BY <1>1, FollowType DEF OpenThread, IInv, TypeOK
  <2>5. /\ poll' \in [phase : {"idle", "lists", "messages", "answered"},
                     of : Thread \cup {Alias}, seen : Nat]
        /\ active' \in Thread \cup {Alias} /\ due' \in BOOLEAN
    BY <1>1 DEF OpenThread, PollAgain, Lists
  <2>1. TypeOK'
    BY <1>1, <2>0, <2>3, <2>4, <2>5 DEF OpenThread, IInv, TypeOK
  <2>2. PaneInv'
    BY <1>1 DEF OpenThread, IInv, PaneInv, PollAgain, Lists, Target
  <2> QED BY <2>1, <2>2 DEF IInv
<1>2. CASE Refresh
  <2>1. TypeOK'
    BY <1>2, ClickType DEF Refresh, IInv, TypeOK, PollAgain, Lists
  <2>2. PaneInv'
    BY <1>2 DEF Refresh, IInv, PaneInv, PollAgain, Lists, Target
  <2> QED BY <2>1, <2>2 DEF IInv
<1>3. CASE UNCHANGED <<log, active, messages, poll>>
  <2> SUFFICES TypeOK'
    BY <1>3 DEF IInv, PaneInv, Target
  <2>1. CASE SetView
    <3>1. clicks' \in 0 .. MaxClicks
      BY <2>1, ClickType DEF SetView, IInv
    <3>2. columns' \in [Card -> Lane \cup {None}]
      BY <2>1 DEF SetView, Undragged
    <3> QED BY <2>1, <3>1, <3>2 DEF SetView, IInv, TypeOK
  <2>2. CASE Post \/ React \/ Delete
    <3>1. /\ calls' \subseteq [op : {"post", "edit", "move", "delete", "react"},
                      card : Card \cup {None}, thread : Thread \cup {Alias},
                      msg : Message \cup {None}, state : {"sent", "applied"}]
          /\ clicks' \in 0 .. MaxClicks
      BY <2>2, TypesOfCall DEF Post, React, Delete, IInv
    <3> QED BY <2>2, <3>1 DEF Post, React, Delete, IInv, TypeOK
  <2>3. CASE StartEdit
    <3>1. clicks' \in 0 .. MaxClicks
      BY <2>3, ClickType DEF StartEdit, IInv
    <3>2. editing' \in [card : Card, lane : Lane]
      BY <2>3, <1>0 DEF StartEdit
    <3> QED BY <2>3, <3>1, <3>2 DEF StartEdit, IInv, TypeOK
  <2>4. CASE CancelEdit
    <3>1. clicks' \in 0 .. MaxClicks
      BY <2>4, ClickType DEF CancelEdit, IInv
    <3> QED BY <2>4, <3>1 DEF CancelEdit, IInv, TypeOK
  <2>5. CASE SaveEdit
    <3>1. editing.card \in Card /\ editing.lane \in Lane /\ Shown[editing.card].lane \in Lane
      BY <2>5, <1>0 DEF SaveEdit, IInv, TypeOK
    <3>2. ColumnOf(editing.card) \in Lane
      BY <3>1 DEF ColumnOf, IInv, TypeOK
    <3>3. /\ calls' \subseteq [op : {"post", "edit", "move", "delete", "react"},
                      card : Card \cup {None}, thread : Thread \cup {Alias},
                      msg : Message \cup {None}, state : {"sent", "applied"}]
          /\ clicks' \in 0 .. MaxClicks
      <4>1. PICK x \in Text :
              LET lane == IF view = "kanban" THEN ColumnOf(editing.card) ELSE editing.lane
              IN  Send("edit", editing.card, [lane |-> lane, text |-> x])
        BY <2>5 DEF SaveEdit
      <4>2. PICK l \in Lane : Send("edit", editing.card, [lane |-> l, text |-> x])
        BY <4>1, <3>1, <3>2
      <4>3. [lane |-> l, text |-> x] \in Message
        BY DEF Message
      <4> QED BY <4>2, <4>3, <3>1, TypesOfCall DEF IInv
    <3> QED BY <2>5, <3>3 DEF SaveEdit, IInv, TypeOK
  <2>6. CASE MoveCard
    <3>1. PICK c \in Card, l \in Lane :
            /\ Shown[c] # None /\ columns' = [columns EXCEPT ![c] = l]
            /\ Send("move", c, [Shown[c] EXCEPT !.lane = l])
      BY <2>6 DEF MoveCard
    <3>2. [Shown[c] EXCEPT !.lane = l] \in Message
      BY <3>1, <1>0 DEF Message
    <3>3. /\ calls' \subseteq [op : {"post", "edit", "move", "delete", "react"},
                      card : Card \cup {None}, thread : Thread \cup {Alias},
                      msg : Message \cup {None}, state : {"sent", "applied"}]
          /\ clicks' \in 0 .. MaxClicks
      BY <3>1, <3>2, TypesOfCall DEF IInv
    <3>4. columns' \in [Card -> Lane \cup {None}]
      BY <3>1 DEF IInv, TypeOK
    <3> QED BY <2>6, <3>3, <3>4 DEF MoveCard, IInv, TypeOK
  <2> QED BY <2>1, <2>2, <2>3, <2>4, <2>5, <2>6, <1>1, <1>2 DEF IInv
<1>4. CASE SetView \/ Post \/ React \/ Delete \/ StartEdit \/ CancelEdit \/ SaveEdit \/ MoveCard
  BY <1>3, <1>4 DEF SetView, Post, React, Delete, StartEdit, CancelEdit, SaveEdit, MoveCard
<1> QED BY <1>1, <1>2, <1>4

\* Every step keeps the invariant.
LEMMA StepInv == IInv /\ [Next]_vars => IInv'
<1> SUFFICES ASSUME IInv, [Next]_vars PROVE IInv'
  OBVIOUS
<1> USE DEF serverVars, paneVars, cardVars, pollVars
<1>1. CASE WriteDone \/ WriteFails
  <2>1. TypeOK'
    BY <1>1 DEF WriteDone, WriteFails, IInv, TypeOK
  <2>2. PaneInv'
    BY <1>1 DEF WriteDone, WriteFails, IInv, PaneInv, Target
  <2> QED BY <2>1, <2>2 DEF IInv
<1>2. CASE UNCHANGED vars
  BY <1>2 DEF vars, IInv, TypeOK, PaneInv, Target, CurrentBoard
<1> QED
  BY <1>1, <1>2, ServerStepInv, PollStepInv, UserStepInv DEF Next

----------------------------------------------------------------------------
(* Theorems                                                                *)

\* The types of the panel: whatever is dragged, edited and polled, a call
\* carries a message and a column is a lane.
THEOREM TypesHold == Spec => []TypeOK
<1>1. Init => IInv
  BY InitInv
<1>2. IInv /\ [Next]_vars => IInv'
  BY StepInv
<1>3. IInv => TypeOK
  BY DEF IInv
<1> QED BY <1>1, <1>2, <1>3, PTL DEF Spec

\* A step of the panel is a step of the pane, or none.
LEMMA StepRefines ==
  ASSUME IInv, [Next]_vars
  PROVE  [Pane!PaneNext]_(Pane!pvars)
<1> USE DEF serverVars, paneVars, cardVars, pollVars, Pane!pvars
<1>1. CASE OthersWrite
  <2>1. PICK t \in Thread :
          \/ \E m \in Message : PostedBy(t, m)
          \/ \E c \in Card, m \in Message : UpdatedBy(t, c, m)
          \/ \E c \in Card : DeletedBy(t, c)
          \/ \E c \in Card : ReactedBy(t, c)
    BY <1>1 DEF OthersWrite
  <2>2. PICK b \in Board : Wrote(t, b)
    BY <2>1, WritesAreBoards DEF IInv
  <2> QED BY <1>1, <2>2 DEF OthersWrite, Wrote, Pane!PaneNext, Pane!Write
<1>2. CASE ServerApplies
  <2>1. PICK k \in calls, t \in Thread :
          \/ PostedBy(t, k.msg) \/ UpdatedBy(t, k.card, k.msg)
          \/ DeletedBy(t, k.card) \/ ReactedBy(t, k.card)
    BY <1>2 DEF ServerApplies
  <2>2. k.msg \in Message \cup {None}
    BY DEF IInv, TypeOK
  <2>3. PICK b \in Board : Wrote(t, b)
    BY <2>1, <2>2, WritesAreBoards DEF IInv
  <2> QED BY <1>2, <2>3 DEF ServerApplies, Wrote, Pane!PaneNext, Pane!Write
<1>3. CASE ListsArrive
  <2>1. CASE Resolved(poll.of) # poll.of
    <3>1. Resolved(poll.of) \in Thread
      BY <2>1, ResolvedIsThread DEF IInv, TypeOK
    <3> QED BY <1>3, <2>1, <3>1 DEF ListsArrive, Pane!PaneNext, Pane!Open, Pane!Empty
  <2>2. CASE Resolved(poll.of) = poll.of
    BY <1>3, <2>2 DEF ListsArrive
  <2> QED BY <2>1, <2>2
<1>4. CASE MessagesArrive
  <2>1. poll.of = active
    BY <1>4 DEF MessagesArrive, IInv, PaneInv
  <2>2. messages' = [from |-> Target(active), seen |-> poll.seen]
    BY <1>4, <2>1 DEF MessagesArrive
  <2>3. messages.seen <= poll.seen /\ poll.seen <= Len(log[Target(active)])
    BY <1>4 DEF MessagesArrive, IInv, PaneInv
  <2>4. /\ messages.seen \in Nat /\ poll.seen \in Nat /\ Len(log[Target(active)]) \in Nat
    BY TargetIsThread, CurrentIsBoard DEF IInv, TypeOK
  <2>5. Pane!Target(active) = Target(active)
    BY DEF Target, Pane!Target
  <2>6. messages'.seen \in messages.seen .. Len(log[Target(active)])
    BY <2>2, <2>3, <2>4
  <2> QED BY <1>4, <2>2, <2>5, <2>6 DEF MessagesArrive, Pane!PaneNext, Pane!Show
<1>5. ASSUME NEW t \in Thread, OpenThread(t) PROVE [Pane!PaneNext]_(Pane!pvars)
  BY <1>5 DEF OpenThread, Pane!PaneNext, Pane!Open, Pane!Empty
<1>6. CASE \/ RunEffect \/ TimerPoll \/ ServerReads \/ PollFails \/ Refresh \/ SetView
           \/ Post \/ React \/ Delete \/ StartEdit \/ CancelEdit \/ SaveEdit \/ MoveCard
           \/ WriteDone \/ WriteFails
  BY <1>6 DEF RunEffect, TimerPoll, ServerReads, PollFails, Refresh, SetView, Post, React,
              Delete, StartEdit, CancelEdit, SaveEdit, MoveCard, WriteDone, WriteFails
<1>7. CASE UNCHANGED vars
  BY <1>7 DEF vars
<1> QED BY <1>1, <1>2, <1>3, <1>4, <1>5, <1>6, <1>7 DEF Next

\* The polling panel implements the pane: it shows a state of the open thread
\* and only moves on to newer ones, whatever is in flight.
THEOREM PanelImplementsPane == Spec => PaneRefines
<1>1. Init => Pane!PaneInit
  BY DEF Init, Pane!PaneInit, Pane!Empty
<1>2. Init => IInv
  BY InitInv
<1>3. IInv /\ [Next]_vars => IInv'
  BY StepInv
<1>4. IInv /\ [Next]_vars => [Pane!PaneNext]_(Pane!pvars)
  BY StepRefines
<1> QED BY <1>1, <1>2, <1>3, <1>4, PTL DEF Spec, PaneRefines, Pane!PaneSpec
=============================================================================
