--------------------------- MODULE NextAppProofs ---------------------------
(***************************************************************************)
(* The console of the next client, for any number of threads, messages and *)
(* proposals: its types, and that a message the user has typed is not lost.*)
(***************************************************************************)
EXTENDS NextApp, TLAPS

USE NextAppAssumption

\* The first state is typed.
LEMMA InitInv == Init => TypeOK
<1> SUFFICES ASSUME Init PROVE TypeOK
  OBVIOUS
<1>1. SliceTypes
  BY DEF Init, SliceTypes, Slice
<1>2. ConsoleTypes
  BY DEF Init, ConsoleTypes
<1>3. WriteTypes
  BY DEF Init, WriteTypes
<1> QED BY <1>1, <1>2, <1>3 DEF Init, TypeOK

\* A request is typed, whatever number it gets.
LEMMA RequestType ==
  ASSUME NEW s \in Slice
  PROVE  /\ Request(s) = [n |-> Request(s).n, of |-> Request(s).of, seen |-> Request(s).seen]
         /\ Request(s).of = s /\ Request(s).seen = None
BY DEF Request

\* A load that ends, or one that starts, keeps the types of the slices.
LEMMA LoadsType ==
  ASSUME SliceTypes, NEW S, \A s \in S : s \in Slice,
         \A l \in loads' : l \in loads \/ \E s \in S : l = Request(s)
  PROVE  \A l \in loads' : /\ l = [n |-> l.n, of |-> l.of, seen |-> l.seen]
                           /\ l.of \in Slice /\ l.seen \in Nat \cup {None}
BY RequestType DEF SliceTypes

\* A click counts.
LEMMA ClickType ==
  ASSUME TypeOK, Click \/ clicks' = clicks
  PROVE  clicks' \in 0 .. MaxClicks
BY DEF Click, TypeOK

\* Forms that unmount keep the types of the writes.
LEMMA UnmountType ==
  ASSUME WriteTypes, NEW forms, writes' \subseteq Unmount(forms)
  PROVE  WriteTypes'
<1> SUFFICES ASSUME NEW v \in writes'
             PROVE  v \in [form : Form, of : Slice, live : BOOLEAN, rev : Nat \cup {None}]
  BY DEF WriteTypes
<1>1. PICK w \in writes : v = [w EXCEPT !.live = w.live /\ w.form \notin forms]
  BY DEF Unmount
<1>2. w \in [form : Form, of : Slice, live : BOOLEAN, rev : Nat \cup {None}]
  BY DEF WriteTypes
<1>3. (w.live /\ w.form \notin forms) \in BOOLEAN
  OBVIOUS
<1> QED BY <1>1, <1>2, <1>3

\* A write that is sent is typed, and so is its form.
LEMMA SendType ==
  ASSUME WriteTypes, NEW f \in Form, NEW s \in Slice, Send(f, s)
  PROVE  WriteTypes'
<1>1. [form |-> f, of |-> s, live |-> TRUE, rev |-> None]
        \in [form : Form, of : Slice, live : BOOLEAN, rev : Nat \cup {None}]
  OBVIOUS
<1>2. writes' = writes \cup {[form |-> f, of |-> s, live |-> TRUE, rev |-> None]}
  BY DEF Send
<1> QED BY <1>1, <1>2 DEF WriteTypes

----------------------------------------------------------------------------
(* The slices                                                              *)

\* The loads of the slices,
LEMMA SliceStepInv ==
  ASSUME TypeOK, ServerReads \/ FirstList \/ ListArrives \/ SliceArrives \/ LoadFails \/ OthersWrite
  PROVE  TypeOK'
<1> USE DEF TypeOK, console
<1>1. CASE ServerReads
  <2>1. PICK l \in loads : loads' = (loads \ {l}) \cup {[l EXCEPT !.seen = rev[l.of]]}
    BY <1>1 DEF ServerReads
  <2>2. l = [n |-> l.n, of |-> l.of, seen |-> l.seen] /\ l.of \in Slice /\ rev[l.of] \in Nat
    BY DEF SliceTypes
  <2>3. [l EXCEPT !.seen = rev[l.of]] = [n |-> l.n, of |-> l.of, seen |-> rev[l.of]]
    BY <2>2
  <2>4. SliceTypes'
    BY <1>1, <2>1, <2>2, <2>3 DEF ServerReads, SliceTypes
  <2> QED BY <1>1, <2>4 DEF ServerReads, ConsoleTypes, WriteTypes
<1>2. CASE FirstList
  <2>1. PICK l \in loads :
          /\ l.of = Threads /\ l.seen # None /\ active = None
          /\ loads' = (loads \ {l}) \cup {Request(Home)}
          /\ shown' = [Loading(Home) EXCEPT ![Threads] = Ready(Threads, l.seen)]
    BY <1>2 DEF FirstList
  <2>2. Home \in Slice /\ Threads \in Slice /\ l.seen \in Nat
    BY <2>1 DEF Slice, SliceTypes
  <2>3. \A m \in loads' : m \in loads \/ \E s \in {Home} : m = Request(s)
    BY <2>1
  <2>4. shown' \in [Slice -> [st : {"loading", "ready", "error"}, seen : Nat]]
    BY <2>1, <2>2 DEF Loading, Ready, SliceTypes
  <2>5. SliceTypes'
    BY <1>2, <2>2, <2>3, <2>4, LoadsType DEF FirstList, SliceTypes
  <2>6. ConsoleTypes'
    BY <1>2, <2>1 DEF FirstList, ConsoleTypes
  <2> QED BY <1>2, <2>5, <2>6 DEF FirstList, WriteTypes
<1>3. CASE ListArrives
  <2>1. PICK l \in loads :
          /\ l.of = Threads /\ l.seen # None /\ loads' = loads \ {l}
          /\ shown' = [shown EXCEPT ![Threads] = Ready(Threads, l.seen)]
    BY <1>3 DEF ListArrives
  <2>2. Threads \in Slice /\ l.seen \in Nat
    BY <2>1 DEF Slice, SliceTypes
  <2>3. SliceTypes'
    BY <1>3, <2>1, <2>2 DEF ListArrives, Ready, SliceTypes
  <2>4. CASE UNCHANGED <<selected, draft, editing, writes>>
    <3>1. selected # None => shown'[selected] = shown[selected]
      BY <2>1 DEF ConsoleTypes, SliceTypes, Slice
    <3>2. ConsoleTypes'
      BY <1>3, <2>4, <3>1 DEF ListArrives, ConsoleTypes
    <3> QED BY <1>3, <2>3, <2>4, <3>2 DEF ListArrives, WriteTypes
  <2>5. CASE /\ selected' = None /\ draft' = FALSE /\ editing' = {}
             /\ writes' = Unmount(Composer \cup RowForm)
    <3>1. ConsoleTypes'
      BY <1>3, <2>5 DEF ListArrives, ConsoleTypes
    <3> QED BY <1>3, <2>3, <2>5, <3>1, UnmountType DEF ListArrives
  <2> QED BY <1>3, <2>4, <2>5 DEF ListArrives
<1>4. CASE SliceArrives
  <2>1. PICK l \in loads :
          /\ l.seen # None /\ loads' = loads \ {l}
          /\ shown' = [shown EXCEPT ![l.of] = Ready(l.of, l.seen)]
    BY <1>4 DEF SliceArrives
  <2>2. l.of \in Slice /\ l.seen \in Nat
    BY <2>1 DEF SliceTypes
  <2>3. SliceTypes'
    BY <1>4, <2>1, <2>2 DEF SliceArrives, Ready, SliceTypes
  <2>4. selected # None /\ shown[selected].st = "ready" => shown'[selected].st = "ready"
    BY <2>1, <2>2 DEF Ready, ConsoleTypes, SliceTypes, Slice
  <2>5. ConsoleTypes'
    BY <1>4, <2>4 DEF SliceArrives, ConsoleTypes
  <2> QED BY <1>4, <2>3, <2>5 DEF SliceArrives, WriteTypes
<1>5. CASE LoadFails
  <2>1. PICK l \in loads :
          /\ loads' = loads \ {l} /\ shown' = [shown EXCEPT ![l.of].st = "error"]
          /\ editing' = IF l.of = selected THEN {} ELSE editing
          /\ writes' = Unmount(IF l.of \in Thread THEN RowsOf(l.of)
                               ELSE IF l.of = Queue THEN CardForm ELSE {})
    BY <1>5 DEF LoadFails
  <2>2. l.of \in Slice
    BY DEF SliceTypes
  <2>3. SliceTypes'
    BY <1>5, <2>1, <2>2 DEF LoadFails, SliceTypes
  <2>4. selected # None /\ l.of # selected => shown'[selected] = shown[selected]
    BY <2>1, <2>2 DEF ConsoleTypes, SliceTypes, Slice
  <2>5. ConsoleTypes'
    BY <1>5, <2>1, <2>4 DEF LoadFails, ConsoleTypes
  <2> QED BY <1>5, <2>1, <2>3, <2>5, UnmountType DEF LoadFails
<1>6. CASE OthersWrite
  <2>1. SliceTypes'
    BY <1>6 DEF OthersWrite, SliceTypes
  <2> QED BY <1>6, <2>1, ClickType DEF OthersWrite, ConsoleTypes, WriteTypes
<1> QED BY <1>1, <1>2, <1>3, <1>4, <1>5, <1>6

----------------------------------------------------------------------------
(* The console                                                             *)

\* navigation,
LEMMA NavigateStepInv ==
  ASSUME TypeOK, (\E t \in Thread : SelectThread(t)) \/ LeaveConversation \/ Retry
  PROVE  TypeOK'
<1> USE DEF TypeOK, console, slices
<1>1. ASSUME NEW t \in Thread, SelectThread(t) PROVE TypeOK'
  <2>1. t \in Slice
    BY DEF Slice
  <2>2. SliceTypes'
    <3>1. CASE t # active
      <4>1. loads' = loads \cup {Request(t)} /\ shown' = Loading(t)
        BY <1>1, <3>1 DEF SelectThread
      <4>2. \A l \in loads' : l \in loads \/ \E s \in {t} : l = Request(s)
        BY <4>1
      <4> QED BY <1>1, <2>1, <4>1, <4>2, LoadsType DEF SelectThread, Loading, SliceTypes
    <3>2. CASE t = active
      BY <1>1, <3>2 DEF SelectThread, SliceTypes
    <3> QED BY <3>1, <3>2
  <2>3. ConsoleTypes'
    BY <1>1 DEF SelectThread, ConsoleTypes
  <2>4. WriteTypes'
    <3>1. CASE t # selected
      BY <1>1, <3>1, UnmountType DEF SelectThread
    <3>2. CASE t = selected
      BY <1>1, <3>2 DEF SelectThread, WriteTypes
    <3> QED BY <3>1, <3>2
  <2> QED BY <1>1, <2>2, <2>3, <2>4, ClickType DEF SelectThread
<1>2. CASE LeaveConversation
  <2>1. ConsoleTypes'
    BY <1>2 DEF LeaveConversation, ConsoleTypes
  <2>2. WriteTypes'
    BY <1>2, UnmountType DEF LeaveConversation
  <2> QED BY <1>2, <2>1, <2>2, ClickType DEF LeaveConversation, SliceTypes
<1>3. CASE Retry
  <2>1. PICK s \in Slice :
          /\ shown[s].st = "error" /\ loads' = loads \cup {Request(s)}
          /\ shown' = IF s \in Thread THEN Loading(s) ELSE shown
    BY <1>3 DEF Retry
  <2>2. \A l \in loads' : l \in loads \/ \E u \in {s} : l = Request(u)
    BY <2>1
  <2>3. SliceTypes'
    <3>1. shown' \in [Slice -> [st : {"loading", "ready", "error"}, seen : Nat]]
      BY <2>1 DEF Loading, SliceTypes
    <3>2. rev' = rev /\ mine' = mine
      BY <1>3 DEF Retry
    <3> QED BY <2>2, <3>1, <3>2, LoadsType DEF SliceTypes
  <2>4. selected # None /\ shown[selected].st = "ready" => shown'[selected].st = "ready"
    BY <2>1 DEF Loading, ConsoleTypes, SliceTypes, Slice
  <2>5. ConsoleTypes'
    BY <1>3, <2>4 DEF Retry, ConsoleTypes
  <2> QED BY <1>3, <2>3, <2>5, ClickType DEF Retry, WriteTypes
<1> QED BY <1>1, <1>2, <1>3

\* the forms,
LEMMA FormStepInv ==
  ASSUME TypeOK,
         \/ Type \/ SendMessage \/ StartEdit \/ RowWrite \/ CreateThread \/ BoardWrite \/ Decide
  PROVE  TypeOK'
<1> USE DEF TypeOK, slices
<1>1. WriteTypes'
  <2>1. CASE Type \/ StartEdit
    BY <2>1 DEF Type, StartEdit, WriteTypes
  <2>2. CASE SendMessage
    <3>1. selected \in Thread
      BY <2>2 DEF SendMessage, InTranscript, ConsoleTypes
    <3>2. [kind |-> "composer", of |-> selected] \in Form /\ selected \in Slice
      BY <3>1 DEF Form, Composer, Slice
    <3> QED BY <2>2, <3>2, SendType DEF SendMessage
  <2>3. CASE RowWrite
    <3>1. selected \in Thread
      BY <2>3 DEF RowWrite, InTranscript, ConsoleTypes
    <3>2. PICK r \in Row : Send([kind |-> "row", of |-> <<selected, r>>], selected)
      BY <2>3 DEF RowWrite
    <3>3. [kind |-> "row", of |-> <<selected, r>>] \in Form /\ selected \in Slice
      BY <3>1 DEF Form, RowForm, Slice
    <3> QED BY <3>2, <3>3, SendType
  <2>4. CASE CreateThread
    <3>1. [kind |-> "open", of |-> None] \in Form /\ Threads \in Slice
      BY DEF Form, ListForm, Slice
    <3> QED BY <2>4, <3>1, SendType DEF CreateThread
  <2>5. CASE BoardWrite
    <3>1. PICK k \in {"move", "create"} : Send([kind |-> k, of |-> None], active)
      BY <2>5 DEF BoardWrite
    <3>2. [kind |-> k, of |-> None] \in Form /\ active \in Slice
      BY <2>5 DEF BoardWrite, Form, BoardForm, Slice, ConsoleTypes
    <3> QED BY <3>1, <3>2, SendType
  <2>6. CASE Decide
    <3>1. PICK p \in Proposal : Send([kind |-> "card", of |-> p], Queue)
      BY <2>6 DEF Decide
    <3>2. [kind |-> "card", of |-> p] \in Form /\ Queue \in Slice
      BY DEF Form, CardForm, Slice
    <3> QED BY <3>1, <3>2, SendType
  <2> QED BY <2>1, <2>2, <2>3, <2>4, <2>5, <2>6
<1>2. SliceTypes'
  BY DEF Type, SendMessage, StartEdit, RowWrite, CreateThread, BoardWrite, Decide, Send, SliceTypes
<1>3. ConsoleTypes'
  <2>1. CASE Type
    BY <2>1 DEF Type, InTranscript, ConsoleTypes
  <2>2. CASE StartEdit
    <3>1. PICK r \in Row : editing' = editing \cup {r}
      BY <2>2 DEF StartEdit
    <3> QED BY <2>2, <3>1 DEF StartEdit, InTranscript, ConsoleTypes
  <2>3. CASE SendMessage \/ RowWrite \/ CreateThread \/ BoardWrite \/ Decide
    <3>1. UNCHANGED <<draft, editing>>
      BY <2>3 DEF SendMessage, RowWrite, CreateThread, BoardWrite, Decide, KeepsText
    <3>2. UNCHANGED <<shown, active, selected, mode>>
      <4>1. ASSUME NEW f, NEW s, Send(f, s) PROVE UNCHANGED <<shown, active, selected, mode>>
        BY <4>1 DEF Send
      <4> QED BY <2>3, <4>1 DEF SendMessage, RowWrite, CreateThread, BoardWrite, Decide
    <3> QED BY <3>1, <3>2 DEF ConsoleTypes
  <2> QED BY <2>1, <2>2, <2>3
<1>4. clicks' \in 0 .. MaxClicks
  BY ClickType DEF Type, SendMessage, StartEdit, RowWrite, CreateThread, BoardWrite, Decide, Send
<1> QED BY <1>1, <1>2, <1>3, <1>4

\* and the answers to writes leave the variables typed.
LEMMA AnswerStepInv ==
  ASSUME TypeOK, ServerApplies \/ WriteDone \/ ReloadDone \/ WriteFails
  PROVE  TypeOK'
<1> USE DEF TypeOK, slices
<1>1. CASE ServerApplies
  <2>1. PICK w \in writes :
          /\ rev' = [rev EXCEPT ![w.of] = @ + 1]
          /\ writes' = (writes \ {w}) \cup {[w EXCEPT !.rev = rev[w.of] + 1]}
    BY <1>1 DEF ServerApplies
  <2>2. w \in [form : Form, of : Slice, live : BOOLEAN, rev : Nat \cup {None}] /\ rev[w.of] \in Nat
    BY DEF WriteTypes, SliceTypes
  <2>3. [w EXCEPT !.rev = rev[w.of] + 1]
          \in [form : Form, of : Slice, live : BOOLEAN, rev : Nat \cup {None}]
    BY <2>2
  <2>4. WriteTypes'
    BY <2>1, <2>3 DEF WriteTypes
  <2>5. SliceTypes'
    BY <1>1, <2>1, <2>2 DEF ServerApplies, SliceTypes
  <2> QED BY <1>1, <2>4, <2>5 DEF ServerApplies, ConsoleTypes
<1>2. CASE WriteDone
  <2>1. PICK w \in writes :
          /\ w.rev # None /\ w.of \in Thread
          /\ Published(w)
          /\ loads' = loads \cup {Request(w.of), Request(Threads)}
          /\ shown' = Loading(w.of)
          /\ RowsGone(w.of)
          /\ writes' = Unmount(RowsOf(w.of)) \ {w, [w EXCEPT !.live = FALSE]}
          /\ draft' = (draft /\ ~(w.live /\ w.form \in Composer))
    BY <1>2 DEF WriteDone
  <2>2. w.of \in Slice /\ Threads \in Slice /\ w.rev \in Nat
    BY <2>1 DEF WriteTypes, Slice
  <2>3. \A l \in loads' : l \in loads \/ \E s \in {w.of, Threads} : l = Request(s)
    BY <2>1
  <2>4. mine' \in [Slice -> Nat]
    BY <2>1, <2>2 DEF Published, SliceTypes
  <2>5. shown' \in [Slice -> [st : {"loading", "ready", "error"}, seen : Nat]]
    BY <2>1, <2>2 DEF Loading, SliceTypes
  <2>6. SliceTypes'
    <3>1. rev' = rev
      BY <1>2 DEF WriteDone
    <3>2. \A s \in {w.of, Threads} : s \in Slice
      BY <2>2
    <3> QED BY <2>3, <2>4, <2>5, <3>1, <3>2, LoadsType DEF SliceTypes
  <2>7. selected # None /\ w.of # selected => shown'[selected] = shown[selected]
    BY <2>1, <2>2 DEF Loading, ConsoleTypes, SliceTypes, Slice
  <2>8. draft' \in BOOLEAN /\ (draft' => draft)
    BY <2>1
  <2>9. ConsoleTypes'
    BY <1>2, <2>1, <2>7, <2>8 DEF WriteDone, RowsGone, ConsoleTypes
  <2>10. WriteTypes'
    BY <2>1, UnmountType
  <2> QED BY <1>2, <2>6, <2>9, <2>10 DEF WriteDone
<1>3. CASE ReloadDone
  <2>1. PICK w \in writes :
          /\ w.rev # None /\ Published(w)
          /\ loads' = loads \cup {Request(w.of)} /\ writes' = writes \ {w}
    BY <1>3 DEF ReloadDone
  <2>2. w.of \in Slice /\ w.rev \in Nat
    BY <2>1 DEF WriteTypes
  <2>3. \A l \in loads' : l \in loads \/ \E s \in {w.of} : l = Request(s)
    BY <2>1
  <2>4. mine' \in [Slice -> Nat]
    BY <2>1, <2>2 DEF Published, SliceTypes
  <2>5. SliceTypes'
    BY <1>3, <2>2, <2>3, <2>4, LoadsType DEF ReloadDone, SliceTypes
  <2>6. WriteTypes'
    BY <2>1 DEF WriteTypes
  <2> QED BY <1>3, <2>5, <2>6 DEF ReloadDone, ConsoleTypes
<1>4. CASE WriteFails
  <2>1. WriteTypes'
    BY <1>4 DEF WriteFails, WriteTypes
  <2> QED BY <1>4, <2>1 DEF WriteFails, SliceTypes, ConsoleTypes
<1> QED BY <1>1, <1>2, <1>3, <1>4

\* So does every step.
LEMMA StepInv == TypeOK /\ [Next]_vars => TypeOK'
<1> SUFFICES ASSUME TypeOK, [Next]_vars PROVE TypeOK'
  OBVIOUS
<1>1. CASE UNCHANGED vars
  BY <1>1 DEF vars, slices, console, TypeOK, SliceTypes, ConsoleTypes, WriteTypes
<1> QED BY <1>1, SliceStepInv, NavigateStepInv, FormStepInv, AnswerStepInv DEF Next, LoadEnds

----------------------------------------------------------------------------
(* Theorems                                                                *)

\* Whatever unmounts, a draft and an open edit form are in a conversation that
\* is open, and the form in one whose messages are shown.
THEOREM TypesHold == Spec => []TypeOK
<1> QED BY InitInv, StepInv, PTL DEF Spec

\* A message is not lost in the composer: it goes when the server has it, or
\* when its conversation is left.
THEOREM TextIsKept == Spec => SentTextIsKept
<1> DEFINE Kept == draft /\ ~draft' =>
             \/ selected' # selected \/ mode' # mode
             \/ \E w \in writes : w.form \in Composer /\ w.live /\ w.rev # None /\ w \notin writes'
<1>1. TypeOK /\ [Next]_vars => [Kept]_vars
  <2> SUFFICES ASSUME TypeOK, Next, draft, ~draft', selected' = selected, mode' = mode
               PROVE  \E w \in writes : w.form \in Composer /\ w.live /\ w.rev # None /\ w \notin writes'
    OBVIOUS
  <2>1. selected # None
    BY DEF TypeOK, ConsoleTypes
  <2>2. WriteDone
    <3>1. ~ServerReads /\ ~OthersWrite /\ ~SliceArrives /\ ~FirstList /\ ~LoadFails
      BY DEF ServerReads, OthersWrite, SliceArrives, FirstList, LoadFails, console
    <3>2. ~ListArrives
      BY <2>1 DEF ListArrives
    <3>3. \A t \in Thread : ~SelectThread(t)
      BY DEF SelectThread
    <3>4. ~LeaveConversation
      BY DEF LeaveConversation
    <3>5. ~Retry /\ ~Type /\ ~SendMessage /\ ~StartEdit /\ ~RowWrite /\ ~CreateThread
          /\ ~BoardWrite /\ ~Decide
      BY DEF Retry, Type, SendMessage, KeepsText, StartEdit, RowWrite, CreateThread, BoardWrite,
             Decide, console
    <3>6. ~ServerApplies /\ ~ReloadDone /\ ~WriteFails
      BY DEF ServerApplies, ReloadDone, WriteFails
    <3> QED BY <3>1, <3>2, <3>3, <3>4, <3>5, <3>6 DEF Next, LoadEnds
  <2>3. PICK w \in writes :
          /\ w.rev # None
          /\ writes' = Unmount(RowsOf(w.of)) \ {w, [w EXCEPT !.live = FALSE]}
          /\ draft' = (draft /\ ~(w.live /\ w.form \in Composer))
    BY <2>2 DEF WriteDone
  <2> QED BY <2>3
<1> QED BY <1>1, InitInv, StepInv, PTL DEF Spec, SentTextIsKept
=============================================================================
