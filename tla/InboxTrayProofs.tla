-------------------------- MODULE InboxTrayProofs --------------------------
(***************************************************************************)
(* What InboxTray guarantees for any number of processes, dumps and names, *)
(* with any number of faults.  The invariant adds to the properties that   *)
(* nothing is handled that was never saved, that a file lies under its own *)
(* name, and that a run moves files only after it wrote their atoms.       *)
(***************************************************************************)
EXTENDS InboxTray, TLAPS

\* A file in the tray was saved, under its own name.
TrayOK == \A n \in Name : HasFile(n) =>
            tray[n].dump \in saved /\ NameOf[tray[n].dump] = n

\* Nothing is filed that was not saved.
FiledSaved == \A d \in Dump : Filed(d) => d \in saved

\* Runs hold saved dumps; what they are about to move, they have written.
JobsHold ==
    /\ written \subseteq saved
    /\ \A p \in Process : /\ job[p].batch \subseteq saved
                          /\ job[p].pc = "finalize" => job[p].batch \subseteq written

IInv == /\ TypeOK /\ TrayOK /\ FiledSaved /\ JobsHold
        /\ NoDumpVanishes /\ FiledAfterWritten

----------------------------------------------------------------------------
(* Folders                                                                 *)

\* A folder into which the files f[n] were moved, for the names n of S.
With(folder, S, f) == [n \in Name |-> IF n \in S THEN Append(folder[n], f[n]) ELSE folder[n]]

Holds(s, d) == \E i \in DOMAIN s : s[i] = d

\* Appending to a sequence keeps its elements and adds one.
LEMMA Appended ==
    ASSUME NEW s \in Seq(Dump), NEW e \in Dump
    PROVE  /\ Append(s, e) \in Seq(Dump)
           /\ \A d : Holds(Append(s, e), d) <=> Holds(s, d) \/ d = e
<1>1. /\ Append(s, e) \in Seq(Dump) /\ Len(s) \in Nat
      /\ Len(Append(s, e)) = Len(s) + 1
      /\ \A i \in 1..Len(s) : Append(s, e)[i] = s[i]
      /\ Append(s, e)[Len(s) + 1] = e
  OBVIOUS
<1>2. DOMAIN s = 1..Len(s) /\ DOMAIN Append(s, e) = 1..(Len(s) + 1)
  BY <1>1
<1>3. ASSUME NEW d, NEW i \in 1..(Len(s) + 1), Append(s, e)[i] = d
      PROVE  (\E j \in 1..Len(s) : s[j] = d) \/ d = e
  <2>1. i \in 1..Len(s) \/ i = Len(s) + 1
    BY <1>1
  <2> QED BY <2>1, <1>1, <1>3
<1>4. \A i \in 1..Len(s) : i \in 1..(Len(s) + 1)
  BY <1>1
<1>5. Len(s) + 1 \in 1..(Len(s) + 1)
  BY <1>1
<1>6. ASSUME NEW d, (\E j \in 1..Len(s) : s[j] = d) \/ d = e
      PROVE  \E i \in 1..(Len(s) + 1) : Append(s, e)[i] = d
  BY <1>1, <1>4, <1>5, <1>6
<1> QED BY <1>1, <1>2, <1>3, <1>6 DEF Holds

\* What a folder holds once files were moved into it: what it held, and they.
LEMMA FilesAdded ==
    ASSUME InboxFacts, NEW folder \in [Name -> Seq(Dump)], NEW S \in SUBSET Name, NEW f,
           \A n \in S : f[n] \in Dump
    PROVE  /\ With(folder, S, f) \in [Name -> Seq(Dump)]
           /\ \A d \in Dump : InFolder(With(folder, S, f), d)
                 <=> InFolder(folder, d) \/ (NameOf[d] \in S /\ f[NameOf[d]] = d)
<1>1. ASSUME NEW n \in Name
      PROVE  With(folder, S, f)[n] \in Seq(Dump)
  BY <1>1, Appended DEF With
<1>2. ASSUME NEW d \in Dump
      PROVE  InFolder(With(folder, S, f), d)
                 <=> InFolder(folder, d) \/ (NameOf[d] \in S /\ f[NameOf[d]] = d)
  <2> DEFINE m == NameOf[d]
  <2>1. m \in Name
    BY DEF InboxFacts
  <2>2. CASE m \in S
    <3>1. With(folder, S, f)[m] = Append(folder[m], f[m])
      BY <2>1, <2>2 DEF With
    <3>2. folder[m] \in Seq(Dump) /\ f[m] \in Dump
      BY <2>1, <2>2
    <3>3. Holds(Append(folder[m], f[m]), d) <=> Holds(folder[m], d) \/ d = f[m]
      BY <3>2, Appended
    <3>4. Holds(With(folder, S, f)[m], d) <=> Holds(folder[m], d) \/ d = f[m]
      BY <3>1, <3>3
    <3> QED BY <3>4, <2>2 DEF InFolder, Holds
  <2>3. CASE m \notin S
    <3>1. With(folder, S, f)[m] = folder[m]
      BY <2>1, <2>3 DEF With
    <3> QED BY <3>1, <2>3 DEF InFolder
  <2> QED BY <2>2, <2>3
<1> QED BY <1>1, <1>2 DEF With

\* The same for one file.
LEMMA FileMoved ==
    ASSUME InboxFacts, NEW folder \in [Name -> Seq(Dump)], NEW e \in Dump
    PROVE  /\ MovedTo(folder, NameOf[e], e) \in [Name -> Seq(Dump)]
           /\ \A d \in Dump : InFolder(MovedTo(folder, NameOf[e], e), d)
                 <=> InFolder(folder, d) \/ d = e
<1> DEFINE S == {NameOf[e]}
           f == [n \in S |-> e]
<1>1. S \in SUBSET Name
  BY DEF InboxFacts
<1>2. MovedTo(folder, NameOf[e], e) = With(folder, S, f)
  BY <1>1 DEF MovedTo, With
<1>3. \A n \in S : f[n] \in Dump
  OBVIOUS
<1>4. \A d \in Dump : (NameOf[d] \in S /\ f[NameOf[d]] = d) <=> d = e
  OBVIOUS
<1> HIDE DEF f, S
<1>5. /\ With(folder, S, f) \in [Name -> Seq(Dump)]
      /\ \A d \in Dump : InFolder(With(folder, S, f), d)
            <=> InFolder(folder, d) \/ (NameOf[d] \in S /\ f[NameOf[d]] = d)
  BY <1>1, <1>3, FilesAdded
<1> QED BY <1>2, <1>4, <1>5

----------------------------------------------------------------------------
(* The invariant                                                           *)

\* What a step of a run does to the files: the dumps of `moved` leave the tray for
\* a folder, and nothing else moves.
FilesStep(moved) ==
    /\ saved' = saved /\ replaced' = replaced
    /\ \A n \in Name : HasFile(n)' => tray'[n] = tray[n]
    /\ \A n \in Name : HasFile(n) /\ ~HasFile(n)' => tray[n].dump \in moved
    /\ \A d \in moved : d \in Dump /\ InTray(d)
    /\ \A d \in Dump : Filed(d)' <=> Filed(d) \/ d \in moved

\* Moving files out of the tray keeps what the invariant says of files; each of
\* the moved ones must have been written, be unreadable, or share its name.
LEMMA FilesStepKeeps ==
    ASSUME InboxFacts, IInv, NEW moved, FilesStep(moved), written \subseteq written',
           \A d \in moved : \/ d \in Bad \cup written'
                            \/ \E e \in saved \ {d} : NameOf[e] = NameOf[d]
    PROVE  TrayOK' /\ FiledSaved' /\ NoDumpVanishes' /\ FiledAfterWritten'
<1>1. saved \subseteq Dump
  BY DEF IInv, TypeOK
<1>2. TrayOK'
  BY DEF IInv, TrayOK, FilesStep, HasFile
<1>3. \A d \in moved : d \in saved
  BY DEF IInv, TrayOK, FilesStep, InTray, InboxFacts
<1>4. FiledSaved'
  BY <1>3 DEF IInv, FiledSaved, FilesStep
<1>5. ASSUME NEW d \in saved
      PROVE  InTray(d)' \/ Filed(d)' \/ d \in replaced'
  <2>1. CASE ~InTray(d)
    BY <1>1, <2>1 DEF IInv, NoDumpVanishes, FilesStep
  <2>2. CASE InTray(d) /\ HasFile(NameOf[d])'
    BY <1>1, <2>2 DEF FilesStep, InTray, InboxFacts
  <2>3. CASE InTray(d) /\ ~HasFile(NameOf[d])'
    BY <1>1, <2>3 DEF FilesStep, InTray, InboxFacts
  <2> QED BY <2>1, <2>2, <2>3
<1>6. NoDumpVanishes'
  BY <1>5 DEF NoDumpVanishes, FilesStep
<1>7. ASSUME NEW d \in saved \ (Bad \cup written'), Filed(d)'
      PROVE  \E e \in saved \ {d} : NameOf[e] = NameOf[d]
  <2>1. CASE d \in moved
    BY <1>7, <2>1
  <2>2. CASE d \notin moved
    BY <1>1, <1>7, <2>2 DEF IInv, FiledAfterWritten, FilesStep
  <2> QED BY <2>1, <2>2
<1>8. FiledAfterWritten'
  BY <1>7 DEF FiledAfterWritten, FilesStep
<1> QED BY <1>2, <1>4, <1>6, <1>8

\* A step that moves no file keeps what the invariant says of files.
LEMMA FilesStay ==
    ASSUME InboxFacts, IInv, UNCHANGED <<files, saved, replaced>>, written \subseteq written'
    PROVE  TrayOK' /\ FiledSaved' /\ NoDumpVanishes' /\ FiledAfterWritten'
<1>1. FilesStep({})
  BY DEF FilesStep, files, HasFile, Filed, InFolder
<1> QED BY <1>1, FilesStepKeeps

\* A step of one run keeps what the invariant says of runs, if it does so for its own.
LEMMA OneJob ==
    ASSUME IInv, NEW p \in Process, job' = [job EXCEPT ![p] = job'[p]], job'[p] \in Job,
           saved' = saved, written \subseteq written', written' \subseteq saved,
           job'[p].batch \subseteq saved,
           job'[p].pc = "finalize" => job'[p].batch \subseteq written'
    PROVE  JobsHold' /\ job' \in [Process -> Job]
<1>1. job' \in [Process -> Job]
  BY DEF IInv, TypeOK
<1>2. ASSUME NEW q \in Process
      PROVE  /\ job'[q].batch \subseteq saved
             /\ job'[q].pc = "finalize" => job'[q].batch \subseteq written'
  <2>1. CASE q = p
    BY <2>1
  <2>2. CASE q # p
    <3>1. job'[q] = job[q]
      BY <2>2 DEF IInv, TypeOK
    <3> QED BY <3>1 DEF IInv, JobsHold
  <2> QED BY <2>1, <2>2
<1> QED BY <1>1, <1>2 DEF JobsHold

\* A run that is finished with one of its paths holds the others, or is over.
LEMMA FinishedKeeps ==
    ASSUME IInv, NEW p \in Process, NEW d, FinishedWith(p, d), job[p].pc = "finalize",
           saved' = saved, written' = written
    PROVE  JobsHold' /\ job' \in [Process -> Job]
<1>1. /\ job[p] \in Job /\ job[p].batch \subseteq saved /\ job[p].batch \subseteq written
      /\ written \subseteq saved
  BY DEF IInv, TypeOK, JobsHold
<1>2. CASE job[p].batch \ {d} = {}
  <2>1. job' = [job EXCEPT ![p] = Idle] /\ job'[p] = Idle
    BY <1>2 DEF FinishedWith, IInv, TypeOK
  <2>2. Idle \in Job /\ Idle.batch = {}
    BY DEF Idle, Job
  <2> QED BY <1>1, <2>1, <2>2, OneJob
<1>3. CASE job[p].batch \ {d} # {}
  <2>1. PICK j : j = [job[p] EXCEPT !.batch = job[p].batch \ {d}]
    OBVIOUS
  <2>2. job' = [job EXCEPT ![p] = j] /\ job'[p] = j
    BY <1>3, <2>1 DEF FinishedWith, IInv, TypeOK
  <2>3. j \in Job /\ j.batch = job[p].batch \ {d}
    BY <1>1, <2>1 DEF Job
  <2> QED BY <1>1, <2>2, <2>3, OneJob
<1> QED BY <1>2, <1>3

\* After the walk a run is not yet moving files, and holds what it held or nothing.
LEMMA WalkEnds ==
    ASSUME NEW j \in Job
    PROVE  /\ AfterWalk(j) \in Job
           /\ AfterWalk(j).pc # "finalize"
           /\ AfterWalk(j).batch \in {j.batch, {}}
<1>1. CASE j.full
  <2>1. AfterWalk(j) = [j EXCEPT !.pc = "delete"]
    BY <1>1 DEF AfterWalk
  <2> QED BY <2>1 DEF Job
<1>2. CASE ~j.full /\ j.batch = {}
  <2>1. AfterWalk(j) = Idle
    BY <1>2 DEF AfterWalk
  <2> QED BY <2>1, <1>2 DEF Job, Idle
<1>3. CASE ~j.full /\ j.batch # {}
  <2>1. AfterWalk(j) = [j EXCEPT !.pc = "index"]
    BY <1>3 DEF AfterWalk
  <2> QED BY <2>1 DEF Job
<1> QED BY <1>1, <1>2, <1>3

----------------------------------------------------------------------------
(* One lemma per action                                                    *)

\* Before the first file is saved there is nothing to lose.
LEMMA Starts == InboxFacts /\ Init => IInv
<1> SUFFICES ASSUME InboxFacts, Init PROVE IInv
  OBVIOUS
<1>1. TypeOK
  BY DEF Init, TypeOK, InboxFacts, Idle, Job
<1>2. TrayOK /\ JobsHold
  BY DEF Init, TrayOK, HasFile, JobsHold, Idle
<1>3. \A d \in Dump : ~Filed(d)
  BY DEF Init, Filed, InFolder, InboxFacts
<1> QED BY <1>1, <1>2, <1>3 DEF Init, IInv, FiledSaved, NoDumpVanishes, FiledAfterWritten

\* A file that is saved is in the tray; the one it replaces is remembered as such.
LEMMA SavesKeeps ==
    ASSUME InboxFacts, IInv, NEW d \in Dump, Saves(d)
    PROVE  IInv'
<1> DEFINE n == NameOf[d]
<1>1. n \in Name
  BY DEF InboxFacts
<1>2. PICK m \in Nat : tray' = [tray EXCEPT ![n] = [dump |-> d, mtime |-> m]]
  <2>1. clock' \in Nat
    BY DEF Saves, IInv, TypeOK
  <2>2. \A m \in IF d \in MovedIn THEN 1..clock' ELSE {clock'} : m \in Nat
    BY <2>1
  <2> QED BY <2>2 DEF Saves
<1>3. [dump |-> d, mtime |-> m] \in File
  BY DEF File
<1>4. TypeOK'
  BY <1>1, <1>2, <1>3 DEF Saves, IInv, TypeOK, HasFile, File
<1>5. /\ tray'[n] = [dump |-> d, mtime |-> m] /\ tray'[n] # NoFile
      /\ \A k \in Name \ {n} : tray'[k] = tray[k]
  BY <1>1, <1>2, <1>3 DEF IInv, TypeOK, InboxFacts
<1>6. \A e \in Dump : Filed(e)' <=> Filed(e)
  BY DEF Saves, Filed, InFolder
<1>7. TrayOK'
  BY <1>1, <1>5 DEF Saves, IInv, TrayOK, HasFile
<1>8. FiledSaved'
  BY <1>6 DEF Saves, IInv, FiledSaved
<1>9. JobsHold'
  BY DEF Saves, IInv, JobsHold
<1>10. ASSUME NEW e \in saved'
       PROVE  InTray(e)' \/ Filed(e)' \/ e \in replaced'
  <2>1. e \in Dump /\ NameOf[e] \in Name
    BY <1>4 DEF TypeOK, InboxFacts
  <2>2. CASE e = d
    BY <1>5, <2>2 DEF InTray, HasFile
  <2>3. CASE e # d /\ InTray(e) /\ NameOf[e] = n
    BY <2>3 DEF Saves, InTray
  <2>4. CASE e # d /\ InTray(e) /\ NameOf[e] # n
    BY <1>5, <2>1, <2>4 DEF InTray, HasFile
  <2>5. CASE e # d /\ ~InTray(e)
    <3>1. e \in saved
      BY <2>5 DEF Saves
    <3>2. Filed(e) \/ e \in replaced
      BY <3>1, <2>5 DEF IInv, NoDumpVanishes
    <3> QED BY <3>2, <1>6, <2>1 DEF Saves
  <2> QED BY <2>2, <2>3, <2>4, <2>5
<1>11. ASSUME NEW e \in saved' \ (Bad \cup written'), Filed(e)'
       PROVE  \E o \in saved' \ {e} : NameOf[o] = NameOf[e]
  <2>1. e \in Dump
    BY <1>4 DEF TypeOK
  <2>2. e \in saved
    BY <1>6, <1>11, <2>1 DEF IInv, FiledSaved
  <2> QED BY <1>6, <1>11, <2>1, <2>2 DEF Saves, IInv, FiledAfterWritten
<1>12. NoDumpVanishes' /\ FiledAfterWritten'
  BY <1>10, <1>11 DEF NoDumpVanishes, FiledAfterWritten
<1> QED BY <1>4, <1>7, <1>8, <1>9, <1>12 DEF IInv

\* The walk takes away only what cannot be parsed, and the run holds the rest.
LEMMA CollectsKeeps ==
    ASSUME InboxFacts, IInv, NEW p \in Process, NEW full \in BOOLEAN, Collects(p, full)
    PROVE  IInv'
<1>1. PICK names : names = Eligible(p, full)
  OBVIOUS
<1>2. PICK bad : bad = {n \in names : tray[n].dump \in Bad}
  OBVIOUS
<1>3. PICK f : f = [n \in Name |-> tray[n].dump]
  OBVIOUS
<1>4. PICK moved : moved = {tray[n].dump : n \in bad}
  OBVIOUS
<1>5. /\ names \subseteq Name /\ \A n \in names : HasFile(n)
      /\ bad \subseteq names
      /\ \A n \in bad : tray[n].dump \in Bad
  BY <1>1, <1>2 DEF Eligible
<1>6. \A n \in names : tray[n].dump \in saved /\ NameOf[tray[n].dump] = n
  BY <1>5 DEF IInv, TrayOK
<1>7. saved \subseteq Dump
  BY DEF IInv, TypeOK
<1>8. \A n \in bad : f[n] = tray[n].dump /\ f[n] \in Dump
  BY <1>3, <1>5, <1>6, <1>7
<1>9. /\ failed' = With(failed, bad, f)
      /\ tray' = [n \in Name |-> IF n \in bad THEN NoFile ELSE tray[n]]
      /\ job' = [job EXCEPT ![p] = [pc |-> "stamp", full |-> full,
                                    batch |-> {tray[n].dump : n \in names \ bad}]]
      /\ UNCHANGED <<processed, stored, clock, lastPoll, faults, history>>
  BY <1>1, <1>2, <1>3, <1>5 DEF Collects, With
<1>10. failed \in [Name -> Seq(Dump)] /\ bad \in SUBSET Name
  BY <1>5 DEF IInv, TypeOK
<1>11. /\ failed' \in [Name -> Seq(Dump)]
       /\ \A d \in Dump : InFolder(failed', d)
             <=> InFolder(failed, d) \/ (NameOf[d] \in bad /\ f[NameOf[d]] = d)
  <2>1. failed' = With(failed, bad, f)
    BY <1>9
  <2>2. \A n \in bad : f[n] \in Dump
    BY <1>8
  <2>3. /\ With(failed, bad, f) \in [Name -> Seq(Dump)]
        /\ \A d \in Dump : InFolder(With(failed, bad, f), d)
              <=> InFolder(failed, d) \/ (NameOf[d] \in bad /\ f[NameOf[d]] = d)
    BY <1>10, <2>2, FilesAdded
  <2> QED BY <2>1, <2>3
<1>12. \A d \in Dump : (NameOf[d] \in bad /\ f[NameOf[d]] = d) <=> d \in moved
  BY <1>4, <1>5, <1>6, <1>8
<1>13. \A d \in Dump : Filed(d)' <=> Filed(d) \/ d \in moved
  BY <1>9, <1>11, <1>12 DEF Filed, InFolder
<1>14. FilesStep(moved)
  <2>1. saved' = saved /\ replaced' = replaced
    BY <1>9 DEF history
  <2>2. \A n \in Name : HasFile(n)' => tray'[n] = tray[n]
    BY <1>9 DEF HasFile
  <2>3. \A n \in Name : HasFile(n) /\ ~HasFile(n)' => tray[n].dump \in moved
    BY <1>4, <1>9 DEF HasFile
  <2>4. \A d \in moved : d \in Dump /\ InTray(d)
    BY <1>4, <1>5, <1>6, <1>7 DEF InTray
  <2> QED BY <2>1, <2>2, <2>3, <2>4, <1>13 DEF FilesStep
<1>15. TrayOK' /\ FiledSaved' /\ NoDumpVanishes' /\ FiledAfterWritten'
  BY <1>4, <1>5, <1>9, <1>14, FilesStepKeeps DEF history
<1>16. job'[p] = [pc |-> "stamp", full |-> full, batch |-> {tray[n].dump : n \in names \ bad}]
  BY <1>9 DEF IInv, TypeOK
<1>17. {tray[n].dump : n \in names \ bad} \subseteq saved
  BY <1>6
<1>18. job'[p] \in Job /\ job'[p].pc = "stamp" /\ job'[p].batch \subseteq saved
  BY <1>7, <1>16, <1>17 DEF Job
<1>19. written \subseteq written' /\ written' \subseteq saved /\ saved' = saved
  BY <1>9 DEF history, IInv, JobsHold
<1>20. JobsHold' /\ job' \in [Process -> Job]
  BY <1>9, <1>16, <1>18, <1>19, OneJob
<1>21. TypeOK'
  BY <1>9, <1>11, <1>20 DEF IInv, TypeOK, history
<1> QED BY <1>15, <1>20, <1>21 DEF IInv

\* Stamping, deleting and writing move no file, and what is written is held.
LEMMA WritesKeep ==
    ASSUME InboxFacts, IInv, NEW p \in Process, Stamps(p) \/ DeletesSource(p) \/ Indexes(p)
    PROVE  IInv'
<1>1. /\ job[p] \in Job /\ job[p].batch \subseteq saved
      /\ written \subseteq saved /\ saved \subseteq Dump
  BY DEF IInv, TypeOK, JobsHold
<1>2. UNCHANGED <<files, saved, replaced, faults, clock>> /\ written \subseteq written'
  BY DEF Stamps, DeletesSource, Indexes, history
<1>3. TrayOK' /\ FiledSaved' /\ NoDumpVanishes' /\ FiledAfterWritten'
  BY <1>2, FilesStay
<1>4. /\ job' = [job EXCEPT ![p] = job'[p]] /\ job'[p] \in Job
      /\ job'[p].batch \subseteq saved
      /\ job'[p].pc = "finalize" => job'[p].batch \subseteq written'
      /\ written' \subseteq saved
  <2>1. CASE Stamps(p)
    <3>1. job' = [job EXCEPT ![p] = AfterWalk(job[p])] /\ job'[p] = AfterWalk(job[p])
      BY <2>1 DEF Stamps, IInv, TypeOK
    <3> QED BY <1>1, <2>1, <3>1, WalkEnds DEF Stamps, history
  <2>2. CASE DeletesSource(p)
    <3>1. PICK j : j = [job[p] EXCEPT !.full = FALSE]
      OBVIOUS
    <3>2. j \in Job /\ j.batch = job[p].batch
      BY <1>1, <3>1 DEF Job
    <3>3. job' = [job EXCEPT ![p] = AfterWalk(j)] /\ job'[p] = AfterWalk(j)
      BY <2>2, <3>1 DEF DeletesSource, IInv, TypeOK
    <3> QED BY <1>1, <2>2, <3>2, <3>3, WalkEnds DEF DeletesSource, history
  <2>3. CASE Indexes(p)
    <3>1. job' = [job EXCEPT ![p] = [job[p] EXCEPT !.pc = "finalize"]]
      BY <2>3 DEF Indexes
    <3>2. job'[p] = [job[p] EXCEPT !.pc = "finalize"]
      BY <3>1 DEF IInv, TypeOK
    <3>3. job'[p] \in Job /\ job'[p].batch = job[p].batch
      BY <1>1, <3>2 DEF Job
    <3> QED BY <1>1, <2>3, <3>1, <3>2, <3>3 DEF Indexes
  <2> QED BY <2>1, <2>2, <2>3
<1>5. JobsHold' /\ job' \in [Process -> Job]
  BY <1>2, <1>4, OneJob
<1>6. stored' \subseteq Dump /\ lastPoll' \in Nat
  BY <1>1 DEF Stamps, DeletesSource, Indexes, IInv, TypeOK
<1>7. TypeOK'
  BY <1>1, <1>2, <1>4, <1>5, <1>6 DEF IInv, TypeOK, files
<1> QED BY <1>3, <1>5, <1>7 DEF IInv

\* finalize_inbox_batch moves the file that is at the path: that of an atom the run
\* wrote, or one that was saved over it under the same name.
LEMMA FinalizesKeeps ==
    ASSUME InboxFacts, IInv, NEW p \in Process, NEW d \in Dump, Finalizes(p, d)
    PROVE  IInv'
<1>1. PICK n : n = NameOf[d]
  OBVIOUS
<1>2. PICK e : e = tray[n].dump
  OBVIOUS
<1>3. n \in Name /\ HasFile(n) /\ d \in job[p].batch /\ job[p].pc = "finalize"
  BY <1>1 DEF Finalizes, InboxFacts
<1>4. e \in saved /\ e \in Dump /\ NameOf[e] = n
  BY <1>2, <1>3 DEF IInv, TrayOK, TypeOK
<1>5. d \in written /\ d \in saved
  BY <1>3 DEF IInv, JobsHold
<1>6. /\ tray' = [tray EXCEPT ![n] = NoFile]
      /\ UNCHANGED <<stored, clock, lastPoll, faults, saved, replaced, written>>
      /\ \/ failed' = MovedTo(failed, NameOf[e], e) /\ processed' = processed
         \/ processed' = MovedTo(processed, NameOf[e], e) /\ failed' = failed
  BY <1>1, <1>2, <1>4 DEF Finalizes, history
<1>7. /\ processed' \in [Name -> Seq(Dump)] /\ failed' \in [Name -> Seq(Dump)]
      /\ \A c \in Dump : Filed(c)' <=> Filed(c) \/ c = e
  <2>1. processed \in [Name -> Seq(Dump)] /\ failed \in [Name -> Seq(Dump)]
    BY DEF IInv, TypeOK
  <2>2. CASE failed' = MovedTo(failed, NameOf[e], e) /\ processed' = processed
    <3>1. /\ MovedTo(failed, NameOf[e], e) \in [Name -> Seq(Dump)]
          /\ \A c \in Dump : InFolder(MovedTo(failed, NameOf[e], e), c)
                <=> InFolder(failed, c) \/ c = e
      BY <1>4, <2>1, FileMoved
    <3>2. \A c \in Dump : InFolder(failed', c) <=> InFolder(failed, c) \/ c = e
      BY <2>2, <3>1
    <3> QED BY <2>1, <2>2, <3>1, <3>2 DEF Filed, InFolder
  <2>3. CASE processed' = MovedTo(processed, NameOf[e], e) /\ failed' = failed
    <3>1. /\ MovedTo(processed, NameOf[e], e) \in [Name -> Seq(Dump)]
          /\ \A c \in Dump : InFolder(MovedTo(processed, NameOf[e], e), c)
                <=> InFolder(processed, c) \/ c = e
      BY <1>4, <2>1, FileMoved
    <3>2. \A c \in Dump : InFolder(processed', c) <=> InFolder(processed, c) \/ c = e
      BY <2>3, <3>1
    <3> QED BY <2>1, <2>3, <3>1, <3>2 DEF Filed, InFolder
  <2> QED BY <1>6, <2>2, <2>3
<1>8. tray' \in [Name -> File \cup {NoFile}]
  BY <1>6 DEF IInv, TypeOK
<1>9. FilesStep({e})
  <2>1. \A k \in Name : HasFile(k)' => tray'[k] = tray[k]
    BY <1>6 DEF HasFile, IInv, TypeOK
  <2>2. \A k \in Name : HasFile(k) /\ ~HasFile(k)' => tray[k].dump \in {e}
    BY <1>2, <1>6 DEF HasFile, IInv, TypeOK
  <2>3. InTray(e)
    BY <1>2, <1>3, <1>4 DEF InTray
  <2> QED BY <1>4, <1>6, <1>7, <2>1, <2>2, <2>3 DEF FilesStep
<1>10. \/ e \in Bad \cup written'
       \/ \E o \in saved \ {e} : NameOf[o] = NameOf[e]
  BY <1>1, <1>4, <1>5, <1>6
<1>11. TrayOK' /\ FiledSaved' /\ NoDumpVanishes' /\ FiledAfterWritten'
  <2>1. written \subseteq written'
    BY <1>6
  <2>2. \A c \in {e} : \/ c \in Bad \cup written'
                       \/ \E o \in saved \ {c} : NameOf[o] = NameOf[c]
    BY <1>10
  <2> QED BY <1>9, <2>1, <2>2, FilesStepKeeps
<1>12. JobsHold' /\ job' \in [Process -> Job]
  BY <1>6, FinishedKeeps DEF Finalizes
<1>13. TypeOK'
  BY <1>6, <1>7, <1>8, <1>12 DEF IInv, TypeOK
<1> QED BY <1>11, <1>12, <1>13 DEF IInv

\* A path without a file, a failed run and a restart only end what a run holds.
LEMMA EndsKeep ==
    ASSUME InboxFacts, IInv,
           \/ Restarts
           \/ \E p \in Process : Fails(p) \/ \E d \in Dump : SkipsMoved(p, d)
    PROVE  IInv'
<1>1. UNCHANGED <<files, stored, clock, saved, replaced, written>>
  BY DEF Restarts, Fails, SkipsMoved, history
<1>2. TrayOK' /\ FiledSaved' /\ NoDumpVanishes' /\ FiledAfterWritten'
  BY <1>1, FilesStay
<1>3. lastPoll' \in Nat /\ faults' \in 0..MaxFaults
  BY DEF Restarts, Fails, SkipsMoved, IInv, TypeOK, InboxFacts
<1>4. JobsHold' /\ job' \in [Process -> Job]
  <2>1. ASSUME NEW p \in Process, job' = [job EXCEPT ![p] = Idle]
        PROVE  JobsHold' /\ job' \in [Process -> Job]
    <3>1. job'[p] = Idle
      BY <2>1 DEF IInv, TypeOK
    <3>2. Idle \in Job /\ Idle.batch = {} /\ Idle.pc = "idle"
      BY DEF Idle, Job
    <3>3. written \subseteq saved
      BY DEF IInv, JobsHold
    <3> QED BY <1>1, <2>1, <3>1, <3>2, <3>3, OneJob
  <2>2. CASE Restarts
    BY <2>1, <2>2 DEF Restarts, InboxFacts
  <2>3. CASE \E p \in Process : Fails(p)
    BY <2>1, <2>3 DEF Fails
  <2>4. CASE \E p \in Process, d \in Dump : SkipsMoved(p, d)
    BY <1>1, <2>4, FinishedKeeps DEF SkipsMoved
  <2> QED BY <2>2, <2>3, <2>4
<1>5. TypeOK'
  BY <1>1, <1>3, <1>4 DEF IInv, TypeOK, files
<1> QED BY <1>2, <1>4, <1>5 DEF IInv

----------------------------------------------------------------------------
(* The theorems                                                            *)

\* Every step of the specification keeps the invariant.
LEMMA StepKeeps == InboxFacts /\ IInv /\ [Next]_vars => IInv'
<1> SUFFICES ASSUME InboxFacts, IInv, [Next]_vars PROVE IInv'
  OBVIOUS
<1>1. ASSUME NEW d \in Dump, Saves(d) PROVE IInv'
  BY <1>1, SavesKeeps
<1>2. ASSUME NEW p \in Process, NEW full \in BOOLEAN, Collects(p, full) PROVE IInv'
  BY <1>2, CollectsKeeps
<1>3. CASE Polls \/ SyncsAll
  BY <1>2, <1>3 DEF Polls, SyncsAll, InboxFacts
<1>4. ASSUME NEW p \in Process, GoesOn(p) PROVE IInv'
  <2>1. CASE Stamps(p) \/ DeletesSource(p) \/ Indexes(p)
    BY <2>1, WritesKeep
  <2>2. ASSUME NEW d \in Dump, Finalizes(p, d) PROVE IInv'
    BY <2>2, FinalizesKeeps
  <2>3. ASSUME NEW d \in Dump, SkipsMoved(p, d) PROVE IInv'
    BY <2>3, EndsKeep
  <2> QED BY <1>4, <2>1, <2>2, <2>3 DEF GoesOn
<1>5. CASE \E p \in Process : IndexCommand(p)
  BY <1>2, <1>5 DEF IndexCommand
<1>6. CASE Restarts \/ \E p \in Process : Fails(p)
  BY <1>6, EndsKeep
<1>7. CASE UNCHANGED vars
  BY <1>7 DEF vars, files, history, IInv, TypeOK, TrayOK, FiledSaved, JobsHold,
              NoDumpVanishes, FiledAfterWritten, HasFile, InTray, Filed, InFolder
<1> QED BY <1>1, <1>3, <1>4, <1>5, <1>6, <1>7 DEF Next

\* The invariant holds in every state that the tray, the runs and the operator reach.
THEOREM Invariance == Spec => []IInv
<1> USE InboxFacts
<1>1. Init => IInv
  BY Starts
<1>2. IInv /\ [Next]_vars => IInv'
  BY StepKeeps
<1> QED BY <1>1, <1>2, PTL DEF Spec

\* Every run is in a known state and every folder holds saved dumps.
THEOREM TypeCorrect == Spec => []TypeOK
<1>1. IInv => TypeOK
  BY DEF IInv
<1> QED BY <1>1, Invariance, PTL

\* No dump that was saved is lost, whatever fails between the calls of a run.
THEOREM NothingIsLost == Spec => []NoDumpVanishes
<1>1. IInv => NoDumpVanishes
  BY DEF IInv
<1> QED BY <1>1, Invariance, PTL

\* A file leaves the tray for a folder only after the write of its atoms.
THEOREM WriteComesFirst == Spec => []FiledAfterWritten
<1>1. IInv => FiledAfterWritten
  BY DEF IInv
<1> QED BY <1>1, Invariance, PTL
============================================================================
