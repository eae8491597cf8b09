----------------------------- MODULE InboxTray -----------------------------
(***************************************************************************)
(* The inbox tray (src/connectors/inbox.rs) under the index pipeline       *)
(* (src/pipeline/mod.rs) and the daemon's poll and nightly loops           *)
(* (src/daemon/mod.rs).                                                    *)
(*                                                                         *)
(* The operator saves dump files in a folder.  An index run reads those    *)
(* changed since the connector's last poll, writes their atoms to the      *)
(* store and then moves each file to processed/ or failed/.  The file      *)
(* system, the store and the connector's clock are three states that no    *)
(* transaction covers.                                                     *)
(*                                                                         *)
(* The daemon's loops share one connector, and the flight mutex lets one   *)
(* run at a time use it.  Any other Process is a `kurultai index`: each of *)
(* its runs has a new connector.  A Dump is one version of one file; all   *)
(* of its atoms get the same lane (IndexPipeline has the gate).  Folders   *)
(* in the tray and the reason sidecars are left out, and time passes when  *)
(* a file is saved.                                                        *)
(***************************************************************************)
EXTENDS Naturals, Sequences, FiniteSets

CONSTANTS
    Process,    \* the daemon and the commands
    Daemon,
    Dump,       \* saved versions
    Name,       \* file names
    NameOf,     \* [Dump -> Name]
    Bad,        \* dumps that cannot be parsed
    Junk,       \* dumps that the gate quarantines
    MovedIn,    \* dumps moved into the tray: a moved file keeps its mtime
    SavesOver,  \* the operator may save over a file that is still in the tray
    Nightly,    \* nightly_full_sync_hour is set
    MaxFaults,  \* bound: failed runs and restarts of a behaviour
    NoFile

File == [dump : Dump, mtime : Nat]

ASSUME InboxFacts ==
    /\ Daemon \in Process
    /\ NameOf \in [Dump -> Name]
    /\ Bad \subseteq Dump /\ Junk \subseteq Dump /\ MovedIn \subseteq Dump
    /\ {SavesOver, Nightly} \subseteq BOOLEAN
    /\ MaxFaults \in Nat
    /\ NoFile \notin File

VARIABLES
    tray,       \* [Name -> the file of that name, with its mtime, or NoFile]
    processed,  \* [Name -> Seq(Dump)]: name, name.1, name.2, ...
    failed,     \* the same for failed/
    stored,     \* dumps whose atoms have rows
    clock,
    lastPoll,   \* last_poll of the daemon's connector; 0 is None
    job,        \* [Process -> the run in progress]
    faults,
    saved,      \* history: the dumps that were ever in the tray
    replaced,   \* history: those the operator saved over
    written     \* history: those whose atoms were ever written

files == <<tray, processed, failed>>
history == <<saved, replaced, written>>
vars == <<files, stored, clock, lastPoll, job, faults, history>>

Idle == [pc |-> "idle", full |-> FALSE, batch |-> {}]

Job == [pc : {"idle", "stamp", "delete", "index", "finalize"},
        full : BOOLEAN, batch : SUBSET Dump]

TypeOK ==
    /\ tray \in [Name -> File \cup {NoFile}]
    /\ processed \in [Name -> Seq(Dump)]
    /\ failed \in [Name -> Seq(Dump)]
    /\ stored \subseteq Dump
    /\ clock \in Nat
    /\ lastPoll \in Nat
    /\ job \in [Process -> Job]
    /\ faults \in 0..MaxFaults
    /\ saved \subseteq Dump
    /\ replaced \subseteq Dump
    /\ written \subseteq Dump

Init ==
    /\ tray = [n \in Name |-> NoFile]
    /\ processed = [n \in Name |-> <<>>]
    /\ failed = [n \in Name |-> <<>>]
    /\ stored = {}
    /\ clock = 1
    /\ lastPoll = 0
    /\ job = [p \in Process |-> Idle]
    /\ faults = 0
    /\ saved = {}
    /\ replaced = {}
    /\ written = {}

----------------------------------------------------------------------------
(* Folders                                                                 *)

InFolder(folder, d) == \E i \in DOMAIN folder[NameOf[d]] : folder[NameOf[d]][i] = d

HasFile(n) == tray[n] # NoFile

InTray(d) == HasFile(NameOf[d]) /\ tray[NameOf[d]].dump = d

Filed(d) == InFolder(processed, d) \/ InFolder(failed, d)

\* Fault: the destination not made unique.
AsNamed(folder, n, d) == [folder EXCEPT ![n] = <<d>>]

\* rename to the destination that unique_dest picks: the first free suffix.
MovedTo(folder, n, d) == [folder EXCEPT ![n] = Append(@, d)]

----------------------------------------------------------------------------
(* The operator                                                            *)

Saves(d) ==
    LET n == NameOf[d] IN
    /\ d \notin saved
    /\ SavesOver \/ ~HasFile(n)
    /\ clock' = clock + 1
    /\ \E m \in IF d \in MovedIn THEN 1..clock' ELSE {clock'} :
          tray' = [tray EXCEPT ![n] = [dump |-> d, mtime |-> m]]
    /\ saved' = saved \cup {d}
    /\ replaced' = IF HasFile(n) THEN replaced \cup {tray[n].dump} ELSE replaced
    /\ UNCHANGED <<processed, failed, stored, lastPoll, job, faults, written>>

----------------------------------------------------------------------------
(* An index run over the tray                                              *)

\* A command starts without a last poll.
Since(p) == IF p = Daemon THEN lastPoll ELSE 0

\* Fault: the full sync keeps to the files newer than the last poll.
NewerOnly(p, full) == {n \in Name : HasFile(n) /\ tray[n].mtime > Since(p)}

\* The files that collect_atoms reads.
Eligible(p, full) == {n \in Name : HasFile(n) /\ (full \/ tray[n].mtime > Since(p))}

\* poll or full_sync up to the end of collect_atoms.  What cannot be parsed
\* goes to failed/ at once.
Collects(p, full) ==
    LET names == Eligible(p, full)
        bad   == {n \in names : tray[n].dump \in Bad}
    IN /\ job[p].pc = "idle"
       /\ job' = [job EXCEPT ![p] =
                     [pc |-> "stamp", full |-> full,
                      batch |-> {tray[n].dump : n \in names \ bad}]]
       /\ failed' = [n \in Name |-> IF n \in bad THEN Append(failed[n], tray[n].dump)
                                                 ELSE failed[n]]
       /\ tray' = [n \in Name |-> IF n \in bad THEN NoFile ELSE tray[n]]
       /\ UNCHANGED <<processed, stored, clock, lastPoll, faults, history>>

\* Faults: a run without files stuck in a state of its own, the files moved first.
EndsDone(j) == CASE j.full                   -> [j EXCEPT !.pc = "delete"]
                 [] ~j.full /\ j.batch = {} -> [j EXCEPT !.pc = "done"]
                 [] OTHER                    -> [j EXCEPT !.pc = "index"]
MovesFirst(j) == CASE j.full                   -> [j EXCEPT !.pc = "delete"]
                   [] ~j.full /\ j.batch = {} -> Idle
                   [] OTHER                    -> [j EXCEPT !.pc = "finalize"]

\* The run goes on with its batch, or returns when there is none.
AfterWalk(j) == CASE j.full                   -> [j EXCEPT !.pc = "delete"]
                  [] ~j.full /\ j.batch = {} -> Idle
                  [] OTHER                    -> [j EXCEPT !.pc = "index"]

\* last_poll takes the time at which the walk ended.
Stamps(p) ==
    /\ job[p].pc = "stamp"
    /\ lastPoll' = IF p = Daemon THEN clock ELSE lastPoll
    /\ job' = [job EXCEPT ![p] = AfterWalk(@)]
    /\ UNCHANGED <<files, stored, clock, faults, history>>

\* delete_source
DeletesSource(p) ==
    /\ job[p].pc = "delete"
    /\ stored' = {}
    /\ job' = [job EXCEPT ![p] = AfterWalk([@ EXCEPT !.full = FALSE])]
    /\ UNCHANGED <<files, clock, lastPoll, faults, history>>

\* Gate, embedding, upsert_batch and what follows it: one commit.
Indexes(p) ==
    /\ job[p].pc = "index"
    /\ stored' = stored \cup job[p].batch
    /\ written' = written \cup job[p].batch
    /\ job' = [job EXCEPT ![p].pc = "finalize"]
    /\ UNCHANGED <<files, clock, lastPoll, faults, saved, replaced>>

FinishedWith(p, d) ==
    LET rest == job[p].batch \ {d} IN
    job' = [job EXCEPT ![p] = IF rest = {} THEN Idle ELSE [@ EXCEPT !.batch = rest]]

\* finalize_inbox_batch, one path of it: the lane is that of the atoms in the
\* batch, the file is the one that is at the path now.
Finalizes(p, d) ==
    LET n == NameOf[d] IN
    /\ job[p].pc = "finalize"
    /\ d \in job[p].batch
    /\ HasFile(n)
    /\ IF d \in Junk
       THEN failed' = MovedTo(failed, n, tray[n].dump) /\ UNCHANGED processed
       ELSE processed' = MovedTo(processed, n, tray[n].dump) /\ UNCHANGED failed
    /\ tray' = [tray EXCEPT ![n] = NoFile]
    /\ FinishedWith(p, d)
    /\ UNCHANGED <<stored, clock, lastPoll, faults, history>>

\* "Already moved": the path is skipped.
SkipsMoved(p, d) ==
    /\ job[p].pc = "finalize"
    /\ d \in job[p].batch
    /\ ~HasFile(NameOf[d])
    /\ FinishedWith(p, d)
    /\ UNCHANGED <<files, stored, clock, lastPoll, faults, history>>

\* A call of the run returns an error: the cycle ends with a warning.
Fails(p) ==
    /\ job[p].pc # "idle"
    /\ faults < MaxFaults
    /\ job' = [job EXCEPT ![p] = Idle]
    /\ faults' = faults + 1
    /\ UNCHANGED <<files, stored, clock, lastPoll, history>>

\* The daemon stops and starts again, with a new connector.
Restarts ==
    /\ faults < MaxFaults
    /\ job' = [job EXCEPT ![Daemon] = Idle]
    /\ lastPoll' = 0
    /\ faults' = faults + 1
    /\ UNCHANGED <<files, stored, clock, history>>

----------------------------------------------------------------------------

Polls == Collects(Daemon, FALSE)

SyncsAll == Nightly /\ Collects(Daemon, TRUE)

\* kurultai index [--full]
IndexCommand(p) == p # Daemon /\ \E full \in BOOLEAN : Collects(p, full)

GoesOn(p) ==
    \/ Stamps(p)
    \/ DeletesSource(p)
    \/ Indexes(p)
    \/ \E d \in Dump : Finalizes(p, d) \/ SkipsMoved(p, d)

Next ==
    \/ \E d \in Dump : Saves(d)
    \/ Polls
    \/ SyncsAll
    \/ Restarts
    \/ \E p \in Process : IndexCommand(p) \/ GoesOn(p) \/ Fails(p)

Spec == Init /\ [][Next]_vars

\* A run of the daemon that goes on ends.  Its loops come again for ever and wait
\* for one another on the flight mutex, which is fair (first come, first served):
\* each gets its turn although the other keeps coming.  Nothing is assumed of
\* the operator and of commands, and faults are few (MaxFaults).
FairSpec ==
    /\ Spec
    /\ WF_vars(GoesOn(Daemon))
    /\ SF_vars(Polls)
    /\ SF_vars(SyncsAll)

----------------------------------------------------------------------------
(* Properties                                                              *)

\* No dump is lost: whatever fails or restarts between the calls of a run, and
\* although file names come again, a saved file is in the tray, in processed/ or
\* in failed/ unless the operator saved over it.
NoDumpVanishes ==
    \A d \in saved : InTray(d) \/ Filed(d) \/ d \in replaced

\* A file whose name is not used again leaves the tray only after its own atoms
\* were written, or when it cannot be parsed: a crash between the write and the
\* move leaves it for the next run, never the other way round (inbox.rs:3-4).
FiledAfterWritten ==
    \A d \in saved \ (Bad \cup written) :
        Filed(d) => \E e \in saved \ {d} : NameOf[e] = NameOf[d]

\* Every file that is saved leaves the tray in the end, although runs fail,
\* files are saved while the connector walks the tray, and moved files keep an
\* old mtime.
TrayDrains == \A d \in Dump : InTray(d) ~> ~InTray(d)

\* A file is in processed/ only when its atoms were trusted (inbox.rs:219).
\* The code does not keep it when a file is saved over while it is indexed.
ProcessedIsTrusted == \A d \in Dump : InFolder(processed, d) => d \notin Junk

\* What was filed stays in the store: quarantined or not, the atoms of a file
\* outlive the move (inbox.rs:220, "atoms remain stored").
\* The code does not keep it: a full sync reads only the tray.
FiledStaysStored ==
    [][ \A d \in Dump : Filed(d) /\ d \in stored => d \in stored' ]_vars
============================================================================
