------------------------ MODULE OntologyGraphProofs ------------------------
(***************************************************************************)
(* What OntologyGraph guarantees for any number of tasks, proposals, atoms *)
(* and entities.  The invariant adds to the properties what a job may hold *)
(* at each call: in particular, that an approval which is about to be      *)
(* recorded has been carried out.                                          *)
(***************************************************************************)
EXTENDS OntologyGraph, TLAPS

\* What a job holds at each of its calls, when `ids` are the proposals and
\* `done` those carried out.
JobOK(j, ids, done) ==
    /\ j \in Job
    /\ j.for \in ids \cup {NoProposal}
    /\ j.pc \in {"dedupe", "insert"} => j.payload \in Payload
    /\ j.pc = "check" => j.payload \in PromoteAtom
    /\ j.pc = "entity" => j.payload \in NewEntity \cup PromoteAtom \cup Extraction
    /\ j.pc \in {"target", "person"} => j.payload \in Extraction
    /\ j.pc = "link" => j.payload \in NewLink \cup PromoteAtom \cup Extraction
    /\ j.pc = "decide" => j.for \in ids /\ (j.approve => j.for \in done)

JobsOK == \A t \in Task : JobOK(job[t], DOMAIN proposals, applied)

IInv == TypeOK /\ ApprovedWasApplied /\ BackingAtomExists /\ JobsOK

\* More proposals and more of them carried out leave a job as it should be.
LEMMA JobOKGrows ==
    ASSUME NEW j, NEW ids, NEW ids2, NEW done, NEW done2,
           ids \subseteq ids2, done \subseteq done2, JobOK(j, ids, done)
    PROVE  JobOK(j, ids2, done2)
BY DEF JobOK

\* An idle job is always as it should be.
LEMMA IdleOK ==
    \A ids, done : JobOK(Idle, ids, done)
BY DEF JobOK, Idle, Job

\* A job that goes on to a call for which it holds the right things.
LEMMA MovedJobOK ==
    ASSUME NEW j \in Job, NEW label, NEW ids, NEW done,
           label \in {"insert", "entity", "target", "link", "person", "decide"},
           j.for \in ids \cup {NoProposal},
           label = "insert" => j.payload \in Payload,
           label = "entity" => j.payload \in NewEntity \cup PromoteAtom \cup Extraction,
           label \in {"target", "person"} => j.payload \in Extraction,
           label = "link" => j.payload \in NewLink \cup PromoteAtom \cup Extraction,
           label = "decide" => j.for \in ids \cap done
    PROVE  JobOK([j EXCEPT !.pc = label], ids, done)
<1> DEFINE k == [j EXCEPT !.pc = label]
<1>1. /\ k.pc = label /\ k.for = j.for
      /\ k.payload = j.payload /\ k.approve = j.approve
  BY DEF Job
<1>2. k \in Job
  BY DEF Job
<1> HIDE DEF k
<1>3. JobOK(k, ids, done)
  BY <1>1, <1>2 DEF JobOK
<1> QED BY <1>3 DEF k

\* Replacing the job of one task keeps the jobs as they should be.
LEMMA OneJobChanges ==
    ASSUME TypeOK, JobsOK, NEW t \in Task, job' = [job EXCEPT ![t] = job'[t]],
           DOMAIN proposals \subseteq DOMAIN proposals', applied \subseteq applied',
           JobOK(job'[t], DOMAIN proposals', applied')
    PROVE  JobsOK' /\ job' \in [Task -> Job]
<1>1. ASSUME NEW u \in Task
      PROVE  JobOK(job'[u], DOMAIN proposals', applied')
  <2>1. CASE u = t
    BY <2>1
  <2>2. CASE u # t
    <3>1. job'[u] = job[u]
      BY <2>2 DEF TypeOK
    <3>2. JobOK(job[u], DOMAIN proposals, applied)
      BY DEF JobsOK
    <3> QED BY <3>1, <3>2, JobOKGrows
  <2> QED BY <2>1, <2>2
<1>2. JobsOK'
  BY <1>1 DEF JobsOK
<1>3. \A u \in Task : job'[u] \in Job
  BY <1>1 DEF JobOK
<1>4. job' \in [Task -> Job]
  BY <1>3 DEF TypeOK
<1> QED BY <1>2, <1>4

\* A job that returns.
LEMMA ReturnKeepsJobs ==
    ASSUME TypeOK, JobsOK, NEW t \in Task, Return(t),
           DOMAIN proposals \subseteq DOMAIN proposals', applied \subseteq applied'
    PROVE  JobsOK' /\ job' \in [Task -> Job]
<1>1. job'[t] = Idle /\ job' = [job EXCEPT ![t] = job'[t]]
  BY DEF Return, TypeOK
<1> QED BY <1>1, IdleOK, OneJobChanges

\* A job that goes on.
LEMMA GoToKeepsJobs ==
    ASSUME TypeOK, JobsOK, NEW t \in Task, NEW label, GoTo(t, label),
           DOMAIN proposals \subseteq DOMAIN proposals', applied \subseteq applied',
           JobOK([job[t] EXCEPT !.pc = label], DOMAIN proposals', applied')
    PROVE  JobsOK' /\ job' \in [Task -> Job]
<1>1. job'[t] = [job[t] EXCEPT !.pc = label] /\ job' = [job EXCEPT ![t] = job'[t]]
  BY DEF GoTo, TypeOK
<1> QED BY <1>1, OneJobChanges

\* A job that begins.
LEMMA BeginKeepsJobs ==
    ASSUME TypeOK, JobsOK, NEW t \in Task, NEW j, Begin(t, j),
           DOMAIN proposals \subseteq DOMAIN proposals', applied \subseteq applied',
           JobOK(j, DOMAIN proposals', applied')
    PROVE  JobsOK' /\ job' \in [Task -> Job]
<1>1. job'[t] = j /\ job' = [job EXCEPT ![t] = job'[t]]
  BY DEF Begin, TypeOK
<1> QED BY <1>1, OneJobChanges

\* The empty graph satisfies the invariant.
LEMMA InitIInv ==
    Init => IInv
<1> SUFFICES ASSUME Init PROVE IInv
  OBVIOUS
<1>1. Idle \in Job
  BY IdleOK DEF JobOK
<1>2. TypeOK
  BY <1>1, OntologyFacts DEF Init, TypeOK, Entity
<1>3. ApprovedWasApplied /\ BackingAtomExists
  BY DEF Init, ApprovedWasApplied, Decided, BackingAtomExists
<1>4. JobsOK
  BY IdleOK DEF Init, JobsOK
<1> QED BY <1>2, <1>3, <1>4 DEF IInv

\* Starting a job.
LEMMA StartKeepsIInv ==
    ASSUME IInv, NEW t \in Task, Start(t)
    PROVE  IInv'
<1> DEFINE ids == DOMAIN proposals
<1>0. TypeOK /\ JobsOK /\ NoProposal \notin ids
  BY OntologyFacts DEF IInv, TypeOK
<1>1. CASE \E d \in Drafts : StartSubmit(t, d)
  <2> PICK d \in Drafts : StartSubmit(t, d)
    BY <1>1
  <2> DEFINE j == [Idle EXCEPT !.pc = "dedupe", !.payload = d]
  <2>1. d \in Payload
    BY OntologyFacts
  <2>2. JobOK(j, ids, applied)
    BY <2>1 DEF JobOK, Idle, Job
  <2> HIDE DEF j
  <2>3. Begin(t, j) /\ UNCHANGED <<graphVars, proposals, applied>>
    BY DEF StartSubmit, j
  <2>4. JobsOK' /\ job' \in [Task -> Job]
    BY <1>0, <2>2, <2>3, BeginKeepsJobs
  <2> QED BY <2>3, <2>4 DEF IInv, TypeOK, graphVars, ApprovedWasApplied, Decided,
             BackingAtomExists
<1>2. CASE \E d \in Drafts : StartHumanWrite(t, d)
  <2> PICK d \in Drafts : StartHumanWrite(t, d)
    BY <1>2
  <2> DEFINE j == [Idle EXCEPT !.pc = FirstCall(d), !.payload = d]
  <2>1. d \in NewLink \cup NewEntity
    BY OntologyFacts DEF StartHumanWrite, Payload, PromoteAtom
  <2>2. JobOK(j, ids, applied)
    <3>1. CASE d \in NewLink
      <4>1. FirstCall(d) = "link"
        BY <3>1 DEF FirstCall, NewLink
      <4> QED BY <3>1, <4>1 DEF JobOK, Idle, Job, Payload
    <3>2. CASE d \in NewEntity
      <4>1. FirstCall(d) = "entity"
        BY <3>2 DEF FirstCall, NewEntity
      <4> QED BY <3>2, <4>1 DEF JobOK, Idle, Job, Payload
    <3> QED BY <2>1, <3>1, <3>2
  <2> HIDE DEF j
  <2>3. Begin(t, j) /\ UNCHANGED <<graphVars, proposals, applied>>
    BY DEF StartHumanWrite, j
  <2>4. JobsOK' /\ job' \in [Task -> Job]
    BY <1>0, <2>2, <2>3, BeginKeepsJobs
  <2> QED BY <2>3, <2>4 DEF IInv, TypeOK, graphVars, ApprovedWasApplied, Decided,
             BackingAtomExists
<1>3. CASE \E p \in ProposalId, approve \in BOOLEAN : StartDecide(t, p, approve)
  <2> PICK p \in ProposalId, approve \in BOOLEAN : StartDecide(t, p, approve)
    BY <1>3
  <2> DEFINE d == proposals[p].payload
             j == [pc |-> AfterPendingCheck(d, approve), payload |-> d,
                   for |-> p, approve |-> approve]
  <2>1. p \in ids /\ d \in Payload
    BY <1>0 DEF StartDecide, Pending, TypeOK, Proposal
  <2> HIDE DEF d
  <2>2. JobOK(j, ids, applied)
    <3>1. CASE ~approve
      BY <2>1, <3>1 DEF JobOK, AfterPendingCheck, Job
    <3>2. CASE approve /\ d \in NewLink
      <4>1. AfterPendingCheck(d, approve) = "link"
        BY <3>2 DEF AfterPendingCheck, FirstCall, NewLink
      <4> QED BY <2>1, <3>2, <4>1 DEF JobOK, Job
    <3>3. CASE approve /\ d \in NewEntity
      <4>1. AfterPendingCheck(d, approve) = "entity"
        BY <3>3 DEF AfterPendingCheck, FirstCall, NewEntity
      <4> QED BY <2>1, <3>3, <4>1 DEF JobOK, Job
    <3>4. CASE approve /\ d \in PromoteAtom
      <4>1. AfterPendingCheck(d, approve) = "check"
        BY <3>4 DEF AfterPendingCheck, FirstCall, PromoteAtom
      <4> QED BY <2>1, <3>4, <4>1 DEF JobOK, Job
    <3> QED BY <2>1, <3>1, <3>2, <3>3, <3>4 DEF Payload
  <2>3. Begin(t, j) /\ UNCHANGED <<graphVars, proposals, applied>>
    BY DEF StartDecide, d
  <2> HIDE DEF j
  <2>4. JobsOK' /\ job' \in [Task -> Job]
    BY <1>0, <2>2, <2>3, BeginKeepsJobs
  <2> QED BY <2>3, <2>4 DEF IInv, TypeOK, graphVars, ApprovedWasApplied, Decided,
             BackingAtomExists
<1>4. CASE \E d \in Extraction : StartExtract(t, d)
  <2> PICK d \in Extraction : StartExtract(t, d)
    BY <1>4
  <2> DEFINE first == IF HasEntity(EntOf[d.atom]) THEN "target" ELSE "entity"
             j == [Idle EXCEPT !.pc = first, !.payload = d]
  <2>1. first \in {"target", "entity"}
    OBVIOUS
  <2> HIDE DEF first
  <2>2. JobOK(j, ids, applied)
    BY <2>1 DEF JobOK, Idle, Job
  <2> HIDE DEF j
  <2>3. Begin(t, j) /\ UNCHANGED <<graphVars, proposals, applied>>
    BY DEF StartExtract, j, first
  <2>4. JobsOK' /\ job' \in [Task -> Job]
    BY <1>0, <2>2, <2>3, BeginKeepsJobs
  <2> QED BY <2>3, <2>4 DEF IInv, TypeOK, graphVars, ApprovedWasApplied, Decided,
             BackingAtomExists
<1> QED BY <1>1, <1>2, <1>3, <1>4 DEF Start

\* The last write of a job: what it was approved to do has been done.
LEMMA WriteDoneKeepsJobs ==
    ASSUME IInv, NEW t \in Task, WriteDone(t), UNCHANGED proposals
    PROVE  JobsOK' /\ job' \in [Task -> Job] /\ applied \subseteq applied'
                   /\ applied' \subseteq ProposalId
<1>0. TypeOK /\ JobsOK /\ job[t] \in Job /\ applied \subseteq ProposalId
  BY DEF IInv, TypeOK
<1>1. CASE job[t].for = NoProposal
  <2>1. Return(t) /\ UNCHANGED applied
    BY <1>1 DEF WriteDone
  <2> QED BY <1>0, <2>1, ReturnKeepsJobs
<1>2. CASE job[t].for # NoProposal
  <2>1. GoTo(t, "decide") /\ applied' = applied \cup {job[t].for}
    BY <1>2 DEF WriteDone
  <2>2. job[t].for \in DOMAIN proposals /\ job[t].for \in ProposalId
    BY <1>0, <1>2 DEF JobsOK, JobOK, TypeOK
  <2>3. JobOK([job[t] EXCEPT !.pc = "decide"], DOMAIN proposals', applied')
    BY <1>0, <2>1, <2>2, MovedJobOK
  <2>4. JobsOK' /\ job' \in [Task -> Job]
    BY <1>0, <2>1, <2>3, GoToKeepsJobs
  <2> QED BY <1>0, <2>1, <2>2, <2>4
<1> QED BY <1>1, <1>2

\* Writing an entity whose atom exists keeps the entities well typed and backed.
LEMMA PutEntityFacts ==
    ASSUME IInv, UNCHANGED atoms,
           NEW e, e \in [id : EntityId, kind : {"class", "instance"},
                         atom : atoms \cup {NoAtom}],
           PutEntity(e)
    PROVE  /\ DOMAIN entities' \subseteq EntityId
           /\ entities' \in [DOMAIN entities' -> Entity]
           /\ BackingAtomExists'
<1>1. /\ e.id \in EntityId /\ e.kind \in {"class", "instance"}
      /\ e.atom \in atoms \cup {NoAtom} /\ atoms \subseteq Atom
      /\ entities \in [DOMAIN entities -> Entity] /\ DOMAIN entities \subseteq EntityId
  BY DEF IInv, TypeOK
<1> DEFINE new == [kind |-> e.kind, atom |-> e.atom]
<1>2. new \in Entity /\ new.atom = e.atom
  BY <1>1 DEF Entity
<1> HIDE DEF new
<1>3. entities' = [i \in DOMAIN entities \cup {e.id} |->
                      IF i = e.id THEN new ELSE entities[i]]
  BY DEF PutEntity, new
<1>4. \A i \in DOMAIN entities : entities[i].atom \in atoms \cup {NoAtom}
  BY DEF IInv, BackingAtomExists
<1>5. DOMAIN entities' \subseteq EntityId /\ entities' \in [DOMAIN entities' -> Entity]
  BY <1>1, <1>2, <1>3
<1>6. \A i \in DOMAIN entities' : entities'[i].atom \in atoms \cup {NoAtom}
  BY <1>1, <1>2, <1>3, <1>4
<1> QED BY <1>5, <1>6 DEF BackingAtomExists

\* Submitting: the duplicate check and the insertion of a pending proposal.
LEMMA SubmitKeepsIInv ==
    ASSUME IInv, NEW t \in Task, SubmitDedupes(t) \/ \E p \in ProposalId : SubmitInserts(t, p)
    PROVE  IInv'
<1>0. TypeOK /\ JobsOK /\ job[t] \in Job /\ JobOK(job[t], DOMAIN proposals, applied)
  BY DEF IInv, TypeOK, JobsOK
<1>1. CASE SubmitDedupes(t)
  <2>1. UNCHANGED <<graphVars, proposals, applied>>
    BY <1>1 DEF SubmitDedupes
  <2>2. JobOK([job[t] EXCEPT !.pc = "insert"], DOMAIN proposals, applied)
    BY <1>0, <1>1, MovedJobOK DEF SubmitDedupes, JobOK
  <2>3. Return(t) \/ GoTo(t, "insert")
    BY <1>1 DEF SubmitDedupes
  <2>4. JobsOK' /\ job' \in [Task -> Job]
    BY <1>0, <2>1, <2>2, <2>3, ReturnKeepsJobs, GoToKeepsJobs
  <2> QED BY <2>1, <2>4 DEF IInv, TypeOK, graphVars, ApprovedWasApplied, Decided,
             BackingAtomExists
<1>2. CASE \E p \in ProposalId : SubmitInserts(t, p)
  <2> PICK p \in ProposalId : SubmitInserts(t, p)
    BY <1>2
  <2> DEFINE new == [payload |-> job[t].payload, status |-> "pending"]
  <2>1. new \in Proposal /\ new.status = "pending"
    BY <1>0 DEF SubmitInserts, JobOK, Proposal
  <2> HIDE DEF new
  <2>2. /\ proposals' = [q \in DOMAIN proposals \cup {p} |->
                            IF q = p THEN new ELSE proposals[q]]
        /\ p \notin DOMAIN proposals /\ Return(t) /\ UNCHANGED <<graphVars, applied>>
    BY DEF SubmitInserts, new
  <2>3. JobsOK' /\ job' \in [Task -> Job]
    BY <1>0, <2>2, ReturnKeepsJobs
  <2>4. /\ DOMAIN proposals' \subseteq ProposalId
        /\ proposals' \in [DOMAIN proposals' -> Proposal]
    BY <1>0, <2>1, <2>2 DEF TypeOK
  <2>5. ApprovedWasApplied'
    BY <2>1, <2>2 DEF IInv, ApprovedWasApplied, Decided
  <2> QED BY <2>2, <2>3, <2>4, <2>5 DEF IInv, TypeOK, graphVars, BackingAtomExists
<1> QED BY <1>1, <1>2

\* The calls that write the graph.
LEMMA GraphWritesKeepIInv ==
    ASSUME IInv, NEW t \in Task,
           PromoteReads(t) \/ WritesEntity(t) \/ ExtractTarget(t) \/ WritesLink(t)
             \/ WritesPersonLink(t)
    PROVE  IInv'
<1>0. TypeOK /\ JobsOK /\ job[t] \in Job /\ JobOK(job[t], DOMAIN proposals, applied)
  BY DEF IInv, TypeOK, JobsOK
<1> DEFINE d == job[t].payload
<1>1. CASE PromoteReads(t)
  <2>1. UNCHANGED <<graphVars, proposals, applied>>
    BY <1>1 DEF PromoteReads
  <2>2. /\ JobOK([job[t] EXCEPT !.pc = "link"], DOMAIN proposals, applied)
        /\ JobOK([job[t] EXCEPT !.pc = "entity"], DOMAIN proposals, applied)
    BY <1>0, <1>1, MovedJobOK DEF PromoteReads, JobOK
  <2>3. Return(t) \/ GoTo(t, "link") \/ GoTo(t, "entity")
    BY <1>1 DEF PromoteReads
  <2>4. JobsOK' /\ job' \in [Task -> Job]
    BY <1>0, <2>1, <2>2, <2>3, ReturnKeepsJobs, GoToKeepsJobs
  <2> QED BY <2>1, <2>4 DEF IInv, TypeOK, graphVars, ApprovedWasApplied, Decided,
             BackingAtomExists
<1>2. CASE WritesEntity(t)
  <2> DEFINE e == EntityToWrite(d)
  <2>0. UNCHANGED <<atoms, links, proposals>>
    BY <1>2 DEF WritesEntity
  <2>1. d \in NewEntity \cup PromoteAtom \cup Extraction
    BY <1>0, <1>2 DEF WritesEntity, JobOK
  <2>2. e \in [id : EntityId, kind : {"class", "instance"}, atom : Atom \cup {NoAtom}]
    BY <2>1, OntologyFacts DEF EntityToWrite, NewEntity, PromoteAtom, Extraction
  <2> HIDE DEF e
  <2>3. CASE e.atom \notin atoms \cup {NoAtom}
    <3>1. Return(t) /\ UNCHANGED <<entities, applied>>
      BY <1>2, <2>3 DEF WritesEntity, e
    <3>2. JobsOK' /\ job' \in [Task -> Job]
      BY <1>0, <2>0, <3>1, ReturnKeepsJobs
    <3> QED BY <2>0, <3>1, <3>2 DEF IInv, TypeOK, ApprovedWasApplied, Decided,
               BackingAtomExists
  <2>4. CASE e.atom \in atoms \cup {NoAtom}
    <3>1. PutEntity(e)
      BY <1>2, <2>4 DEF WritesEntity, e
    <3>2. /\ DOMAIN entities' \subseteq EntityId
          /\ entities' \in [DOMAIN entities' -> Entity]
          /\ BackingAtomExists'
      BY <2>0, <2>2, <2>4, <3>1, PutEntityFacts
    <3>3. \/ WriteDone(t)
          \/ d \in PromoteAtom /\ GoTo(t, "link") /\ UNCHANGED applied
          \/ d \in Extraction /\ GoTo(t, "target") /\ UNCHANGED applied
      <4>1. CASE d \in NewEntity
        BY <1>2, <2>4, <4>1 DEF WritesEntity, e, NewEntity
      <4>2. CASE d \in PromoteAtom
        BY <1>2, <2>4, <4>2 DEF WritesEntity, e, PromoteAtom
      <4>3. CASE d \in Extraction
        BY <1>2, <2>4, <4>3 DEF WritesEntity, e, Extraction
      <4> QED BY <2>1, <4>1, <4>2, <4>3
    <3>4. /\ JobsOK' /\ job' \in [Task -> Job]
          /\ applied \subseteq applied' /\ applied' \subseteq ProposalId
      <4>1. CASE WriteDone(t)
        BY <2>0, <4>1, WriteDoneKeepsJobs
      <4>2. CASE d \in PromoteAtom /\ GoTo(t, "link") /\ UNCHANGED applied
        <5>1. JobOK([job[t] EXCEPT !.pc = "link"], DOMAIN proposals, applied)
          BY <1>0, <4>2, MovedJobOK DEF JobOK
        <5> QED BY <1>0, <2>0, <4>2, <5>1, GoToKeepsJobs DEF TypeOK
      <4>3. CASE d \in Extraction /\ GoTo(t, "target") /\ UNCHANGED applied
        <5>1. JobOK([job[t] EXCEPT !.pc = "target"], DOMAIN proposals, applied)
          BY <1>0, <4>3, MovedJobOK DEF JobOK
        <5> QED BY <1>0, <2>0, <4>3, <5>1, GoToKeepsJobs DEF TypeOK
      <4> QED BY <3>3, <4>1, <4>2, <4>3
    <3> QED BY <2>0, <3>2, <3>4 DEF IInv, TypeOK, ApprovedWasApplied, Decided
  <2> QED BY <2>3, <2>4
<1>3. CASE ExtractTarget(t)
  <2> DEFINE stub == [id |-> d.to, kind |-> "instance", atom |-> NoAtom]
  <2>0. UNCHANGED <<atoms, links, proposals, applied>> /\ GoTo(t, "link")
    BY <1>3 DEF ExtractTarget
  <2>1. d \in Extraction
    BY <1>0, <1>3 DEF ExtractTarget, JobOK
  <2>2. stub \in [id : EntityId, kind : {"class", "instance"}, atom : atoms \cup {NoAtom}]
    BY <2>1 DEF Extraction
  <2> HIDE DEF stub
  <2>3. UNCHANGED entities \/ PutEntity(stub)
    BY <1>3 DEF ExtractTarget, stub
  <2>4. /\ DOMAIN entities' \subseteq EntityId
        /\ entities' \in [DOMAIN entities' -> Entity]
        /\ BackingAtomExists'
    <3>1. CASE UNCHANGED entities
      BY <2>0, <3>1 DEF IInv, TypeOK, BackingAtomExists
    <3>2. CASE PutEntity(stub)
      BY <2>0, <2>2, <3>2, PutEntityFacts
    <3> QED BY <2>3, <3>1, <3>2
  <2>5. JobOK([job[t] EXCEPT !.pc = "link"], DOMAIN proposals, applied)
    BY <1>0, <2>1, MovedJobOK DEF JobOK
  <2>6. JobsOK' /\ job' \in [Task -> Job]
    BY <1>0, <2>0, <2>5, GoToKeepsJobs
  <2> QED BY <2>0, <2>4, <2>6 DEF IInv, TypeOK, ApprovedWasApplied, Decided
<1>4. CASE WritesLink(t)
  <2>0. UNCHANGED <<atoms, entities, proposals>>
    BY <1>4 DEF WritesLink
  <2>1. d \in NewLink \cup PromoteAtom \cup Extraction
    BY <1>0, <1>4 DEF WritesLink, JobOK
  <2>2. LinkToWrite(d) \in EntityId \X EntityId \X Rel
    <3>1. CASE d \in NewLink
      BY <3>1 DEF LinkToWrite, NewLink
    <3>2. CASE d \in PromoteAtom
      BY <3>2, OntologyFacts DEF LinkToWrite, PromoteAtom
    <3>3. CASE d \in Extraction
      BY <3>3, OntologyFacts DEF LinkToWrite, Extraction
    <3> QED BY <2>1, <3>1, <3>2, <3>3
  <2>3. links' \subseteq EntityId \X EntityId \X Rel
    BY <1>0, <1>4, <2>2 DEF WritesLink, TypeOK
  <2>4. /\ JobsOK' /\ job' \in [Task -> Job]
        /\ applied \subseteq applied' /\ applied' \subseteq ProposalId
    <3>1. CASE ~MentionsPerson(d)
      <4>1. WriteDone(t)
        BY <1>4, <3>1 DEF WritesLink
      <4> QED BY <2>0, <4>1, WriteDoneKeepsJobs
    <3>2. CASE MentionsPerson(d)
      <4>1. GoTo(t, "person") /\ UNCHANGED applied
        BY <1>4, <3>2 DEF WritesLink
      <4>2. d \in Extraction
        BY <2>1, <3>2 DEF MentionsPerson, NewLink, PromoteAtom
      <4>3. JobOK([job[t] EXCEPT !.pc = "person"], DOMAIN proposals, applied)
        BY <1>0, <4>2, MovedJobOK DEF JobOK
      <4> QED BY <1>0, <2>0, <4>1, <4>3, GoToKeepsJobs DEF TypeOK
    <3> QED BY <3>1, <3>2
  <2> QED BY <2>0, <2>3, <2>4 DEF IInv, TypeOK, ApprovedWasApplied, Decided,
             BackingAtomExists
<1>5. CASE WritesPersonLink(t)
  <2>0. UNCHANGED <<atoms, entities, proposals>> /\ WriteDone(t)
    BY <1>5 DEF WritesPersonLink
  <2>1. d \in Extraction
    BY <1>0, <1>5 DEF WritesPersonLink, JobOK
  <2>2. links' \subseteq EntityId \X EntityId \X Rel
    BY <1>0, <1>5, <2>1, OntologyFacts DEF WritesPersonLink, TypeOK, Extraction
  <2>3. /\ JobsOK' /\ job' \in [Task -> Job]
        /\ applied \subseteq applied' /\ applied' \subseteq ProposalId
    BY <2>0, WriteDoneKeepsJobs
  <2> QED BY <2>0, <2>2, <2>3 DEF IInv, TypeOK, ApprovedWasApplied, Decided,
             BackingAtomExists
<1> QED BY <1>1, <1>2, <1>3, <1>4, <1>5

\* Recording a decision: an approval is recorded only once it was carried out.
LEMMA DecidesKeepsIInv ==
    ASSUME IInv, NEW t \in Task, Decides(t)
    PROVE  IInv'
<1> DEFINE p == job[t].for
           s == StatusOf(job[t].approve)
<1>0. TypeOK /\ JobsOK /\ job[t] \in Job
  BY DEF IInv, TypeOK
<1>1. p \in DOMAIN proposals /\ (job[t].approve => p \in applied)
  BY DEF Decides, IInv, JobsOK, JobOK
<1>2. Return(t) /\ UNCHANGED <<graphVars, applied>>
  BY DEF Decides
<1>3. /\ s \in {"approved", "rejected"}
      /\ s = "approved" => p \in applied
  BY <1>0, <1>1 DEF StatusOf, Job
<1> HIDE DEF s
<1>4. /\ DOMAIN proposals' = DOMAIN proposals
      /\ proposals' \in [DOMAIN proposals -> Proposal]
      /\ \A q \in DOMAIN proposals : q # p => proposals'[q] = proposals[q]
      /\ proposals'[p] = proposals[p] \/ proposals'[p].status = s
  <2>1. CASE StillPending(p)
    <3>1. proposals' = [proposals EXCEPT ![p].status = s]
      BY <2>1 DEF Decides, s
    <3> QED BY <1>0, <1>1, <1>3, <3>1 DEF TypeOK, Proposal
  <2>2. CASE ~StillPending(p)
    BY <1>0, <2>2 DEF Decides, TypeOK
  <2> QED BY <2>1, <2>2
<1>5. JobsOK' /\ job' \in [Task -> Job]
  BY <1>0, <1>2, <1>4, ReturnKeepsJobs
<1>6. ApprovedWasApplied'
  BY <1>1, <1>2, <1>3, <1>4 DEF IInv, ApprovedWasApplied, Decided
<1> QED BY <1>0, <1>2, <1>4, <1>5, <1>6 DEF IInv, TypeOK, graphVars, BackingAtomExists

\* The single calls: SET NULL keeps the entities backed when an atom goes.
LEMMA SingleCallKeepsIInv ==
    ASSUME IInv, SingleCall
    PROVE  IInv'
<1>0. UNCHANGED <<proposals, applied, job>>
  BY DEF SingleCall, HumanDeletesEntity, HumanDeletesLink, AtomIndexed, AtomDeleted,
         SweepPrunes
<1>1. ApprovedWasApplied' /\ JobsOK'
  BY <1>0 DEF IInv, ApprovedWasApplied, Decided, JobsOK
<1>2. /\ atoms \subseteq Atom /\ links \subseteq EntityId \X EntityId \X Rel
      /\ DOMAIN entities \subseteq EntityId /\ entities \in [DOMAIN entities -> Entity]
      /\ \A e \in DOMAIN entities : entities[e].atom \in atoms \cup {NoAtom}
  BY DEF IInv, TypeOK, BackingAtomExists
<1>3. /\ atoms' \subseteq Atom /\ links' \subseteq EntityId \X EntityId \X Rel
      /\ DOMAIN entities' \subseteq EntityId /\ entities' \in [DOMAIN entities' -> Entity]
      /\ \A e \in DOMAIN entities' : entities'[e].atom \in atoms' \cup {NoAtom}
  <2>1. CASE \E e \in EntityId : HumanDeletesEntity(e)
    BY <1>2, <2>1 DEF HumanDeletesEntity
  <2>2. CASE \E l \in links : HumanDeletesLink(l)
    BY <1>2, <2>2 DEF HumanDeletesLink
  <2>3. CASE \E a \in Atom : AtomIndexed(a)
    BY <1>2, <2>3 DEF AtomIndexed
  <2>4. CASE \E a \in Atom : AtomDeleted(a)
    <3> PICK a \in Atom : AtomDeleted(a)
      BY <2>4
    <3>1. /\ atoms' = atoms \ {a} /\ UNCHANGED links
          /\ DOMAIN entities' = DOMAIN entities
      BY DEF AtomDeleted, EntitiesWithout
    <3>2. ASSUME NEW e \in DOMAIN entities
          PROVE  entities'[e] \in Entity /\ entities'[e].atom \in atoms' \cup {NoAtom}
      <4>1. CASE entities[e].atom = a
        <5>1. entities'[e] = [entities[e] EXCEPT !.atom = NoAtom]
          BY <4>1 DEF AtomDeleted, EntitiesWithout
        <5> QED BY <1>2, <5>1 DEF Entity
      <4>2. CASE entities[e].atom # a
        <5>1. entities'[e] = entities[e]
          BY <4>2 DEF AtomDeleted, EntitiesWithout
        <5> QED BY <1>2, <3>1, <4>2, <5>1
      <4> QED BY <4>1, <4>2
    <3>3. entities' = [e \in DOMAIN entities |-> entities'[e]]
      BY DEF AtomDeleted, EntitiesWithout
    <3> QED BY <1>2, <3>1, <3>2, <3>3
  <2>5. CASE SweepPrunes
    BY <1>2, <2>5 DEF SweepPrunes
  <2> QED BY <2>1, <2>2, <2>3, <2>4, <2>5 DEF SingleCall
<1> QED BY <1>0, <1>1, <1>3 DEF IInv, TypeOK, BackingAtomExists

\* Every step keeps the invariant.
LEMMA NextIInv ==
    IInv /\ [Next]_vars => IInv'
<1> SUFFICES ASSUME IInv, [Next]_vars PROVE IInv'
  OBVIOUS
<1>1. CASE \E t \in Task : Start(t)
  BY <1>1, StartKeepsIInv
<1>2. CASE \E t \in Task : GoesOn(t)
  BY <1>2, SubmitKeepsIInv, GraphWritesKeepIInv, DecidesKeepsIInv DEF GoesOn
<1>3. CASE \E t \in Task : Crash(t)
  <2> PICK t \in Task : Crash(t)
    BY <1>3
  <2>1. Return(t) /\ UNCHANGED <<graphVars, proposals, applied>>
    BY DEF Crash
  <2>2. JobsOK' /\ job' \in [Task -> Job]
    BY <2>1, ReturnKeepsJobs DEF IInv
  <2> QED BY <2>1, <2>2 DEF IInv, TypeOK, graphVars, ApprovedWasApplied, Decided,
             BackingAtomExists
<1>4. CASE SingleCall
  BY <1>4, SingleCallKeepsIInv
<1>5. CASE UNCHANGED vars
  BY <1>5 DEF vars, graphVars, IInv, TypeOK, ApprovedWasApplied, Decided,
     BackingAtomExists, JobsOK
<1> QED BY <1>1, <1>2, <1>3, <1>4, <1>5 DEF Next

\* The invariant holds in every reachable state.
THEOREM Invariance == Spec => []IInv
<1>1. Init => IInv
  BY InitIInv
<1>2. IInv /\ [Next]_vars => IInv'
  BY NextIInv
<1> QED BY <1>1, <1>2, PTL DEF Spec

\* Every variable keeps its type, for any tasks, proposals, atoms and entities.
THEOREM TypeCorrect == Spec => []TypeOK
<1>1. IInv => TypeOK
  BY DEF IInv
<1> QED BY <1>1, Invariance, PTL

\* No proposal is approved that was not carried out (src/ontology/mod.rs:352-354).
THEOREM ApprovedMeansApplied == Spec => []ApprovedWasApplied
<1>1. IInv => ApprovedWasApplied
  BY DEF IInv
<1> QED BY <1>1, Invariance, PTL

\* No entity points to an atom without a row.
THEOREM EntitiesAreBacked == Spec => []BackingAtomExists
<1>1. IInv => BackingAtomExists
  BY DEF IInv
<1> QED BY <1>1, Invariance, PTL

\* No step changes a proposal that was decided: only the calls that insert and
\* decide touch the table, and both leave decided rows alone.
LEMMA StepKeepsDecided ==
    IInv /\ [Next]_vars => [DecidedStays]_vars
<1> SUFFICES ASSUME IInv, Next PROVE DecidedStays
  BY DEF DecidedStays, vars
<1>1. CASE UNCHANGED proposals
  BY <1>1 DEF DecidedStays
<1>2. CASE \E t \in Task, p \in ProposalId : SubmitInserts(t, p)
  BY <1>2 DEF SubmitInserts, DecidedStays
<1>3. CASE \E t \in Task : Decides(t)
  <2> PICK t \in Task : Decides(t)
    BY <1>3
  <2>1. job[t].for \in DOMAIN proposals
    BY DEF Decides, IInv, JobsOK, JobOK
  <2> QED BY <2>1 DEF Decides, StillPending, DecidedStays
<1>4. UNCHANGED proposals
      \/ (\E t \in Task, p \in ProposalId : SubmitInserts(t, p))
      \/ (\E t \in Task : Decides(t))
  <2>1. CASE \E t \in Task : Start(t)
    BY <2>1 DEF Start, StartSubmit, StartHumanWrite, StartDecide, StartExtract
  <2>2. CASE \E t \in Task : GoesOn(t)
    BY <2>2 DEF GoesOn, SubmitDedupes, PromoteReads, WritesEntity, ExtractTarget, WritesLink,
       WritesPersonLink
  <2>3. CASE \E t \in Task : Crash(t)
    BY <2>3 DEF Crash
  <2>4. CASE SingleCall
    BY <2>4 DEF SingleCall, HumanDeletesEntity, HumanDeletesLink, AtomIndexed,
       AtomDeleted, SweepPrunes
  <2> QED BY <2>1, <2>2, <2>3, <2>4 DEF Next
<1> QED BY <1>1, <1>2, <1>3, <1>4

\* A decision is never changed, however many humans decide at once.
THEOREM DecisionsStand == Spec => DecisionIsFinal
BY Invariance, StepKeepsDecided, PTL DEF Spec, DecisionIsFinal
============================================================================
