--------------------------- MODULE OntologyGraph ---------------------------
(***************************************************************************)
(* The ontology beside the atoms and its proposal queue                    *)
(* (src/ontology/mod.rs, src/ontology/extract.rs, src/http/proposals.rs,   *)
(* src/http/ontology_write.rs and their tables in src/store/mod.rs).       *)
(*                                                                         *)
(* Agents submit drafts, humans decide them or write directly, indexing    *)
(* extracts edges, and atoms come and go meanwhile.  A Task is one request *)
(* or job; it stops between every two store calls.  The reads with which a *)
(* draft is validated are one step.  An entity keeps its kind and the atom *)
(* behind it ("instance" stands for metrics too), a link its two ends and  *)
(* its relation.  The text of an atom mentions one entity.                 *)
(***************************************************************************)
EXTENDS FiniteSets, Naturals

CONSTANTS
    Task,
    ProposalId,
    Atom,
    EntityId,
    SeededClass,   \* SEEDED_CLASS_IDS
    EntOf,         \* [Atom -> EntityId]: "ent:{atom_id}"
    Rel,           \* OntologyLinkType
    SeededLink,    \* the is_a links between the seeded classes
    PersonClass,   \* CLASS_PERSON
    Person,        \* entities that texts mention as @name
    Drafts,        \* the payloads that agents and humans send
    NoAtom,
    NoProposal

PromoteAtom == [kind : {"promote_atom"}, atom : Atom, class : EntityId]
NewLink == [kind : {"new_link"}, from : EntityId, to : EntityId, rel : Rel]
NewEntity == [kind : {"new_entity"}, id : EntityId, as : {"class", "instance"},
              atom : Atom \cup {NoAtom}]
\* apply_extracted_edges for an atom that mentions one entity.
Extraction == [kind : {"extract"}, atom : Atom, to : EntityId]

Payload == PromoteAtom \cup NewLink \cup NewEntity
NoPayload == [kind |-> "none"]

ASSUME OntologyFacts ==
    /\ EntOf \in [Atom -> EntityId]
    /\ SeededClass \subseteq EntityId
    /\ {"instance_of", "references"} \subseteq Rel
    /\ SeededLink \subseteq EntityId \X EntityId \X Rel
    /\ PersonClass \in SeededClass
    /\ Person \subseteq EntityId
    /\ Drafts \subseteq Payload
    /\ NoAtom \notin Atom
    /\ NoProposal \notin ProposalId

VARIABLES
    atoms,      \* ids of knowledge_atoms
    entities,   \* ontology_entities: id -> kind and atom_id
    links,      \* ontology_links: <<from_id, to_id, rel>>
    proposals,  \* ontology_proposals: id -> payload and status
    applied,    \* history: the proposals whose mutation was carried out
    job         \* [Task -> what it does and the call it makes next]

graphVars == <<atoms, entities, links>>
vars == <<graphVars, proposals, applied, job>>

Entity == [kind : {"class", "instance"}, atom : Atom \cup {NoAtom}]
Proposal == [payload : Payload, status : {"pending", "approved", "rejected"}]

\* payload: what the job writes; for: the proposal it decides, if any.
Job == [pc : {"idle", "dedupe", "insert", "check", "entity", "target", "link", "person",
              "decide"},
        payload : Payload \cup Extraction \cup {NoPayload},
        for : ProposalId \cup {NoProposal},
        approve : BOOLEAN]

Idle == [pc |-> "idle", payload |-> NoPayload, for |-> NoProposal, approve |-> FALSE]

TypeOK ==
    /\ atoms \subseteq Atom
    /\ DOMAIN entities \subseteq EntityId
    /\ entities \in [DOMAIN entities -> Entity]
    /\ links \subseteq EntityId \X EntityId \X Rel
    /\ DOMAIN proposals \subseteq ProposalId
    /\ proposals \in [DOMAIN proposals -> Proposal]
    /\ applied \subseteq ProposalId
    /\ job \in [Task -> Job]

Init ==
    /\ atoms = {}
    /\ entities = [c \in SeededClass |-> [kind |-> "class", atom |-> NoAtom]]
    /\ links = SeededLink
    /\ proposals = [p \in {} |-> NoProposal]
    /\ applied = {}
    /\ job = [t \in Task |-> Idle]

----------------------------------------------------------------------------
(* Control                                                                 *)

Begin(t, j) ==
    /\ job[t].pc = "idle"
    /\ job' = [job EXCEPT ![t] = j]

GoTo(t, label) == job' = [job EXCEPT ![t].pc = label]

Return(t) == job' = [job EXCEPT ![t] = Idle]

HasEntity(e) == e \in DOMAIN entities
IsClass(e) == HasEntity(e) /\ entities[e].kind = "class"

\* validate_proposal
Valid(d) ==
    CASE d.kind = "promote_atom" -> d.atom \in atoms /\ IsClass(d.class)
      [] d.kind = "new_link"     -> /\ HasEntity(d.from) /\ HasEntity(d.to)
                                    /\ <<d.from, d.to, d.rel>> \notin links
      [] d.kind = "new_entity"   -> /\ ~HasEntity(d.id)
                                    /\ d.atom \in atoms \cup {NoAtom}

----------------------------------------------------------------------------
(* Submitting a draft                                                      *)

StartSubmit(t, d) ==
    /\ Valid(d)
    /\ Begin(t, [Idle EXCEPT !.pc = "dedupe", !.payload = d])
    /\ UNCHANGED <<graphVars, proposals, applied>>

Pending == {p \in DOMAIN proposals : proposals[p].status = "pending"}

\* A duplicate of a pending draft is refused.
SubmitDedupes(t) ==
    /\ job[t].pc = "dedupe"
    /\ IF \E p \in Pending : proposals[p].payload = job[t].payload
       THEN Return(t) ELSE GoTo(t, "insert")
    /\ UNCHANGED <<graphVars, proposals, applied>>

SubmitInserts(t, p) ==
    /\ job[t].pc = "insert"
    /\ p \notin DOMAIN proposals
    /\ proposals' = [q \in DOMAIN proposals \cup {p} |->
                        IF q = p THEN [payload |-> job[t].payload, status |-> "pending"]
                                 ELSE proposals[q]]
    /\ Return(t)
    /\ UNCHANGED <<graphVars, applied>>

----------------------------------------------------------------------------
(* Starting the jobs that write the graph                                  *)

\* The first call of apply_proposal.
FirstCall(d) == CASE d.kind = "promote_atom" -> "check"
                  [] d.kind = "new_link"     -> "link"
                  [] d.kind = "new_entity"   -> "entity"

\* Fault: the decision recorded before the mutation.
DecidesFirst(d, approve) == "decide"

AfterPendingCheck(d, approve) == IF approve THEN FirstCall(d) ELSE "decide"

\* decide_proposal up to its check that the proposal is pending.
StartDecide(t, p, approve) ==
    /\ p \in Pending
    /\ LET d == proposals[p].payload IN
       Begin(t, [pc |-> AfterPendingCheck(d, approve), payload |-> d,
                 for |-> p, approve |-> approve])
    /\ UNCHANGED <<graphVars, proposals, applied>>

\* The human lane: create_entity and create_link validate and write.
StartHumanWrite(t, d) ==
    /\ d.kind \in {"new_link", "new_entity"}
    /\ Valid(d)
    /\ Begin(t, [Idle EXCEPT !.pc = FirstCall(d), !.payload = d])
    /\ UNCHANGED <<graphVars, proposals, applied>>

\* apply_extracted_edges reads the entity of the atom.
StartExtract(t, d) ==
    /\ d.atom \in atoms
    /\ d.to # EntOf[d.atom]
    /\ Begin(t, [Idle EXCEPT !.pc = IF HasEntity(EntOf[d.atom]) THEN "target" ELSE "entity",
                             !.payload = d])
    /\ UNCHANGED <<graphVars, proposals, applied>>

----------------------------------------------------------------------------
(* Their calls.  The last write of a decision is followed by the decision. *)

WriteDone(t) ==
    IF job[t].for = NoProposal
    THEN Return(t) /\ UNCHANGED applied
    ELSE GoTo(t, "decide") /\ applied' = applied \cup {job[t].for}

\* promote_atom_to_entity: the atom, the class, and whether the entity exists.
PromoteReads(t) ==
    /\ job[t].pc = "check"
    /\ LET d == job[t].payload IN
       IF d.atom \notin atoms \/ ~IsClass(d.class) THEN Return(t)
       ELSE GoTo(t, IF HasEntity(EntOf[d.atom]) THEN "link" ELSE "entity")
    /\ UNCHANGED <<graphVars, proposals, applied>>

\* The row that the job upserts, under its id.
EntityToWrite(d) ==
    IF d.kind = "new_entity" THEN [id |-> d.id, kind |-> d.as, atom |-> d.atom]
    ELSE [id |-> EntOf[d.atom], kind |-> "instance", atom |-> d.atom]

PutEntity(e) ==
    entities' = [i \in DOMAIN entities \cup {e.id} |->
                    IF i = e.id THEN [kind |-> e.kind, atom |-> e.atom] ELSE entities[i]]

\* The foreign key refuses an atom that is gone; the call fails.
WritesEntity(t) ==
    LET d == job[t].payload
        e == EntityToWrite(d)
    IN /\ job[t].pc = "entity"
       /\ IF e.atom \notin atoms \cup {NoAtom}
          THEN Return(t) /\ UNCHANGED <<entities, applied>>
          ELSE /\ PutEntity(e)
               /\ CASE d.kind = "new_entity"   -> WriteDone(t)
                    [] d.kind = "promote_atom" -> GoTo(t, "link") /\ UNCHANGED applied
                    [] d.kind = "extract"      -> GoTo(t, "target") /\ UNCHANGED applied
       /\ UNCHANGED <<atoms, links, proposals>>

\* The mentioned entity gets a stub when it is not there.
ExtractTarget(t) ==
    LET to == job[t].payload.to IN
    /\ job[t].pc = "target"
    /\ IF HasEntity(to) THEN UNCHANGED entities
       ELSE PutEntity([id |-> to, kind |-> "instance", atom |-> NoAtom])
    /\ GoTo(t, "link")
    /\ UNCHANGED <<atoms, links, proposals, applied>>

LinkToWrite(d) ==
    CASE d.kind = "new_link"     -> <<d.from, d.to, d.rel>>
      [] d.kind = "promote_atom" -> <<EntOf[d.atom], d.class, "instance_of">>
      [] d.kind = "extract"      -> <<EntOf[d.atom], d.to, "references">>

MentionsPerson(d) == d.kind = "extract" /\ d.to \in Person

\* Links have no foreign key: the ends may be gone by now.
WritesLink(t) ==
    /\ job[t].pc = "link"
    /\ links' = links \cup {LinkToWrite(job[t].payload)}
    /\ IF MentionsPerson(job[t].payload)
       THEN GoTo(t, "person") /\ UNCHANGED applied
       ELSE WriteDone(t)
    /\ UNCHANGED <<atoms, entities, proposals>>

\* A mentioned person is linked to its class as well.
WritesPersonLink(t) ==
    /\ job[t].pc = "person"
    /\ links' = links \cup {<<job[t].payload.to, PersonClass, "instance_of">>}
    /\ WriteDone(t)
    /\ UNCHANGED <<atoms, entities, proposals>>

\* Faults: the update not limited to pending rows, the action's word stored.
DecidesAnyStatus(p) == TRUE
ActionWord(approve) == IF approve THEN "approve" ELSE "reject"

StillPending(p) == proposals[p].status = "pending"
StatusOf(approve) == IF approve THEN "approved" ELSE "rejected"

\* decide_ontology_proposal: the first decision is kept.
Decides(t) ==
    LET p == job[t].for IN
    /\ job[t].pc = "decide"
    /\ proposals' = IF StillPending(p)
                    THEN [proposals EXCEPT ![p].status = StatusOf(job[t].approve)]
                    ELSE proposals
    /\ Return(t)
    /\ UNCHANGED <<graphVars, applied>>

----------------------------------------------------------------------------
(* Single calls                                                            *)

HumanDeletesEntity(e) ==
    /\ HasEntity(e)
    /\ entities' = [i \in DOMAIN entities \ {e} |-> entities[i]]
    /\ links' = {l \in links : l[1] # e /\ l[2] # e}
    /\ UNCHANGED <<atoms, proposals, applied, job>>

HumanDeletesLink(l) ==
    /\ l \in links
    /\ links' = links \ {l}
    /\ UNCHANGED <<atoms, entities, proposals, applied, job>>

AtomIndexed(a) ==
    /\ a \notin atoms
    /\ atoms' = atoms \cup {a}
    /\ UNCHANGED <<entities, links, proposals, applied, job>>

\* Fault: no ON DELETE action on the foreign key.
KeepsAtomId(a) == entities

\* ON DELETE SET NULL
EntitiesWithout(a) ==
    [e \in DOMAIN entities |->
        IF entities[e].atom = a THEN [entities[e] EXCEPT !.atom = NoAtom] ELSE entities[e]]

AtomDeleted(a) ==
    /\ a \in atoms
    /\ atoms' = atoms \ {a}
    /\ entities' = EntitiesWithout(a)
    /\ UNCHANGED <<links, proposals, applied, job>>

\* prune_stale_ontology.  Its second statement deletes entities with an atom_id
\* that has no row.
SweepPrunes ==
    LET orphans == {e \in DOMAIN entities : entities[e].atom \notin atoms \cup {NoAtom}}
    IN /\ links' = {l \in links : HasEntity(l[1]) /\ HasEntity(l[2])}
       /\ entities' = [e \in DOMAIN entities \ orphans |-> entities[e]]
       /\ <<links', entities'>> # <<links, entities>>
       /\ UNCHANGED <<atoms, proposals, applied, job>>

\* The process stops, or a store call returns an error.
Crash(t) ==
    /\ job[t].pc # "idle"
    /\ Return(t)
    /\ UNCHANGED <<graphVars, proposals, applied>>

Start(t) ==
    \/ \E d \in Drafts : StartSubmit(t, d) \/ StartHumanWrite(t, d)
    \/ \E p \in ProposalId, approve \in BOOLEAN : StartDecide(t, p, approve)
    \/ \E d \in Extraction : StartExtract(t, d)

GoesOn(t) ==
    \/ SubmitDedupes(t)
    \/ \E p \in ProposalId : SubmitInserts(t, p)
    \/ PromoteReads(t)
    \/ WritesEntity(t)
    \/ ExtractTarget(t)
    \/ WritesLink(t)
    \/ WritesPersonLink(t)
    \/ Decides(t)

SingleCall ==
    \/ \E e \in EntityId : HumanDeletesEntity(e)
    \/ \E l \in links : HumanDeletesLink(l)
    \/ \E a \in Atom : AtomIndexed(a) \/ AtomDeleted(a)
    \/ SweepPrunes

Next == (\E t \in Task : Start(t) \/ GoesOn(t) \/ Crash(t)) \/ SingleCall

Spec == Init /\ [][Next]_vars

----------------------------------------------------------------------------
(* Properties                                                              *)

Decided(status) == {p \in DOMAIN proposals : proposals[p].status = status}

\* An approved proposal was carried out: approval applies the mutation first and
\* a failed or interrupted apply leaves the proposal pending, whoever else
\* decides, deletes or crashes meanwhile (src/ontology/mod.rs:352-354).
ApprovedWasApplied == Decided("approved") \subseteq applied

\* What a step does to the proposals that were decided before it.
DecidedStays ==
    \A p \in DOMAIN proposals :
        proposals[p].status # "pending" =>
            p \in DOMAIN proposals' /\ proposals'[p] = proposals[p]

\* The first decision stands: of two humans who both saw the proposal pending
\* the second gets a conflict (src/store/mod.rs, decide_ontology_proposal).
DecisionIsFinal == [][DecidedStays]_vars

\* An entity never points to an atom that has no row, although the atom may be
\* deleted between the check of a draft and the write of the entity.
BackingAtomExists ==
    \A e \in DOMAIN entities : entities[e].atom \in atoms \cup {NoAtom}

\* Rejection mutates nothing (src/ontology/mod.rs:354): no rejected proposal was
\* carried out.
RejectedWasNotApplied == Decided("rejected") \cap applied = {}
============================================================================
