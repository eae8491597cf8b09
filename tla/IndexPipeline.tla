--------------------------- MODULE IndexPipeline ---------------------------
(***************************************************************************)
(* The write paths into the atom store: IndexPipeline::index_connector     *)
(* (src/pipeline/mod.rs), POST /ingest (src/http/ingest.rs), remember      *)
(* (src/mcp/brain.rs) and promote (src/quality/promote.rs), with the       *)
(* synchronous quality gate and the write-containment policy they share.   *)
(*                                                                         *)
(* Each of them reads the store, decides, and writes later.  A Worker is a *)
(* task that runs one of them at a time: the daemon, an MCP child process, *)
(* an HTTP handler, a CLI command.  The store's mutex covers one call, and *)
(* between processes SQLite serialises single statements and transactions, *)
(* so a worker stops between every two calls; Crash also stands for any    *)
(* call that returns an error the code passes on.                          *)
(*                                                                         *)
(* Abstracted: what a tag or a body says (Tagged, Substantial), the time   *)
(* stamps and labels of a row, the best-effort multivector and edge passes *)
(* and the inbox tray.  A batch is a set: its atoms are taken in any order.*)
(***************************************************************************)
EXTENDS AtomStore

CONSTANTS
    Worker,
    AgentSource,        \* "agent", the source of remembered atoms
    IngestSource,       \* "ingest", the source of ingested atoms
    QuarantineSources,  \* sources configured with default_trust_lane quarantine
    Tagged,             \* atoms with a tag that is not blank
    Substantial,        \* atoms long and varied enough for the trusted lane
    Declares,           \* [Atom -> SUBSET Atom]: frontmatter `supersedes:`
    EmbedLive,          \* the embedder is configured
    EmbedResults,       \* what a successful embedding may be
    SharedClosed,       \* WriteMode::SharedClosed
    Similar             \* pairs {a, b} that near-duplicate passes of other processes fold

ASSUME PipelineFacts ==
    /\ {AgentSource, IngestSource} \subseteq Source
    /\ AgentSource # IngestSource
    /\ Tagged \subseteq Atom
    /\ Declares \in [Atom -> SUBSET Atom]
    /\ EmbedResults \subseteq Embedding \ {"none"}

VARIABLES
    op,       \* [Worker -> Op]: what the worker runs
    pc,       \* [Worker -> Label]: the call it makes next
    batch,    \* the atoms it writes
    todo,     \* the atoms the loop at `pc` has left
    lane,     \* trust_lane of each atom of the batch
    emb,      \* embedding of each atom of the batch
    pending,  \* pending_idx: the atoms that need a vector
    cli,      \* the transport is the operator's CLI
    rowid,    \* the rowid that remember has read, in a set
    overtaken \* history: the atoms merged away between the statements of their remember

jobVars == <<op, pc, batch, todo, lane, emb, pending, cli, rowid>>
vars == <<storeVars, jobVars, overtaken>>

Op == {"none", "index", "ingest", "remember", "promote"}

Label == {"idle", "delete", "gate", "plan", "embed", "write", "mark",
          "row", "fts", "vec", "reget", "set"}

NullEmbeddings == [a \in Atom |-> "null"]    \* fault: a default no column takes

NoLanes == [a \in Atom |-> "quarantine"]
NoEmbeddings == [a \in Atom |-> "none"]

TypeOK ==
    /\ AtomStoreTypeOK
    /\ op \in [Worker -> Op]
    /\ pc \in [Worker -> Label]
    /\ batch \in [Worker -> SUBSET Atom]
    /\ todo \in [Worker -> SUBSET Atom]
    /\ lane \in [Worker -> [Atom -> Lane]]
    /\ emb \in [Worker -> [Atom -> Embedding]]
    /\ pending \in [Worker -> SUBSET Atom]
    /\ cli \in [Worker -> BOOLEAN]
    /\ rowid \in [Worker -> SUBSET RowId]
    /\ overtaken \subseteq Atom

Init ==
    /\ AtomStoreInit
    /\ op = [w \in Worker |-> "none"]
    /\ pc = [w \in Worker |-> "idle"]
    /\ batch = [w \in Worker |-> {}]
    /\ todo = [w \in Worker |-> {}]
    /\ lane = [w \in Worker |-> NoLanes]
    /\ emb = [w \in Worker |-> NoEmbeddings]
    /\ pending = [w \in Worker |-> {}]
    /\ cli = [w \in Worker |-> FALSE]
    /\ rowid = [w \in Worker |-> {}]
    /\ overtaken = {}

----------------------------------------------------------------------------
(* Control                                                                 *)

Begin(w, o, label, atoms, operator) ==
    /\ pc[w] = "idle"
    /\ op' = [op EXCEPT ![w] = o]
    /\ pc' = [pc EXCEPT ![w] = label]
    /\ batch' = [batch EXCEPT ![w] = atoms]
    /\ todo' = [todo EXCEPT ![w] = atoms]
    /\ cli' = [cli EXCEPT ![w] = operator]
    /\ UNCHANGED <<storeVars, lane, emb, pending, rowid>>

\* The worker returns, and what it held in memory is gone.
Finish(w) ==
    /\ op' = [op EXCEPT ![w] = "none"]
    /\ pc' = [pc EXCEPT ![w] = "idle"]
    /\ batch' = [batch EXCEPT ![w] = {}]
    /\ todo' = [todo EXCEPT ![w] = {}]
    /\ lane' = [lane EXCEPT ![w] = NoLanes]
    /\ emb' = [emb EXCEPT ![w] = NoEmbeddings]
    /\ pending' = [pending EXCEPT ![w] = {}]
    /\ cli' = [cli EXCEPT ![w] = FALSE]
    /\ rowid' = [rowid EXCEPT ![w] = {}]

\* Goes on to the call at `label`, a loop over `atoms`.
GoTo(w, label, atoms) ==
    /\ pc' = [pc EXCEPT ![w] = label]
    /\ todo' = [todo EXCEPT ![w] = atoms]

\* The loop at `here` is done with `a`; after its last atom the worker goes on
\* to `next`, which loops over the batch again.
LoopStep(w, a, here, next) ==
    IF todo[w] = {a} THEN GoTo(w, next, batch[w])
                     ELSE GoTo(w, here, todo[w] \ {a})

----------------------------------------------------------------------------
(* Starting a job                                                          *)

AtomsOf(s) == {a \in Atom : SourceOf[a] = s}

\* The connector has answered poll or full_sync with these atoms.
StartIndex(w, s, full, atoms) ==
    /\ s \notin {AgentSource, IngestSource}
    /\ atoms \subseteq AtomsOf(s)
    /\ full \/ atoms # {}
    /\ Begin(w, "index", IF full THEN "delete" ELSE "gate", atoms, FALSE)

\* atomize_bytes has parsed the body into these atoms.
StartIngest(w, atoms) ==
    /\ atoms \subseteq AtomsOf(IngestSource)
    /\ atoms # {}
    /\ Begin(w, "ingest", "gate", atoms, FALSE)

\* A remembered atom has a new id: the clock and a counter are part of it.  An id
\* of which nothing is left stands for a new one.
StartRemember(w, a, operator) ==
    /\ a \in AtomsOf(AgentSource) \ (Live \cup overtaken)
    /\ \A v \in Worker : a \notin batch[v]
    /\ Begin(w, "remember", "gate", {a}, operator)

PromoteAnyone(operator) == TRUE    \* fault: the policy is not asked

PromoteAllowed(operator) == ~SharedClosed \/ operator

\* promote_atom_with_mode up to its `get` and the check of the lane.
StartPromote(w, a, operator) ==
    /\ PromoteAllowed(operator)
    /\ a \in Live
    /\ row[a].lane = "quarantine"
    /\ Begin(w, "promote", "reget", {a}, operator)

----------------------------------------------------------------------------
(* The steps of index_connector                                            *)

FullSyncDeletes(w, s) ==
    /\ pc[w] = "delete"
    /\ s \notin {AgentSource, IngestSource}
    /\ batch[w] \subseteq AtomsOf(s)
    /\ DeleteSource(s)
    /\ IF batch[w] = {}
       THEN Finish(w)
       ELSE /\ GoTo(w, "gate", batch[w])
            /\ UNCHANGED <<op, batch, lane, emb, pending, cli, rowid>>

SeenNothing(w) == {}    \* fault: the batch is only compared with the store

\* batch_seen_hashes: the contents the gate loop has been through, whatever
\* lane it gave them.
BatchSeen(w) == {ContentOf[b] : b \in batch[w] \ todo[w]}

Evaluate(a) == GateLane(a, a \in Tagged, a \in Substantial)

\* WriteContext::contains_writes
ContainsWrites(w) == SharedClosed /\ ~cli[w]

\* The lane after evaluate, apply_gate and what each path puts on top of it.
GatedLanes(w, a) ==
    CASE op[w] = "index" ->
            IF ContentOf[a] \in BatchSeen(w) \/ SourceOf[a] \in QuarantineSources
            THEN {"quarantine"} ELSE Evaluate(a)
      [] op[w] = "ingest" ->
            IF ContentOf[a] \in BatchSeen(w) \/ ContainsWrites(w)
            THEN {"quarantine"} ELSE Evaluate(a)
      [] OTHER ->
            IF ContainsWrites(w) THEN {"quarantine"} ELSE Evaluate(a)

\* Ingest and remember embed an atom as soon as it is gated trusted, and go on
\* without a vector when that fails.
InlineEmbedding(w, l) ==
    IF op[w] # "index" /\ l = "trusted" /\ EmbedLive
    THEN EmbedResults \cup {"none"} ELSE {"none"}

AfterGate(w) ==
    CASE op[w] = "index"  -> IF EmbedLive THEN "plan" ELSE "write"
      [] op[w] = "ingest" -> "write"
      [] OTHER            -> "row"

Gate(w, a) ==
    /\ pc[w] = "gate"
    /\ a \in todo[w]
    /\ \E l \in GatedLanes(w, a) : \E e \in InlineEmbedding(w, l) :
          /\ lane' = [lane EXCEPT ![w][a] = l]
          /\ emb' = [emb EXCEPT ![w][a] = e]
    /\ LoopStep(w, a, "gate", AfterGate(w))
    /\ UNCHANGED <<storeVars, op, batch, pending, cli, rowid>>

\* Trusted atoms that have no vector for this content are embedded; for the
\* others the write keeps the stored vector (hash-skip).
PlanEmbed(w, a) ==
    /\ pc[w] = "plan"
    /\ a \in todo[w]
    /\ pending' = [pending EXCEPT ![w] =
          IF lane[w][a] = "trusted" /\ ~HasFreshEmbedding(a) THEN @ \cup {a} ELSE @]
    /\ LoopStep(w, a, "plan", "embed")
    /\ UNCHANGED <<storeVars, op, batch, lane, emb, cli, rowid>>

\* A failing embed_batch ends the run: that is Crash.
EmbedBatch(w) ==
    /\ pc[w] = "embed"
    /\ \E r \in [pending[w] -> EmbedResults] :
          emb' = [emb EXCEPT ![w] =
                     [a \in Atom |-> IF a \in pending[w] THEN r[a] ELSE @[a]]]
    /\ GoTo(w, "write", batch[w])
    /\ UNCHANGED <<storeVars, op, batch, lane, pending, cli, rowid>>

\* upsert_batch of index_connector and of ingest_post.
WriteBatch(w) ==
    /\ pc[w] = "write"
    /\ ~UpsertFails(batch[w], lane[w], emb[w])
    /\ UpsertBatch(batch[w], lane[w], emb[w])
    /\ IF op[w] = "index"
       THEN /\ GoTo(w, "mark", batch[w])
            /\ UNCHANGED <<op, batch, lane, emb, pending, cli, rowid>>
       ELSE Finish(w)

WriteBatchRollsBack(w) ==
    /\ pc[w] = "write"
    /\ UpsertFails(batch[w], lane[w], emb[w])
    /\ UNCHANGED storeVars
    /\ Finish(w)

\* resolve_supersede_targets: the rows that `a` names.
SupersedeTargets(a) == Declares[a] \cap Live

\* mark_superseded marks them one by one.  `a` may be gone by then; the marks are
\* set all the same.  An error leaves the rest unmarked and is a warning: the
\* loop goes on.
MarkSupersedes(w, a) ==
    /\ pc[w] = "mark"
    /\ a \in todo[w]
    /\ \E ids \in SUBSET SupersedeTargets(a) : MarkSuperseded(ids, a)
    /\ IF todo[w] = {a}
       THEN Finish(w)
       ELSE /\ GoTo(w, "mark", todo[w] \ {a})
            /\ UNCHANGED <<op, batch, lane, emb, pending, cli, rowid>>

----------------------------------------------------------------------------
(* remember writes with `upsert`, whose statements commit one by one: what *)
(* other processes write may come between them.                            *)

\* The row and the read of its rowid; a row gone before the read is an error.
RememberRow(w, a) ==
    /\ pc[w] = "row"
    /\ a \in batch[w]
    /\ \E f \in FreshRids({a} \ Live) :
          /\ row' = RowAfterUpsert({a}, lane[w], f)
          /\ rowid' = [rowid EXCEPT ![w] = {row'[a].rid}]
    /\ GoTo(w, "fts", batch[w])
    /\ UNCHANGED <<fts, vec, op, batch, lane, emb, pending, cli>>

\* Whether the row still lives is not asked again.
RememberFts(w, a) ==
    /\ pc[w] = "fts"
    /\ a \in batch[w]
    /\ fts' = fts \cup {a}
    /\ GoTo(w, "vec", batch[w])
    /\ UNCHANGED <<row, vec, op, batch, lane, emb, pending, cli, rowid>>

\* At the rowid that was read: the vector there is deleted, then the new one
\* inserted, unless there is none or the worker stops in between.
RememberVec(w, a) ==
    /\ pc[w] = "vec"
    /\ a \in batch[w]
    /\ \E r \in rowid[w] : \E e \in {emb[w], NoEmbeddings} :
          vec' = VecAfterUpsert({a}, lane[w], e, {a}, [b \in {a} |-> [rid |-> r]])
    /\ UNCHANGED <<row, fts>>
    /\ Finish(w)

----------------------------------------------------------------------------
(* promote                                                                 *)

\* evaluate of promote_atom_with_mode, on the atom that `get` returned.
PromoteEvaluates(w, a) ==
    /\ pc[w] = "reget"
    /\ a \in batch[w]
    /\ \E l \in Evaluate(a) :
          IF l = "trusted"
          THEN /\ GoTo(w, "set", batch[w])
               /\ UNCHANGED <<op, batch, lane, emb, pending, cli, rowid>>
          ELSE Finish(w)
    /\ UNCHANGED storeVars

PromoteSets(w, a) ==
    /\ pc[w] = "set"
    /\ a \in batch[w]
    /\ SetTrustLane(a, "trusted")
    /\ Finish(w)

\* set_trust_lane finds no row.
PromoteFindsNoRow(w, a) ==
    /\ pc[w] = "set"
    /\ a \in batch[w] \ Live
    /\ UNCHANGED storeVars
    /\ Finish(w)

----------------------------------------------------------------------------

\* The process stops, or a call fails and the error is passed on.  A
\* transaction that had not committed leaves nothing.
Crash(w) ==
    /\ pc[w] # "idle"
    /\ UNCHANGED storeVars
    /\ Finish(w)

Start(w) ==
    \/ \E s \in Source, full \in BOOLEAN : \E atoms \in SUBSET AtomsOf(s) :
          StartIndex(w, s, full, atoms)
    \/ \E atoms \in SUBSET AtomsOf(IngestSource) : StartIngest(w, atoms)
    \/ \E a \in Atom, operator \in BOOLEAN : StartRemember(w, a, operator)
    \/ \E a \in Atom, operator \in BOOLEAN : StartPromote(w, a, operator)

Work(w) ==
    \/ \E s \in Source : FullSyncDeletes(w, s)
    \/ \E a \in Atom : Gate(w, a)
    \/ \E a \in Atom : PlanEmbed(w, a)
    \/ EmbedBatch(w)
    \/ WriteBatch(w)
    \/ WriteBatchRollsBack(w)
    \/ \E a \in Atom : MarkSupersedes(w, a)
    \/ \E a \in Atom : RememberRow(w, a)
    \/ \E a \in Atom : RememberFts(w, a)
    \/ \E a \in Atom : RememberVec(w, a)
    \/ \E a \in Atom : PromoteEvaluates(w, a)
    \/ \E a \in Atom : PromoteSets(w, a)
    \/ \E a \in Atom : PromoteFindsNoRow(w, a)

\* A near-duplicate pass of another process deletes the row of `loser`, trusted only
\* if it is an exact copy of a trusted survivor.  Listing and merging are one step
\* here: Consolidation has the pass whose lists grow old.
NearDupeMerges(survivor, loser) ==
    /\ survivor # loser /\ {survivor, loser} \in Similar
    /\ {survivor, loser} \subseteq Live
    /\ Trusted(loser) => Trusted(survivor) /\ ContentOf[survivor] = ContentOf[loser]
    /\ ApplyAutoMerge(survivor, loser, row[survivor].lane)
    /\ overtaken' = IF \E w \in Worker : pc[w] \in {"fts", "vec"} /\ loser \in batch[w]
                    THEN overtaken \cup {loser} ELSE overtaken
    /\ UNCHANGED jobVars

Next ==
    \/ (\E w \in Worker : Start(w) \/ Work(w) \/ Crash(w)) /\ UNCHANGED overtaken
    \/ \E survivor, loser \in Atom : NearDupeMerges(survivor, loser)

Spec == Init /\ [][Next]_vars

----------------------------------------------------------------------------
(* Where a worker may be, and what it then holds.  The proofs rest on it:  *)
(* remembered atoms are apart from what every other writer touches, and a  *)
(* contained job has nothing in hand for the trusted lane.                 *)

\* Which calls each operation makes.
LabelsOf(o) == CASE o = "none"     -> {"idle"}
                 [] o = "index"    -> {"delete", "gate", "plan", "embed", "write", "mark"}
                 [] o = "ingest"   -> {"gate", "write"}
                 [] o = "remember" -> {"gate", "row", "fts", "vec"}
                 [] o = "promote"  -> {"reget", "set"}

\* Which atoms each operation may write.
WritableBy(o) == CASE o = "none"     -> {}
                   [] o = "index"    -> Atom \ (AtomsOf(AgentSource) \cup AtomsOf(IngestSource))
                   [] o = "ingest"   -> AtomsOf(IngestSource)
                   [] o = "remember" -> AtomsOf(AgentSource)
                   [] o = "promote"  -> Atom

JobsInOrder ==
    \A w \in Worker : /\ pc[w] \in LabelsOf(op[w])
                      /\ batch[w] \subseteq WritableBy(op[w])
                      /\ op[w] = "remember" => \E a \in Atom : batch[w] = {a}

\* Until a remembered atom is written no row and no other job has its id.
RememberedIsNew ==
    \A w \in Worker : op[w] = "remember" /\ pc[w] \in {"gate", "row"} =>
        /\ batch[w] \cap (Live \cup overtaken) = {}
        /\ \A v \in Worker \ {w} : batch[w] \cap batch[v] = {}

\* Between its statements the row is there, at the rowid that was read and in the
\* lane it was gated for or, promoted meanwhile, in the trusted one; unless the atom
\* was merged away, and then it does not come back.
RememberedRowStays ==
    /\ overtaken \subseteq AtomsOf(AgentSource) \ Live
    /\ \A w \in Worker : pc[w] \in {"fts", "vec"} =>
          \A a \in batch[w] \ overtaken :
              /\ a \in Live /\ (lane[w][a] = "trusted" => Trusted(a))
              /\ rowid[w] = {row[a].rid}

ContainedJobs ==
    SharedClosed => \A w \in Worker :
        /\ op[w] = "promote" => cli[w]
        /\ op[w] = "none" \/ (op[w] \in {"ingest", "remember"} /\ ~cli[w])
              => \A a \in Atom : lane[w][a] = "quarantine"

JobsInv == JobsInOrder /\ RememberedIsNew /\ RememberedRowStays /\ ContainedJobs

----------------------------------------------------------------------------
(* Properties                                                              *)

\* No vector is found under the rowid of another atom, and none in quarantine,
\* whichever of delete, write and crash comes between two calls of a writer; except
\* the vector of an atom whose row another process merged away while remember was
\* writing it, which goes where the row was.
VectorsStayWithTheirRows == VectorsBelong(overtaken)
QuarantineStaysUnembedded == QuarantineHasNoVector(overtaken)

\* Full-text entries never outlive their row, with the same exception: remember
\* inserts the entry of a row that was merged away meanwhile.  And only remember,
\* which writes a row and its entry apart, can leave an atom that text search
\* misses.
FtsFollowsRows ==
    /\ fts \subseteq Live \cup overtaken
    /\ \A a \in Live \ fts : SourceOf[a] = AgentSource

\* An agent's or an ingested atom becomes trusted by a job of the operator's CLI.
ContainedStep ==
    SharedClosed =>
      \A a \in Atom :
         ( /\ SourceOf[a] \in {AgentSource, IngestSource}
           /\ ~Trusted(a)
           /\ Trusted(a)' )
         => \E w \in Worker : cli[w] /\ a \in batch[w]

\* On a shared store nothing an agent can reach puts its atoms in the trusted
\* lane: an agent's or an ingested atom becomes trusted only by a job of the
\* operator's CLI (src/write_policy.rs:17-20), even when that atom was gated,
\* crashed on, demoted or promoted in between.
ContainedUntilOperatorPromotes == [][ContainedStep]_vars

\* Re-indexing never revives a superseded atom, and a later declaration never
\* takes it over: while its row lives, the first mark stays (the upsert keeps
\* the column, mark_superseded only touches rows without a mark).
SupersessionIsFinal ==
    [][ \A a \in Live : (row[a].superseded_by # NoOne /\ a \in DOMAIN row')
            => row'[a].superseded_by = row[a].superseded_by ]_vars

\* No two atoms of the trusted lane have the same content: the gate lets an
\* exact duplicate of a trusted atom in only as quarantine.
UniqueTrustedContent ==
    \A a, b \in Live : Trusted(a) /\ Trusted(b) /\ ContentOf[a] = ContentOf[b] => a = b

\* Once an index run has written its batch, vector search finds every trusted
\* atom of it whose new vector was not near zero: the hash-skip leaves out only
\* atoms whose stored vector the write keeps.
IndexedTrustedHaveVectors ==
    \A w \in Worker : EmbedLive /\ pc[w] = "mark" =>
        \A a \in batch[w] : Trusted(a) /\ emb[w][a] # "tiny" => HasVector(a)

\* A duplicate leaves the atom it duplicates alone: while no row is deleted, a
\* content with a trusted copy keeps one (R4 and AE3 of the trust-lane plan).
\* The code does not keep it in a batch that holds the copy first.
DuplicateLeavesOriginalTrusted ==
    [][ Live \subseteq DOMAIN row' =>
          \A c \in Content :
             FindTrustedByContentHash(c) # {} => FindTrustedByContentHash(c)' # {} ]_vars
============================================================================
