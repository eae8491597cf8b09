# A TLA+ verification of kurultai

kurultai is a local knowledge store for agents: a Rust daemon and CLI that
index documents into SQLite (rows, a full-text index, a vector index), gate what
is written into a *trusted* or a *quarantine* lane, fold copies together in the
background, keep an ontology with a human-decided proposal queue, and serve all
of it over HTTP and MCP; and a web client, written twice (`website/src` and
`website/src/next`), that shows it and writes to it.  Line numbers below are those of `src/`; short paths
such as `store/mod.rs` are under `src/src/`, those that end in `.ts` or `.tsx` under `src/website/src/`.

Contents: [the system](#1-the-system), [the modules](#2-the-modules-and-the-code),
[the runs](#3-the-runs), [disagreements found](#4-where-the-code-and-its-documents-disagree),
[fairness](#5-fairness), [the proofs](#6-the-proofs),
[what is not modelled](#7-what-is-not-modelled), [the plan](#8-the-plan),
[how to run it](#9-running-it).

## 1. The system

| Component | State it keeps | Operations | Correct when |
|---|---|---|---|
| Atom store (`store/mod.rs`, `store/migrations.rs`) | `knowledge_atoms`, `atoms_fts` (by id), `atoms_vec` (by **rowid**) | `upsert`, `upsert_batch`, `delete_source`, `delete_atom`, `set_trust_lane`, `mark_superseded`, `apply_auto_merge` | the three tables speak of the same atoms, although rowids are handed out again |
| Gate, promote, write policy (`quality/gate.rs`, `quality/promote.rs`, `write_policy.rs`) | none of their own: a lane in the row | `evaluate`, `apply_gate`, `promote_atom_with_mode` | one trusted copy of a content; on a shared store only the operator's CLI lifts an agent's atom into the trusted lane |
| Index pipeline (`pipeline/mod.rs`) | a batch in flight | `index_all`, `index_connector` | every trusted atom of a batch ends with its row, text entry and vector |
| Ingest, remember (`http/ingest.rs`, `mcp/brain.rs`) | a request in flight | `ingest_post`, `remember_with` | as above; `remember` writes statement by statement |
| Near-duplicate pass (`quality/near_dupe.rs`, `quality/merge.rs`) | a list of atoms, the pairs left, `merge_candidates` | `run_near_dupe_pass`, `apply_auto_merge` | every similar pair is merged or queued, nothing is lost in a merge |
| Sweep (`sweep.rs`) | a list of groups | fold copies, prune the ontology | folding copies leaves one that can be seen |
| Ontology and proposals (`ontology/*.rs`, `http/proposals.rs`, `http/ontology_write.rs`) | entities, links, proposals | submit, decide, human writes, extraction | approved means applied, rejected means not, a decision stays |
| Inbox tray (`connectors/inbox.rs`) | files in the tray, `processed/`, `failed/`; `last_poll` | `poll`, `full_sync`, `finalize_inbox_batch` | no file is lost, none is filed before it is written, the tray drains |
| Daemon (`daemon/mod.rs`) | the flight mutex, `last_run_day` | poll, watch and nightly loops | what failed is done again |
| Device flow and agent keys (`http/device.rs`, `connect.rs`, …) | flows, seats, key hashes | start, approve, deny, poll, revoke | one key per approved flow, none for a denied one |
| Hey board (`http/hey.rs`) | threads, messages, turns used | post, read, update, delete, react | the turn cap holds; an id never means another thread |
| Cortex renderer (`brain/BrainView.ts`, `brain/spikes.ts`, `brain/layout/fdg.worker.ts`, `components/BrainStage.tsx`) | the scene, the worker's queue, hover and selection, the spike pool | `setData`, worker ticks and answers, frames, pointer, Escape, random connection, dispose | nothing refers to an atom or edge that is gone; the layout comes to rest |
| View algorithms (`brain/layout/sugiyama.ts`, `brain/linkSelect.ts`) | none | `assignLayers`, `selectIntentionalLinks` | classes lie above their superclasses; only the stated limits leave a tagged atom without a synapse |
| Hey panel (`components/HeyPanel.tsx`, `hey-kanban/`, `chatboard/`) | open thread, messages, columns, the poll in flight | poll, open, send, edit, move, delete | the pane shows one thread's state, only newer ones, and catches up |
| Next client (`next/App.tsx`, `next/gen/worksurface/worksurface.tsx`) | slices of data with a status, forms | load, select, send, edit, move, decide | no slice loads for ever, no typed text is lost |
| Client requests (`App.tsx`, `CommandStrip.tsx`, `ProposalsPanel.tsx`, `next/App.tsx`) | a request each, with its AbortController | tier load, search, poll of the queue, decision | a view never goes back to an older answer |
| Web session (`main.tsx`, `auth.ts`, `HumanAccess.tsx`, `api.ts`) | the stored token, the gate of each tab | probe, sign in, sign out, refusal | no tab that shows the app rests as if signed in without an accepted token |

How they meet: every component but the tray shares **one SQLite file** through the
`Store` trait, whose mutex covers *one call*.  Several processes may open the file
(daemon, MCP children, CLI).  Nothing covers two calls, so every read-decide-write
sequence (gate then write, list then merge, validate then apply, read a file then
move it) can be interleaved with any other or cut by a crash.  Transactions cover
`upsert_batch`, `delete_source`, `delete_atom` and `apply_auto_merge`; they do not
cover `upsert`, an `apply_proposal`, or a merge pass.  The daemon's loops exclude one
another by the flight mutex, but the near-duplicate pass is spawned outside it
(`pipeline/mod.rs:79`), and so is the sweep.

The web client is **one thread**, and meets the daemon by requests, a worker by two
queues, and other tabs by the local storage.  A handler runs to its end; every `await`
is a place where a click, an effect, another answer or a failure may come first.

That is where this development looks: interleavings of calls, crashes between them,
lists that are stale when used, and answers that come late, twice, or not at all.  The hazards, each at its line and with the
properties that cover it or the reason why none does, are in `PROJECT.json`.

## 2. The modules and the code

Throughout, one action is one call on the store (or one file-system step), because
that is what can be interleaved.  A `Crash` action drops the job in hand: it stands
for a process that dies and for every `?` that returns an error.

**`AtomStore`** — `row`, `fts` and `vec` are the three tables.  `row` is a function on
the ids that have a row (lane, supersede mark, rowid); `vec` maps a rowid to the
*atom whose content was embedded*, so that a vector at the wrong atom can be told.  The
writes are operators, not actions, and other modules compose them.
An atom id hashes source, source id and content, so an id's content is a constant
and "hash unchanged" means "the row exists".  A new row takes *any* free rowid.
Embeddings are `none`, `vector`, `tiny` (near zero: no index entry) and `bad_dim`
(refused: the batch is rolled back).  `GateLane` returns a set because
`find_trusted_by_content_hash` has `LIMIT 1` without an order.

**`IndexPipeline`** extends it with the four write paths.  A `Worker` runs one
operation at a time; `pc` says which call it makes next, `batch`/`lane`/`emb` are the
locals it carries from call to call; `rowid` is the one that `remember` reads after its first
statement and uses in its last (`store/mod.rs:1458`, `1496`).  `NearDupeMerges` stands for the
near-duplicate passes of *other processes*: it comes between any two calls and may delete the row
that a `remember` is writing.  `overtaken` is the history of the atoms it happened to.

| code | actions |
|---|---|
| `index_connector` | `StartIndex`, `FullSyncDeletes`, `Gate`, `PlanEmbed` (hash-skip), `EmbedBatch`, `WriteBatch`/`WriteBatchRollsBack`, `MarkSupersedes` |
| `ingest_post` | `StartIngest`, `Gate`, `WriteBatch`/`WriteBatchRollsBack` |
| `remember_with` | `StartRemember`, `Gate`, `RememberRow`, `RememberFts`, `RememberVec` |
| `promote_atom_with_mode` | `StartPromote`, `PromoteEvaluates`, `PromoteSets`, `PromoteFindsNoRow` |

**`Consolidation`** extends `AtomStore` with the near-duplicate pass (two lists, the
two nested loops as the set of position pairs still to visit, merges and queueing) and
the sweep (list of groups, then marks).  Beside them run the writers: `WriterGates` and
`WriterWrites` (a row may be written again), `WriterMarks` (declared supersessions),
`FullSyncDeletes`, and `OperatorPromotes`.  Similarity, "safe" similarity and conflicts are given
sets of pairs.  Two histories serve the properties: `withdrawn`, the queued pairs that a full sync
deleted, and `displaced`, the contents whose oldest trusted copy a writer deleted, quarantined, hid
or overtook since the jobs last had all of them in order.

**`OntologyGraph`** — a `Task` submits, decides, writes or extracts, stopping between
store calls (`dedupe`, `insert`, `check`, `entity`, `target`, `link`, `person`, `decide`), while
atoms are indexed and deleted, humans delete, and the sweep prunes.  `applied` is a
history of the proposals whose mutation was carried out.

**`InboxTray`** — the tray, `processed/` and `failed/` as functions on file names, the
store's part as the set of dumps with rows, `last_poll`, and one run per process.  A
`Dump` is *one version* of a file.  `Stamps` is a step of its own after `Collects`
because files can be saved between the walk and the assignment of `last_poll`.
`saved`, `replaced` and `written` are histories for the properties.

**`BrainView`** — a position is named by the refresh that spawned the node and the
number of ticks since, so a stale answer of the worker can be told from a fresh one.
`SetData` is the whole of `setData` (selection, nodes, edges, pool, worker);
`WorkerStep` is the worker's side of the two queues, `OnWorkerPositions` the page's.
Edges are a sequence because spikes address them by index; `slot` and `free` are the
pool's arrays.  `drawn` is where the nodes were when the edges were built.

**`HeyPanel`** — the server is a log of boards per thread, so a snapshot is an index
and "newer" is a number.  A poll is three steps apart (`ListsArrive`, `ServerReads`,
`MessagesArrive`), started by `RunEffect` or `TimerPoll`; writes are sent, applied
(`ServerApplies`) and answered (`WriteDone`, `WriteFails`) apart.  **`ThreadPane`** is
the abstract pane: write, open, show a state of the open thread no older than the one
shown.  `HeyPanel` implements it (`PaneRefines`), with `log`, `active` and `messages`
mapped to themselves.

**`NextApp`** — one slice per conversation, the thread list and the proposal queue;
loads of one slice are not ordered.  Forms are records; a write remembers whether its
form is still mounted, because `useMutation` forgets its busy flag with the component.

**`WebRequests`** — both clients, chosen in `Init`; they differ in what an abort stops.
**`LatestAnswer`** is the abstract view (choose, answer, blank); the graph, the search and
the queue are three instances of it with their own refinement mapping
(`asked <- tier, shown <- graph`, …), conjoined in `ViewsShowTheLatest`.

**`ViewAlgorithms`** — `assignLayers` with `visit` step by step, its call stack explicit,
because it splices the lists that calls further up are walking; `layerOf` as a
recursive function; `buildLinks` (`TagLinks`) and `selectIntentionalLinks` (`Selected`) as
operators on the taggings.  A behaviour of `CallSpec` is one call of either.  The reference
definitions are in the properties (`Reaches`: whatever is closed under the links and holds the one holds the other).

**`WebSession`** — tabs, the token in the storage they share, probes of two requests,
requests with the token they were sent with.  `shown` says what the router of a tab shows: the app,
which polls the status (`Polls`), or a page (`#/db`, `#/repo`), which asks only when it is
opened or used (`PageLoads`).

`MC…` modules give the small instances, `…Proofs` modules hold the theorems.
Definitions whose comment begins with *Fault* are not part of any specification: they
are the mutated forms that each property is known to reject.

## 3. The runs

Every property of a passing run is violated by at least one plausible fault of a
mapped definition (`PROJECT.json`, "mutants"), so none of them holds by the model's shape.

| run | distinct states | properties |
|---|---|---|
| `MCIndexConcurrent` | 484 k | `TypeOK`, `QuarantineStaysUnembedded`, `VectorsStayWithTheirRows`, `FtsFollowsRows`, `ContainedUntilOperatorPromotes`, `SupersessionIsFinal` |
| `MCIndexSerial` | 30 k | `UniqueTrustedContent`, `IndexedTrustedHaveVectors` |
| `MCConsolidation` | 301 k | `TypeOK`, `VectorBelongsToItsRow`, `PassIsThorough`, `VisibleCopyRemains`, `EventuallyFolded` |
| `MCOntologyGraph` | 1.3 M | `TypeOK`, `ApprovedWasApplied`, `BackingAtomExists`, `DecisionIsFinal` |
| `MCInboxTray` | 130 k | `TypeOK`, `NoDumpVanishes`, `FiledAfterWritten`, `TrayDrains` |
| `MCBrainView` | 319 k | `TypeOK`, `TooltipIsNeverOrphaned`, `AttachedToTheStage`, `SpikesRideTheirEdge`, `PoolIsConserved`, `EdgesMeetTheirNodes`, `LayoutSettles` |
| `MCHeyPanel` | 133 k | `TypeOK`, `PaneRefines`, `PaneCatchesUp`, `OptimismEnds` |
| `MCNextApp` | 194 k | `SentTextIsKept`, `LoadingEnds` |
| `MCWebRequests` | 38 k | `TypeOK`, `ViewsShowTheLatest`, `QueueCatchesUp` |
| `MCViewAlgorithms` | 287 k | `LayersAreProper`, `OnlyLimitsCutOff` |
| `MCWebSession` | 506 k | `GateSettles` |

**`MCIndexConcurrent`**: two workers on a shared store (`SharedClosed`).  Two connector
atoms that both declare that they supersede the remembered one, so that a later mark meets an earlier,
one ingested and one remembered
atom; three rowids for four atoms, so that rowids must be given out again
(a model bound: when none is free the insert waits).  A pass of another process may merge the
remembered atom and a connector's, at any point of a `remember`.  Two
workers are enough for every read-decide-write pair to be cut by every other
operation; a third would only cut it twice.  Workers and rowids are symmetric; no
liveness is checked under symmetry.

**`MCIndexSerial`**: one worker, all embedding results, exact duplicates within a batch,
across sources and in a source that is always quarantined, and merges of other processes between the calls.  `UniqueTrustedContent` is
*not* an invariant of concurrent writers (two gates may both look before either
writes); the code accepts that and folds copies later, which is what `EventuallyFolded`
checks.  Serially, the gate and `batch_seen_hashes` must keep it by themselves.

**`MCConsolidation`**: two exact copies of two sources and one paraphrase, one pass, the sweep, and
every writer: an atom may be written again, a full sync takes one copy alone, the paraphrase
declares that it supersedes that copy and is itself contained, and the operator promotes.  `MaxClock = 3` bounds writes
and stops together; deletes, marks and promotions are not bounded.  Three writes are the two copies and a
re-index between the list of a job and its use, or all three atoms.  One pass and the sweep are two jobs with lists of their
own; the theorem covers any number of passes.  `VisibleCopyRemains` speaks of the contents that are not
`displaced`; the next section says why it has to.  `ScanCap` is not below
the number of atoms: above the cap the code documents that it does not look.

**`MCOntologyGraph`**: two tasks, one proposal id, one atom, its entity, one seeded class, one more entity,
and a draft of each kind.  One proposal id is enough for decisions to race; it is
the only thing two decisions share.

**`MCInboxTray`**: the daemon with a nightly full sync and a `kurultai index` beside
it; two versions of one file name (the second junk and moved in with an arbitrary
mtime), one file that cannot be parsed; saving over is allowed; one fault.  One fault
is one failed run or restart at any point; a second would hit a state that the first
already produces, a tray with files older than `last_poll`; and the proofs cover any
number for the safety properties.

**`MCBrainView`**: three atoms in two overlapping graphs, so that a refresh keeps one atom,
drops one and brings one; two edges that share an atom, so that an index can be
valid and wrong; a pool of two slots, which two spikes exhaust; a budget of two ticks and
two refreshes, so that an answer of the old layout can come at each point of the new.

**`MCHeyPanel`**: two threads, the second with the id of the first as its name; a list of
one, so that the open thread may be off its end; two lanes, two messages, of which one is still
to be posted; two own writes at once; three clicks.  Each thread has up to two states.

**`MCNextApp`**: two threads of one message and one proposal, three clicks of this user
or others: enough for two overlapping loads of each slice and a form that is left
while its write is in flight.

**`MCWebRequests`**: one proposal and three clicks, for each client: a choice replaced
while its request is in flight, twice.

**`MCViewAlgorithms`**: every list of up to four links among four classes and a stranger (cycles of up
to four, two cycles that share a class, doubled links); every tagging of four atoms
with three tags.  The constants of `linkSelect.ts` and `BrainStage.tsx` are scaled down
(one nomination, low degree one, a budget of two, three atoms per tag) so that each limit is met: the
fourth atom of a tag is beyond its cap.

**`MCWebSession`**: two tabs, each on the app or on a page, a key that may write and one that may only
read, an open or a locked daemon; two probes and one request per tab in flight, two clicks of users (navigation
included) or the operator, one fault.  Two tabs because the storage is what they share; two clicks because it takes a
second key to make a refusal stale.

`MCOntologyRace` checks one statement of the code's comments that the code does not keep.
Where the bounds stop an instance (clicks, refreshes, or one call of an algorithm), deadlock checking is off.

## 4. Where the code and its documents disagree

`MCOntologyRace`: "Rejection mutates nothing" (`ontology/mod.rs:354`).  An approval is
applied, a rejection commits before it is recorded: applied and rejected
(`ontology/mod.rs:376`).  TLC finds it with two tasks.

The following statements are defined in the modules, and TLC finds each violated by a
short behaviour; no run of the project repeats them.  To see one, name it in a
configuration of the module's `MC` instance.

| definition | statement | what happens |
|---|---|---|
| `IndexPipeline!DuplicateLeavesOriginalTrusted` | a duplicate leaves the first atom unchanged (plan 2026-07-25-011, line 71) | a batch with the copy *before* the trusted original quarantines both: the hash of a quarantined atom counts as seen (`pipeline/mod.rs:171`) |
| `Consolidation!MergeKeepsTags` | merges are additive (`quality/merge.rs:99`) | with three exact copies, the second merge starts from the atoms as listed and drops the tags united by the first (`near_dupe.rs:105`) |
| `Consolidation!VisibleCopyRemains`, with `Content` for `Content \ displaced` | copies "are folded into the earliest-indexed copy via `mark_superseded` (non-destructive; …)" (`sweep.rs:5-7`) | between the list of a job and its use a writer takes the copy that is kept: see below |
| `AtomStore!VectorsBelong({})`, `QuarantineHasNoVector({})`, and `fts \subseteq Live`, in `IndexPipeline` | vectors and entries live and die with their rows | a pass of another process merges an atom away (`store/mod.rs:2141`) between the statements of its `remember`: these then insert an entry of an atom that is gone, and its vector at the rowid read before, where by then another row may be (`store/mod.rs:1469`, `1496`) |
| `BrainView!EdgesMeetTheirNodes`, with a link `<<a1, a1>>` and a graph `{a1}` | none: a case that nothing speaks of | tags are not deduplicated, so an atom that lists one twice is linked with itself (`BrainStage.tsx:219`); alone on stage it is moved by a late answer of the graph before, and no tick follows that would rebuild its edge |
| `InboxTray!TrayDrains`, without the nightly full sync | "index cycle failed; will retry" (`daemon/mod.rs:365`) | `last_poll` moved on before the failure: the files stay in the tray (`inbox.rs:115`) |
| `InboxTray!ProcessedIsTrusted` | `processed/` only when every atom is trusted (`inbox.rs:219`) | the file moved is the one at the path *now*, saved over since it was read (`inbox.rs:245`) |
| `InboxTray!FiledStaysStored` | "atoms remain stored", "fetch everything this source has" (`inbox.rs:220`, `connectors/mod.rs:28`) | a full sync deletes the source and reads only the tray: atoms of filed files are gone (`pipeline/mod.rs:118`) |
| `HeyPanel!NoHop` | an id never hops to a thread that bears it as its name (`HeyPanel.tsx:36-37`) | once the open thread is off the end of the list of 20, its id is looked up among the names (`HeyPanel.tsx:40`) |
| `HeyPanel!MoveKeepsTheText` | "Moving a card = rewriting that token" (`kanbanMapping.ts:3`) | the whole text is written, as of the last poll: an edit made since is lost (`HeyKanban.tsx:47`) |
| `NextApp!OwnWritesArePublished` | callbacks publish updated props after committing (`worksurface.tsx:288-289`) | two loads of a conversation may answer in the wrong order, and the one from before the write is shown (`next/App.tsx:144`) |

The last visible copy of a content, in each of four ways; TLC finds them when the content is not
excepted.  The sweep lists a group (`sweep.rs:76`) and, before it marks it (`sweep.rs:82`),

- a full sync deletes the canonical copy's source (`pipeline/mod.rs:118`) and does not bring that atom back;
- a re-index gates the canonical copy, finds the other one (`store/mod.rs:2184`, `LIMIT 1` without an order), and
  quarantines it;
- an atom that declares that it supersedes the canonical copy is written and marks it (`pipeline/mod.rs:310`).

Or a pass lists two contained copies in quarantine, the operator promotes the younger, and the merge decided on the
list deletes it and writes the elder as listed, in quarantine (`near_dupe.rs:112`; the survivor should be the
trusted one, `quality/merge.rs:78`).  The other copy is then marked or gone, and default search shows none.  What
the code does keep, and what the property states, is that the two jobs never do this to one another, however
old their lists, as long as no writer displaced the first copy meanwhile.

Read while modelling: `linkSelect.ts:20` calls `maxLinks` a hard budget,
which links of low degree exceed, and
`BrainStage.tsx:233` speaks of mutual nominations, where one end suffices (`OnlyLimitsCutOff` states both as the
code has them); an atom beyond the first `MAX_LINKS_PER_TAG` of each of its tags has no synapse
(`BrainStage.tsx:218-219`); a tab left on `#/db` or `#/repo` stays signed in after another tab has signed
out, until its page asks for something (`main.tsx:29-31`, `DbView.tsx:107`); a late 401 clears a newer
token (`api.ts:74`), and so does a write with a key that may only read; the board of a
conversation that failed to load says Loading for ever, without a Retry
(`next/App.tsx:296`); the legacy chatboard clears a message as it sends it and loses it when the
send fails (`Chatboard.tsx:125`); a review card that is pressed while another is in flight takes its
busy mark over (`ProposalsPanel.tsx:55`).

## 5. Fairness

Safety needs none.  Seven runs check liveness.

`Consolidation!FairSpec`: a pass starts again and again (the poll loop spawns one
after every index cycle that succeeds), a pass that runs goes on, the sweep comes again
(nightly).  It assumes polling is not suspended by the inactivity threshold for ever.
Nothing is assumed of writers, and none of the stops.

It is weak fairness on each pass (`WF_passVars`) and on the sweep (`WF_groups`), as each changes its own variables.

`InboxTray!FairSpec`: weak fairness for a daemon run that goes on; strong fairness for
`Polls` and `SyncsAll`, because both loops come again for ever and wait for one another on a
tokio mutex, which is first come, first served: each gets its turn although the other
keeps taking it.  `SyncsAll` needs `nightly_full_sync_hour`; section 4 says what is lost without it.  `MaxFaults` says that failures stop eventually.  Nothing
is assumed of the operator and of commands.  The watch loop runs the same incremental
cycle as the poll loop and adds no behaviour.

`BrainView!Spec`: the event loop runs queued effects and delivers messages, the worker
handles its queue.  Nobody has to move the pointer, and no frame is owed.

`HeyPanel!Spec`, `WebRequests!Spec`: effects run and the 15-second timer ticks (weak); a
daemon that is asked again and again answers in the end (strong, because each poll may
fail and the timer starts another).  Writes may stay unanswered.

`NextApp!Spec`: a load that was sent is read and ends, with an answer or a failure (weak):
this client does not poll its conversations, so nothing more would be true.

`WebSession!Spec`: probes and requests are answered, and a tab that shows the app goes on asking for the
status every eight seconds (`App.tsx:98-107`; weak).  A page owes nothing: its `PageLoads` is not fair, and
`GateSettles` exempts a tab that rests on one.  `MaxClicks` and `MaxFaults` say that users, keys and network come
to rest, without which no gate could.

## 6. The proofs

TLAPS checks the following for *every* value of the constants that satisfies the
named assumptions: any number of workers, atoms, rowids, tasks, proposals, files, processes,
faults, threads, slots, refreshes and clicks.  The assumptions (`AtomFacts`, `PipelineFacts`,
`OntologyFacts`, `InboxFacts`, and those of the client's modules, named after them) type the constants and nothing more; TLC evaluates them in the runs.

**Write paths** (`IndexPipelineProofs`).  Its first part shows
that each table write keeps `StoreInv(stray)` = types ∧ `RowIdsDistinct` ∧
`QuarantineHasNoVector(stray)` ∧ `VectorsBelong(stray)`, for any set of stray atoms whose vectors are left
aside.  `RowIdsDistinct` is the reason a
vector cannot belong to two atoms, and no run mentions it.  The second shows
`IInv` = `StoreInv(overtaken)` ∧ `JobTypeOK` ∧ `JobsInv` ∧ `FtsFollowsRows` inductive.  `JobsInv` is the
strengthening and says what a worker holds at each call:

- `JobsInOrder`: which calls an operation makes and which atoms it may write;
- `RememberedIsNew`: a remembered id is in no other job and has no row before it is written
  (its source id is unique), so that no other job can slip between gate and row;
- `RememberedRowStays`: between the statements of a `remember` its row stays, at the rowid that was read and in the
  trusted lane if it was gated so, unless the atom is `overtaken`, and then it has no row and gets none; so the
  statements that follow can only leave an entry or a vector of an overtaken atom;
- `ContainedJobs`: on a shared store a job not of the CLI holds nothing for the
  trusted lane, and only the CLI's promotions run.

From it: `TypeCorrect`, `VectorsAreSound`, `QuarantineIsNotEmbedded`, `FullTextFollowsRows`,
`MarksAreFinal`, `Containment`.

The third part assumes `OneWriter`, as the daemon runs when no other process indexes, ingests, remembers or promotes;
merges of other processes still come between its calls.  With two writers TLC
breaks both of its theorems.  `SerialInv` follows a lane from the gate to the write.
`ClaimsAreFree`: what a job has settled for the trusted lane is the only trusted copy of its content,
in the store and in the batch, so the gate's answer is still true when it is used; it is also why the hashes
seen in a batch are needed.  `VectorsPlanned`: from the plan to the write, a trusted atom that has no
vector yet is on the list to embed, so that a skipped one had its vector already.  `StraysAreLoose` and
`RowidIsOwn` say that the vector of an overtaken atom is never found at a connector's row: a write that
puts a row there clears it first.  From it
`CopiesAreKeptOut` (`UniqueTrustedContent`) and `IndexedAreFound` (`IndexedTrustedHaveVectors`),
over any sequence of batches, sources, promotions and crashes.

**Passes and sweep** (`ConsolidationProofs`).  `JobsInv` = `TypeOK` ∧ `StoreInv` ∧ `TimesApart` ∧
`PassInv` is inductive without any hypothesis.  `TimesApart` says that the times at which atoms are known
to have been written tell them apart, in the rows and in what the passes remember of deleted ones;
it makes a list by age well defined and decides the survivor of each pair.  `PassInv` says of a pass that a pair
behind its loops is removed, queued or not similar, although removals make the loops skip pairs.
From it `JobsTyped`, `MergedVectorsBelong`, `PassDecidesAll`.

`FoldingKeepsACopy` has no hypotheses beyond `ConsolidationFacts`.  It needs the order of the copies: of the trusted
copies of a content the oldest is `First`.  For each content that is not `displaced`, `RankInv` says what lists
made earlier still imply: the first copy is unmarked, and no pass remembers it as quarantined
(`FirstLeads`); any other copy that is trusted, or that a pass remembers so, is younger, by whichever time it is known
(`TrustedRanked`); the canonical copy of a group of the sweep is first (`GroupsRanked`).  A merge or a mark then
leaves the first copy in its row, in its lane and unmarked (`FirstStays`).  A writer's step keeps the rank of what
it does not disturb (`WriterRanks`), a job's step that of every content (`JobRanks`), and once no list is
in use a content whose first copy is shown has it at once (`OrderRanks`), which is where a displaced content
returns.  `JobsInv` and `RankInv` were checked by TLC with three exact copies and
with two passes, beyond the bounds of the run, before they were proved.  `JobsTyped` needs one more lemma for the two
histories (`HistoryStep`).

**Ontology** (`OntologyGraphProofs`).  `IInv` = `TypeOK` ∧ `ApprovedWasApplied` ∧
`BackingAtomExists` ∧ `JobsOK`.  `JobsOK` carries the fact that makes an approval
sound: a job about to record an approval has already applied its proposal.
From it `ApprovedMeansApplied`, `EntitiesAreBacked`, `DecisionsStand`.

**Tray** (`InboxTrayProofs`).  `IInv` = `TypeOK` ∧ `TrayOK` ∧ `FiledSaved` ∧ `JobsHold` ∧
`NoDumpVanishes` ∧ `FiledAfterWritten`.  `TrayOK` says a file is at its own name and was saved;
`JobsHold` that a run at `finalize` has written its batch, so whatever it moves is
either written or shares its name with something written.  From it `NothingIsLost`
and `WriteComesFirst`.

**Renderer** (`BrainViewProofs`).  `IInv` = `TypeOK` ∧ `QueuesOK` ∧ `EdgesOnStage` ∧ the four
safety properties.  `QueuesOK` types the messages under way; `EdgesOnStage` (edges end at
atoms on stage) is why a spike that arrives flares an atom that is there.  The pool is
treated by lemmas on sequences: taking from, returning to and refilling the free stack keep
`PoolIsConserved` for any capacity.  From it `TooltipHolds`, `AttachmentHolds`,
`SpikesHold`, `PoolHolds`, `TypesHold`.

`EdgesFollowTheirNodes` needs no history of the positions.  `EdgeInv` says that while an edge is not
where its nodes are, an answer of the worker is on its way or a tick is in its queue: each answer that moves
a node asks for the next tick until the budget is spent, and the last one rebuilds the edges, also when it was
computed for a graph that has been replaced.  A graph of one node gets no ticks, hence the hypothesis
`LoneAtomsUnlinked`, without which the property is false (section 4).

**Choice of the synapses** (also in `BrainViewProofs`).  `OnlyLimitsTakeLinks`, for any atoms, tags and
limits (`MAX_LINKS_PER_TAG` above one, as otherwise no tag links anything).  `FirstLinks` says what a sort and a cut return, by the rank of a link (how many precede it) instead of an
induction over a list: at most the limit, all or at least the limit, and among them one that nothing precedes.
The kept links are those of low degree, and the first others that the budget admits; when it is not used
up, all nominated ones are kept, so each node's strongest.

**The layers of the hierarchy** (also in `BrainViewProofs`).  `ClassesLieOnLayers`, for any classes and any list
of links, cycles included.  `SearchInv` is what the depth-first search keeps although it splices and grows the lists
that calls further up are walking: the calls on the stack are the gray classes, each reached from the one below
(`CallsNested`); before the place a call looks at, its list is as it was given (`AheadAsGiven`); behind that
place, what the splices have moved or appended there included, each member is black or on the stack above it
(`BehindDone`); a list holds given links, or reversed ones that close a cycle, and none is lost
(`ListsAreLinks`); and the black classes can be ranked so that their lists lead downwards (`Ranked`, the
witness being the order in which they are left).  All but the last part were first checked by TLC on the instance
of `MCViewAlgorithms`.  When all are black the rank bounds every path, so `layerOf`, whose recursion is
well defined for a finite `Node` (`LayerOfIsDefined`), does not depend on the classes being visited
(`VisitedDoNotMatter`) and is the length of a longest path (`LayersAreLengths`).

**Hey panel** (`HeyPanelProofs`).  `IInv` = `TypeOK` ∧ `PaneInv`.  `PaneInv` ties the asynchronous
parts together: a poll in progress was started for the open thread, what is shown is of
that thread, and an answer on its way is not older than what is shown.  With it each step
of the panel is a step of `ThreadPane` or a stutter: `PanelImplementsPane`, the refinement.

**Next client** (`NextAppProofs`).  `TypeOK` is inductive (a draft and an open form are in a
conversation that is open); from it `TextIsKept`: the only step that clears a draft
whose conversation stays is the answer to its own write.

**Requests** (`WebRequestsProofs`).  `TypeOK` is inductive and says that whatever is in
flight was asked for the last choice, which is what the aborts are for; `ViewsHold` is the
threefold refinement of `LatestAnswer`.

Only model-checked: liveness (`EventuallyFolded`, `TrayDrains`, `LayoutSettles`,
`PaneCatchesUp`, `OptimismEnds`, `LoadingEnds`, `QueueCatchesUp`, `GateSettles`), which this
prover does not reach, as it has no support for `ENABLED`.  No module declares a `RECURSIVE` operator;
what a recursive function computes (`layerOf`) is proved by a least counterexample, as the library's induction
theorems cannot be instantiated.

## 7. What is not modelled

- *Data*: the text of bodies and tags (sets of atoms that pass), similarity scores,
  time stamps other than the order of writes, labels, visibility, the wording of reasons.
- *Repeated tags*: in `ViewAlgorithms` an atom's tags are a set; an atom that lists a tag twice links with
  itself in the code.  `BrainView` takes any pairs as links, those included.
- *Tables*: soft labels, late-interaction vectors, atom links, access times, the audit
  table (promotion and its audit row are two statements), export and import.
- *Reads*: search, ranking, answers and synthesis have no protocol; what default
  search shows appears as `Visible` in `Consolidation`.
- *External services*: embedders appear by their outcomes; other connectors by any
  set of their source's atoms.
- *Batch order*: a batch is a set, taken in any order; connectors promise none.
- *The registry*: one connector at a time; that `index_all` stops at the first
  error is listed as a hazard.
- *Details of a component*: texts that mention several entities, folders inside the tray,
  the reason sidecars.
- *Device flow, broker, Postgres store*: planned or left out, see below; of the Hey board the turn cap
  and agents' posts.
- *The page*: coordinates, forces, colours, the camera, layout and wording; the ontology mode of
  the renderer, which the stage never selects; presence, unread counts and replies.
- *Client panels that only load* (store table, inspector, repository view, logs, statistics) and the
  ontology board, whose writes are modelled on the server's side.  Several show answers without asking
  whether they are stale: `LatestAnswer` states what they do not promise.
- *Code that no page reaches*: `next/gen/chatboard`, `next/gen/ontology-board`, `next/gen/store-db`.
- *Generated bundles* (`ui/`, `plugin/webui`), launch videos, scripts, CLI parsing, deployment, HTTP routing:
  no state of their own that the properties tell apart.
- *Approximations*: in `NextApp` a new thread's form is free again when its post is done, a
  little before the code's; in `WebSession` all requests of a tab may answer after the gate has
  closed, though the code aborts two of them; in `NextApp` `CreateThread` may post to an id the daemon does not
  know yet, which the code does after the thread was created.  In `IndexPipeline` another process's pass
  lists and merges in one step (`Consolidation` has the lists that grow old), `fts` counts an entry once that
  the code may hold twice, and `delete_atom`, which only `kurultai prune --generated` calls
  (`main.rs:1134`, never for an agent's atom), is left out: what it could do to a row that is being
  written, the merges do.

`PROJECT.json` lists every component with its status; "partly" means that some
operation that changes its state is left out, and the note says which.

## 8. The plan

Done, in order of importance: the tables and write paths, consolidation, the ontology
and its queue, the tray under the daemon, and their proofs; then
the web client: the renderer, the Hey panel with its abstract pane, the next client, the requests
that replace one another with their abstract view, their proofs, the two view algorithms, the session; and a proof of every
safety property that a run checks.

Next, to model:

1. `DeviceFlow` (`http/device.rs`, `http/device_auth.rs`, `connect.rs` and the flow,
   agent and seat tables): start, approve, deny, expiry, concurrent polls, token issue,
   revocation, crashes between issue and exchange, and the two expiry checks that
   disagree (the poll parses times, the updates compare them as text).  Properties: at most one key is
   delivered per flow that still resolves; every key that resolves comes from a flow that was approved and
   never denied; a key that stopped resolving never resolves again; an approved flow
   that is polled delivers.
2. `HeyBoard`: the turn cap under concurrent posts, composed with `HeyPanel`.
3. The daemon's loops with the registry: a connector that keeps failing starves those
   after it; the sweep beside the next cycle.
4. An abstract store (one map from ids to atoms with their indexes) that
   `IndexPipeline` implements up to the statements of a `remember`, and against which the
   Postgres store can be compared.
5. The inspector and the table as instances of a weaker `LatestAnswer`, and the drafts of the
   legacy chatboard.

Next, to prove: the types of `WebSession`; the refinement of the abstract store; the safety properties of
`DeviceFlow`.

## 9. Running it

    tlc -workers 4 -config MCIndexConcurrent.cfg MCIndexPipeline
    tlapm IndexPipelineProofs.tla

Deadlock checking is on where the daemon, the workers and the tasks can always take a
step.  The runs take seconds to three minutes with two workers; `MCHeyPanel` and `MCIndexConcurrent` are the longest.
