--------------------------- MODULE Consolidation ---------------------------
(***************************************************************************)
(* The two background jobs that fold copies of an atom together:           *)
(*                                                                         *)
(*   - the near-duplicate pass (src/quality/near_dupe.rs), spawned after   *)
(*     every index run, which deletes one atom of a pair and gives its     *)
(*     tags to the other, or queues the pair for the operator;             *)
(*   - the nightly sweep (src/sweep.rs), which marks exact copies as       *)
(*     superseded by the earliest-indexed one.                             *)
(*                                                                         *)
(* Both list atoms once and then act on the list, one store call per pair  *)
(* or group, while other tasks write: every step below is one store call.  *)
(* Of the writers, the module has what changes rows (IndexPipeline has all *)
(* of their steps): a write of what was gated before, the delete of a full *)
(* sync, the marks of a declared supersession, and promotion, taken as one *)
(* step.  Labels, metadata and the audit table are left out, tags stand    *)
(* for the fields a merge unites.                                          *)
(***************************************************************************)
EXTENDS AtomStore, SequencesExt

CONSTANTS
    Pass,          \* tasks that may run the near-duplicate pass
    Tag,
    TagsOf,        \* [Atom -> SUBSET Tag]: the tags a writer gives an atom
    ProjectOf,     \* [Atom -> project namespace]
    Similar,       \* pairs {a, b} with Jaccard >= 0.92 or the same hash
    SafeSimilar,   \* those with Jaccard >= 0.95 or the same hash
    Conflicting,   \* pairs whose titles, summaries or resolutions disagree
    Passing,       \* atoms with a tag, long enough for the trusted lane
    Contained,     \* atoms that their write path quarantines regardless
    Declares,      \* [Atom -> SUBSET Atom]: what an atom supersedes
    ScanCap,       \* SCAN_CAP
    MaxClock       \* bound: writes and stops of a behaviour

ASSUME ConsolidationFacts ==
    /\ TagsOf \in [Atom -> SUBSET Tag]
    /\ Declares \in [Atom -> SUBSET Atom]
    /\ \A a, b \in Atom :
          a # b /\ ContentOf[a] = ContentOf[b] => {a, b} \in SafeSimilar
    /\ SafeSimilar \subseteq Similar
    /\ ScanCap \in Nat /\ MaxClock \in Nat

VARIABLES
    tags,        \* tags_json of each row
    at,          \* indexed_at of each row
    clock,       \* the time; every write has its own
    gated,       \* atoms gated and not yet written -> their lane
    marking,     \* atoms written whose supersessions are not yet marked
    candidates,  \* merge_candidates
    withdrawn,   \* history: pairs a full sync has deleted from candidates
    stage,       \* [Pass -> {"idle", "listed", "pairs"}]
    list,        \* [Pass -> Seq(Atom)]: `candidates` of run_near_dupe_pass
    seen,        \* [Pass -> snapshot of the listed atoms]
    left,        \* [Pass -> pairs of positions the loops have left]
    removed,     \* [Pass -> atoms merged away by this pass]
    groups,      \* groups of the running sweep that are not yet marked
    displaced    \* history: contents whose first copy a writer took away or
                 \* hid since the jobs last had all of them in order

rowVars == <<storeVars, tags, at>>
passVars == <<stage, list, seen, left, removed>>
writerVars == <<gated, marking>>
queueVars == <<candidates, withdrawn>>
vars == <<rowVars, clock, writerVars, queueVars, passVars, groups, displaced>>

Snapshot == [lane : Lane, tags : SUBSET Tag, at : 0..MaxClock]

JobsTypeOK ==
    /\ AtomStoreTypeOK
    /\ tags \in [Live -> SUBSET Tag]
    /\ at \in [Live -> 0..MaxClock]
    /\ clock \in 0..MaxClock
    /\ DOMAIN gated \subseteq Atom
    /\ gated \in [DOMAIN gated -> Lane]
    /\ candidates \subseteq SUBSET Atom
    /\ stage \in [Pass -> {"idle", "listed", "pairs"}]
    /\ list \in [Pass -> Seq(Atom)]
    /\ \A p \in Pass : /\ seen[p] \in [ToSet(list[p]) -> Snapshot]
                       /\ left[p] \subseteq (1..Len(list[p])) \X (1..Len(list[p]))
                       /\ removed[p] \subseteq Atom
    /\ groups \subseteq [canonical : Atom, dups : SUBSET Atom]

TypeOK ==
    /\ JobsTypeOK
    /\ marking \subseteq Atom
    /\ withdrawn \subseteq SUBSET Atom
    /\ displaced \subseteq Content

Init ==
    /\ AtomStoreInit
    /\ tags = [a \in {} |-> {}]
    /\ at = [a \in {} |-> 0]
    /\ clock = 0
    /\ gated = [a \in {} |-> "quarantine"]
    /\ marking = {}
    /\ candidates = {}
    /\ withdrawn = {}
    /\ stage = [p \in Pass |-> "idle"]
    /\ list = [p \in Pass |-> <<>>]
    /\ seen = [p \in Pass |-> <<>>]
    /\ left = [p \in Pass |-> {}]
    /\ removed = [p \in Pass |-> {}]
    /\ groups = {}
    /\ displaced = {}

----------------------------------------------------------------------------
(* The writers the jobs run beside                                         *)

WriterGates(a) ==
    /\ a \notin DOMAIN gated
    /\ clock + Cardinality(DOMAIN gated) < MaxClock
    /\ \E l \in IF a \in Contained THEN {"quarantine"}
                                   ELSE GateLane(a, a \in Passing, TRUE) :
          gated' = [b \in DOMAIN gated \cup {a} |-> IF b = a THEN l ELSE gated[b]]
    /\ UNCHANGED <<rowVars, clock, marking, queueVars, passVars, groups>>

\* A new row takes the time of its write; a row that was there keeps its own.
WriterWrites(a) ==
    /\ a \in DOMAIN gated
    /\ clock < MaxClock
    /\ LET e == IF gated[a] = "trusted" /\ ~HasFreshEmbedding(a) THEN "vector" ELSE "none"
       IN UpsertBatch({a}, [b \in Atom |-> gated[a]], [b \in Atom |-> e])
    /\ tags' = [b \in Live \cup {a} |-> IF b = a THEN TagsOf[a] ELSE tags[b]]
    /\ at' = [b \in Live \cup {a} |-> IF b \in Live THEN at[b] ELSE clock]
    /\ gated' = [b \in DOMAIN gated \ {a} |-> gated[b]]
    /\ marking' = IF Declares[a] = {} THEN marking ELSE marking \cup {a}
    /\ clock' = clock + 1
    /\ UNCHANGED <<queueVars, passVars, groups>>

\* The loop over what a run has written comes to `a`, which may be gone by then.
\* An error leaves some of the rows unmarked, and is a warning.
WriterMarks(a) ==
    /\ a \in marking
    /\ \E ids \in SUBSET (Declares[a] \cap Live) : MarkSuperseded(ids, a)
    /\ marking' = marking \ {a}
    /\ UNCHANGED <<tags, at, clock, gated, queueVars, passVars, groups>>

\* delete_source also deletes the queued pairs of the atoms it deletes.
FullSyncDeletes(s) ==
    LET hit == {ab \in candidates : \E a \in ab \cap Live : SourceOf[a] = s} IN
    /\ DeleteSource(s)
    /\ tags' = [b \in DOMAIN row' |-> tags[b]]
    /\ at' = [b \in DOMAIN row' |-> at[b]]
    /\ candidates' = candidates \ hit
    /\ withdrawn' = withdrawn \cup hit
    /\ UNCHANGED <<clock, writerVars, passVars, groups>>

OperatorPromotes(a) ==
    /\ a \in Live
    /\ row[a].lane = "quarantine"
    /\ "trusted" \in GateLane(a, a \in Passing, TRUE)
    /\ SetTrustLane(a, "trusted")
    /\ UNCHANGED <<tags, at, clock, writerVars, queueVars, passVars, groups>>

----------------------------------------------------------------------------
(* The near-duplicate pass                                                 *)

\* LIMIT SCAN_CAP, in the query and of the joined list
Capped(s) == SubSeq(s, 1, IF Len(s) < ScanCap THEN Len(s) ELSE ScanCap)

\* ORDER BY indexed_at DESC
ByAge(atoms) ==
    [i \in 1..Cardinality(atoms) |->
        CHOOSE a \in atoms : Cardinality({b \in atoms : at[b] > at[a]}) = i - 1]

Newest(atoms) == Capped(ByAge(atoms))

SnapshotOf(a) == [lane |-> row[a].lane, tags |-> tags[a], at |-> at[a]]

\* Fault: the cutoff applied to quarantined atoms as well.
RecentOnly(cutoff) == {a \in Live : at[a] >= cutoff}

\* What list_near_dupe_candidates selects: quarantine, and what is not older than
\* a day.
NearDupeCandidates(cutoff) ==
    {a \in Live : row[a].lane = "quarantine" \/ at[a] >= cutoff}

\* How much of the model's time a day is does not matter: any cutoff will do.
PassListsCandidates(p, cutoff) ==
    /\ stage[p] = "idle"
    /\ NearDupeCandidates(cutoff) # {}
    /\ stage' = [stage EXCEPT ![p] = "listed"]
    /\ \E listed \in {Newest(NearDupeCandidates(cutoff))} :
          /\ list' = [list EXCEPT ![p] = listed]
          /\ seen' = [seen EXCEPT ![p] = [a \in ToSet(listed) |-> SnapshotOf(a)]]
    /\ UNCHANGED <<rowVars, clock, writerVars, queueVars, left, removed, groups>>

\* list_atoms(trusted), appended where it adds an atom.  Superseded atoms are
\* not left out of either list.
PassListsTrusted(p) ==
    /\ stage[p] = "listed"
    /\ stage' = [stage EXCEPT ![p] = "pairs"]
    /\ \E newest \in {Newest({a \in Live : Trusted(a)})} :
       \E listed \in {Capped(list[p] \o ByAge(ToSet(newest) \ DOMAIN seen[p]))} :
          /\ list' = [list EXCEPT ![p] = listed]
          /\ seen' = [seen EXCEPT ![p] =
                         [a \in ToSet(listed) |->
                             IF a \in DOMAIN seen[p] THEN seen[p][a] ELSE SnapshotOf(a)]]
          /\ left' = [left EXCEPT ![p] =
                         {ij \in (1..Len(listed)) \X (1..Len(listed)) : ij[1] < ij[2]}]
    /\ UNCHANGED <<rowVars, clock, writerVars, queueVars, removed, groups>>

\* Fault: only neighbours of the list compared.
NeighboursLeft(p) ==
    {ij \in left[p] :
        /\ ij[2] = ij[1] + 1
        /\ list[p][ij[1]] \notin removed[p] /\ list[p][ij[2]] \notin removed[p]
        /\ {list[p][ij[1]], list[p][ij[2]]} \in Similar}

\* The pairs for which the two loops will still make a store call.
PairsLeft(p) ==
    {ij \in left[p] :
        LET a == list[p][ij[1]]
            b == list[p][ij[2]]
        IN /\ a \notin removed[p] /\ b \notin removed[p]
           /\ ProjectOf[a] = ProjectOf[b]
           /\ {a, b} \in Similar}

\* The next of them: the loops run over i, then over j.
NextPair(p) ==
    CHOOSE ij \in PairsLeft(p) :
        \A kl \in PairsLeft(p) : \/ ij[1] < kl[1]
                                 \/ ij[1] = kl[1] /\ ij[2] <= kl[2]

\* Whether the pair is merged without asking: decided on the snapshot.
AutoMergeable(p, a, b) ==
    /\ {a, b} \notin Conflicting
    /\ {a, b} \in SafeSimilar
    /\ \/ seen[p][a].lane # "trusted" \/ seen[p][b].lane # "trusted"
       \/ ContentOf[a] = ContentOf[b]

\* Fault: the age of the copies the wrong way round.
NewestSurvives(p, a, b) ==
    LET s == seen[p] IN
    IF s[a].lane # s[b].lane THEN IF s[a].lane = "trusted" THEN a ELSE b
    ELSE IF s[a].at > s[b].at THEN a ELSE b

\* survivor_loser: trusted before quarantine, then the older one.  Times differ,
\* so that the comparison of ids never decides.
Survivor(p, a, b) ==
    LET s == seen[p] IN
    IF s[a].lane # s[b].lane THEN IF s[a].lane = "trusted" THEN a ELSE b
    ELSE IF s[a].at < s[b].at THEN a ELSE b

PassQueues(p) ==
    /\ stage[p] = "pairs" /\ PairsLeft(p) # {}
    /\ LET ij == NextPair(p)
           a  == list[p][ij[1]]
           b  == list[p][ij[2]]
       IN /\ ~AutoMergeable(p, a, b)
          /\ candidates' = candidates \cup {{a, b}}
          /\ left' = [left EXCEPT ![p] = PairsLeft(p) \ {ij}]
    /\ UNCHANGED <<rowVars, clock, writerVars, withdrawn, stage, list, seen, removed, groups>>

\* try_auto_merge: merge_additive on the two snapshots, then apply_auto_merge.
\* A survivor that has no row any more gets one, with its old indexed_at.
PassMerges(p) ==
    /\ stage[p] = "pairs" /\ PairsLeft(p) # {}
    /\ \E ij \in {NextPair(p)} :
          LET a  == list[p][ij[1]]
              b  == list[p][ij[2]]
          IN /\ AutoMergeable(p, a, b)
             /\ \E s \in {Survivor(p, a, b)} : \E l \in {a, b} \ {s} :
                LET kept == (Live \cup {s}) \ {l}
                IN /\ ApplyAutoMerge(s, l, seen[p][s].lane)
                   /\ tags' = [x \in kept |->
                                  IF x = s THEN seen[p][s].tags \cup seen[p][l].tags
                                           ELSE tags[x]]
                   /\ at' = [x \in kept |-> IF x \in Live THEN at[x] ELSE seen[p][x].at]
                   /\ removed' = [removed EXCEPT ![p] = @ \cup {l}]
             /\ left' = [left EXCEPT ![p] = PairsLeft(p) \ {ij}]
    /\ UNCHANGED <<clock, writerVars, queueVars, stage, list, seen, groups>>

PassIsOver(p) ==
    /\ stage' = [stage EXCEPT ![p] = "idle"]
    /\ list' = [list EXCEPT ![p] = <<>>]
    /\ seen' = [seen EXCEPT ![p] = <<>>]
    /\ left' = [left EXCEPT ![p] = {}]
    /\ removed' = [removed EXCEPT ![p] = {}]
    /\ UNCHANGED <<rowVars, writerVars, queueVars, groups>>

PassEnds(p) ==
    /\ stage[p] = "pairs" /\ PairsLeft(p) = {}
    /\ PassIsOver(p)
    /\ UNCHANGED clock

\* The process stops, or a store call fails and the pass returns its error.
PassStops(p) ==
    /\ stage[p] # "idle"
    /\ clock < MaxClock
    /\ clock' = clock + 1
    /\ PassIsOver(p)

----------------------------------------------------------------------------
(* The sweep                                                               *)

Visible(a) == Trusted(a) /\ row[a].superseded_by = NoOne

VisibleCopies(c) == {a \in Live : Visible(a) /\ ContentOf[a] = c}

\* duplicate_content_groups, with the earliest-indexed copy split off.
SweepGroup(c) ==
    LET first == CHOOSE a \in VisibleCopies(c) :
                    \A b \in VisibleCopies(c) : at[a] <= at[b]
    IN [canonical |-> first, dups |-> VisibleCopies(c) \ {first}]

SweepLists ==
    /\ groups = {}
    /\ groups' = {SweepGroup(c) : c \in {d \in Content : Cardinality(VisibleCopies(d)) > 1}}
    /\ groups' # {}
    /\ UNCHANGED <<rowVars, clock, writerVars, queueVars, passVars>>

SweepMarks(g) ==
    /\ g \in groups
    /\ MarkSuperseded(g.dups, g.canonical)
    /\ groups' = groups \ {g}
    /\ UNCHANGED <<tags, at, clock, writerVars, queueVars, passVars>>

SweepStops ==
    /\ groups # {}
    /\ clock < MaxClock
    /\ groups' = {}
    /\ clock' = clock + 1
    /\ UNCHANGED <<rowVars, writerVars, queueVars, passVars>>

----------------------------------------------------------------------------

(* Which copy the jobs agree on, and when a writer takes it from them      *)

\* The oldest trusted copy of a content: every list has it as the one to keep.
First(a) ==
    /\ Trusted(a)
    /\ \A b \in Live : Trusted(b) /\ ContentOf[b] = ContentOf[a] => at[a] <= at[b]

FirstIsShown(c) ==
    \A a \in Live : First(a) /\ ContentOf[a] = c => row[a].superseded_by = NoOne

ListedInQuarantine(a) ==
    \E p \in Pass : a \in DOMAIN seen[p] /\ seen[p][a].lane = "quarantine"

\* What a writer's step displaces: the first copy is deleted, quarantined or made
\* second to an older one; the first copy is hidden; or an atom that a running pass
\* remembers as quarantined becomes trusted.
Disturbed ==
    {ContentOf[a] : a \in {b \in Atom :
        \/ First(b) /\ ~First(b)'
        \/ First(b)' /\ row'[b].superseded_by # NoOne
        \/ ~Trusted(b) /\ Trusted(b)' /\ ListedInQuarantine(b)}}

NothingListed == groups = {} /\ \A p \in Pass : DOMAIN seen[p] = {}

\* With no list in use, a content is in order when its first copy is shown.
InOrder(c) == NothingListed /\ FirstIsShown(c)

Disturbs == displaced' = {c \in displaced \cup Disturbed : ~InOrder(c)'}
Settles == displaced' = {c \in displaced : ~InOrder(c)'}

----------------------------------------------------------------------------

Writer ==
    \/ \E a \in Atom : \/ WriterGates(a)
                       \/ WriterWrites(a)
                       \/ WriterMarks(a)
                       \/ OperatorPromotes(a)
    \/ \E s \in Source : FullSyncDeletes(s)

PassStarts(p) == \E cutoff \in 0..MaxClock : PassListsCandidates(p, cutoff)

PassGoesOn(p) ==
    \/ PassListsTrusted(p)
    \/ PassQueues(p)
    \/ PassMerges(p)
    \/ PassEnds(p)

Sweep == SweepLists \/ \E g \in groups : SweepMarks(g)

Job ==
    \/ \E p \in Pass : PassStarts(p) \/ PassGoesOn(p) \/ PassStops(p)
    \/ Sweep
    \/ SweepStops

Next ==
    \/ Writer /\ Disturbs
    \/ Job /\ Settles

Spec == Init /\ [][Next]_vars

\* A pass is spawned after every index run of the daemon's poll loop, and the
\* sweep runs every night: both come again for ever, and a task that runs goes
\* on.  Nothing is assumed of the writers.  A step of a pass changes its own
\* variables, one of the sweep its groups.
FairSpec ==
    /\ Spec
    /\ \A p \in Pass : WF_passVars(PassStarts(p)) /\ WF_passVars(PassGoesOn(p))
    /\ WF_groups(Sweep)

----------------------------------------------------------------------------
(* Properties                                                              *)

\* The table-level promise of AtomStore, for merges that delete a row and revive
\* another beside writers that hand out rowids again: no vector belongs to
\* anything but the row it was computed from.
VectorBelongsToItsRow == VectorsBelong({})

\* Folding copies never takes the last one out of sight: while writers leave the
\* first copy of a content alone, a merge or a mark leaves a copy that default
\* search shows.  The pass deletes and the sweep hides, from lists made at different
\* times, whatever is re-indexed, deleted or promoted beside them; they agree only
\* because both keep the oldest trusted copy.
VisibleCopyRemains ==
    [][ (\E p \in Pass : PassMerges(p)) \/ (\E g \in groups : SweepMarks(g)) =>
            \A c \in Content \ displaced : VisibleCopies(c) # {} => VisibleCopies(c)' # {}
      ]_vars

\* A pass leaves no similar pair undecided (R11 of the trust-lane plan): when
\* its loops end, of two listed atoms of one project one was merged away, or the
\* pair waits for the operator, unless a full sync took it from the queue.  The
\* loops skip pairs as they remove atoms.
PassIsThorough ==
    \A p \in Pass : stage[p] = "pairs" /\ PairsLeft(p) = {} =>
        \A a, b \in ToSet(list[p]) \ removed[p] :
            a # b /\ ProjectOf[a] = ProjectOf[b] /\ {a, b} \in Similar
                => {a, b} \in candidates \cup withdrawn

Compatible(a, b) == ProjectOf[a] = ProjectOf[b] /\ {a, b} \notin Conflicting

\* Once the writers are done, copies are folded for good: default search shows a
\* content at most once, and no quarantined atom stays beside a compatible exact
\* copy of it (AE8), whatever was listed, crashed on or promoted before.
EventuallyFolded ==
    <>[] /\ \A c \in Content : Cardinality(VisibleCopies(c)) <= 1
         /\ \A a, b \in Live :
               /\ a # b
               /\ ContentOf[a] = ContentOf[b]
               /\ Compatible(a, b)
               => Trusted(a) /\ Trusted(b)

\* A merge is additive: what it deletes was tagged with survives on some row
\* ("Additive merge of loser into survivor fields", src/quality/merge.rs:99).
\* The code does not keep it in a chain of merges within one pass.
MergeKeepsTags ==
    [][ \A a \in Live \ DOMAIN row' :
            tags[a] \subseteq UNION {tags'[b] : b \in DOMAIN row'} ]_vars
============================================================================
