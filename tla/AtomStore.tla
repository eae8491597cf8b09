----------------------------- MODULE AtomStore -----------------------------
(***************************************************************************)
(* The atom tables of the SQLite store (src/store/mod.rs) and the          *)
(* transactions that change them.                                          *)
(*                                                                         *)
(* Three tables hold one atom: its row in knowledge_atoms, its entry in    *)
(* the full-text index atoms_fts (keyed by atom id) and its entry in the   *)
(* vector index atoms_vec (keyed by the ROWID of the row, not by the id).  *)
(* A deleted row gives its rowid back, so a vector that outlived its row   *)
(* would come to belong to whichever atom is inserted next.                *)
(*                                                                         *)
(* An atom id hashes source, source id and content (src/hashutil.rs), so   *)
(* the content of an id never changes and "content_hash unchanged" means   *)
(* "the row exists".  SQLite gives a new row a rowid that no row holds;    *)
(* the model lets it be any free one, which includes the one it picks.     *)
(***************************************************************************)
EXTENDS FiniteSets, Naturals

CONSTANTS
    Atom,        \* atom ids
    Source,      \* source names
    Content,     \* contents that can be told apart by their hash
    RowId,       \* rowids of knowledge_atoms
    SourceOf,    \* [Atom -> Source]
    ContentOf,   \* [Atom -> Content]
    NoOne        \* "superseded_by IS NULL"

ASSUME AtomFacts == /\ SourceOf \in [Atom -> Source]
                    /\ ContentOf \in [Atom -> Content]
                    /\ NoOne \notin Atom

VARIABLES
    row,   \* knowledge_atoms: a function on the ids that have a row
    fts,   \* atoms_fts: the ids that have an entry
    vec    \* atoms_vec: rowid -> the atom whose content was embedded

storeVars == <<row, fts, vec>>

Lane == {"trusted", "quarantine"}

\* What an atom carries in `embedding` when it is written: nothing, a usable
\* vector, one of near-zero norm, or one of the wrong dimension.
Embedding == {"none", "vector", "tiny", "bad_dim"}

Row == [lane : Lane, superseded_by : Atom \cup {NoOne}, rid : RowId]

Live == DOMAIN row

HasVector(a) == a \in Live /\ row[a].rid \in DOMAIN vec

Trusted(a) == a \in Live /\ row[a].lane = "trusted"

AtomStoreTypeOK ==
    /\ Live \subseteq Atom
    /\ row \in [Live -> Row]
    /\ fts \subseteq Atom
    /\ DOMAIN vec \subseteq RowId
    /\ vec \in [DOMAIN vec -> Atom]

AtomStoreInit ==
    /\ row = [a \in {} |-> NoOne]
    /\ fts = {}
    /\ vec = [r \in {} |-> NoOne]

----------------------------------------------------------------------------
(* Queries                                                                 *)

\* LIMIT 1 without ORDER BY: any trusted row with that content.  Superseded
\* rows are not left out.
FindTrustedByContentHash(c) == {b \in Live : Trusted(b) /\ ContentOf[b] = c}

HasFreshEmbedding(a) == HasVector(a)

\* GateOutcome of quality::gate::evaluate: the lanes an atom may get.  The row
\* that the LIMIT 1 query returned, if any, must be the atom itself; when several
\* trusted rows share the content, which of them it returns is not defined.
GateLane(a, tagged, substantial) ==
    LET copies == FindTrustedByContentHash(ContentOf[a])
        passes == tagged /\ substantial /\ (copies = {} \/ a \in copies)
        fails  == ~tagged \/ ~substantial \/ ~(copies \subseteq {a})
    IN {l \in Lane : (l = "trusted" /\ passes) \/ (l = "quarantine" /\ fails)}

----------------------------------------------------------------------------
(* Writes.  A rowid assignment for the new rows of a batch is injective    *)
(* and avoids the rowids in use.                                           *)

FreshRids(new) ==
    {f \in [new -> RowId] :
        /\ \A a, b \in new : f[a] = f[b] => a = b
        /\ \A a \in new : \A b \in Live : f[a] # row[b].rid}

\* Fault: the upsert as a REPLACE, which resets the columns it does not name.
RowAfterReplace(batch, lane, f) ==
    [a \in Live \cup batch |->
        IF a \notin batch THEN row[a]
        ELSE [lane |-> lane[a], superseded_by |-> NoOne,
              rid |-> IF a \in Live THEN row[a].rid ELSE f[a]]]

RowAfterUpsert(batch, lane, f) ==
    [a \in Live \cup batch |->
        IF a \notin batch THEN row[a]
        ELSE IF a \in Live THEN [row[a] EXCEPT !.lane = lane[a]]
        ELSE [lane |-> lane[a], superseded_by |-> NoOne, rid |-> f[a]]]

\* Faults: the vector of a quarantined write left behind, the hash-skip ignored.
ClearsNoQuarantined(a, lane, emb, new) == emb[a] # "none" \/ a \in new
ClearsUnchanged(a, lane, emb, new) == TRUE

\* Whether upsert_sync removes the vector of `a`: the atom is quarantined, it
\* has a new vector, or it has none and its content is new to the store.
ClearsVector(a, lane, emb, new) ==
    \/ lane[a] = "quarantine"
    \/ emb[a] # "none"
    \/ a \in new

WritesVector(a, lane, emb) == lane[a] = "trusted" /\ emb[a] = "vector"

\* `at` is the table of rows once the batch is in it, `new` the atoms that had
\* no row before.
VecAfterUpsert(batch, lane, emb, new, at) ==
    LET cleared == {at[a].rid : a \in {b \in batch : ClearsVector(b, lane, emb, new)}}
        written == {a \in batch : WritesVector(a, lane, emb)}
        kept    == DOMAIN vec \ cleared
    IN [r \in kept \cup {at[a].rid : a \in written} |->
           IF \E a \in written : at[a].rid = r
           THEN CHOOSE a \in written : at[a].rid = r
           ELSE vec[r]]

\* upsert_batch, committed: every atom's row, full-text entry and vector.
UpsertBatch(batch, lane, emb) ==
    \E f \in FreshRids(batch \ Live) :
        /\ row' = RowAfterUpsert(batch, lane, f)
        /\ fts' = fts \cup batch
        /\ vec' = VecAfterUpsert(batch, lane, emb, batch \ Live, row')

\* The batch is rolled back when a trusted atom's vector has the wrong dimension.
UpsertFails(batch, lane, emb) ==
    \E a \in batch : lane[a] = "trusted" /\ emb[a] = "bad_dim"

\* Faults: one of the two indexes forgotten.
DeleteRowsNotVectors(gone) ==
    /\ row' = [a \in Live \ gone |-> row[a]]
    /\ fts' = fts \ gone
    /\ vec' = vec
DeleteRowsNotFts(gone) ==
    /\ row' = [a \in Live \ gone |-> row[a]]
    /\ fts' = fts
    /\ vec' = [r \in DOMAIN vec \ {row[a].rid : a \in Live \cap gone} |-> vec[r]]

\* Deletes rows with their full-text entries and vectors (delete_source,
\* delete_atom).
DeleteRows(gone) ==
    LET rids == {row[a].rid : a \in Live \cap gone} IN
    /\ row' = [a \in Live \ gone |-> row[a]]
    /\ fts' = fts \ gone
    /\ vec' = [r \in DOMAIN vec \ rids |-> vec[r]]

DeleteSource(s) == DeleteRows({a \in Live : SourceOf[a] = s})

SetTrustLane(a, lane) ==
    /\ a \in Live
    /\ row' = [row EXCEPT ![a].lane = lane]
    /\ UNCHANGED <<fts, vec>>

\* Rows already superseded keep the mark they have; `by` itself is skipped.
MarkSuperseded(ids, by) ==
    /\ row' = [a \in Live |->
                 IF a \in ids /\ a # by /\ row[a].superseded_by = NoOne
                 THEN [row[a] EXCEPT !.superseded_by = by]
                 ELSE row[a]]
    /\ UNCHANGED <<fts, vec>>

\* Faults: the loser kept, or deleted without its vector.
AutoMergeKeepsLoser(survivor, loser, lane) ==
    UpsertBatch({survivor}, [a \in Atom |-> lane], [a \in Atom |-> "none"])
AutoMergeKeepsVector(survivor, loser, lane) ==
    /\ survivor \in Live
    /\ row' = [a \in Live \ {loser} |->
                 IF a = survivor THEN [row[a] EXCEPT !.lane = lane] ELSE row[a]]
    /\ fts' = fts \ {loser}
    /\ vec' = vec

\* apply_auto_merge, committed: the survivor is written as the caller remembers
\* it (a snapshot has no embedding), the loser is deleted if it has a row.
ApplyAutoMerge(survivor, loser, lane) ==
    \E f \in FreshRids({survivor} \ Live) :
        LET lanes == [a \in Atom |-> lane]
            none  == [a \in Atom |-> "none"]
            at    == RowAfterUpsert({survivor}, lanes, f)
            vecs  == VecAfterUpsert({survivor}, lanes, none, {survivor} \ Live, at)
            gone  == {loser} \cap DOMAIN at
        IN /\ row' = [a \in DOMAIN at \ gone |-> at[a]]
           /\ fts' = (fts \cup {survivor}) \ gone
           /\ vec' = [r \in DOMAIN vecs \ {at[a].rid : a \in gone} |-> vecs[r]]

----------------------------------------------------------------------------
(* What the tables promise together                                        *)

\* Two rows never share a rowid.
RowIdsDistinct ==
    \A a, b \in Live : row[a].rid = row[b].rid => a = b

\* A quarantined atom has no vector, so vector search cannot spend its
\* nearest neighbours on it: upsert_sync clears the vector of a quarantined
\* write, and every path that embeds skips quarantine (KTD7).  Vectors of `stray`
\* atoms are left aside.
QuarantineHasNoVector(stray) ==
    \A a \in Live : row[a].lane = "quarantine" /\ HasVector(a) => vec[row[a].rid] \in stray

\* Every vector lies at the rowid of the row it was computed from: however rows
\* are deleted and rowids handed out again, no atom inherits the vector of
\* another.
VectorsBelong(stray) ==
    \A r \in DOMAIN vec : vec[r] \in stray \/ (vec[r] \in Live /\ row[vec[r]].rid = r)

\* The tables are well typed, and every vector, unless it is that of a stray atom,
\* is the vector of one row, which is trusted.
StoreInv(stray) ==
    /\ AtomStoreTypeOK
    /\ RowIdsDistinct
    /\ QuarantineHasNoVector(stray)
    /\ VectorsBelong(stray)
============================================================================
