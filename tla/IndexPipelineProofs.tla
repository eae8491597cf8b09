------------------------ MODULE IndexPipelineProofs ------------------------
(***************************************************************************)
(* What IndexPipeline keeps, for any number of workers, atoms, sources and *)
(* rowids.  IInv is inductive: the tables agree (StoreInv), the workers    *)
(* are where their operation may be (JobsInv), and the full-text index     *)
(* follows the rows.  The first part of the module says what each write of *)
(* AtomStore does to the three tables; what is left to show is that the    *)
(* steps of remember - which commit one by one - are not disturbed by the  *)
(* other workers, and that is what JobsInv is for.                         *)
(*                                                                         *)
(* The last part is about one writer, as the daemon runs the pipeline when *)
(* nothing else writes: SerialInv follows what a job has gated until it is *)
(* written.  Two writers break it, which TLC shows.                        *)
(***************************************************************************)
EXTENDS IndexPipeline, TLAPS

----------------------------------------------------------------------------
(* The writes of the store                                                 *)

\* The empty tables satisfy the invariant.
LEMMA StoreInvInit ==
    AtomStoreInit => StoreInv({})
BY DEF AtomStoreInit, StoreInv, AtomStoreTypeOK, RowIdsDistinct, Live, Row,
       QuarantineHasNoVector, VectorsBelong, HasVector

\* The stray atoms may be named by their value, before a step and after it.
LEMMA StrayByName ==
    ASSUME NEW S, S = overtaken
    PROVE  StoreInv(S) <=> StoreInv(overtaken)
BY DEF StoreInv, QuarantineHasNoVector, VectorsBelong

\* After the step as well.
LEMMA StrayByNameNext ==
    ASSUME NEW S, S = overtaken'
    PROVE  StoreInv(S)' <=> StoreInv(overtaken)'
BY DEF StoreInv, QuarantineHasNoVector, VectorsBelong

\* The rows after a batch: each old row keeps its rowid, each atom of the batch
\* has the lane it was written with, and new rows have rowids of their own.
RowsTakeBatch(at, atoms, lanes) ==
    /\ at \in [Live \cup atoms -> Row]
    /\ DOMAIN at = Live \cup atoms
    /\ \A a, b \in DOMAIN at : at[a].rid = at[b].rid => a = b
    /\ \A a \in Live : at[a].rid = row[a].rid
    /\ \A a \in atoms : at[a].lane = lanes[a]
    /\ \A a \in Live \ atoms : at[a] = row[a]
    /\ \A a \in atoms \ Live : \A b \in Live : at[a].rid # row[b].rid

\* Rows that a batch brings in get rowids of their own.
LEMMA RowAfterUpsertFacts ==
    ASSUME RowIdsDistinct, AtomStoreTypeOK,
           NEW atoms \in SUBSET Atom, NEW lanes \in [Atom -> Lane],
           NEW f \in FreshRids(atoms \ Live),
           NEW at, at = RowAfterUpsert(atoms, lanes, f)
    PROVE  RowsTakeBatch(at, atoms, lanes)
<1>1. f \in [atoms \ Live -> RowId]
  BY DEF FreshRids
<1>2. /\ \A a, b \in atoms \ Live : f[a] = f[b] => a = b
      /\ \A a \in atoms \ Live : \A b \in Live : f[a] # row[b].rid
  BY DEF FreshRids
<1>3. row \in [Live -> Row] /\ Live \subseteq Atom
  BY DEF AtomStoreTypeOK
<1>4. DOMAIN at = Live \cup atoms
  BY DEF RowAfterUpsert
<1>5. ASSUME NEW a \in Live \cup atoms
      PROVE  /\ at[a] \in Row
             /\ a \in Live => at[a].rid = row[a].rid
             /\ a \in atoms => at[a].lane = lanes[a]
             /\ a \notin atoms => at[a] = row[a]
             /\ a \notin Live => at[a].rid = f[a]
  <2>1. CASE a \notin atoms
    BY <1>3, <2>1 DEF RowAfterUpsert
  <2>2. CASE a \in atoms /\ a \in Live
    <3>1. row[a] \in Row /\ lanes[a] \in Lane
      BY <1>3, <2>2
    <3>2. at[a] = [row[a] EXCEPT !.lane = lanes[a]]
      BY <2>2 DEF RowAfterUpsert
    <3> QED BY <2>2, <3>1, <3>2 DEF Row
  <2>3. CASE a \in atoms /\ a \notin Live
    <3>1. at[a] = [lane |-> lanes[a], superseded_by |-> NoOne, rid |-> f[a]]
      BY <2>3 DEF RowAfterUpsert
    <3>2. f[a] \in RowId /\ lanes[a] \in Lane
      BY <1>1, <2>3
    <3> QED BY <2>3, <3>1, <3>2 DEF Row
  <2> QED BY <2>1, <2>2, <2>3
<1>6. at \in [Live \cup atoms -> Row]
  BY <1>5 DEF RowAfterUpsert
<1>7. ASSUME NEW a \in Live \cup atoms, NEW b \in Live \cup atoms,
             at[a].rid = at[b].rid
      PROVE  a = b
  <2>1. \A c, d \in Live : row[c].rid = row[d].rid => c = d
    BY DEF RowIdsDistinct
  <2> QED BY <1>2, <1>5, <1>7, <2>1
<1> QED BY <1>2, <1>4, <1>5, <1>6, <1>7 DEF RowsTakeBatch

\* A committed batch keeps the invariant: the vector of a quarantined atom is
\* removed, that of a new row cannot be an old one, and what is inserted was
\* computed from the content of the atom that owns the rowid.
LEMMA UpsertBatchKeepsStoreInv ==
    ASSUME NEW S, StoreInv(S),
           NEW atoms \in SUBSET Atom, NEW lanes \in [Atom -> Lane],
           NEW outcome \in [Atom -> Embedding],
           UpsertBatch(atoms, lanes, outcome)
    PROVE  StoreInv(S)'
<1>1. PICK f \in FreshRids(atoms \ Live) :
          /\ row' = RowAfterUpsert(atoms, lanes, f)
          /\ fts' = fts \cup atoms
          /\ vec' = VecAfterUpsert(atoms, lanes, outcome, atoms \ Live, row')
  BY DEF UpsertBatch
<1> DEFINE new == atoms \ Live
           cleared == {row'[a].rid : a \in {b \in atoms : ClearsVector(b, lanes, outcome, new)}}
           written == {a \in atoms : WritesVector(a, lanes, outcome)}
<1>2. /\ row' \in [Live \cup atoms -> Row]
      /\ Live' = Live \cup atoms
      /\ \A a, b \in Live' : row'[a].rid = row'[b].rid => a = b
      /\ \A a \in Live : row'[a].rid = row[a].rid
      /\ \A a \in atoms : row'[a].lane = lanes[a]
      /\ \A a \in Live \ atoms : row'[a] = row[a]
      /\ \A a \in new : \A b \in Live : row'[a].rid # row[b].rid
  <2> DEFINE at == RowAfterUpsert(atoms, lanes, f)
  <2>0. at = RowAfterUpsert(atoms, lanes, f)
    OBVIOUS
  <2> HIDE DEF at
  <2>1. RowsTakeBatch(at, atoms, lanes)
    BY <2>0, RowAfterUpsertFacts DEF StoreInv
  <2>2. row' = at
    BY <1>1, <2>0
  <2>3. Live' = DOMAIN at
    BY <2>2 DEF Live
  <2> QED BY <2>1, <2>2, <2>3 DEF RowsTakeBatch
<1>3. DOMAIN vec' = (DOMAIN vec \ cleared) \cup {row'[a].rid : a \in written}
  BY <1>1, Zenon DEF VecAfterUpsert
<1>4. ASSUME NEW a \in written
      PROVE  vec'[row'[a].rid] = a
  <2> DEFINE r == row'[a].rid
             owner == CHOOSE b \in written : row'[b].rid = r
  <2>1. r \in DOMAIN vec'
    BY <1>3
  <2>2. owner \in written /\ row'[owner].rid = r
    BY Zenon
  <2>3. owner = a
    BY <1>2, <2>2
  <2>4. vec'[r] = owner
    BY <1>1, <2>1, <1>3, Zenon DEF VecAfterUpsert
  <2> QED BY <2>3, <2>4
<1>5. ASSUME NEW r \in DOMAIN vec', \A a \in written : row'[a].rid # r
      PROVE  vec'[r] = vec[r] /\ r \in DOMAIN vec /\ r \notin cleared
  <2>1. r \in DOMAIN vec \ cleared
    BY <1>3, <1>5
  <2>2. vec'[r] = vec[r]
    BY <1>1, <1>3, <1>5, Zenon DEF VecAfterUpsert
  <2> QED BY <2>1, <2>2
<1>6. AtomStoreTypeOK'
  <2>1. Live' \subseteq Atom /\ row' \in [Live' -> Row] /\ fts' \subseteq Atom
    BY <1>1, <1>2 DEF StoreInv, AtomStoreTypeOK
  <2>2. \A a \in written : row'[a].rid \in RowId
    BY <1>2 DEF Row
  <2>3. DOMAIN vec' \subseteq RowId
    BY <1>3, <2>2 DEF StoreInv, AtomStoreTypeOK
  <2>4. \A r \in DOMAIN vec' : vec'[r] \in Atom
    BY <1>4, <1>5 DEF StoreInv, AtomStoreTypeOK
  <2>5. vec' = [r \in DOMAIN vec' |-> vec'[r]]
    BY <1>1 DEF VecAfterUpsert
  <2> QED BY <2>1, <2>3, <2>4, <2>5 DEF AtomStoreTypeOK
<1>7. RowIdsDistinct'
  BY <1>2 DEF RowIdsDistinct
<1>8. QuarantineHasNoVector(S)'
  <2> SUFFICES ASSUME NEW a \in Live', row'[a].lane = "quarantine",
                      row'[a].rid \in DOMAIN vec'
               PROVE  vec'[row'[a].rid] \in S
    BY DEF QuarantineHasNoVector, HasVector
  <2>1. a \notin written
    BY <1>2 DEF WritesVector
  <2>2. \A b \in written : row'[b].rid # row'[a].rid
    BY <1>2, <2>1
  <2>3. /\ row'[a].rid \in DOMAIN vec /\ row'[a].rid \notin cleared
        /\ vec'[row'[a].rid] = vec[row'[a].rid]
    BY <1>5, <2>2
  <2>4. a \notin atoms
    BY <1>2, <2>3 DEF ClearsVector
  <2>5. a \in Live /\ row'[a] = row[a]
    BY <1>2, <2>4
  <2> QED BY <2>3, <2>5 DEF StoreInv, QuarantineHasNoVector, HasVector
<1>9. VectorsBelong(S)'
  <2> SUFFICES ASSUME NEW r \in DOMAIN vec'
               PROVE  vec'[r] \in S \/ (vec'[r] \in Live' /\ row'[vec'[r]].rid = r)
    BY DEF VectorsBelong
  <2>1. CASE \E a \in written : row'[a].rid = r
    BY <1>2, <1>4, <2>1
  <2>2. CASE \A a \in written : row'[a].rid # r
    <3>1. vec'[r] = vec[r] /\ r \in DOMAIN vec
      BY <1>5, <2>2
    <3>2. vec[r] \in S \/ (vec[r] \in Live /\ row[vec[r]].rid = r)
      BY <3>1 DEF StoreInv, VectorsBelong
    <3> QED BY <1>2, <3>1, <3>2
  <2> QED BY <2>1, <2>2
<1> QED BY <1>6, <1>7, <1>8, <1>9 DEF StoreInv

\* Deleting rows with their vectors keeps the invariant: no vector is left at
\* a rowid that is free again.
LEMMA DeleteRowsKeepsStoreInv ==
    ASSUME NEW S, StoreInv(S), NEW gone, DeleteRows(gone)
    PROVE  StoreInv(S)'
<1> DEFINE rids == {row[a].rid : a \in Live \cap gone}
<1>1. /\ Live' = Live \ gone
      /\ row' \in [Live' -> Row]
      /\ \A a \in Live' : row'[a] = row[a]
  BY DEF DeleteRows, Live, StoreInv, AtomStoreTypeOK
<1>2. /\ DOMAIN vec' = DOMAIN vec \ rids
      /\ vec' = [r \in DOMAIN vec' |-> vec[r]]
  BY DEF DeleteRows
<1>3. fts' \subseteq fts
  BY DEF DeleteRows
<1>4. AtomStoreTypeOK'
  BY <1>1, <1>2, <1>3 DEF StoreInv, AtomStoreTypeOK
<1>5. RowIdsDistinct' /\ QuarantineHasNoVector(S)'
  BY <1>1, <1>2 DEF StoreInv, RowIdsDistinct, QuarantineHasNoVector, HasVector
<1>6. VectorsBelong(S)'
  BY <1>1, <1>2 DEF StoreInv, VectorsBelong
<1> QED BY <1>4, <1>5, <1>6 DEF StoreInv

\* Promoting an atom keeps the invariant: it has no vector before and after.
LEMMA PromotionKeepsStoreInv ==
    ASSUME NEW S, StoreInv(S), NEW a, SetTrustLane(a, "trusted")
    PROVE  StoreInv(S)'
<1>1. /\ Live' = Live
      /\ row' \in [Live -> Row]
      /\ \A b \in Live : /\ row'[b].rid = row[b].rid
                         /\ row'[b].lane = "quarantine" => row[b].lane = "quarantine"
      /\ vec' = vec /\ fts' = fts
  BY DEF SetTrustLane, Live, StoreInv, AtomStoreTypeOK, Row, Lane
<1> QED BY <1>1 DEF StoreInv, AtomStoreTypeOK, RowIdsDistinct, QuarantineHasNoVector,
                    VectorsBelong, HasVector

\* A mark changes neither a lane nor a rowid.
LEMMA MarkSupersededKeepsStoreInv ==
    ASSUME NEW S, StoreInv(S), NEW ids, NEW by \in Atom, MarkSuperseded(ids, by)
    PROVE  StoreInv(S)'
<1>1. /\ Live' = Live
      /\ row' \in [Live -> Row]
      /\ \A b \in Live : row'[b].rid = row[b].rid /\ row'[b].lane = row[b].lane
      /\ vec' = vec /\ fts' = fts
  BY DEF MarkSuperseded, Live, StoreInv, AtomStoreTypeOK, Row
<1> QED BY <1>1 DEF StoreInv, AtomStoreTypeOK, RowIdsDistinct, QuarantineHasNoVector,
                    VectorsBelong, HasVector

\* upsert outside a transaction, first statement: the rowid of a new row is
\* free, so the row starts without a vector or with a stray one.
LEMMA NewRowKeepsStoreInv ==
    ASSUME NEW S, StoreInv(S),
           NEW a \in Atom \ Live, NEW lanes \in [Atom -> Lane],
           NEW f \in FreshRids({a} \ Live), row' = RowAfterUpsert({a}, lanes, f),
           UNCHANGED <<fts, vec>>
    PROVE  StoreInv(S)'
<1> DEFINE at == RowAfterUpsert({a}, lanes, f)
<1>1. at = RowAfterUpsert({a}, lanes, f)
  OBVIOUS
<1> HIDE DEF at
<1>2. RowsTakeBatch(at, {a}, lanes)
  BY <1>1, RowAfterUpsertFacts DEF StoreInv
<1>3. row' = at
  BY <1>1
<1>4. /\ row' \in [Live \cup {a} -> Row]
      /\ Live' = Live \cup {a}
      /\ \A b, c \in Live' : row'[b].rid = row'[c].rid => b = c
      /\ \A b \in Live : row'[b] = row[b]
      /\ \A b \in Live : row'[a].rid # row[b].rid
  BY <1>2, <1>3 DEF RowsTakeBatch, Live
<1>5. row'[a].rid \in DOMAIN vec => vec[row'[a].rid] \in S
  BY <1>4 DEF StoreInv, VectorsBelong
<1>6. AtomStoreTypeOK' /\ RowIdsDistinct'
  BY <1>4 DEF StoreInv, AtomStoreTypeOK, RowIdsDistinct
<1>7. QuarantineHasNoVector(S)'
  BY <1>4, <1>5 DEF StoreInv, QuarantineHasNoVector, HasVector
<1>8. VectorsBelong(S)'
  <2> SUFFICES ASSUME NEW r \in DOMAIN vec
               PROVE  vec[r] \in S \/ (vec[r] \in Live' /\ row'[vec[r]].rid = r)
    BY DEF VectorsBelong
  <2>1. vec[r] \in S \/ (vec[r] \in Live /\ row[vec[r]].rid = r)
    BY DEF StoreInv, VectorsBelong
  <2> QED BY <1>4, <2>1
<1> QED BY <1>6, <1>7, <1>8 DEF StoreInv

\* What the last statements of an upsert outside a transaction do to the vectors:
\* the one at the rowid is gone, or is that of the atom.
LEMMA OneVectorWritten ==
    ASSUME NEW a \in Atom, NEW r, NEW lanes, NEW outcome,
           vec' = VecAfterUpsert({a}, lanes, outcome, {a}, [b \in {a} |-> [rid |-> r]])
    PROVE  /\ WritesVector(a, lanes, outcome) =>
                /\ DOMAIN vec' = DOMAIN vec \cup {r}
                /\ vec' = [q \in DOMAIN vec' |-> IF q = r THEN a ELSE vec[q]]
           /\ ~WritesVector(a, lanes, outcome) =>
                /\ DOMAIN vec' = DOMAIN vec \ {r}
                /\ vec' = [q \in DOMAIN vec' |-> vec[q]]
<1> DEFINE at == [b \in {a} |-> [rid |-> r]]
<1>1. at[a].rid = r
  OBVIOUS
<1>2. {b \in {a} : ClearsVector(b, lanes, outcome, {a})} = {a}
  BY DEF ClearsVector
<1>3. {at[b].rid : b \in {a}} = {r}
  BY <1>1
<1> HIDE DEF at
<1>4. CASE WritesVector(a, lanes, outcome)
  <2>1. {b \in {a} : WritesVector(b, lanes, outcome)} = {a}
    BY <1>4
  <2>2. vec' = VecAfterUpsert({a}, lanes, outcome, {a}, at)
    BY DEF at
  <2>3. vec' = [q \in (DOMAIN vec \ {r}) \cup {r} |-> IF \E b \in {a} : at[b].rid = q
                                                     THEN CHOOSE b \in {a} : at[b].rid = q
                                                     ELSE vec[q]]
    BY <1>2, <1>3, <2>1, <2>2 DEF VecAfterUpsert
  <2>4. (CHOOSE b \in {a} : at[b].rid = r) = a
    BY <1>1
  <2>5. DOMAIN vec' = DOMAIN vec \cup {r}
    BY <2>3
  <2>6. \A q \in DOMAIN vec' : vec'[q] = IF q = r THEN a ELSE vec[q]
    BY <1>1, <2>3, <2>4
  <2> QED BY <1>4, <2>3, <2>5, <2>6
<1>5. CASE ~WritesVector(a, lanes, outcome)
  <2>1. {b \in {a} : WritesVector(b, lanes, outcome)} = {}
    BY <1>5
  <2>2. vec' = VecAfterUpsert({a}, lanes, outcome, {a}, at)
    BY DEF at
  <2>3. vec' = [q \in DOMAIN vec \ {r} |-> vec[q]]
    BY <1>2, <1>3, <2>1, <2>2 DEF VecAfterUpsert
  <2> QED BY <1>5, <2>3
<1> QED BY <1>4, <1>5

\* upsert outside a transaction, last statements: a vector is inserted for an
\* atom whose row is there and trusted, or for a stray one.
LEMMA NewVectorKeepsStoreInv ==
    ASSUME NEW S, StoreInv(S),
           NEW a \in Atom, NEW r \in RowId, NEW lanes, NEW outcome,
           a \in S \/ (a \in Live /\ row[a].rid = r /\ (lanes[a] = "trusted" => Trusted(a))),
           vec' = VecAfterUpsert({a}, lanes, outcome, {a}, [b \in {a} |-> [rid |-> r]]),
           UNCHANGED <<row, fts>>
    PROVE  StoreInv(S)'
<1>1. Live' = Live /\ row' = row /\ fts' = fts
  BY DEF Live
<1>2. \A q \in DOMAIN vec' : \/ q \in DOMAIN vec /\ vec'[q] = vec[q]
                             \/ q = r /\ vec'[q] = a /\ lanes[a] = "trusted"
  <2>1. \/ /\ lanes[a] = "trusted"
           /\ DOMAIN vec' = DOMAIN vec \cup {r}
           /\ vec' = [q \in DOMAIN vec' |-> IF q = r THEN a ELSE vec[q]]
        \/ /\ DOMAIN vec' = DOMAIN vec \ {r}
           /\ vec' = [q \in DOMAIN vec' |-> vec[q]]
    BY OneVectorWritten DEF WritesVector
  <2>2. ASSUME DOMAIN vec' = DOMAIN vec \cup {r},
               vec' = [q \in DOMAIN vec' |-> IF q = r THEN a ELSE vec[q]]
        PROVE  \A q \in DOMAIN vec' : vec'[q] = IF q = r THEN a ELSE vec[q]
    BY <2>2
  <2>3. ASSUME DOMAIN vec' = DOMAIN vec \ {r}, vec' = [q \in DOMAIN vec' |-> vec[q]]
        PROVE  \A q \in DOMAIN vec' : vec'[q] = vec[q]
    BY <2>3
  <2> QED BY <2>1, <2>2, <2>3
<1>3. AtomStoreTypeOK'
  <2>1. \A q \in DOMAIN vec' : q \in RowId /\ vec'[q] \in Atom
    BY <1>2 DEF StoreInv, AtomStoreTypeOK
  <2>2. vec' = [q \in DOMAIN vec' |-> vec'[q]]
    BY OneVectorWritten
  <2> QED BY <1>1, <2>1, <2>2 DEF StoreInv, AtomStoreTypeOK
<1>4. RowIdsDistinct'
  BY <1>1 DEF StoreInv, RowIdsDistinct
<1>5. QuarantineHasNoVector(S)'
  <2> SUFFICES ASSUME NEW b \in Live, row[b].lane = "quarantine", row[b].rid \in DOMAIN vec'
               PROVE  vec'[row[b].rid] \in S
    BY <1>1 DEF QuarantineHasNoVector, HasVector
  <2>1. CASE row[b].rid \in DOMAIN vec /\ vec'[row[b].rid] = vec[row[b].rid]
    BY <2>1 DEF StoreInv, QuarantineHasNoVector, HasVector
  <2>2. CASE row[b].rid = r /\ vec'[row[b].rid] = a /\ lanes[a] = "trusted" /\ a \notin S
    <3>1. b = a
      BY <2>2 DEF StoreInv, RowIdsDistinct
    <3> QED BY <2>2, <3>1 DEF Trusted
  <2> QED BY <1>2, <2>1, <2>2
<1>6. VectorsBelong(S)'
  BY <1>1, <1>2 DEF StoreInv, VectorsBelong
<1> QED BY <1>3, <1>4, <1>5, <1>6 DEF StoreInv

\* A merge with what is in the tables takes the loser out of them, and from the
\* survivor at most a vector that it has in quarantine.
LEMMA MergeEffect ==
    ASSUME AtomStoreTypeOK, RowIdsDistinct, NEW s \in Live, NEW l \in Live, s # l,
           ApplyAutoMerge(s, l, row[s].lane)
    PROVE  /\ Live' = Live \ {l}
           /\ row' = [a \in Live \ {l} |-> row[a]]
           /\ fts' = (fts \cup {s}) \ {l}
           /\ DOMAIN vec' = {r \in DOMAIN vec : /\ r # row[l].rid
                                                /\ r = row[s].rid => row[s].lane # "quarantine"}
           /\ vec' = [r \in DOMAIN vec' |-> vec[r]]
<1> DEFINE lanes == [a \in Atom |-> row[s].lane]
           none == [a \in Atom |-> "none"]
<1>1. PICK f \in FreshRids({s} \ Live) :
        LET at   == RowAfterUpsert({s}, lanes, f)
            vecs == VecAfterUpsert({s}, lanes, none, {s} \ Live, at)
            gone == {l} \cap DOMAIN at
        IN /\ row' = [a \in DOMAIN at \ gone |-> at[a]]
           /\ fts' = (fts \cup {s}) \ gone
           /\ vec' = [r \in DOMAIN vecs \ {at[a].rid : a \in gone} |-> vecs[r]]
  BY DEF ApplyAutoMerge
<1> DEFINE at == RowAfterUpsert({s}, lanes, f)
           vecs == VecAfterUpsert({s}, lanes, none, {s} \ Live, at)
<1>2. /\ row \in [Live -> Row] /\ s \in Atom /\ l \in Atom
      /\ lanes[s] = row[s].lane /\ none[s] = "none" /\ {s} \ Live = {}
  BY DEF AtomStoreTypeOK
<1>3. at = row
  <2>1. [row[s] EXCEPT !.lane = lanes[s]] = row[s]
    BY <1>2 DEF Row
  <2>2. Live \cup {s} = Live
    OBVIOUS
  <2>3. at = [a \in Live |-> IF a \notin {s} THEN row[a] ELSE [row[a] EXCEPT !.lane = lanes[a]]]
    BY <2>2 DEF RowAfterUpsert
  <2>4. \A a \in Live : at[a] = row[a]
    BY <2>1, <2>3
  <2> QED BY <1>2, <2>3, <2>4
<1>4. /\ row' = [a \in DOMAIN at \ ({l} \cap DOMAIN at) |-> at[a]]
      /\ fts' = (fts \cup {s}) \ ({l} \cap DOMAIN at)
      /\ vec' = [r \in DOMAIN vecs \ {at[a].rid : a \in {l} \cap DOMAIN at} |-> vecs[r]]
  BY <1>1
<1> HIDE DEF at
<1>5. DOMAIN at = Live /\ {l} \cap DOMAIN at = {l} /\ {at[a].rid : a \in {l}} = {row[l].rid}
  BY <1>3 DEF Live
<1>6. /\ DOMAIN vecs = {r \in DOMAIN vec : r = row[s].rid => row[s].lane # "quarantine"}
      /\ vecs = [r \in DOMAIN vecs |-> vec[r]]
  <2>1. {b \in {s} : WritesVector(b, lanes, none)} = {}
    BY <1>2 DEF WritesVector
  <2>2. {b \in {s} : ClearsVector(b, lanes, none, {s} \ Live)}
          = IF row[s].lane = "quarantine" THEN {s} ELSE {}
    BY <1>2 DEF ClearsVector
  <2> DEFINE cleared == {at[a].rid : a \in IF row[s].lane = "quarantine" THEN {s} ELSE {}}
  <2>3. vecs = [r \in DOMAIN vec \ cleared |-> vec[r]]
    BY <2>1, <2>2 DEF VecAfterUpsert
  <2>4. DOMAIN vec \ cleared = {r \in DOMAIN vec : r = row[s].rid => row[s].lane # "quarantine"}
    BY <1>3
  <2> QED BY <2>3, <2>4
<1> HIDE DEF vecs
<1>7. row' = [a \in Live \ {l} |-> row[a]] /\ fts' = (fts \cup {s}) \ {l}
  BY <1>3, <1>4, <1>5
<1>8. vec' = [r \in DOMAIN vecs \ {row[l].rid} |-> vecs[r]]
  BY <1>4, <1>5
<1>9. Live' = Live \ {l}
  BY <1>7 DEF Live
<1> QED BY <1>6, <1>7, <1>8, <1>9

\* So it keeps the invariant, and would with more stray atoms.
LEMMA MergeKeepsStoreInv ==
    ASSUME NEW S, StoreInv(S), NEW T, S \subseteq T, NEW s \in Live, NEW l \in Live, s # l,
           ApplyAutoMerge(s, l, row[s].lane)
    PROVE  StoreInv(T)'
<1>1. /\ Live' = Live \ {l}
      /\ row' = [a \in Live \ {l} |-> row[a]]
      /\ fts' = (fts \cup {s}) \ {l}
      /\ DOMAIN vec' \subseteq DOMAIN vec \ {row[l].rid}
      /\ vec' = [r \in DOMAIN vec' |-> vec[r]]
  <2>1. AtomStoreTypeOK /\ RowIdsDistinct
    BY DEF StoreInv
  <2>2. /\ Live' = Live \ {l}
        /\ row' = [a \in Live \ {l} |-> row[a]]
        /\ fts' = (fts \cup {s}) \ {l}
        /\ DOMAIN vec' = {r \in DOMAIN vec : /\ r # row[l].rid
                                             /\ r = row[s].rid => row[s].lane # "quarantine"}
        /\ vec' = [r \in DOMAIN vec' |-> vec[r]]
    BY <2>1, MergeEffect
  <2> QED BY <2>2
<1>2. AtomStoreTypeOK'
  BY <1>1 DEF StoreInv, AtomStoreTypeOK
<1>3. RowIdsDistinct'
  BY <1>1 DEF StoreInv, RowIdsDistinct
<1>4. QuarantineHasNoVector(T)'
  BY <1>1 DEF StoreInv, QuarantineHasNoVector, HasVector
<1>5. VectorsBelong(T)'
  BY <1>1 DEF StoreInv, VectorsBelong
<1> QED BY <1>2, <1>3, <1>4, <1>5 DEF StoreInv

----------------------------------------------------------------------------
(* What holds of the jobs                                                  *)

JobTypeOK ==
    /\ op \in [Worker -> Op]
    /\ pc \in [Worker -> Label]
    /\ batch \in [Worker -> SUBSET Atom]
    /\ todo \in [Worker -> SUBSET Atom]
    /\ lane \in [Worker -> [Atom -> Lane]]
    /\ emb \in [Worker -> [Atom -> Embedding]]
    /\ pending \in [Worker -> SUBSET Atom]
    /\ cli \in [Worker -> BOOLEAN]
    /\ rowid \in [Worker -> SUBSET RowId]

IInv ==
    /\ StoreInv(overtaken)
    /\ JobTypeOK
    /\ JobsInv
    /\ FtsFollowsRows

\* The inductive invariant holds before anything has run.
LEMMA InitIInv == Init => IInv
<1> SUFFICES ASSUME Init PROVE IInv
  OBVIOUS
<1>1. StoreInv(overtaken)
  BY StoreInvInit, StrayByName DEF Init
<1>2. JobTypeOK
  BY DEF Init, JobTypeOK, Op, Label, Lane, Embedding, NoLanes, NoEmbeddings
<1>3. JobsInv
  BY DEF Init, JobsInv, JobsInOrder, RememberedIsNew, RememberedRowStays,
         ContainedJobs, LabelsOf, WritableBy, NoLanes
<1>4. FtsFollowsRows
  BY DEF Init, AtomStoreInit, FtsFollowsRows, Live
<1> QED BY <1>1, <1>2, <1>3, <1>4 DEF IInv

\* Lanes the gate can give are lanes, and embeddings are embeddings.
LEMMA GateTypes ==
    ASSUME NEW w \in Worker, NEW a \in Atom,
           NEW l \in GatedLanes(w, a), NEW e \in InlineEmbedding(w, l)
    PROVE  l \in Lane /\ e \in Embedding
<1>1. \A x \in Evaluate(a) : x \in Lane
  BY DEF Evaluate, GateLane
<1>2. l \in Lane
  BY <1>1 DEF GatedLanes, Lane
<1>3. e \in Embedding
  BY PipelineFacts DEF InlineEmbedding, Embedding
<1> QED BY <1>2, <1>3

\* Returning leaves the job variables typed.
LEMMA FinishTypes ==
    ASSUME JobTypeOK, NEW w \in Worker, Finish(w)
    PROVE  JobTypeOK'
<1>1. NoLanes \in [Atom -> Lane] /\ NoEmbeddings \in [Atom -> Embedding]
  BY DEF NoLanes, NoEmbeddings, Lane, Embedding
<1> QED BY <1>1 DEF JobTypeOK, Finish, Op, Label

\* So does starting, and moving on to another call with nothing else changed.
LEMMA BeginTypes ==
    ASSUME JobTypeOK, NEW w \in Worker, NEW o \in Op, NEW label \in Label,
           NEW atoms \in SUBSET Atom, NEW operator \in BOOLEAN,
           Begin(w, o, label, atoms, operator)
    PROVE  JobTypeOK'
BY DEF JobTypeOK, Begin

\* So does moving on,
LEMMA GoToTypes ==
    ASSUME JobTypeOK, NEW w \in Worker, NEW label \in Label,
           NEW atoms \in SUBSET Atom, GoTo(w, label, atoms)
    PROVE  /\ pc' \in [Worker -> Label]
           /\ todo' \in [Worker -> SUBSET Atom]
BY DEF JobTypeOK, GoTo

\* or taking one atom of a loop.
LEMMA LoopStepTypes ==
    ASSUME JobTypeOK, NEW w \in Worker, NEW a, NEW here \in Label, NEW next \in Label,
           LoopStep(w, a, here, next)
    PROVE  /\ pc' \in [Worker -> Label]
           /\ todo' \in [Worker -> SUBSET Atom]
<1>1. batch[w] \in SUBSET Atom /\ todo[w] \ {a} \in SUBSET Atom
  BY DEF JobTypeOK
<1> QED BY <1>1, GoToTypes DEF LoopStep

\* Every step keeps the job variables typed.
LEMMA NextTypes ==
    ASSUME JobTypeOK, AtomStoreTypeOK', NEW w \in Worker, Start(w) \/ Work(w) \/ Crash(w)
    PROVE  JobTypeOK'
<1>1. ASSUME NEW s \in Source, NEW full \in BOOLEAN, NEW atoms \in SUBSET Atom,
             StartIndex(w, s, full, atoms)
      PROVE  JobTypeOK'
  <2>1. (IF full THEN "delete" ELSE "gate") \in Label /\ "index" \in Op
    BY DEF Label, Op
  <2> QED BY <1>1, <2>1, BeginTypes DEF StartIndex
<1>2. ASSUME NEW atoms \in SUBSET Atom, StartIngest(w, atoms)
      PROVE  JobTypeOK'
  BY <1>2, BeginTypes DEF StartIngest, Label, Op
<1>3. ASSUME NEW a \in Atom, NEW operator \in BOOLEAN, StartRemember(w, a, operator)
      PROVE  JobTypeOK'
  BY <1>3, BeginTypes DEF StartRemember, Label, Op
<1>4. ASSUME NEW a \in Atom, NEW operator \in BOOLEAN, StartPromote(w, a, operator)
      PROVE  JobTypeOK'
  BY <1>4, BeginTypes DEF StartPromote, Label, Op
<1>5. ASSUME NEW s \in Source, FullSyncDeletes(w, s)
      PROVE  JobTypeOK'
  <2>1. CASE batch[w] = {}
    BY <1>5, <2>1, FinishTypes DEF FullSyncDeletes
  <2>2. CASE batch[w] # {}
    BY <1>5, <2>2 DEF FullSyncDeletes, GoTo, JobTypeOK, Label
  <2> QED BY <2>1, <2>2
<1>6. ASSUME NEW a \in Atom, Gate(w, a)
      PROVE  JobTypeOK'
  <2>0. PICK l \in GatedLanes(w, a) : \E e \in InlineEmbedding(w, l) :
            /\ lane' = [lane EXCEPT ![w][a] = l]
            /\ emb' = [emb EXCEPT ![w][a] = e]
    BY <1>6 DEF Gate
  <2>1. PICK e \in InlineEmbedding(w, l) :
            /\ lane' = [lane EXCEPT ![w][a] = l]
            /\ emb' = [emb EXCEPT ![w][a] = e]
    BY <2>0
  <2>2. l \in Lane /\ e \in Embedding
    BY <2>1, GateTypes
  <2>3. /\ lane' \in [Worker -> [Atom -> Lane]]
        /\ emb' \in [Worker -> [Atom -> Embedding]]
    BY <2>1, <2>2 DEF JobTypeOK
  <2>4. /\ pc' \in [Worker -> Label]
        /\ todo' \in [Worker -> SUBSET Atom]
    <3>1. AfterGate(w) \in Label /\ "gate" \in Label
      BY DEF AfterGate, Label
    <3> QED BY <1>6, <3>1, LoopStepTypes DEF Gate
  <2> QED BY <1>6, <2>3, <2>4 DEF Gate, JobTypeOK
<1>7. ASSUME NEW a \in Atom, PlanEmbed(w, a)
      PROVE  JobTypeOK'
  <2>1. "plan" \in Label /\ "embed" \in Label
    BY DEF Label
  <2>2. /\ pc' \in [Worker -> Label]
        /\ todo' \in [Worker -> SUBSET Atom]
    BY <1>7, <2>1, LoopStepTypes DEF PlanEmbed
  <2>3. pending' \in [Worker -> SUBSET Atom]
    BY <1>7 DEF PlanEmbed, JobTypeOK
  <2> QED BY <1>7, <2>2, <2>3 DEF PlanEmbed, JobTypeOK
<1>8. CASE EmbedBatch(w)
  <2>1. PICK r \in [pending[w] -> EmbedResults] :
            emb' = [emb EXCEPT ![w] =
                       [a \in Atom |-> IF a \in pending[w] THEN r[a] ELSE emb[w][a]]]
    BY <1>8 DEF EmbedBatch
  <2>2. [a \in Atom |-> IF a \in pending[w] THEN r[a] ELSE emb[w][a]]
            \in [Atom -> Embedding]
    <3>1. \A a \in pending[w] : r[a] \in Embedding
      BY <2>1, PipelineFacts
    <3>2. emb[w] \in [Atom -> Embedding]
      BY DEF JobTypeOK
    <3> QED BY <3>1, <3>2
  <2>3. emb' \in [Worker -> [Atom -> Embedding]]
    BY <2>1, <2>2 DEF JobTypeOK
  <2> QED BY <1>8, <2>3 DEF EmbedBatch, GoTo, JobTypeOK, Label
<1>9. CASE WriteBatch(w)
  <2>1. CASE op[w] = "index"
    BY <1>9, <2>1 DEF WriteBatch, GoTo, JobTypeOK, Label
  <2>2. CASE op[w] # "index"
    BY <1>9, <2>2, FinishTypes DEF WriteBatch
  <2> QED BY <2>1, <2>2
<1>10. CASE WriteBatchRollsBack(w) \/ Crash(w)
  BY <1>10, FinishTypes DEF WriteBatchRollsBack, Crash
<1>11. ASSUME NEW a \in Atom, MarkSupersedes(w, a)
       PROVE  JobTypeOK'
  <2>1. CASE todo[w] = {a}
    BY <1>11, <2>1, FinishTypes DEF MarkSupersedes
  <2>2. CASE todo[w] # {a}
    <3>1. "mark" \in Label /\ todo[w] \ {a} \in SUBSET Atom
      BY DEF JobTypeOK, Label
    <3>2. /\ GoTo(w, "mark", todo[w] \ {a})
          /\ UNCHANGED <<op, batch, lane, emb, pending, cli, rowid>>
      BY <1>11, <2>2 DEF MarkSupersedes
    <3> QED BY <3>1, <3>2, GoToTypes DEF JobTypeOK
  <2> QED BY <2>1, <2>2
<1>12. ASSUME NEW a \in Atom, RememberRow(w, a) \/ RememberFts(w, a)
       PROVE  JobTypeOK'
  <2>1. CASE RememberRow(w, a)
    <3>1. PICK f \in FreshRids({a} \ Live) :
              /\ row' = RowAfterUpsert({a}, lane[w], f)
              /\ rowid' = [rowid EXCEPT ![w] = {row'[a].rid}]
      BY <2>1 DEF RememberRow
    <3>2. a \in Live'
      BY <3>1 DEF RowAfterUpsert, Live
    <3>3. row'[a].rid \in RowId
      BY <3>2 DEF AtomStoreTypeOK, Row
    <3>4. rowid' \in [Worker -> SUBSET RowId]
      BY <3>1, <3>3 DEF JobTypeOK
    <3> QED BY <2>1, <3>4 DEF RememberRow, GoTo, JobTypeOK, Label
  <2>2. CASE RememberFts(w, a)
    BY <2>2 DEF RememberFts, GoTo, JobTypeOK, Label
  <2> QED BY <1>12, <2>1, <2>2
<1>13. ASSUME NEW a \in Atom,
              RememberVec(w, a) \/ PromoteSets(w, a) \/ PromoteFindsNoRow(w, a)
       PROVE  JobTypeOK'
  BY <1>13, FinishTypes DEF RememberVec, PromoteSets, PromoteFindsNoRow
<1>14. ASSUME NEW a \in Atom, PromoteEvaluates(w, a)
       PROVE  JobTypeOK'
  <2>1. \/ Finish(w)
        \/ GoTo(w, "set", batch[w]) /\ UNCHANGED <<op, batch, lane, emb, pending, cli, rowid>>
    BY <1>14 DEF PromoteEvaluates
  <2> QED BY <2>1, FinishTypes DEF GoTo, JobTypeOK, Label
<1>15. \A s \in Source : AtomsOf(s) \subseteq Atom
  BY DEF AtomsOf
<1>16. AtomsOf(IngestSource) \subseteq Atom
  BY DEF AtomsOf
<1> QED BY <1>1, <1>2, <1>3, <1>4, <1>5, <1>6, <1>7, <1>8, <1>9, <1>10, <1>11,
           <1>12, <1>13, <1>14, <1>15, <1>16 DEF Start, Work

----------------------------------------------------------------------------
(* The tables                                                              *)

\* What a step of `w` does to the rows, as far as another worker's remember
\* can tell: new rows are in the batch of `w`, no merged atom comes back, and the
\* rows of remembered atoms stay where they are, in the trusted lane once they are
\* there.
RowsEffect(w) ==
    /\ Live' \ Live \subseteq batch[w]
    /\ Live' \cap overtaken = {}
    /\ \A a \in Live : SourceOf[a] = AgentSource =>
          /\ a \in Live' /\ (Trusted(a) => Trusted(a)')
          /\ row'[a].rid = row[a].rid

StoreStep(w) == StoreInv(overtaken)' /\ FtsFollowsRows' /\ RowsEffect(w)

\* Merged atoms are an agent's, and have no row.
LEMMA OvertakenAreGone ==
    ASSUME IInv, NEW a \in overtaken
    PROVE  a \in Atom /\ a \notin Live /\ SourceOf[a] = AgentSource
BY DEF IInv, JobsInv, RememberedRowStays, AtomsOf

\* A step that leaves the tables alone.
LEMMA StoreUntouched ==
    ASSUME IInv, NEW w \in Worker, UNCHANGED <<storeVars, overtaken>>
    PROVE  StoreStep(w)
<1>1. Live' = Live /\ row' = row /\ vec' = vec /\ fts' = fts /\ overtaken' = overtaken
  BY DEF storeVars, Live
<1>2. StoreInv(overtaken)'
  BY <1>1 DEF IInv, StoreInv, AtomStoreTypeOK, RowIdsDistinct, QuarantineHasNoVector,
              VectorsBelong, HasVector
<1>3. FtsFollowsRows'
  BY <1>1 DEF IInv, FtsFollowsRows
<1>4. RowsEffect(w)
  BY <1>1, OvertakenAreGone DEF RowsEffect, Trusted
<1> QED BY <1>2, <1>3, <1>4 DEF StoreStep

\* delete_source of a connector leaves the remembered atoms alone.
LEMMA DeleteStoreStep ==
    ASSUME IInv, NEW w \in Worker, NEW s \in Source, FullSyncDeletes(w, s), UNCHANGED overtaken
    PROVE  StoreStep(w)
<1> PICK S : S = overtaken
  OBVIOUS
<1>0. StoreInv(S) /\ S = overtaken'
  BY StrayByName DEF IInv
<1> DEFINE gone == {a \in Live : SourceOf[a] = s}
<1>1. DeleteRows(gone) /\ s # AgentSource
  BY DEF FullSyncDeletes, DeleteSource
<1>2. StoreInv(overtaken)'
  BY <1>0, <1>1, DeleteRowsKeepsStoreInv, StrayByNameNext
<1>3. /\ Live' = Live \ gone
      /\ fts' = fts \ gone
      /\ \A a \in Live' : row'[a] = row[a]
  BY <1>1 DEF DeleteRows, Live
<1>4. FtsFollowsRows'
  BY <1>3 DEF IInv, FtsFollowsRows
<1>5. RowsEffect(w)
  BY <1>1, <1>3, OvertakenAreGone DEF RowsEffect, Trusted
<1> QED BY <1>2, <1>4, <1>5 DEF StoreStep

\* upsert_batch writes atoms that no remember owns.
LEMMA WriteStoreStep ==
    ASSUME IInv, NEW w \in Worker, WriteBatch(w), UNCHANGED overtaken
    PROVE  StoreStep(w)
<1> PICK S : S = overtaken
  OBVIOUS
<1>0. StoreInv(S) /\ S = overtaken'
  BY StrayByName DEF IInv
<1>1. /\ UpsertBatch(batch[w], lane[w], emb[w])
      /\ batch[w] \in SUBSET Atom
      /\ lane[w] \in [Atom -> Lane]
      /\ emb[w] \in [Atom -> Embedding]
  BY DEF WriteBatch, IInv, JobTypeOK
<1>2. StoreInv(overtaken)'
  BY <1>0, <1>1, UpsertBatchKeepsStoreInv, StrayByNameNext
<1>3. PICK f \in FreshRids(batch[w] \ Live) :
          row' = RowAfterUpsert(batch[w], lane[w], f) /\ fts' = fts \cup batch[w]
  BY <1>1 DEF UpsertBatch
<1>4. /\ Live' = Live \cup batch[w]
      /\ \A a \in Live \ batch[w] : row'[a] = row[a]
  BY <1>3 DEF RowAfterUpsert, Live
<1>5. \A a \in batch[w] : SourceOf[a] # AgentSource
  <2>1. op[w] \in {"index", "ingest"}
    BY DEF WriteBatch, IInv, JobTypeOK, Op, JobsInv, JobsInOrder, LabelsOf
  <2>2. batch[w] \subseteq WritableBy(op[w])
    BY DEF IInv, JobsInv, JobsInOrder
  <2> QED BY <2>1, <2>2, PipelineFacts DEF WritableBy, AtomsOf
<1>6. FtsFollowsRows'
  BY <1>3, <1>4 DEF IInv, FtsFollowsRows
<1>7. RowsEffect(w)
  BY <1>4, <1>5, OvertakenAreGone DEF RowsEffect, Trusted
<1> QED BY <1>2, <1>6, <1>7 DEF StoreStep

\* A supersede mark leaves lanes and rowids.
LEMMA MarkStoreStep ==
    ASSUME IInv, NEW w \in Worker, NEW a \in Atom, MarkSupersedes(w, a), UNCHANGED overtaken
    PROVE  StoreStep(w)
<1> PICK S : S = overtaken
  OBVIOUS
<1>0. StoreInv(S) /\ S = overtaken'
  BY StrayByName DEF IInv
<1>1. PICK ids \in SUBSET SupersedeTargets(a) : MarkSuperseded(ids, a)
  BY DEF MarkSupersedes
<1>2. StoreInv(overtaken)'
  BY <1>0, <1>1, MarkSupersededKeepsStoreInv, StrayByNameNext
<1>3. row \in [Live -> Row]
  BY DEF IInv, StoreInv, AtomStoreTypeOK
<1>4. /\ Live' = Live
      /\ fts' = fts
      /\ \A b \in Live : row'[b].lane = row[b].lane /\ row'[b].rid = row[b].rid
  BY <1>1, <1>3 DEF MarkSuperseded, Live, Row
<1>5. FtsFollowsRows'
  BY <1>4 DEF IInv, FtsFollowsRows
<1>6. RowsEffect(w)
  BY <1>4, OvertakenAreGone DEF RowsEffect, Trusted
<1> QED BY <1>2, <1>5, <1>6 DEF StoreStep

\* The first statement of remember inserts a row; the atom is an agent's, so
\* its full-text entry may be missing for now.
LEMMA RememberRowStoreStep ==
    ASSUME IInv, NEW w \in Worker, NEW a \in Atom, RememberRow(w, a), UNCHANGED overtaken
    PROVE  StoreStep(w)
<1> PICK S : S = overtaken
  OBVIOUS
<1>0. StoreInv(S) /\ S = overtaken'
  BY StrayByName DEF IInv
<1>1. op[w] = "remember"
  BY DEF RememberRow, IInv, JobTypeOK, Op, JobsInv, JobsInOrder, LabelsOf
<1>2. a \notin Live \cup overtaken /\ a \in batch[w] /\ SourceOf[a] = AgentSource
  <2>1. batch[w] \cap (Live \cup overtaken) = {}
    BY <1>1 DEF RememberRow, IInv, JobsInv, RememberedIsNew
  <2>2. batch[w] \subseteq AtomsOf(AgentSource)
    BY <1>1 DEF IInv, JobsInv, JobsInOrder, WritableBy
  <2> QED BY <2>1, <2>2 DEF RememberRow, AtomsOf
<1>3. PICK f \in FreshRids({a} \ Live) : row' = RowAfterUpsert({a}, lane[w], f)
  BY DEF RememberRow
<1>4. lane[w] \in [Atom -> Lane] /\ UNCHANGED <<fts, vec>>
  BY DEF RememberRow, IInv, JobTypeOK
<1>5. StoreInv(overtaken)'
  BY <1>0, <1>2, <1>3, <1>4, NewRowKeepsStoreInv, StrayByNameNext
<1>6. /\ Live' = Live \cup {a}
      /\ \A b \in Live : row'[b] = row[b]
  BY <1>2, <1>3 DEF RowAfterUpsert, Live
<1>7. FtsFollowsRows'
  BY <1>2, <1>4, <1>6 DEF IInv, FtsFollowsRows
<1>8. RowsEffect(w)
  BY <1>2, <1>6, OvertakenAreGone DEF RowsEffect, Trusted
<1> QED BY <1>5, <1>7, <1>8 DEF StoreStep

\* The second adds the full-text entry of a row that is there, or was merged away.
LEMMA RememberFtsStoreStep ==
    ASSUME IInv, NEW w \in Worker, NEW a \in Atom, RememberFts(w, a), UNCHANGED overtaken
    PROVE  StoreStep(w)
<1>1. a \in Live \cup overtaken
  BY DEF RememberFts, IInv, JobsInv, RememberedRowStays
<1>2. /\ row' = row /\ vec' = vec /\ Live' = Live /\ overtaken' = overtaken
      /\ fts' = fts \cup {a}
  BY DEF RememberFts, Live
<1>3. StoreInv(overtaken)'
  BY <1>2 DEF IInv, StoreInv, AtomStoreTypeOK, RowIdsDistinct, QuarantineHasNoVector,
              VectorsBelong, HasVector
<1>4. FtsFollowsRows'
  BY <1>1, <1>2 DEF IInv, FtsFollowsRows
<1>5. RowsEffect(w)
  BY <1>2, OvertakenAreGone DEF RowsEffect, Trusted
<1> QED BY <1>3, <1>4, <1>5 DEF StoreStep

\* The last inserts a vector only for a row that is still in the trusted lane, or
\* for an atom that was merged away.
LEMMA RememberVecStoreStep ==
    ASSUME IInv, NEW w \in Worker, NEW a \in Atom, RememberVec(w, a), UNCHANGED overtaken
    PROVE  StoreStep(w)
<1> PICK S : S = overtaken
  OBVIOUS
<1>0. StoreInv(S) /\ S = overtaken'
  BY StrayByName DEF IInv
<1>1. PICK r \in rowid[w] : \E e \in {emb[w], NoEmbeddings} :
          vec' = VecAfterUpsert({a}, lane[w], e, {a}, [b \in {a} |-> [rid |-> r]])
  BY DEF RememberVec
<1>2. PICK e : vec' = VecAfterUpsert({a}, lane[w], e, {a}, [b \in {a} |-> [rid |-> r]])
  BY <1>1
<1>3. r \in RowId /\ UNCHANGED <<row, fts>>
  BY DEF RememberVec, IInv, JobTypeOK
<1>4. \/ a \in S
      \/ a \in Live /\ row[a].rid = r /\ (lane[w][a] = "trusted" => Trusted(a))
  <2>1. a \in S \/ a \in batch[w] \ overtaken
    BY DEF RememberVec
  <2>2. a \in batch[w] \ overtaken =>
            /\ a \in Live /\ (lane[w][a] = "trusted" => Trusted(a))
            /\ rowid[w] = {row[a].rid}
    BY DEF RememberVec, IInv, JobsInv, RememberedRowStays
  <2> QED BY <2>1, <2>2
<1>5. StoreInv(S)'
  BY <1>0, <1>2, <1>3, <1>4, NewVectorKeepsStoreInv
<1>6. StoreInv(overtaken)'
  BY <1>0, <1>5, StrayByNameNext
<1>7. Live' = Live /\ row' = row /\ fts' = fts
  BY <1>3 DEF Live
<1>8. FtsFollowsRows'
  BY <1>7 DEF IInv, FtsFollowsRows
<1>9. RowsEffect(w)
  BY <1>7, OvertakenAreGone DEF RowsEffect, Trusted
<1> QED BY <1>6, <1>8, <1>9 DEF StoreStep

\* A promotion moves one row into the trusted lane.
LEMMA PromoteStoreStep ==
    ASSUME IInv, NEW w \in Worker, NEW a \in Atom, PromoteSets(w, a), UNCHANGED overtaken
    PROVE  StoreStep(w)
<1> PICK S : S = overtaken
  OBVIOUS
<1>0. StoreInv(S) /\ S = overtaken'
  BY StrayByName DEF IInv
<1>1. SetTrustLane(a, "trusted")
  BY DEF PromoteSets
<1>2. StoreInv(overtaken)'
  BY <1>0, <1>1, PromotionKeepsStoreInv, StrayByNameNext
<1>3. row \in [Live -> Row]
  BY DEF IInv, StoreInv, AtomStoreTypeOK
<1>4. /\ Live' = Live
      /\ fts' = fts
      /\ \A b \in Live : /\ row[b].lane = "trusted" => row'[b].lane = "trusted"
                         /\ row'[b].rid = row[b].rid
  BY <1>1, <1>3 DEF SetTrustLane, Live, Row
<1>5. FtsFollowsRows'
  BY <1>4 DEF IInv, FtsFollowsRows
<1>6. RowsEffect(w)
  BY <1>4, OvertakenAreGone DEF RowsEffect, Trusted
<1> QED BY <1>2, <1>5, <1>6 DEF StoreStep

\* Every step keeps the tables in order and other workers' new rows in place.
LEMMA NextStoreStep ==
    ASSUME IInv, NEW w \in Worker, Start(w) \/ Work(w) \/ Crash(w), UNCHANGED overtaken
    PROVE  StoreStep(w)
<1>1. CASE Start(w)
  <2>1. UNCHANGED storeVars
    BY <1>1 DEF Start, StartIndex, StartIngest, StartRemember, StartPromote, Begin
  <2> QED BY <2>1, StoreUntouched
<1>2. CASE \/ \E a \in Atom : Gate(w, a) \/ PlanEmbed(w, a) \/ PromoteEvaluates(w, a)
                                 \/ PromoteFindsNoRow(w, a)
           \/ EmbedBatch(w) \/ WriteBatchRollsBack(w) \/ Crash(w)
  <2>1. UNCHANGED storeVars
    BY <1>2 DEF Gate, PlanEmbed, PromoteEvaluates, PromoteFindsNoRow, EmbedBatch,
                WriteBatchRollsBack, Crash
  <2> QED BY <2>1, StoreUntouched
<1>3. CASE \/ \E s \in Source : FullSyncDeletes(w, s)
           \/ WriteBatch(w)
           \/ \E a \in Atom : MarkSupersedes(w, a)
  BY <1>3, DeleteStoreStep, WriteStoreStep, MarkStoreStep
<1>4. CASE \E a \in Atom : \/ RememberRow(w, a) \/ RememberFts(w, a)
                           \/ RememberVec(w, a) \/ PromoteSets(w, a)
  BY <1>4, RememberRowStoreStep, RememberFtsStoreStep, RememberVecStoreStep,
     PromoteStoreStep
<1> QED BY <1>1, <1>2, <1>3, <1>4 DEF Work

----------------------------------------------------------------------------
(* Steps of the jobs                                                       *)

\* A step of `w` leaves the other workers where they are.
OthersStay(w) ==
    \A v \in Worker \ {w} :
        /\ op'[v] = op[v] /\ pc'[v] = pc[v] /\ batch'[v] = batch[v]
        /\ lane'[v] = lane[v] /\ cli'[v] = cli[v] /\ rowid'[v] = rowid[v]

\* What it may do to its own job: return, start, or go on.
Returns(w) ==
    /\ op'[w] = "none" /\ pc'[w] = "idle" /\ batch'[w] = {}
    /\ lane'[w] = NoLanes

Starts(w) ==
    /\ op[w] = "none"
    /\ pc'[w] \in LabelsOf(op'[w])
    /\ batch'[w] \subseteq WritableBy(op'[w])
    /\ op'[w] # "none"
    /\ op'[w] = "remember" =>
         /\ pc'[w] = "gate"
         /\ \E a \in Atom : batch'[w] = {a}
         /\ batch'[w] \cap (Live \cup overtaken) = {}
         /\ \A v \in Worker : batch'[w] \cap batch[v] = {}
    /\ op'[w] = "promote" => batch'[w] \subseteq Live /\ PromoteAllowed(cli'[w])
    /\ lane'[w] = lane[w]
    /\ row' = row

GoesOn(w) ==
    /\ op'[w] = op[w] /\ batch'[w] = batch[w] /\ cli'[w] = cli[w]
    /\ pc'[w] \in LabelsOf(op[w])
    /\ op[w] # "none"
    /\ op[w] = "remember" /\ pc'[w] \in {"gate", "row"} => pc[w] = "gate" /\ row' = row
    /\ pc'[w] \in {"fts", "vec"} =>
         \A a \in batch[w] \ overtaken :
             /\ a \in Live' /\ (lane'[w][a] = "trusted" => Trusted(a)')
             /\ rowid'[w] = {row'[a].rid}
    /\ \A a \in Atom :
          \/ lane'[w][a] = lane[w][a]
          \/ lane'[w][a] = "quarantine"
          \/ op[w] \in {"ingest", "remember"} => ~ContainsWrites(w)

JobStep(w) == OthersStay(w) /\ (Returns(w) \/ Starts(w) \/ GoesOn(w))

\* Returning is such a step.
LEMMA FinishJobStep ==
    ASSUME JobTypeOK, NEW w \in Worker, Finish(w)
    PROVE  JobStep(w)
BY DEF JobTypeOK, Finish, JobStep, OthersStay, Returns

\* Each way of starting a job.
LEMMA StartJobStep ==
    ASSUME IInv, NEW w \in Worker, Start(w)
    PROVE  JobStep(w)
<1>1. ASSUME NEW o \in Op, NEW label \in LabelsOf(o), NEW atoms \in SUBSET WritableBy(o),
             NEW operator \in BOOLEAN, Begin(w, o, label, atoms, operator),
             o # "none",
             o = "remember" =>
               /\ label = "gate"
               /\ \E a \in Atom : atoms = {a}
               /\ atoms \cap (Live \cup overtaken) = {}
               /\ \A v \in Worker : atoms \cap batch[v] = {},
             o = "promote" => atoms \subseteq Live /\ PromoteAllowed(operator)
      PROVE  JobStep(w)
  <2>1. /\ op'[w] = o /\ pc'[w] = label /\ batch'[w] = atoms /\ cli'[w] = operator
        /\ lane' = lane /\ row' = row
        /\ OthersStay(w)
    BY <1>1 DEF Begin, OthersStay, IInv, JobTypeOK, storeVars
  <2>2. op[w] = "none"
    BY <1>1 DEF Begin, IInv, JobTypeOK, Op, JobsInv, JobsInOrder, LabelsOf
  <2> QED BY <1>1, <2>1, <2>2 DEF JobStep, Starts
<1>2. ASSUME NEW s \in Source, NEW full \in BOOLEAN, NEW atoms \in SUBSET Atom,
             StartIndex(w, s, full, atoms)
      PROVE  JobStep(w)
  <2>1. (IF full THEN "delete" ELSE "gate") \in LabelsOf("index") /\ "index" \in Op
    BY DEF LabelsOf, Op
  <2>2. atoms \in SUBSET WritableBy("index")
    BY <1>2 DEF StartIndex, WritableBy, AtomsOf
  <2> QED BY <1>1, <1>2, <2>1, <2>2 DEF StartIndex
<1>3. ASSUME NEW atoms \in SUBSET Atom, StartIngest(w, atoms)
      PROVE  JobStep(w)
  <2>1. "gate" \in LabelsOf("ingest") /\ "ingest" \in Op
    BY DEF LabelsOf, Op
  <2>2. atoms \in SUBSET WritableBy("ingest")
    BY <1>3 DEF StartIngest, WritableBy
  <2> QED BY <1>1, <1>3, <2>1, <2>2 DEF StartIngest
<1>4. ASSUME NEW a \in Atom, NEW operator \in BOOLEAN, StartRemember(w, a, operator)
      PROVE  JobStep(w)
  <2>1. "gate" \in LabelsOf("remember") /\ "remember" \in Op
    BY DEF LabelsOf, Op
  <2>2. {a} \in SUBSET WritableBy("remember")
    BY <1>4 DEF StartRemember, WritableBy
  <2>3. {a} \cap (Live \cup overtaken) = {} /\ \A v \in Worker : {a} \cap batch[v] = {}
    BY <1>4 DEF StartRemember
  <2> QED BY <1>1, <1>4, <2>1, <2>2, <2>3 DEF StartRemember
<1>5. ASSUME NEW a \in Atom, NEW operator \in BOOLEAN, StartPromote(w, a, operator)
      PROVE  JobStep(w)
  <2>1. "reget" \in LabelsOf("promote") /\ "promote" \in Op
    BY DEF LabelsOf, Op
  <2>2. {a} \in SUBSET WritableBy("promote")
    BY DEF WritableBy
  <2> QED BY <1>1, <1>5, <2>1, <2>2 DEF StartPromote
<1>6. (\A s \in Source : AtomsOf(s) \subseteq Atom) /\ AtomsOf(IngestSource) \subseteq Atom
  BY DEF AtomsOf
<1> QED BY <1>2, <1>3, <1>4, <1>5, <1>6 DEF Start

\* A worker that only moves on, with lanes and rows as they were.
LEMMA MoveJobStep ==
    ASSUME IInv, NEW w \in Worker, NEW label, NEW atoms,
           GoTo(w, label, atoms), UNCHANGED <<op, batch, lane, cli, rowid>>,
           op[w] # "none", label \in LabelsOf(op[w]),
           op[w] # "remember",
           label \notin {"fts", "vec"}
    PROVE  JobStep(w)
<1>1. /\ pc'[w] = label
      /\ \A v \in Worker \ {w} : pc'[v] = pc[v]
  BY DEF GoTo, IInv, JobTypeOK
<1>2. OthersStay(w)
  BY <1>1 DEF OthersStay
<1>3. GoesOn(w)
  BY <1>1 DEF GoesOn
<1> QED BY <1>2, <1>3 DEF JobStep

\* The gate gives a contained write nothing but quarantine.
LEMMA GateJobStep ==
    ASSUME IInv, NEW w \in Worker, NEW a \in Atom, Gate(w, a)
    PROVE  JobStep(w)
<1>1. op[w] \in {"index", "ingest", "remember"}
  BY DEF Gate, IInv, JobTypeOK, Op, JobsInv, JobsInOrder, LabelsOf
<1>2. PICK l \in GatedLanes(w, a) : lane' = [lane EXCEPT ![w][a] = l]
  BY DEF Gate
<1>3. l = "quarantine" \/ (op[w] \in {"ingest", "remember"} => ~ContainsWrites(w))
  BY <1>1, <1>2 DEF GatedLanes
<1>4. /\ lane'[w] = [lane[w] EXCEPT ![a] = l]
      /\ \A v \in Worker \ {w} : lane'[v] = lane[v]
      /\ lane[w] \in [Atom -> Lane]
  BY <1>2 DEF IInv, JobTypeOK
<1>5. \A b \in Atom : \/ lane'[w][b] = lane[w][b]
                      \/ lane'[w][b] = "quarantine"
                      \/ op[w] \in {"ingest", "remember"} => ~ContainsWrites(w)
  BY <1>3, <1>4
<1>6. PICK label \in {"gate", AfterGate(w)} : \E atoms : GoTo(w, label, atoms)
  BY DEF Gate, LoopStep
<1>7. /\ label \in LabelsOf(op[w])
      /\ label \notin {"fts", "vec"}
  BY <1>1, <1>6 DEF AfterGate, LabelsOf
<1>8. /\ pc'[w] = label
      /\ \A v \in Worker \ {w} : pc'[v] = pc[v]
  BY <1>6 DEF GoTo, IInv, JobTypeOK
<1>9. UNCHANGED <<op, batch, cli, rowid>> /\ row' = row /\ pc[w] = "gate"
  BY DEF Gate, storeVars
<1>10. OthersStay(w)
  BY <1>4, <1>8, <1>9 DEF OthersStay
<1>11. GoesOn(w)
  BY <1>1, <1>5, <1>7, <1>8, <1>9 DEF GoesOn
<1> QED BY <1>10, <1>11 DEF JobStep

\* The statements of remember: its row is there from the first one on.
LEMMA RememberJobStep ==
    ASSUME IInv, NEW w \in Worker, NEW a \in Atom, RememberRow(w, a) \/ RememberFts(w, a)
    PROVE  JobStep(w)
<1>1. op[w] = "remember" /\ batch[w] = {a}
  <2>1. op[w] = "remember"
    BY DEF RememberRow, RememberFts, IInv, JobTypeOK, Op, JobsInv, JobsInOrder, LabelsOf
  <2> QED BY <2>1 DEF RememberRow, RememberFts, IInv, JobsInv, JobsInOrder
<1>2. PICK label \in {"fts", "vec"} :
          GoTo(w, label, batch[w]) /\ UNCHANGED <<op, batch, lane, cli>>
  BY DEF RememberRow, RememberFts
<1>3. /\ pc'[w] = label
      /\ \A v \in Worker \ {w} : pc'[v] = pc[v] /\ rowid'[v] = rowid[v]
  BY <1>2 DEF GoTo, RememberRow, RememberFts, IInv, JobTypeOK
<1>4. ASSUME a \notin overtaken
      PROVE  /\ a \in Live' /\ (lane[w][a] = "trusted" => Trusted(a)')
             /\ rowid'[w] = {row'[a].rid}
  <2>1. CASE RememberRow(w, a)
    <3>1. PICK f \in FreshRids({a} \ Live) :
              /\ row' = RowAfterUpsert({a}, lane[w], f)
              /\ rowid' = [rowid EXCEPT ![w] = {row'[a].rid}]
      BY <2>1 DEF RememberRow
    <3>2. a \notin Live
      BY <1>1, <2>1 DEF RememberRow, IInv, JobsInv, RememberedIsNew
    <3>3. a \in Live' /\ row'[a].lane = lane[w][a]
      BY <3>1, <3>2 DEF RowAfterUpsert, Live
    <3>4. rowid'[w] = {row'[a].rid}
      BY <3>1 DEF IInv, JobTypeOK
    <3> QED BY <3>3, <3>4 DEF Trusted
  <2>2. CASE RememberFts(w, a)
    <3>1. /\ a \in Live /\ (lane[w][a] = "trusted" => Trusted(a))
          /\ rowid[w] = {row[a].rid}
      BY <1>1, <1>4, <2>2 DEF RememberFts, IInv, JobsInv, RememberedRowStays
    <3>2. row' = row /\ Live' = Live /\ rowid' = rowid
      BY <2>2 DEF RememberFts, Live
    <3> QED BY <3>1, <3>2 DEF Trusted
  <2> QED BY <2>1, <2>2
<1>5. OthersStay(w)
  BY <1>2, <1>3 DEF OthersStay
<1>6. GoesOn(w)
  BY <1>1, <1>2, <1>3, <1>4 DEF GoesOn, LabelsOf
<1> QED BY <1>5, <1>6 DEF JobStep

\* Every step is a job step.
LEMMA NextJobStep ==
    ASSUME IInv, NEW w \in Worker, Start(w) \/ Work(w) \/ Crash(w)
    PROVE  JobStep(w)
<1> JobTypeOK
  BY DEF IInv
<1>1. CASE Start(w)
  BY <1>1, StartJobStep
<1>2. CASE \E a \in Atom : Gate(w, a)
  BY <1>2, GateJobStep
<1>3. CASE \E a \in Atom : RememberRow(w, a) \/ RememberFts(w, a)
  BY <1>3, RememberJobStep
<1>4. ASSUME NEW s \in Source, FullSyncDeletes(w, s)
      PROVE  JobStep(w)
  <2>1. CASE batch[w] = {}
    BY <1>4, <2>1, FinishJobStep DEF FullSyncDeletes
  <2>2. CASE batch[w] # {}
    <3>1. op[w] = "index"
      BY <1>4 DEF FullSyncDeletes, IInv, JobTypeOK, Op, JobsInv, JobsInOrder, LabelsOf
    <3>2. GoTo(w, "gate", batch[w]) /\ UNCHANGED <<op, batch, lane, cli, rowid>>
      BY <1>4, <2>2 DEF FullSyncDeletes
    <3> QED BY <3>1, <3>2, MoveJobStep DEF LabelsOf
  <2> QED BY <2>1, <2>2
<1>5. ASSUME NEW a \in Atom, PlanEmbed(w, a)
      PROVE  JobStep(w)
  <2>1. op[w] = "index"
    BY <1>5 DEF PlanEmbed, IInv, JobTypeOK, Op, JobsInv, JobsInOrder, LabelsOf
  <2>2. PICK label \in {"plan", "embed"} : \E atoms : GoTo(w, label, atoms)
    BY <1>5 DEF PlanEmbed, LoopStep
  <2>3. UNCHANGED <<op, batch, lane, cli, rowid>>
    BY <1>5 DEF PlanEmbed
  <2> QED BY <2>1, <2>2, <2>3, MoveJobStep DEF LabelsOf
<1>6. CASE EmbedBatch(w)
  <2>1. op[w] = "index"
    BY <1>6 DEF EmbedBatch, IInv, JobTypeOK, Op, JobsInv, JobsInOrder, LabelsOf
  <2>2. GoTo(w, "write", batch[w]) /\ UNCHANGED <<op, batch, lane, cli, rowid>>
    BY <1>6 DEF EmbedBatch
  <2> QED BY <2>1, <2>2, MoveJobStep DEF LabelsOf
<1>7. CASE WriteBatch(w)
  <2>1. CASE op[w] = "index"
    <3>1. GoTo(w, "mark", batch[w]) /\ UNCHANGED <<op, batch, lane, cli, rowid>>
      BY <1>7, <2>1 DEF WriteBatch
    <3> QED BY <2>1, <3>1, MoveJobStep DEF LabelsOf
  <2>2. CASE op[w] # "index"
    BY <1>7, <2>2, FinishJobStep DEF WriteBatch
  <2> QED BY <2>1, <2>2
<1>8. ASSUME NEW a \in Atom, MarkSupersedes(w, a)
      PROVE  JobStep(w)
  <2>1. CASE todo[w] = {a}
    BY <1>8, <2>1, FinishJobStep DEF MarkSupersedes
  <2>2. CASE todo[w] # {a}
    <3>1. op[w] = "index"
      BY <1>8 DEF MarkSupersedes, IInv, JobTypeOK, Op, JobsInv, JobsInOrder, LabelsOf
    <3>2. GoTo(w, "mark", todo[w] \ {a}) /\ UNCHANGED <<op, batch, lane, cli, rowid>>
      BY <1>8, <2>2 DEF MarkSupersedes
    <3> QED BY <3>1, <3>2, MoveJobStep DEF LabelsOf
  <2> QED BY <2>1, <2>2
<1>9. CASE \/ WriteBatchRollsBack(w) \/ Crash(w)
           \/ \E a \in Atom : \/ RememberVec(w, a) \/ PromoteSets(w, a)
                              \/ PromoteFindsNoRow(w, a)
  BY <1>9, FinishJobStep DEF WriteBatchRollsBack, Crash, RememberVec, PromoteSets,
                             PromoteFindsNoRow
<1>10. ASSUME NEW a \in Atom, PromoteEvaluates(w, a)
       PROVE  JobStep(w)
  <2>1. \/ Finish(w)
        \/ GoTo(w, "set", batch[w]) /\ UNCHANGED <<op, batch, lane, cli, rowid>>
    BY <1>10 DEF PromoteEvaluates
  <2>2. op[w] = "promote"
    BY <1>10 DEF PromoteEvaluates, IInv, JobTypeOK, Op, JobsInv, JobsInOrder, LabelsOf
  <2> QED BY <2>1, <2>2, FinishJobStep, MoveJobStep DEF LabelsOf
<1> QED BY <1>1, <1>2, <1>3, <1>4, <1>5, <1>6, <1>7, <1>8, <1>9, <1>10 DEF Work

\* The four facts about jobs survive any step.
LEMMA JobsInvKept ==
    ASSUME IInv, NEW w \in Worker, JobStep(w), RowsEffect(w), JobTypeOK', UNCHANGED overtaken
    PROVE  JobsInv'
<1> /\ JobTypeOK
    /\ JobsInOrder /\ RememberedIsNew /\ RememberedRowStays /\ ContainedJobs
    /\ OthersStay(w)
    /\ Returns(w) \/ Starts(w) \/ GoesOn(w)
  BY DEF IInv, JobsInv, JobStep
<1>1. JobsInOrder'
  <2> SUFFICES ASSUME NEW v \in Worker
               PROVE  /\ pc'[v] \in LabelsOf(op'[v])
                      /\ batch'[v] \subseteq WritableBy(op'[v])
                      /\ op'[v] = "remember" => \E a \in Atom : batch'[v] = {a}
    BY DEF JobsInOrder, LabelsOf, WritableBy, AtomsOf
  <2>1. CASE v # w
    BY <2>1 DEF JobsInOrder, OthersStay
  <2>2. CASE v = w /\ Returns(w)
    BY <2>2 DEF Returns, LabelsOf, WritableBy
  <2>3. CASE v = w /\ Starts(w)
    BY <2>3 DEF Starts
  <2>4. CASE v = w /\ GoesOn(w)
    BY <2>4 DEF GoesOn, JobsInOrder
  <2> QED BY <2>1, <2>2, <2>3, <2>4
<1>2. RememberedIsNew'
  <2> SUFFICES ASSUME NEW v \in Worker, op'[v] = "remember", pc'[v] \in {"gate", "row"}
               PROVE  /\ batch'[v] \cap (Live' \cup overtaken) = {}
                      /\ \A u \in Worker \ {v} : batch'[v] \cap batch'[u] = {}
    BY DEF RememberedIsNew
  <2>1. CASE v # w
    <3>1. /\ op[v] = "remember" /\ pc[v] \in {"gate", "row"}
          /\ batch'[v] = batch[v]
      BY <2>1 DEF OthersStay
    <3>2. /\ batch[v] \cap (Live \cup overtaken) = {}
          /\ \A u \in Worker \ {v} : batch[v] \cap batch[u] = {}
      BY <3>1 DEF RememberedIsNew
    <3>3. batch[v] \cap (Live' \cup overtaken) = {}
      BY <2>1, <3>2 DEF RowsEffect
    <3>4. batch[v] \cap batch'[w] = {}
      <4>1. CASE Returns(w)
        BY <4>1 DEF Returns
      <4>2. CASE GoesOn(w)
        BY <2>1, <3>2, <4>2 DEF GoesOn
      <4>3. CASE Starts(w)
        <5>1. CASE op'[w] = "remember"
          BY <4>3, <5>1 DEF Starts
        <5>2. CASE op'[w] = "promote"
          BY <3>2, <4>3, <5>2 DEF Starts
        <5>3. CASE op'[w] \in {"index", "ingest"}
          <6>1. \A a \in batch[v] : SourceOf[a] = AgentSource
            BY <3>1 DEF JobsInOrder, WritableBy, AtomsOf
          <6>2. \A a \in batch'[w] : SourceOf[a] # AgentSource
            BY <4>3, <5>3, PipelineFacts DEF Starts, WritableBy, AtomsOf
          <6> QED BY <6>1, <6>2
        <5> QED BY <4>3, <5>1, <5>2, <5>3 DEF Starts, JobTypeOK, Op
      <4> QED BY <4>1, <4>2, <4>3
    <3>5. \A u \in Worker \ {v, w} : batch'[u] = batch[u]
      BY DEF OthersStay
    <3> QED BY <3>1, <3>2, <3>3, <3>4, <3>5
  <2>2. CASE v = w
    <3>1. CASE Starts(w)
      BY <2>2, <3>1 DEF Starts, Live, OthersStay
    <3>2. CASE GoesOn(w)
      <4>1. op[w] = "remember" /\ pc[w] = "gate" /\ row' = row /\ batch'[w] = batch[w]
        BY <2>2, <3>2 DEF GoesOn
      <4> QED BY <2>2, <4>1 DEF RememberedIsNew, Live, OthersStay
    <3> QED BY <2>2, <3>1, <3>2 DEF Returns
  <2> QED BY <2>1, <2>2
<1>3. RememberedRowStays'
  <2>0. overtaken \subseteq AtomsOf(AgentSource) \ Live'
    BY DEF RowsEffect, RememberedRowStays
  <2> SUFFICES ASSUME NEW v \in Worker, pc'[v] \in {"fts", "vec"}, NEW a \in batch'[v] \ overtaken
               PROVE  /\ a \in Live' /\ (lane'[v][a] = "trusted" => Trusted(a)')
                      /\ rowid'[v] = {row'[a].rid}
    BY <2>0 DEF RememberedRowStays, AtomsOf
  <2>1. CASE v # w
    <3>1. /\ pc[v] \in {"fts", "vec"} /\ a \in batch[v]
          /\ lane'[v] = lane[v] /\ rowid'[v] = rowid[v]
      BY <2>1 DEF OthersStay
    <3>2. op[v] = "remember"
      BY <3>1 DEF JobTypeOK, Op, JobsInOrder, LabelsOf
    <3>3. SourceOf[a] = AgentSource
      BY <3>1, <3>2 DEF JobsInOrder, WritableBy, AtomsOf
    <3>4. /\ a \in Live /\ (lane[v][a] = "trusted" => Trusted(a))
          /\ rowid[v] = {row[a].rid}
      BY <3>1 DEF RememberedRowStays
    <3> QED BY <3>1, <3>3, <3>4 DEF RowsEffect
  <2>2. CASE v = w
    <3>1. CASE GoesOn(w)
      BY <2>2, <3>1 DEF GoesOn
    <3>2. CASE Starts(w)
      BY <2>2, <3>2 DEF Starts, LabelsOf, JobTypeOK, Op
    <3> QED BY <2>2, <3>1, <3>2 DEF Returns
  <2> QED BY <2>1, <2>2
<1>4. ContainedJobs'
  <2> SUFFICES ASSUME SharedClosed, NEW v \in Worker
               PROVE  /\ op'[v] = "promote" => cli'[v]
                      /\ op'[v] = "none" \/ (op'[v] \in {"ingest", "remember"} /\ ~cli'[v])
                            => \A a \in Atom : lane'[v][a] = "quarantine"
    BY DEF ContainedJobs
  <2>1. CASE v # w
    BY <2>1 DEF ContainedJobs, OthersStay
  <2>2. CASE v = w /\ Returns(w)
    BY <2>2 DEF Returns, NoLanes
  <2>3. CASE v = w /\ Starts(w)
    BY <2>3 DEF Starts, ContainedJobs, PromoteAllowed
  <2>4. CASE v = w /\ GoesOn(w)
    BY <2>4 DEF GoesOn, ContainedJobs, ContainsWrites
  <2> QED BY <2>1, <2>2, <2>3, <2>4
<1> QED BY <1>1, <1>2, <1>3, <1>4 DEF JobsInv

----------------------------------------------------------------------------
(* The invariant, and what follows from it                                 *)

\* A merge of another process: the row it takes from a remember in progress is
\* remembered as overtaken.
LEMMA MergeIInv ==
    ASSUME IInv, NEW s \in Atom, NEW l \in Atom, NearDupeMerges(s, l)
    PROVE  IInv'
<1> PICK S : S = overtaken
  OBVIOUS
<1> PICK T : T = overtaken'
  OBVIOUS
<1>0. StoreInv(S) /\ S \subseteq T
  BY StrayByName DEF IInv, NearDupeMerges
<1>1. s \in Live /\ l \in Live /\ s # l /\ ApplyAutoMerge(s, l, row[s].lane)
  BY DEF NearDupeMerges
<1>2. UNCHANGED <<op, pc, batch, todo, lane, emb, pending, cli, rowid>>
  BY DEF NearDupeMerges, jobVars
<1>3. /\ Live' = Live \ {l}
      /\ row' = [a \in Live \ {l} |-> row[a]]
      /\ fts' = (fts \cup {s}) \ {l}
  BY <1>0, <1>1, MergeEffect DEF StoreInv
<1>4. \A a \in overtaken' \ overtaken :
          a = l /\ \E w \in Worker : pc[w] \in {"fts", "vec"} /\ a \in batch[w]
  BY DEF NearDupeMerges
<1>5. \A w \in Worker : pc[w] \in {"fts", "vec"} /\ l \in batch[w] => l \in overtaken'
  BY DEF NearDupeMerges
<1>6. StoreInv(overtaken)'
  <2>1. StoreInv(T)'
    BY <1>0, <1>1, MergeKeepsStoreInv
  <2> QED BY <2>1, StrayByNameNext
<1>7. JobTypeOK'
  BY <1>2 DEF IInv, JobTypeOK
<1>8. JobsInOrder' /\ ContainedJobs'
  BY <1>2 DEF IInv, JobsInv, JobsInOrder, ContainedJobs
<1>9. RememberedIsNew'
  <2>1. overtaken' \subseteq overtaken \cup {l}
    BY <1>4
  <2>2. Live' \cup overtaken' \subseteq Live \cup overtaken
    BY <1>1, <1>3, <2>1
  <2> QED BY <1>2, <2>2 DEF IInv, JobsInv, RememberedIsNew
<1>10. RememberedRowStays'
  <2>1. ASSUME NEW a \in overtaken'
        PROVE  a \in AtomsOf(AgentSource) \ Live'
    <3>1. CASE a \in overtaken
      BY <1>3, <3>1 DEF IInv, JobsInv, RememberedRowStays
    <3>2. CASE a \notin overtaken
      <4>1. PICK w \in Worker : pc[w] \in {"fts", "vec"} /\ a \in batch[w]
        BY <1>4, <3>2
      <4>2. op[w] = "remember"
        BY <4>1 DEF IInv, JobTypeOK, Op, JobsInv, JobsInOrder, LabelsOf
      <4>3. a \in AtomsOf(AgentSource)
        BY <4>1, <4>2 DEF IInv, JobsInv, JobsInOrder, WritableBy
      <4> QED BY <1>3, <1>4, <3>2, <4>3
    <3> QED BY <3>1, <3>2
  <2>2. ASSUME NEW w \in Worker, pc[w] \in {"fts", "vec"}, NEW a \in batch[w] \ overtaken'
        PROVE  /\ a \in Live' /\ (lane[w][a] = "trusted" => Trusted(a)')
               /\ rowid[w] = {row'[a].rid}
    <3>1. a # l /\ a \notin overtaken
      BY <1>0, <1>5, <2>2
    <3>2. /\ a \in Live /\ (lane[w][a] = "trusted" => Trusted(a))
          /\ rowid[w] = {row[a].rid}
      BY <2>2, <3>1 DEF IInv, JobsInv, RememberedRowStays
    <3> QED BY <1>3, <3>1, <3>2 DEF Trusted
  <2> QED BY <1>2, <2>1, <2>2 DEF RememberedRowStays, AtomsOf
<1>11. FtsFollowsRows'
  <2>1. fts' \subseteq Live' \cup overtaken'
    BY <1>0, <1>1, <1>3 DEF IInv, FtsFollowsRows
  <2>2. \A a \in Live' \ fts' : SourceOf[a] = AgentSource
    BY <1>3 DEF IInv, FtsFollowsRows
  <2> QED BY <2>1, <2>2 DEF FtsFollowsRows
<1> QED BY <1>6, <1>7, <1>8, <1>9, <1>10, <1>11 DEF IInv, JobsInv

\* Every step keeps the inductive invariant.
LEMMA NextIInv == IInv /\ [Next]_vars => IInv'
<1> SUFFICES ASSUME IInv, [Next]_vars PROVE IInv'
  OBVIOUS
<1>1. ASSUME NEW w \in Worker, Start(w) \/ Work(w) \/ Crash(w), UNCHANGED overtaken
      PROVE  IInv'
  <2>2. StoreInv(overtaken)' /\ FtsFollowsRows' /\ RowsEffect(w)
    BY <1>1, NextStoreStep DEF StoreStep
  <2>3. JobTypeOK'
    BY <1>1, <2>2, NextTypes DEF IInv, StoreInv
  <2>4. JobStep(w)
    BY <1>1, NextJobStep
  <2>5. JobsInv'
    BY <1>1, <2>2, <2>3, <2>4, JobsInvKept
  <2> QED BY <2>2, <2>3, <2>5 DEF IInv
<1>2. CASE UNCHANGED vars
  <2>1. UNCHANGED storeVars /\ UNCHANGED jobVars /\ overtaken' = overtaken
    BY <1>2 DEF vars
  <2>2. Live' = Live
    BY <2>1 DEF storeVars, Live
  <2>3. StoreInv(overtaken)'
    BY <2>1, <2>2 DEF storeVars, IInv, StoreInv, AtomStoreTypeOK, RowIdsDistinct,
                      QuarantineHasNoVector, VectorsBelong, HasVector
  <2>4. JobTypeOK'
    BY <2>1 DEF jobVars, IInv, JobTypeOK
  <2>5. JobsInv'
    BY <2>1, <2>2 DEF storeVars, jobVars, IInv, JobsInv, JobsInOrder, RememberedIsNew,
                      RememberedRowStays, ContainedJobs, Trusted
  <2>6. FtsFollowsRows'
    BY <2>1, <2>2 DEF storeVars, IInv, FtsFollowsRows
  <2> QED BY <2>3, <2>4, <2>5, <2>6 DEF IInv
<1> QED BY <1>1, <1>2, MergeIInv DEF Next

\* The inductive invariant always holds.
THEOREM Invariance == Spec => []IInv
BY InitIInv, NextIInv, PTL DEF Spec

\* The tables and the jobs are always well typed.
THEOREM TypeCorrect == Spec => []TypeOK
<1>1. IInv => TypeOK
  BY DEF IInv, StoreInv, JobTypeOK, JobsInv, RememberedRowStays, AtomsOf, TypeOK
<1> QED BY <1>1, Invariance, PTL

\* Whatever writers and merges interleave and wherever they crash, no two atoms
\* share a rowid, and no atom has another's vector or, quarantined, one at all,
\* unless it is the vector of an atom that was merged away while it was remembered.
THEOREM VectorsAreSound ==
    Spec => [](QuarantineStaysUnembedded /\ RowIdsDistinct /\ VectorsStayWithTheirRows)
<1>1. IInv => QuarantineStaysUnembedded /\ RowIdsDistinct /\ VectorsStayWithTheirRows
  BY DEF IInv, StoreInv, QuarantineStaysUnembedded, VectorsStayWithTheirRows
<1> QED BY <1>1, Invariance, PTL

\* The full-text index has an entry without a row only for an atom that another
\* process merged away between the statements of its remember, and lacks one only
\* for an atom of remember, whose row and entry are not written together.
THEOREM FullTextFollowsRows ==
    Spec => []FtsFollowsRows
<1>1. IInv => FtsFollowsRows
  BY DEF IInv
<1> QED BY <1>1, Invariance, PTL

----------------------------------------------------------------------------
(* What a step may never do                                                *)

\* The only steps that write a row.
LEMMA RowWriters ==
    ASSUME NEW w \in Worker, Start(w) \/ Work(w) \/ Crash(w)
    PROVE  \/ row' = row
           \/ \E s \in Source : FullSyncDeletes(w, s)
           \/ WriteBatch(w)
           \/ \E a \in Atom : \/ MarkSupersedes(w, a)
                              \/ RememberRow(w, a)
                              \/ PromoteSets(w, a)
<1>1. CASE Start(w)
  BY <1>1 DEF Start, StartIndex, StartIngest, StartRemember, StartPromote, Begin, storeVars
<1>2. CASE Work(w) \/ Crash(w)
  BY <1>2 DEF Work, Crash, Gate, PlanEmbed, EmbedBatch, WriteBatchRollsBack, RememberFts,
              RememberVec, PromoteEvaluates, PromoteFindsNoRow, storeVars
<1> QED BY <1>1, <1>2

\* A merge takes one row away and leaves the others as they are.
LEMMA RowsAfterMerge ==
    ASSUME IInv, NEW s \in Atom, NEW l \in Atom, NearDupeMerges(s, l)
    PROVE  row' = [a \in Live \ {l} |-> row[a]] /\ l \in Live
BY MergeEffect DEF IInv, StoreInv, NearDupeMerges

\* The first mark of a row is its last: neither an upsert of the same atom nor
\* another declaration changes it.
THEOREM MarksAreFinal == Spec => SupersessionIsFinal
<1> DEFINE MarkStays ==
        \A a \in Live : (row[a].superseded_by # NoOne /\ a \in DOMAIN row')
                => row'[a].superseded_by = row[a].superseded_by
<1>1. ASSUME IInv, NEW w \in Worker, Start(w) \/ Work(w) \/ Crash(w)
      PROVE  MarkStays
  <2>0. row \in [Live -> Row]
    BY <1>1 DEF IInv, StoreInv, AtomStoreTypeOK
  <2>1. CASE row' = row
    BY <2>1
  <2>2. CASE \E s \in Source : FullSyncDeletes(w, s)
    BY <2>2 DEF FullSyncDeletes, DeleteSource, DeleteRows
  <2>3. CASE WriteBatch(w)
    <3>1. PICK f \in FreshRids(batch[w] \ Live) : row' = RowAfterUpsert(batch[w], lane[w], f)
      BY <2>3 DEF WriteBatch, UpsertBatch
    <3> QED BY <2>0, <3>1 DEF RowAfterUpsert, Row
  <2>4. ASSUME NEW a \in Atom, MarkSupersedes(w, a)
        PROVE  MarkStays
    BY <2>0, <2>4 DEF MarkSupersedes, MarkSuperseded, Row
  <2>5. ASSUME NEW a \in Atom, RememberRow(w, a)
        PROVE  MarkStays
    <3>1. PICK f \in FreshRids({a} \ Live) : row' = RowAfterUpsert({a}, lane[w], f)
      BY <2>5 DEF RememberRow
    <3> QED BY <2>0, <3>1 DEF RowAfterUpsert, Row
  <2>6. ASSUME NEW a \in Atom, PromoteSets(w, a)
        PROVE  MarkStays
    BY <2>0, <2>6 DEF PromoteSets, SetTrustLane, Row
  <2> QED BY <1>1, <2>1, <2>2, <2>3, <2>4, <2>5, <2>6, RowWriters
<1>2. ASSUME IInv, NEW s \in Atom, NEW l \in Atom, NearDupeMerges(s, l)
      PROVE  MarkStays
  BY <1>2, RowsAfterMerge
<1>3. IInv /\ [Next]_vars => [MarkStays]_vars
  BY <1>1, <1>2 DEF Next
<1> QED BY <1>3, Invariance, PTL DEF Spec, SupersessionIsFinal

\* On a shared store an agent's or an ingested atom enters the trusted lane
\* only through a job of the operator's CLI.
THEOREM Containment == Spec => ContainedUntilOperatorPromotes
<1>1. ASSUME IInv, NEW w \in Worker, Start(w) \/ Work(w) \/ Crash(w)
      PROVE  ContainedStep
  <2> SUFFICES ASSUME SharedClosed, NEW a \in Atom,
                      SourceOf[a] \in {AgentSource, IngestSource},
                      ~Trusted(a), Trusted(a)'
               PROVE  cli[w] /\ a \in batch[w]
    BY DEF ContainedStep
  <2>0. row \in [Live -> Row] /\ batch[w] \in SUBSET Atom /\ cli[w] \in BOOLEAN
    BY <1>1 DEF IInv, StoreInv, AtomStoreTypeOK, JobTypeOK
  <2>1. CASE row' = row
    BY <2>1 DEF Trusted, Live
  <2>2. CASE \E s \in Source : FullSyncDeletes(w, s)
    BY <2>2 DEF FullSyncDeletes, DeleteSource, DeleteRows, Trusted, Live
  <2>3. CASE WriteBatch(w)
    <3>1. PICK f \in FreshRids(batch[w] \ Live) : row' = RowAfterUpsert(batch[w], lane[w], f)
      BY <2>3 DEF WriteBatch, UpsertBatch
    <3>2. a \in batch[w] /\ lane[w][a] = "trusted"
      <4>1. a \in batch[w]
        BY <3>1 DEF RowAfterUpsert, Trusted, Live
      <4> QED BY <2>0, <3>1, <4>1 DEF RowAfterUpsert, Trusted, Live, Row
    <3>3. op[w] \in {"index", "ingest"} /\ batch[w] \subseteq WritableBy(op[w])
      BY <1>1, <2>3 DEF WriteBatch, IInv, JobTypeOK, Op, JobsInv, JobsInOrder, LabelsOf
    <3>4. op[w] = "ingest"
      BY <3>2, <3>3 DEF WritableBy, AtomsOf
    <3>5. cli[w]
      BY <1>1, <2>0, <3>2, <3>4 DEF IInv, JobsInv, ContainedJobs
    <3> QED BY <3>2, <3>5
  <2>4. ASSUME NEW b \in Atom, MarkSupersedes(w, b)
        PROVE  FALSE
    BY <2>0, <2>4 DEF MarkSupersedes, MarkSuperseded, Row, Trusted, Live
  <2>5. ASSUME NEW b \in Atom, RememberRow(w, b)
        PROVE  cli[w] /\ a \in batch[w]
    <3>1. PICK f \in FreshRids({b} \ Live) : row' = RowAfterUpsert({b}, lane[w], f)
      BY <2>5 DEF RememberRow
    <3>2. op[w] = "remember" /\ b \in batch[w]
      BY <1>1, <2>5 DEF RememberRow, IInv, JobTypeOK, Op, JobsInv, JobsInOrder, LabelsOf
    <3>3. a = b
      BY <3>1 DEF RowAfterUpsert, Trusted, Live
    <3>4. lane[w][a] = "trusted"
      BY <2>0, <3>1, <3>3 DEF RowAfterUpsert, Trusted, Live, Row
    <3>5. cli[w]
      BY <1>1, <2>0, <3>2, <3>4 DEF IInv, JobsInv, ContainedJobs
    <3> QED BY <3>2, <3>3, <3>5
  <2>6. ASSUME NEW b \in Atom, PromoteSets(w, b)
        PROVE  cli[w] /\ a \in batch[w]
    <3>1. a = b /\ b \in batch[w]
      BY <2>0, <2>6 DEF PromoteSets, SetTrustLane, Trusted, Live, Row
    <3>2. op[w] = "promote"
      BY <1>1, <2>6 DEF PromoteSets, IInv, JobTypeOK, Op, JobsInv, JobsInOrder, LabelsOf
    <3> QED BY <1>1, <3>1, <3>2 DEF IInv, JobsInv, ContainedJobs
  <2> QED BY <1>1, <2>1, <2>2, <2>3, <2>4, <2>5, <2>6, RowWriters
<1>2. ASSUME IInv, NEW s \in Atom, NEW l \in Atom, NearDupeMerges(s, l)
      PROVE  ContainedStep
  <2>1. row' = [a \in Live \ {l} |-> row[a]]
    BY <1>2, RowsAfterMerge
  <2>2. \A a : Trusted(a)' => Trusted(a)
    BY <2>1 DEF Trusted, Live
  <2> QED BY <2>2 DEF ContainedStep
<1>3. IInv /\ [Next]_vars => [ContainedStep]_vars
  BY <1>1, <1>2 DEF Next
<1> QED BY <1>3, Invariance, PTL DEF Spec, ContainedUntilOperatorPromotes

----------------------------------------------------------------------------
(* One writer at a time                                                    *)

OneWriter == \A v, w \in Worker : v = w

\* The atoms whose lane the worker has settled and has yet to write.
Settled(w) ==
    IF pc[w] = "gate" THEN batch[w] \ todo[w]
    ELSE IF pc[w] \in {"plan", "embed", "write", "row", "set"} THEN batch[w]
    ELSE {}

\* Those of them that it will put into the trusted lane.
Claims(w) == {a \in Settled(w) : pc[w] = "set" \/ lane[w][a] = "trusted"}

\* What is about to become trusted is the only trusted copy of its content,
\* in the store and among what is written with it.
ClaimsAreFree ==
    \A w \in Worker : \A a \in Claims(w) :
        /\ \A b \in Live : Trusted(b) /\ ContentOf[b] = ContentOf[a] => b = a
        /\ \A b \in Claims(w) : ContentOf[b] = ContentOf[a] => b = a

\* The vectors an index run counts on: a trusted atom that the plan has looked
\* at is pending or keeps the vector it has; after the embedding it has a new
\* one or keeps its own.
VectorsPlanned ==
    \A w \in Worker : op[w] = "index" /\ EmbedLive =>
        \A a \in batch[w] : lane[w][a] = "trusted" =>
            /\ pc[w] = "plan" /\ a \notin todo[w] => a \in pending[w] \/ HasVector(a)
            /\ pc[w] = "embed" => a \in pending[w] \/ HasVector(a)
            /\ pc[w] = "write" => emb[w][a] # "none" \/ HasVector(a)

SinglePromotion == \A w \in Worker : op[w] = "promote" => \E a \in Atom : batch[w] = {a}

\* The vectors of merged atoms lie where no connector's or ingested atom has its
\* row: the write that puts one there clears them.
StraysAreLoose ==
    \A r \in DOMAIN vec, a \in Live :
        SourceOf[a] # AgentSource /\ row[a].rid = r => vec[r] = a

\* The rowid that remember has read is given to no other row meanwhile.
RowidIsOwn ==
    \A w \in Worker : pc[w] \in {"fts", "vec"} =>
        \A r \in rowid[w], b \in Live : row[b].rid = r => b \in batch[w]

SerialInv ==
    /\ SinglePromotion
    /\ UniqueTrustedContent
    /\ ClaimsAreFree
    /\ StraysAreLoose
    /\ RowidIsOwn
    /\ VectorsPlanned
    /\ IndexedTrustedHaveVectors

\* Before anything has run there is nothing to disagree about.
LEMMA SerialInit == Init => SerialInv
BY DEF Init, AtomStoreInit, SerialInv, SinglePromotion, UniqueTrustedContent, ClaimsAreFree,
       Claims, Settled, VectorsPlanned, IndexedTrustedHaveVectors, StraysAreLoose, RowidIsOwn, Live

\* What a worker may do to the trusted lane: only a claim of its enters.
TrustStep(w) == \A b \in Live' : Trusted(b)' => Trusted(b) \/ b \in Claims(w)

\* Only a worker that has settled an atom for the trusted lane puts it there.
LEMMA TrustedWereClaimed ==
    ASSUME IInv, NEW w \in Worker, Start(w) \/ Work(w) \/ Crash(w)
    PROVE  TrustStep(w)
<1>0. /\ row \in [Live -> Row] /\ batch[w] \in SUBSET Atom
      /\ lane[w] \in [Atom -> Lane]
  BY DEF IInv, StoreInv, AtomStoreTypeOK, JobTypeOK
<1>1. CASE row' = row
  BY <1>1 DEF TrustStep, Trusted, Live
<1>2. CASE \E s \in Source : FullSyncDeletes(w, s)
  BY <1>2 DEF FullSyncDeletes, DeleteSource, DeleteRows, TrustStep, Trusted, Live
<1>3. ASSUME NEW atoms \in SUBSET Atom, NEW f \in FreshRids(atoms \ Live),
             row' = RowAfterUpsert(atoms, lane[w], f),
             atoms \subseteq Settled(w)
      PROVE  TrustStep(w)
  <2> SUFFICES ASSUME NEW b \in Live', Trusted(b)', ~Trusted(b)
               PROVE  b \in Claims(w)
    BY DEF TrustStep
  <2>1. b \in atoms
    BY <1>3 DEF RowAfterUpsert, Trusted, Live
  <2>2. lane[w][b] = "trusted"
    BY <1>0, <1>3, <2>1 DEF RowAfterUpsert, Trusted, Live, Row
  <2> QED BY <1>3, <2>1, <2>2 DEF Claims
<1>4. CASE WriteBatch(w)
  <2>1. PICK f \in FreshRids(batch[w] \ Live) : row' = RowAfterUpsert(batch[w], lane[w], f)
    BY <1>4 DEF WriteBatch, UpsertBatch
  <2>2. Settled(w) = batch[w]
    BY <1>4 DEF WriteBatch, Settled
  <2> QED BY <1>0, <1>3, <2>1, <2>2
<1>5. ASSUME NEW a \in Atom, MarkSupersedes(w, a)
      PROVE  TrustStep(w)
  BY <1>0, <1>5 DEF MarkSupersedes, MarkSuperseded, Row, TrustStep, Trusted, Live
<1>6. ASSUME NEW a \in Atom, RememberRow(w, a)
      PROVE  TrustStep(w)
  <2>1. PICK f \in FreshRids({a} \ Live) : row' = RowAfterUpsert({a}, lane[w], f)
    BY <1>6 DEF RememberRow
  <2>2. {a} \subseteq Settled(w)
    BY <1>6 DEF RememberRow, Settled
  <2> QED BY <1>3, <2>1, <2>2
<1>7. ASSUME NEW a \in Atom, PromoteSets(w, a)
      PROVE  TrustStep(w)
  <2>1. a \in Claims(w)
    BY <1>7 DEF PromoteSets, Claims, Settled
  <2> QED BY <1>0, <1>7, <2>1 DEF PromoteSets, SetTrustLane, TrustStep, Trusted, Live, Row
<1> QED BY <1>1, <1>2, <1>4, <1>5, <1>6, <1>7, RowWriters

\* So contents of the trusted lane stay apart as long as claims are free.
LEMMA UniqueKept ==
    ASSUME UniqueTrustedContent, ClaimsAreFree, NEW w \in Worker, TrustStep(w)
    PROVE  UniqueTrustedContent'
<1> SUFFICES ASSUME NEW a \in Live', NEW b \in Live', Trusted(a)', Trusted(b)',
                    ContentOf[a] = ContentOf[b]
             PROVE  a = b
  BY DEF UniqueTrustedContent
<1>1. /\ Trusted(a) \/ a \in Claims(w)
      /\ Trusted(b) \/ b \in Claims(w)
  BY DEF TrustStep
<1> QED BY <1>1 DEF UniqueTrustedContent, ClaimsAreFree, Trusted

\* An atom that may join the claims of w.
FreeFor(w, a) ==
    /\ \A b \in Live : Trusted(b) /\ ContentOf[b] = ContentOf[a] => b = a
    /\ \A b \in Claims(w) : ContentOf[b] = ContentOf[a] => b = a

\* What a step may do to the claims of w: drop them, or, while the rows stay,
\* keep some and add at most one that is free.
ClaimStep(w) ==
    \/ Claims(w)' = {}
    \/ /\ row' = row
       /\ Claims(w)' \subseteq Claims(w)
    \/ /\ row' = row
       /\ \E a \in Atom : FreeFor(w, a) /\ Claims(w)' \subseteq Claims(w) \cup {a}

\* The gate lets an atom through as trusted when no other trusted row has its
\* content.
LEMMA GateMeansFree ==
    ASSUME UniqueTrustedContent, NEW a \in Atom, "trusted" \in Evaluate(a)
    PROVE  \A b \in Live : Trusted(b) /\ ContentOf[b] = ContentOf[a] => b = a
BY DEF Evaluate, GateLane, FindTrustedByContentHash, UniqueTrustedContent, Lane

\* The gate loop adds the atom it looks at: the contents it has been through
\* keep a second copy out of the batch.
LEMMA GateClaims ==
    ASSUME IInv, SerialInv, NEW w \in Worker, NEW a \in Atom, Gate(w, a)
    PROVE  ClaimStep(w)
<1>0. /\ batch[w] \in SUBSET Atom /\ todo[w] \in SUBSET Atom /\ w \in DOMAIN lane
      /\ w \in DOMAIN pc /\ w \in DOMAIN todo
      /\ lane \in [Worker -> [Atom -> Lane]] /\ a \in todo[w]
  BY DEF IInv, JobTypeOK, Gate
<1>1. PICK l \in GatedLanes(w, a) : lane' = [lane EXCEPT ![w][a] = l]
  BY DEF Gate
<1>2. lane'[w][a] = l /\ \A b \in Atom \ {a} : lane'[w][b] = lane[w][b]
  BY <1>0, <1>1
<1>3. Settled(w)' \subseteq (batch[w] \ todo[w]) \cup {a}
  <2>1. \/ todo[w] = {a} /\ batch'[w] = batch[w]
        \/ pc'[w] = "gate" /\ todo'[w] = todo[w] \ {a} /\ batch'[w] = batch[w]
    BY <1>0 DEF Gate, LoopStep, GoTo
  <2>2. Settled(w)' \subseteq batch'[w]
    BY DEF Settled
  <2> QED BY <2>1, <2>2 DEF Settled
<1>4. pc'[w] # "set"
  <2>1. AfterGate(w) # "set"
    BY DEF AfterGate
  <2> QED BY <1>0, <2>1 DEF Gate, LoopStep, GoTo
<1>5. Settled(w) = batch[w] \ todo[w] /\ pc[w] = "gate"
  BY DEF Gate, Settled
<1>6. \A b \in Claims(w)' \ {a} : b \in Claims(w)
  BY <1>0, <1>2, <1>3, <1>4, <1>5 DEF Claims
<1>7. row' = row
  BY DEF Gate, storeVars
<1>8. CASE a \notin Claims(w)'
  BY <1>6, <1>7, <1>8 DEF ClaimStep
<1>9. CASE a \in Claims(w)'
  <2>1. l = "trusted"
    BY <1>2, <1>4, <1>9 DEF Claims
  <2>2. "trusted" \in Evaluate(a)
    BY <1>1, <2>1 DEF GatedLanes
  <2>3. \A b \in Live : Trusted(b) /\ ContentOf[b] = ContentOf[a] => b = a
    BY <2>2, GateMeansFree DEF SerialInv
  <2>4. \A b \in batch[w] \ todo[w] : ContentOf[b] = ContentOf[a] => b = a
    <3>1. op[w] \in {"index", "ingest", "remember"}
      BY <1>5 DEF IInv, JobTypeOK, Op, JobsInv, JobsInOrder, LabelsOf
    <3>2. CASE op[w] \in {"index", "ingest"}
      <4>1. ContentOf[a] \notin BatchSeen(w)
        BY <1>1, <2>1, <3>2 DEF GatedLanes
      <4> QED BY <4>1 DEF BatchSeen
    <3>3. CASE op[w] = "remember"
      <4>1. PICK c \in Atom : batch[w] = {c}
        BY <3>3 DEF IInv, JobsInv, JobsInOrder
      <4>2. a \in batch[w]
        BY <1>9, <1>5, <1>0 DEF Claims, Settled, Gate
      <4> QED BY <4>1, <4>2
    <3> QED BY <3>1, <3>2, <3>3
  <2>5. FreeFor(w, a)
    BY <1>5, <2>3, <2>4 DEF FreeFor, Claims
  <2> QED BY <1>6, <1>7, <2>5 DEF ClaimStep
<1> QED BY <1>8, <1>9

\* Promote claims its atom once the gate has let it through.
LEMMA PromoteClaims ==
    ASSUME IInv, SerialInv, NEW w \in Worker, NEW a \in Atom, PromoteEvaluates(w, a)
    PROVE  ClaimStep(w)
<1>0. w \in DOMAIN pc /\ w \in DOMAIN batch
  BY DEF IInv, JobTypeOK
<1>1. CASE Finish(w)
  BY <1>0, <1>1 DEF Finish, ClaimStep, Claims, Settled
<1>2. CASE "trusted" \in Evaluate(a) /\ UNCHANGED batch
  <2>1. \A b \in Live : Trusted(b) /\ ContentOf[b] = ContentOf[a] => b = a
    BY <1>2, GateMeansFree DEF SerialInv
  <2>2. Claims(w) = {}
    BY DEF PromoteEvaluates, Claims, Settled
  <2>3. op[w] = "promote"
    BY DEF PromoteEvaluates, IInv, JobTypeOK, Op, JobsInv, JobsInOrder, LabelsOf
  <2>4. batch[w] = {a}
    BY <2>3 DEF SerialInv, SinglePromotion, PromoteEvaluates
  <2>5. Claims(w)' \subseteq {a}
    BY <1>2, <2>4 DEF Claims, Settled
  <2>6. row' = row
    BY DEF PromoteEvaluates, storeVars
  <2> QED BY <2>1, <2>2, <2>5, <2>6 DEF ClaimStep, FreeFor
<1> QED BY <1>1, <1>2 DEF PromoteEvaluates

\* The claims after a step of w.
LEMMA ClaimsOfStep ==
    ASSUME IInv, SerialInv, NEW w \in Worker, Start(w) \/ Work(w) \/ Crash(w)
    PROVE  ClaimStep(w)
<1>0. w \in DOMAIN pc /\ w \in DOMAIN batch /\ w \in DOMAIN todo
  BY DEF IInv, JobTypeOK
<1>1. CASE Finish(w)
  BY <1>0, <1>1 DEF Finish, ClaimStep, Claims, Settled
<1>2. CASE pc'[w] \in {"delete", "mark", "fts", "vec", "reget"}
  BY <1>2 DEF ClaimStep, Claims, Settled
<1>3. CASE pc'[w] = "gate" /\ batch'[w] \subseteq todo'[w]
  BY <1>3 DEF ClaimStep, Claims, Settled
<1>4. CASE Start(w)
  BY <1>0, <1>2, <1>3, <1>4 DEF Start, StartIndex, StartIngest, StartRemember, StartPromote, Begin
<1>5. ASSUME NEW a \in Atom, PlanEmbed(w, a)
      PROVE  ClaimStep(w)
  <2>1. pc[w] = "plan" /\ pc'[w] \in {"plan", "embed"} /\ UNCHANGED <<batch, lane, row>>
    BY <1>0, <1>5 DEF PlanEmbed, LoopStep, GoTo, storeVars
  <2> QED BY <2>1 DEF ClaimStep, Claims, Settled
<1>6. CASE EmbedBatch(w)
  <2>1. pc[w] = "embed" /\ pc'[w] = "write" /\ UNCHANGED <<batch, lane, row>>
    BY <1>0, <1>6 DEF EmbedBatch, GoTo, storeVars
  <2> QED BY <2>1 DEF ClaimStep, Claims, Settled
<1>7. ASSUME NEW s \in Source, FullSyncDeletes(w, s)
      PROVE  ClaimStep(w)
  BY <1>0, <1>1, <1>3, <1>7 DEF FullSyncDeletes, GoTo
<1>8. CASE WriteBatch(w) \/ WriteBatchRollsBack(w)
  BY <1>0, <1>1, <1>2, <1>8 DEF WriteBatch, WriteBatchRollsBack, GoTo
<1>9. ASSUME NEW a \in Atom,
             \/ MarkSupersedes(w, a) \/ RememberRow(w, a) \/ RememberFts(w, a)
             \/ RememberVec(w, a) \/ PromoteSets(w, a) \/ PromoteFindsNoRow(w, a)
      PROVE  ClaimStep(w)
  BY <1>0, <1>1, <1>2, <1>9 DEF MarkSupersedes, RememberRow, RememberFts, RememberVec,
     PromoteSets, PromoteFindsNoRow, GoTo
<1> QED BY <1>1, <1>4, <1>5, <1>6, <1>7, <1>8, <1>9, GateClaims, PromoteClaims DEF Work, Crash

\* With one writer, claims stay free: nobody else writes in between.
LEMMA ClaimsKept ==
    ASSUME OneWriter, ClaimsAreFree, NEW w \in Worker, ClaimStep(w)
    PROVE  ClaimsAreFree'
<1> SUFFICES ASSUME NEW a \in Claims(w)'
             PROVE  /\ \A b \in Live' : Trusted(b)' /\ ContentOf[b] = ContentOf[a] => b = a
                    /\ \A b \in Claims(w)' : ContentOf[b] = ContentOf[a] => b = a
  BY DEF OneWriter, ClaimsAreFree
<1>1. row' = row
  BY DEF ClaimStep
<1>2. Live' = Live /\ \A b : Trusted(b)' = Trusted(b)
  BY <1>1 DEF Live, Trusted
<1>3. CASE Claims(w)' \subseteq Claims(w)
  BY <1>2, <1>3 DEF ClaimsAreFree
<1>4. ASSUME NEW c \in Atom, FreeFor(w, c), Claims(w)' \subseteq Claims(w) \cup {c}
      PROVE  /\ \A b \in Live' : Trusted(b)' /\ ContentOf[b] = ContentOf[a] => b = a
             /\ \A b \in Claims(w)' : ContentOf[b] = ContentOf[a] => b = a
  BY <1>2, <1>4 DEF ClaimsAreFree, FreeFor
<1> QED BY <1>3, <1>4 DEF ClaimStep

----------------------------------------------------------------------------
(* The vectors of an index run                                             *)

\* What the writer itself writes: every atom of the batch is a row in the lane
\* it was gated for, and has its vector unless that was near zero.
LEMMA WrittenHaveVectors ==
    ASSUME IInv, SerialInv, NEW w \in Worker, WriteBatch(w), op[w] = "index", EmbedLive
    PROVE  \A a \in batch[w] : Trusted(a)' /\ emb[w][a] # "tiny" => HasVector(a)'
<1>0. /\ batch[w] \in SUBSET Atom /\ lane[w] \in [Atom -> Lane]
      /\ AtomStoreTypeOK /\ RowIdsDistinct
      /\ emb[w] \in [Atom -> Embedding]
  BY DEF IInv, JobTypeOK, StoreInv
<1>1. PICK f \in FreshRids(batch[w] \ Live) :
          /\ row' = RowAfterUpsert(batch[w], lane[w], f)
          /\ vec' = VecAfterUpsert(batch[w], lane[w], emb[w], batch[w] \ Live, row')
  BY DEF WriteBatch, UpsertBatch
<1> DEFINE at == RowAfterUpsert(batch[w], lane[w], f)
           new == batch[w] \ Live
           cleared == {row'[b].rid : b \in {c \in batch[w] : ClearsVector(c, lane[w], emb[w], new)}}
           written == {b \in batch[w] : WritesVector(b, lane[w], emb[w])}
<1>2. at = row'
  BY <1>1
<1> HIDE DEF at
<1>3. RowsTakeBatch(row', batch[w], lane[w])
  BY <1>0, <1>1, RowAfterUpsertFacts
<1>4. DOMAIN vec' = (DOMAIN vec \ cleared) \cup {row'[b].rid : b \in written}
  BY <1>1, Zenon DEF VecAfterUpsert
<1> SUFFICES ASSUME NEW a \in batch[w], Trusted(a)', emb[w][a] # "tiny"
             PROVE  row'[a].rid \in DOMAIN vec' /\ a \in Live'
  BY DEF HasVector
<1>5. a \in Live' /\ lane[w][a] = "trusted"
  BY <1>3 DEF RowsTakeBatch, Trusted, Live
<1>6. emb[w][a] # "bad_dim"
  BY <1>5 DEF WriteBatch, UpsertFails
<1>7. emb[w][a] # "none" \/ HasVector(a)
  BY <1>5 DEF SerialInv, VectorsPlanned, WriteBatch
<1>8. CASE emb[w][a] = "vector"
  BY <1>4, <1>5, <1>8 DEF WritesVector
<1>9. CASE emb[w][a] = "none"
  <2>1. HasVector(a)
    BY <1>7, <1>9
  <2>2. a \in Live /\ row[a].rid \in DOMAIN vec
    BY <2>1 DEF HasVector
  <2>3. row'[a].rid = row[a].rid
    BY <1>3, <2>2 DEF RowsTakeBatch
  <2>4. ~ClearsVector(a, lane[w], emb[w], new)
    BY <1>5, <1>9, <2>2 DEF ClearsVector
  <2>5. \A b \in batch[w] : row'[b].rid = row'[a].rid => b = a
    BY <1>3 DEF RowsTakeBatch
  <2>6. row'[a].rid \notin cleared
    BY <2>4, <2>5
  <2> QED BY <1>4, <1>5, <2>2, <2>3, <2>6
<1> QED BY <1>0, <1>5, <1>6, <1>8, <1>9 DEF Embedding

\* What an index run counts on after each step of w.
LEMMA PlansKept ==
    ASSUME OneWriter, IInv, SerialInv, NEW w \in Worker, Start(w) \/ Work(w) \/ Crash(w)
    PROVE  VectorsPlanned' /\ IndexedTrustedHaveVectors'
<1> DEFINE Planned ==
             op[w] = "index" /\ EmbedLive =>
               \A a \in batch[w] : lane[w][a] = "trusted" =>
                 /\ pc[w] = "plan" /\ a \notin todo[w] => a \in pending[w] \/ HasVector(a)
                 /\ pc[w] = "embed" => a \in pending[w] \/ HasVector(a)
                 /\ pc[w] = "write" => emb[w][a] # "none" \/ HasVector(a)
           Indexed ==
             EmbedLive /\ pc[w] = "mark" =>
               \A a \in batch[w] : Trusted(a) /\ emb[w][a] # "tiny" => HasVector(a)
<1>0. /\ w \in DOMAIN pc /\ w \in DOMAIN batch /\ w \in DOMAIN todo
      /\ w \in DOMAIN op /\ w \in DOMAIN emb /\ w \in DOMAIN pending
      /\ pending \in [Worker -> SUBSET Atom] /\ batch[w] \in SUBSET Atom
      /\ emb \in [Worker -> [Atom -> Embedding]] /\ todo[w] \in SUBSET Atom
  BY DEF IInv, JobTypeOK
<1> SUFFICES Planned' /\ Indexed'
  BY DEF OneWriter, VectorsPlanned, IndexedTrustedHaveVectors
<1>1. Planned /\ Indexed
  BY DEF SerialInv, VectorsPlanned, IndexedTrustedHaveVectors
<1> HIDE DEF Planned, Indexed
<1>2. CASE pc'[w] \notin {"plan", "embed", "write", "mark"}
  BY <1>2 DEF Planned, Indexed
<1>3. CASE Finish(w)
  BY <1>0, <1>2, <1>3 DEF Finish
<1>4. CASE Start(w)
  BY <1>0, <1>2, <1>4 DEF Start, StartIndex, StartIngest, StartRemember, StartPromote, Begin
<1>5. ASSUME NEW s \in Source, FullSyncDeletes(w, s)
      PROVE  Planned' /\ Indexed'
  BY <1>0, <1>2, <1>3, <1>5 DEF FullSyncDeletes, GoTo
<1>6. ASSUME NEW a \in Atom, Gate(w, a)
      PROVE  Planned' /\ Indexed'
  <2>1. \/ pc'[w] = "gate"
        \/ pc'[w] = AfterGate(w) /\ todo'[w] = batch[w]
    BY <1>0, <1>6 DEF Gate, LoopStep, GoTo
  <2>2. op' = op /\ batch' = batch
    BY <1>6 DEF Gate
  <2> QED BY <1>2, <2>1, <2>2 DEF AfterGate, Planned, Indexed
<1>7. ASSUME NEW a \in Atom, PlanEmbed(w, a)
      PROVE  Planned' /\ Indexed'
  <2>1. /\ UNCHANGED <<op, batch, lane, emb, row, vec>>
        /\ pc[w] = "plan"
        /\ pending'[w] = IF lane[w][a] = "trusted" /\ ~HasFreshEmbedding(a)
                         THEN pending[w] \cup {a} ELSE pending[w]
    BY <1>0, <1>7 DEF PlanEmbed, storeVars
  <2>2. \/ pc'[w] = "plan" /\ todo'[w] = todo[w] \ {a}
        \/ pc'[w] = "embed" /\ todo[w] = {a}
    BY <1>0, <1>7 DEF PlanEmbed, LoopStep, GoTo
  <2>3. \A b : HasVector(b)' = HasVector(b)
    BY <2>1 DEF HasVector, Live
  <2>4. Indexed'
    BY <2>2 DEF Indexed
  <2>5. Planned'
    BY <1>1, <2>1, <2>2, <2>3 DEF Planned, HasFreshEmbedding
  <2> QED BY <2>4, <2>5
<1>8. CASE EmbedBatch(w)
  <2>1. PICK r \in [pending[w] -> EmbedResults] :
            emb' = [emb EXCEPT ![w] = [a \in Atom |-> IF a \in pending[w] THEN r[a] ELSE @[a]]]
    BY <1>8 DEF EmbedBatch
  <2>2. \A a \in Atom : emb'[w][a] = IF a \in pending[w] THEN r[a] ELSE emb[w][a]
    BY <1>0, <2>1
  <2>3. /\ UNCHANGED <<op, batch, lane, row, vec>>
        /\ pc[w] = "embed" /\ pc'[w] = "write"
    BY <1>0, <1>8 DEF EmbedBatch, GoTo, storeVars
  <2>4. \A b : HasVector(b)' = HasVector(b)
    BY <2>3 DEF HasVector, Live
  <2>5. \A a \in pending[w] : emb'[w][a] # "none"
    BY <1>0, <2>2, PipelineFacts
  <2>6. Planned'
    BY <1>0, <1>1, <2>3, <2>4, <2>5 DEF Planned
  <2> QED BY <2>3, <2>6 DEF Indexed
<1>9. CASE WriteBatch(w)
  <2>1. CASE op[w] = "index"
    <3>1. UNCHANGED <<op, batch, lane, emb>> /\ pc'[w] = "mark"
      BY <1>0, <1>9, <2>1 DEF WriteBatch, GoTo
    <3>2. Planned'
      BY <3>1 DEF Planned
    <3>3. Indexed'
      BY <1>9, <2>1, <3>1, WrittenHaveVectors DEF Indexed
    <3> QED BY <3>2, <3>3
  <2>2. CASE op[w] # "index"
    BY <1>3, <1>9, <2>2 DEF WriteBatch
  <2> QED BY <2>1, <2>2
<1>10. ASSUME NEW a \in Atom, MarkSupersedes(w, a)
       PROVE  Planned' /\ Indexed'
  <2>1. CASE Finish(w)
    BY <1>3, <2>1
  <2>2. CASE GoTo(w, "mark", todo[w] \ {a}) /\ UNCHANGED <<op, batch, lane, emb, pending, cli, rowid>>
    <3>1. pc[w] = "mark" /\ pc'[w] = "mark" /\ UNCHANGED <<batch, emb, vec>>
      BY <1>0, <1>10, <2>2 DEF MarkSupersedes, GoTo, MarkSuperseded
    <3>2. /\ Live' = Live
          /\ \A b \in Live : row'[b].lane = row[b].lane /\ row'[b].rid = row[b].rid
      <4>1. row \in [Live -> Row]
        BY DEF IInv, StoreInv, AtomStoreTypeOK
      <4> QED BY <1>10, <4>1 DEF MarkSupersedes, MarkSuperseded, Live, Row
    <3>3. Planned'
      BY <3>1 DEF Planned
    <3>4. Indexed'
      BY <1>1, <3>1, <3>2 DEF Indexed, Trusted, HasVector
    <3> QED BY <3>3, <3>4
  <2> QED BY <1>10, <2>1, <2>2 DEF MarkSupersedes
<1>11. ASSUME NEW a \in Atom,
              \/ RememberRow(w, a) \/ RememberFts(w, a) \/ RememberVec(w, a)
              \/ PromoteEvaluates(w, a) \/ PromoteSets(w, a) \/ PromoteFindsNoRow(w, a)
       PROVE  Planned' /\ Indexed'
  BY <1>0, <1>2, <1>3, <1>11 DEF RememberRow, RememberFts, RememberVec,
     PromoteEvaluates, PromoteSets, PromoteFindsNoRow, GoTo
<1>12. CASE WriteBatchRollsBack(w) \/ Crash(w)
  BY <1>3, <1>12 DEF WriteBatchRollsBack, Crash
<1> QED BY <1>4, <1>5, <1>6, <1>7, <1>8, <1>9, <1>10, <1>11, <1>12 DEF Work

\* A promotion has one atom in hand.
LEMMA PromotionStaysSingle ==
    ASSUME IInv, SinglePromotion, NEW w \in Worker, Start(w) \/ Work(w) \/ Crash(w)
    PROVE  SinglePromotion'
<1>0. JobTypeOK
  BY DEF IInv
<1>1. \/ op'[w] = op[w] /\ batch'[w] = batch[w]
      \/ op'[w] = "promote" => \E a \in Atom : batch'[w] = {a}
  <2>1. CASE Finish(w)
    BY <1>0, <2>1 DEF JobTypeOK, Finish
  <2>2. CASE Start(w)
    BY <1>0, <2>2 DEF JobTypeOK, Start, StartIndex, StartIngest, StartRemember,
                      StartPromote, Begin
  <2>3. CASE UNCHANGED <<op, batch>>
    BY <2>3
  <2> QED BY <2>1, <2>2, <2>3 DEF Work, FullSyncDeletes, Gate, PlanEmbed, EmbedBatch, WriteBatch,
             WriteBatchRollsBack, MarkSupersedes, RememberRow, RememberFts, RememberVec,
             PromoteEvaluates, PromoteSets, PromoteFindsNoRow, Crash
<1>2. \A v \in Worker \ {w} : op'[v] = op[v] /\ batch'[v] = batch[v]
  BY <1>0, NextJobStep DEF JobStep, OthersStay
<1> QED BY <1>1, <1>2 DEF SinglePromotion

----------------------------------------------------------------------------
(* Merges beside the one writer                                            *)

\* A batch clears or overwrites whatever lies at the rowids of its new rows.
LEMMA BatchClearsStrays ==
    ASSUME IInv, StraysAreLoose, NEW atoms \in SUBSET Atom, NEW lanes \in [Atom -> Lane],
           NEW outcome, UpsertBatch(atoms, lanes, outcome)
    PROVE  StraysAreLoose'
<1>1. PICK f \in FreshRids(atoms \ Live) :
          /\ row' = RowAfterUpsert(atoms, lanes, f)
          /\ vec' = VecAfterUpsert(atoms, lanes, outcome, atoms \ Live, row')
  BY DEF UpsertBatch
<1> DEFINE new == atoms \ Live
           cleared == {row'[a].rid : a \in {b \in atoms : ClearsVector(b, lanes, outcome, new)}}
           written == {a \in atoms : WritesVector(a, lanes, outcome)}
<1>2. RowsTakeBatch(row', atoms, lanes)
  BY <1>1, RowAfterUpsertFacts DEF IInv, StoreInv
<1>3. DOMAIN vec' = (DOMAIN vec \ cleared) \cup {row'[a].rid : a \in written}
  BY <1>1, Zenon DEF VecAfterUpsert
<1>4. Live' = Live \cup atoms /\ \A a, b \in Live' : row'[a].rid = row'[b].rid => a = b
  BY <1>2 DEF RowsTakeBatch, Live
<1> SUFFICES ASSUME NEW a \in Live', SourceOf[a] # AgentSource, row'[a].rid \in DOMAIN vec'
             PROVE  vec'[row'[a].rid] = a
  BY DEF StraysAreLoose
<1> DEFINE r == row'[a].rid
<1>5. CASE a \in written
  <2> DEFINE owner == CHOOSE b \in written : row'[b].rid = r
  <2>1. owner \in written /\ row'[owner].rid = r
    BY <1>5, Zenon
  <2>2. owner = a
    BY <1>4, <1>5, <2>1
  <2>3. vec'[r] = owner
    BY <1>1, <1>3, <1>5, Zenon DEF VecAfterUpsert
  <2> QED BY <2>2, <2>3
<1>6. CASE a \notin written
  <2>1. \A b \in written : row'[b].rid # r
    BY <1>4, <1>6
  <2>2. r \in DOMAIN vec \ cleared
    BY <1>3, <2>1
  <2>3. vec'[r] = vec[r]
    BY <1>1, <1>3, <2>1, Zenon DEF VecAfterUpsert
  <2>4. a \in Live
    BY <1>4, <2>2 DEF ClearsVector
  <2>5. row'[a].rid = row[a].rid
    BY <1>2, <2>4 DEF RowsTakeBatch
  <2> QED BY <2>2, <2>3, <2>4, <2>5 DEF StraysAreLoose
<1> QED BY <1>5, <1>6

\* Rows other than an agent's keep to their own vectors.
LEMMA StraysStayLoose ==
    ASSUME OneWriter, IInv, StraysAreLoose, RowidIsOwn,
           NEW w \in Worker, Start(w) \/ Work(w) \/ Crash(w)
    PROVE  StraysAreLoose'
<1>0. row \in [Live -> Row] /\ StoreInv(overtaken)
  BY DEF IInv, StoreInv, AtomStoreTypeOK
<1>1. CASE UNCHANGED <<row, vec>>
  BY <1>1 DEF StraysAreLoose, Live
<1>2. CASE Start(w)
  BY <1>1, <1>2 DEF Start, StartIndex, StartIngest, StartRemember, StartPromote, Begin, storeVars
<1>3. ASSUME NEW s \in Source, FullSyncDeletes(w, s)
      PROVE  StraysAreLoose'
  BY <1>3 DEF FullSyncDeletes, DeleteSource, DeleteRows, StraysAreLoose, Live
<1>4. CASE WriteBatch(w)
  <2>1. batch[w] \in SUBSET Atom /\ lane[w] \in [Atom -> Lane]
    BY DEF IInv, JobTypeOK
  <2> QED BY <1>4, <2>1, BatchClearsStrays DEF WriteBatch
<1>5. ASSUME NEW a \in Atom, MarkSupersedes(w, a)
      PROVE  StraysAreLoose'
  BY <1>0, <1>5 DEF MarkSupersedes, MarkSuperseded, StraysAreLoose, Live, Row
<1>6. ASSUME NEW a \in Atom, RememberRow(w, a)
      PROVE  StraysAreLoose'
  <2>1. PICK f \in FreshRids({a} \ Live) : row' = RowAfterUpsert({a}, lane[w], f)
    BY <1>6 DEF RememberRow
  <2>2. op[w] = "remember"
    BY <1>6 DEF RememberRow, IInv, JobTypeOK, Op, JobsInv, JobsInOrder, LabelsOf
  <2>3. SourceOf[a] = AgentSource
    BY <1>6, <2>2 DEF RememberRow, IInv, JobsInv, JobsInOrder, WritableBy, AtomsOf
  <2>4. /\ Live' = Live \cup {a} /\ vec' = vec
        /\ \A b \in Live \ {a} : row'[b] = row[b]
    BY <1>6, <2>1 DEF RememberRow, RowAfterUpsert, Live
  <2> QED BY <2>3, <2>4 DEF StraysAreLoose
<1>7. ASSUME NEW a \in Atom, RememberVec(w, a)
      PROVE  StraysAreLoose'
  <2>1. PICK r \in rowid[w] : \E e \in {emb[w], NoEmbeddings} :
            vec' = VecAfterUpsert({a}, lane[w], e, {a}, [b \in {a} |-> [rid |-> r]])
    BY <1>7 DEF RememberVec
  <2>2. \A q \in DOMAIN vec' \ {r} : q \in DOMAIN vec /\ vec'[q] = vec[q]
    <3>1. PICK e : vec' = VecAfterUpsert({a}, lane[w], e, {a}, [b \in {a} |-> [rid |-> r]])
      BY <2>1
    <3>2. \/ /\ DOMAIN vec' = DOMAIN vec \cup {r}
             /\ vec' = [q \in DOMAIN vec' |-> IF q = r THEN a ELSE vec[q]]
          \/ /\ DOMAIN vec' = DOMAIN vec \ {r}
             /\ vec' = [q \in DOMAIN vec' |-> vec[q]]
      BY <3>1, OneVectorWritten
    <3>3. \A q \in DOMAIN vec' \ {r} : vec'[q] = vec[q]
      BY <3>2
    <3> QED BY <3>2, <3>3
  <2>3. op[w] = "remember"
    BY <1>7 DEF RememberVec, IInv, JobTypeOK, Op, JobsInv, JobsInOrder, LabelsOf
  <2>4. \A b \in Live : row[b].rid = r => SourceOf[b] = AgentSource
    BY <1>7, <2>3 DEF RememberVec, RowidIsOwn, IInv, JobsInv, JobsInOrder, WritableBy, AtomsOf
  <2>5. row' = row /\ Live' = Live
    BY <1>7 DEF RememberVec, Live
  <2> QED BY <2>2, <2>4, <2>5 DEF StraysAreLoose
<1>8. ASSUME NEW a \in Atom, PromoteSets(w, a)
      PROVE  StraysAreLoose'
  BY <1>0, <1>8 DEF PromoteSets, SetTrustLane, StraysAreLoose, Live, Row
<1>9. CASE UNCHANGED storeVars
  BY <1>1, <1>9 DEF storeVars
<1>10. ASSUME NEW a \in Atom, RememberFts(w, a)
       PROVE  StraysAreLoose'
  BY <1>1, <1>10 DEF RememberFts
<1> QED BY <1>2, <1>3, <1>4, <1>5, <1>6, <1>7, <1>8, <1>9, <1>10
        DEF Work, Crash, Gate, PlanEmbed, EmbedBatch, WriteBatchRollsBack, PromoteEvaluates,
            PromoteFindsNoRow

\* The one writer gives no rowid away while it remembers.
LEMMA RowidStaysOwn ==
    ASSUME OneWriter, IInv, RowidIsOwn, NEW w \in Worker, Start(w) \/ Work(w) \/ Crash(w),
           StoreInv(overtaken)'
    PROVE  RowidIsOwn'
<1>0. /\ w \in DOMAIN pc /\ w \in DOMAIN rowid /\ w \in DOMAIN op
      /\ pc'[w] \in {"fts", "vec"} => \E a \in Atom : RememberRow(w, a) \/ RememberFts(w, a)
  <2>1. JobTypeOK /\ pc[w] \in LabelsOf(op[w])
    BY DEF IInv, JobsInv, JobsInOrder
  <2>2. CASE Start(w)
    BY <2>1, <2>2 DEF JobTypeOK, Start, StartIndex, StartIngest, StartRemember, StartPromote, Begin
  <2>3. CASE Finish(w)
    BY <2>1, <2>3 DEF JobTypeOK, Finish
  <2>4. ASSUME NEW a \in Atom, Gate(w, a), pc'[w] \in {"fts", "vec"}
        PROVE  FALSE
    BY <2>1, <2>4 DEF JobTypeOK, Gate, LoopStep, GoTo, AfterGate
  <2>5. ASSUME pc'[w] \in {"fts", "vec"}, ~Start(w), ~Finish(w)
        PROVE  \E a \in Atom : RememberRow(w, a) \/ RememberFts(w, a)
    BY <2>1, <2>4, <2>5 DEF JobTypeOK, Work, Crash, FullSyncDeletes, PlanEmbed, EmbedBatch,
       WriteBatch, WriteBatchRollsBack, MarkSupersedes, RememberVec, PromoteEvaluates,
       PromoteSets, PromoteFindsNoRow, LoopStep, GoTo
  <2> QED BY <2>1, <2>2, <2>3, <2>5 DEF JobTypeOK
<1> SUFFICES ASSUME pc'[w] \in {"fts", "vec"}, NEW r \in rowid'[w], NEW b \in Live',
                    row'[b].rid = r
             PROVE  b \in batch'[w]
  BY DEF OneWriter, RowidIsOwn
<1>1. PICK a \in Atom : RememberRow(w, a) \/ RememberFts(w, a)
  BY <1>0
<1>2. batch' = batch /\ a \in batch[w]
  BY <1>1 DEF RememberRow, RememberFts
<1>3. CASE RememberRow(w, a)
  <2>1. rowid'[w] = {row'[a].rid} /\ a \in Live'
    BY <1>0, <1>3 DEF RememberRow, RowAfterUpsert, Live
  <2>2. b = a
    BY <2>1 DEF StoreInv, RowIdsDistinct
  <2> QED BY <1>2, <2>2
<1>4. CASE RememberFts(w, a)
  BY <1>2, <1>4 DEF RememberFts, RowidIsOwn, Live
<1> QED BY <1>1, <1>3, <1>4

\* A merge leaves the vectors that an index run counts on: what has one is trusted,
\* and a trusted row goes only for a trusted copy of it, which there is none.
LEMMA MergeKeepsVectors ==
    ASSUME IInv, SerialInv, NEW s \in Atom, NEW l \in Atom, NearDupeMerges(s, l),
           NEW a, SourceOf[a] # AgentSource, HasVector(a)
    PROVE  HasVector(a)'
<1>1. /\ s \in Live /\ l \in Live /\ s # l /\ ApplyAutoMerge(s, l, row[s].lane)
      /\ Trusted(l) => Trusted(s) /\ ContentOf[s] = ContentOf[l]
      /\ AtomStoreTypeOK /\ RowIdsDistinct
  BY DEF NearDupeMerges, IInv, StoreInv
<1>2. /\ Live' = Live \ {l}
      /\ row' = [b \in Live \ {l} |-> row[b]]
      /\ DOMAIN vec' = {r \in DOMAIN vec : /\ r # row[l].rid
                                           /\ r = row[s].rid => row[s].lane # "quarantine"}
  BY <1>1, MergeEffect
<1>3. a \in Live /\ row[a].rid \in DOMAIN vec /\ row[a].lane \in Lane
  BY <1>1 DEF HasVector, AtomStoreTypeOK, Row
<1>4. row[a].lane # "quarantine"
  <2>1. vec[row[a].rid] = a
    BY <1>3 DEF SerialInv, StraysAreLoose
  <2>2. a \notin overtaken
    BY <1>3, OvertakenAreGone
  <2> QED BY <1>3, <2>1, <2>2 DEF IInv, StoreInv, QuarantineHasNoVector
<1>5. a # l
  <2>1. ~Trusted(l)
    BY <1>1 DEF SerialInv, UniqueTrustedContent
  <2> QED BY <1>3, <1>4, <2>1 DEF Trusted, Lane
<1>6. row[a].rid # row[l].rid
  BY <1>1, <1>3, <1>5 DEF RowIdsDistinct
<1>7. row[a].rid = row[s].rid => row[s].lane # "quarantine"
  BY <1>1, <1>3, <1>4 DEF RowIdsDistinct
<1>8. a \in Live' /\ row'[a].rid = row[a].rid
  BY <1>2, <1>3, <1>5
<1> QED BY <1>2, <1>3, <1>6, <1>7, <1>8 DEF HasVector

\* Merges disturb none of what the one writer counts on.
LEMMA MergeSerial ==
    ASSUME IInv, SerialInv, NEW s \in Atom, NEW l \in Atom, NearDupeMerges(s, l)
    PROVE  SerialInv'
<1>1. UNCHANGED <<op, pc, batch, todo, lane, emb, pending, cli, rowid>>
  BY DEF NearDupeMerges, jobVars
<1>2. /\ Live' = Live \ {l}
      /\ \A a \in Live' : row'[a] = row[a]
      /\ DOMAIN vec' \subseteq DOMAIN vec
      /\ \A r \in DOMAIN vec' : vec'[r] = vec[r]
  <2>1. /\ s \in Live /\ l \in Live /\ s # l /\ ApplyAutoMerge(s, l, row[s].lane)
        /\ AtomStoreTypeOK /\ RowIdsDistinct
    BY DEF NearDupeMerges, IInv, StoreInv
  <2>2. /\ Live' = Live \ {l}
        /\ row' = [a \in Live \ {l} |-> row[a]]
        /\ DOMAIN vec' = {r \in DOMAIN vec : /\ r # row[l].rid
                                             /\ r = row[s].rid => row[s].lane # "quarantine"}
        /\ vec' = [r \in DOMAIN vec' |-> vec[r]]
    BY <2>1, MergeEffect
  <2>3. \A r \in DOMAIN vec' : vec'[r] = vec[r]
    BY <2>2
  <2> QED BY <2>2, <2>3
<1>3. \A a : Trusted(a)' => Trusted(a)
  BY <1>2 DEF Trusted
<1>4. \A a : SourceOf[a] # AgentSource /\ HasVector(a) => HasVector(a)'
  BY MergeKeepsVectors
<1>5. SinglePromotion'
  BY <1>1 DEF SerialInv, SinglePromotion
<1>6. UniqueTrustedContent'
  BY <1>2, <1>3 DEF SerialInv, UniqueTrustedContent
<1>7. ClaimsAreFree'
  <2>1. \A w : Claims(w)' = Claims(w)
    BY <1>1 DEF Claims, Settled
  <2> QED BY <1>2, <1>3, <2>1 DEF SerialInv, ClaimsAreFree
<1>8. StraysAreLoose'
  BY <1>2 DEF SerialInv, StraysAreLoose
<1>9. RowidIsOwn'
  BY <1>1, <1>2 DEF SerialInv, RowidIsOwn
<1>10. \A w \in Worker : \A a : op[w] = "index" /\ a \in batch[w] => SourceOf[a] # AgentSource
  BY DEF IInv, JobsInv, JobsInOrder, WritableBy, AtomsOf
<1>11. VectorsPlanned'
  BY <1>1, <1>4, <1>10 DEF SerialInv, VectorsPlanned
<1>12. IndexedTrustedHaveVectors'
  <2>1. \A w \in Worker : pc[w] = "mark" => op[w] = "index"
    BY DEF IInv, JobTypeOK, Op, JobsInv, JobsInOrder, LabelsOf
  <2> QED BY <1>1, <1>3, <1>4, <1>10, <2>1 DEF SerialInv, IndexedTrustedHaveVectors
<1> QED BY <1>5, <1>6, <1>7, <1>8, <1>9, <1>11, <1>12 DEF SerialInv

\* One writer keeps the trusted lane free of copies, and what it counts on, whatever
\* is merged beside it.
LEMMA SerialStep ==
    ASSUME OneWriter
    PROVE  IInv /\ SerialInv /\ [Next]_vars => SerialInv'
<1> SUFFICES ASSUME IInv, SerialInv, [Next]_vars PROVE SerialInv'
  OBVIOUS
<1>1. ASSUME NEW w \in Worker, Start(w) \/ Work(w) \/ Crash(w), UNCHANGED overtaken
      PROVE  SerialInv'
  <2>1. StoreInv(overtaken)'
    BY <1>1, NextStoreStep DEF StoreStep
  <2>2. UniqueTrustedContent'
    BY <1>1, TrustedWereClaimed, UniqueKept DEF SerialInv
  <2>3. ClaimsAreFree'
    BY <1>1, ClaimsOfStep, ClaimsKept DEF SerialInv
  <2>4. VectorsPlanned' /\ IndexedTrustedHaveVectors'
    BY <1>1, PlansKept
  <2>5. SinglePromotion'
    BY <1>1, PromotionStaysSingle DEF SerialInv
  <2>6. StraysAreLoose'
    BY <1>1, StraysStayLoose DEF SerialInv
  <2>7. RowidIsOwn'
    BY <1>1, <2>1, RowidStaysOwn DEF SerialInv
  <2> QED BY <2>2, <2>3, <2>4, <2>5, <2>6, <2>7 DEF SerialInv
<1>2. CASE UNCHANGED vars
  <2>1. /\ UNCHANGED <<op, pc, batch, todo, lane, emb, pending, cli, rowid>>
        /\ row' = row /\ vec' = vec /\ Live' = Live
    BY <1>2 DEF vars, storeVars, jobVars, Live
  <2>2. SinglePromotion' /\ UniqueTrustedContent' /\ ClaimsAreFree'
    BY <2>1 DEF SerialInv, SinglePromotion, UniqueTrustedContent, ClaimsAreFree, Claims,
       Settled, Trusted
  <2>3. VectorsPlanned' /\ IndexedTrustedHaveVectors'
    BY <2>1 DEF SerialInv, VectorsPlanned, IndexedTrustedHaveVectors, Trusted, HasVector
  <2>4. StraysAreLoose' /\ RowidIsOwn'
    BY <2>1 DEF SerialInv, StraysAreLoose, RowidIsOwn
  <2> QED BY <2>2, <2>3, <2>4 DEF SerialInv
<1> QED BY <1>1, <1>2, MergeSerial DEF Next

\* SerialInv is invariant when there is one writer.
LEMMA SerialInvariance ==
    ASSUME OneWriter
    PROVE  Spec => []SerialInv
BY SerialInit, SerialStep, Invariance, PTL DEF Spec

\* One writer at a time never brings a second copy of a content into the trusted
\* lane: neither a batch that holds both, nor a remembered, ingested or promoted
\* copy of what is there, nor a crash between gate and write.
THEOREM CopiesAreKeptOut ==
    ASSUME OneWriter
    PROVE  Spec => []UniqueTrustedContent
<1>1. SerialInv => UniqueTrustedContent
  BY DEF SerialInv
<1> QED BY <1>1, SerialInvariance, PTL

\* With one writer the hash-skip leaves out only atoms whose vector the write
\* keeps: what an index run wrote as trusted is found by vector search.
THEOREM IndexedAreFound ==
    ASSUME OneWriter
    PROVE  Spec => []IndexedTrustedHaveVectors
<1>1. SerialInv => IndexedTrustedHaveVectors
  BY DEF SerialInv
<1> QED BY <1>1, SerialInvariance, PTL

\* However writers and merges interleave and wherever they crash, a quarantined
\* atom has no vector of its own.
THEOREM QuarantineIsNotEmbedded == Spec => []QuarantineStaysUnembedded
<1>1. IInv => QuarantineStaysUnembedded
  BY DEF IInv, StoreInv, QuarantineStaysUnembedded
<1> QED BY <1>1, Invariance, PTL

============================================================================
