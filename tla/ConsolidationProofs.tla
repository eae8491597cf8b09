------------------------ MODULE ConsolidationProofs ------------------------
(***************************************************************************)
(* What Consolidation keeps, for any atoms, any number of near-duplicate   *)
(* passes and any lengths of their lists, beside the sweep, the writers    *)
(* and the operator.                                                       *)
(*                                                                         *)
(* JobsInv is inductive: the tables agree (StoreInv), the times at which   *)
(* atoms are known to have been written tell them apart (TimesApart), and  *)
(* a pass has decided every pair that is no longer ahead of its loops      *)
(* (PassInv).  The times settle the order of a list and the survivor of a  *)
(* pair.                                                                   *)
(*                                                                         *)
(* RankInv is for the last theorem.  Of the trusted copies of one content  *)
(* the oldest is First.  The list of a pass and a group of the sweep are   *)
(* used after the store has changed: RankInv says, of every content that is*)
(* not displaced, what they still imply about the first copy when they are *)
(* used.  A writer's step keeps it for what it does not disturb, a step of *)
(* a job for every content, and a content that is in order while no list is*)
(* in use has it at once (OrderRanks).                                     *)
(***************************************************************************)
EXTENDS Consolidation, FiniteSetTheorems, WellFoundedInduction, TLAPS

----------------------------------------------------------------------------
(* The store                                                               *)

\* The tables agree with each other.
Sound == StoreInv({})

\* The same of tables that may not be the current ones: a merge writes the
\* survivor and then deletes the loser from what that left.
TablesSound(r, v) ==
    /\ DOMAIN r \subseteq Atom
    /\ r \in [DOMAIN r -> Row]
    /\ \A a, b \in DOMAIN r : r[a].rid = r[b].rid => a = b
    /\ DOMAIN v \subseteq RowId
    /\ v \in [DOMAIN v -> Atom]
    /\ \A a \in DOMAIN r : r[a].lane = "quarantine" => r[a].rid \notin DOMAIN v
    /\ \A i \in DOMAIN v : v[i] \in DOMAIN r /\ r[v[i]].rid = i

\* StoreInv says that the current tables are sound.
LEMMA SoundTables ==
    Sound <=> TablesSound(row, vec) /\ fts \subseteq Atom
BY DEF Sound, StoreInv, AtomStoreTypeOK, RowIdsDistinct, QuarantineHasNoVector,
       VectorsBelong, HasVector, Live, TablesSound

\* The same of the next state.
LEMMA SoundTablesNext ==
    Sound' <=> TablesSound(row', vec') /\ fts' \subseteq Atom
BY DEF Sound, StoreInv, AtomStoreTypeOK, RowIdsDistinct, QuarantineHasNoVector,
       VectorsBelong, HasVector, Live, TablesSound

\* The rows once one atom was written: it keeps its rowid and its mark, or has a
\* rowid of its own and no mark.
WrittenRow(r, a, l) ==
    /\ DOMAIN r = Live \cup {a}
    /\ r \in [DOMAIN r -> Row]
    /\ r[a].lane = l
    /\ \A b \in Live \ {a} : r[b] = row[b]
    /\ a \in Live => r[a].rid = row[a].rid /\ r[a].superseded_by = row[a].superseded_by
    /\ a \notin Live => /\ r[a].superseded_by = NoOne
                        /\ \A b \in Live : r[a].rid # row[b].rid

\* One atom written changes its own row and no other.
LEMMA OneRowWritten ==
    ASSUME TablesSound(row, vec), NEW a \in Atom, NEW lane \in [Atom -> Lane],
           NEW f \in FreshRids({a} \ Live), NEW r, r = RowAfterUpsert({a}, lane, f)
    PROVE  WrittenRow(r, a, lane[a])
<1>1. row \in [Live -> Row] /\ Live \subseteq Atom /\ lane[a] \in Lane
  BY DEF TablesSound, Live
<1>2. DOMAIN r = Live \cup {a}
  BY DEF RowAfterUpsert
<1>3. \A b \in Live \ {a} : r[b] = row[b]
  BY DEF RowAfterUpsert
<1>4. CASE a \in Live
  <2>1. r[a] = [row[a] EXCEPT !.lane = lane[a]]
    BY <1>4 DEF RowAfterUpsert
  <2>2. row[a] \in Row
    BY <1>1, <1>4
  <2>3. /\ r[a] \in Row /\ r[a].lane = lane[a] /\ r[a].rid = row[a].rid
        /\ r[a].superseded_by = row[a].superseded_by
    BY <1>1, <2>1, <2>2 DEF Row
  <2>4. \A b \in DOMAIN r : r[b] \in Row
    BY <1>1, <1>2, <1>3, <2>3
  <2>5. r = [b \in DOMAIN r |-> r[b]]
    BY DEF RowAfterUpsert
  <2> QED BY <1>2, <1>3, <1>4, <2>3, <2>4, <2>5 DEF WrittenRow
<1>5. CASE a \notin Live
  <2>1. r[a] = [lane |-> lane[a], superseded_by |-> NoOne, rid |-> f[a]]
    BY <1>5 DEF RowAfterUpsert
  <2>2. f[a] \in RowId /\ \A b \in Live : f[a] # row[b].rid
    BY <1>5 DEF FreshRids
  <2>3. r[a] \in Row /\ r[a].lane = lane[a] /\ r[a].rid = f[a] /\ r[a].superseded_by = NoOne
    BY <1>1, <2>1, <2>2 DEF Row
  <2>4. \A b \in DOMAIN r : r[b] \in Row
    BY <1>1, <1>2, <1>3, <2>3
  <2>5. r = [b \in DOMAIN r |-> r[b]]
    BY DEF RowAfterUpsert
  <2> QED BY <1>2, <1>3, <1>5, <2>2, <2>3, <2>4, <2>5 DEF WrittenRow
<1> QED BY <1>4, <1>5

\* One atom written leaves the tables sound: a quarantined write clears the
\* vector, a new row cannot own an old one, and what is inserted was computed from
\* the content of the atom.
LEMMA OneWriteIsSound ==
    ASSUME TablesSound(row, vec), NEW a \in Atom, NEW lane \in [Atom -> Lane],
           NEW emb \in [Atom -> Embedding],
           NEW r, WrittenRow(r, a, lane[a]),
           NEW v, v = VecAfterUpsert({a}, lane, emb, {a} \ Live, r)
    PROVE  TablesSound(r, v)
<1> DEFINE written == {b \in {a} : WritesVector(b, lane, emb)}
           clears == {b \in {a} : ClearsVector(b, lane, emb, {a} \ Live)}
<1>1. /\ DOMAIN r = Live \cup {a} /\ r \in [DOMAIN r -> Row] /\ Live \subseteq Atom
      /\ \A b, c \in DOMAIN r : r[b].rid = r[c].rid => b = c
      /\ r[a].rid \in RowId
  <2>1. \A b, c \in DOMAIN r : r[b].rid = r[c].rid => b = c
    BY DEF TablesSound, Live, WrittenRow
  <2>2. r[a] \in Row
    BY DEF WrittenRow
  <2> QED BY <2>1, <2>2 DEF TablesSound, Live, WrittenRow, Row
<1>2. \A i \in DOMAIN vec : vec[i] \in Live /\ r[vec[i]].rid = i
  <2>1. \A b \in Live : r[b].rid = row[b].rid
    BY DEF WrittenRow
  <2> QED BY <2>1 DEF TablesSound, Live
<1>3. /\ DOMAIN v = (DOMAIN vec \ {r[b].rid : b \in clears}) \cup {r[b].rid : b \in written}
      /\ v = [i \in DOMAIN v |-> v[i]]
  BY Zenon DEF VecAfterUpsert
<1>4. CASE WritesVector(a, lane, emb)
  <2>1. written = {a} /\ clears = {a}
    BY <1>4 DEF WritesVector, ClearsVector
  <2>2. DOMAIN v = DOMAIN vec \cup {r[a].rid}
    BY <1>3, <2>1
  <2>3. v[r[a].rid] = a
    <3>1. \E b \in written : r[b].rid = r[a].rid
      BY <2>1
    <3>2. (CHOOSE b \in written : r[b].rid = r[a].rid) = a
      BY <2>1
    <3>3. r[a].rid \in DOMAIN v
      BY <2>2
    <3> QED BY <3>1, <3>2, <3>3, <1>3, Zenon DEF VecAfterUpsert
  <2>4. ASSUME NEW i \in DOMAIN v, i # r[a].rid PROVE v[i] = vec[i] /\ i \in DOMAIN vec
    <3>1. ~ \E b \in written : r[b].rid = i
      BY <2>1, <2>4
    <3>2. i \in DOMAIN vec
      BY <2>2, <2>4
    <3> QED BY <3>1, <3>2, <1>3, Zenon DEF VecAfterUpsert
  <2>5. \A i \in DOMAIN v : v[i] \in Atom
    <3>1. \A i \in DOMAIN vec : vec[i] \in Atom
      BY DEF TablesSound
    <3> QED BY <2>3, <2>4, <3>1
  <2>6. v \in [DOMAIN v -> Atom]
    BY <1>3, <2>5
  <2>7. DOMAIN v \subseteq RowId
    BY <1>1, <2>2 DEF TablesSound
  <2>8. ASSUME NEW b \in DOMAIN r, r[b].lane = "quarantine"
        PROVE  r[b].rid \notin DOMAIN v
    <3>1. b # a
      BY <1>4, <2>8 DEF WritesVector, WrittenRow
    <3>2. b \in Live /\ r[b] = row[b] /\ r[b].rid # r[a].rid
      BY <1>1, <3>1, <2>8 DEF WrittenRow
    <3> QED BY <2>2, <2>8, <3>2 DEF TablesSound, Live
  <2>9. ASSUME NEW i \in DOMAIN v
        PROVE  v[i] \in DOMAIN r /\ r[v[i]].rid = i
    <3>1. CASE i = r[a].rid
      <4>1. a \in DOMAIN r
        BY <1>1
      <4> QED BY <2>3, <3>1, <4>1
    <3>2. CASE i # r[a].rid
      <4>1. v[i] = vec[i] /\ i \in DOMAIN vec
        BY <2>4, <3>2
      <4> QED BY <1>1, <1>2, <4>1
    <3> QED BY <3>1, <3>2
  <2> QED BY <1>1, <2>6, <2>7, <2>8, <2>9 DEF TablesSound
<1>5. CASE ~WritesVector(a, lane, emb)
  <2>1. written = {}
    BY <1>5
  <2>2. DOMAIN v = DOMAIN vec \ {r[b].rid : b \in clears}
    BY <1>3, <2>1
  <2>3. \A i \in DOMAIN v : v[i] = vec[i] /\ i \in DOMAIN vec
    <3>1. \A i : ~ \E b \in written : r[b].rid = i
      BY <2>1
    <3> QED BY <3>1, <2>2, <1>3, Zenon DEF VecAfterUpsert
  <2>4. v \in [DOMAIN v -> Atom] /\ DOMAIN v \subseteq RowId
    <3>1. \A i \in DOMAIN vec : vec[i] \in Atom /\ i \in RowId
      BY DEF TablesSound
    <3>2. \A i \in DOMAIN v : v[i] \in Atom /\ i \in RowId
      BY <2>3, <3>1
    <3> QED BY <1>3, <3>2
  <2>5. ASSUME NEW b \in DOMAIN r, r[b].lane = "quarantine"
        PROVE  r[b].rid \notin DOMAIN v
    <3>1. CASE b = a
      <4>1. a \in clears
        BY <2>5, <3>1 DEF ClearsVector, WrittenRow
      <4> QED BY <2>2, <3>1, <4>1
    <3>2. CASE b # a
      <4>1. b \in Live /\ r[b] = row[b]
        BY <2>5, <3>2 DEF WrittenRow
      <4>2. r[b].rid \notin DOMAIN vec
        BY <2>5, <4>1 DEF TablesSound, Live
      <4> QED BY <2>3, <4>2
    <3> QED BY <3>1, <3>2
  <2>6. ASSUME NEW i \in DOMAIN v
        PROVE  v[i] \in DOMAIN r /\ r[v[i]].rid = i
    <3>1. v[i] = vec[i] /\ i \in DOMAIN vec
      BY <2>3
    <3> QED BY <1>1, <1>2, <3>1
  <2> QED BY <1>1, <2>4, <2>5, <2>6 DEF TablesSound
<1> QED BY <1>4, <1>5

\* Rows deleted with their vectors leave sound tables behind.
LEMMA RemovalIsSound ==
    ASSUME NEW r, NEW v, TablesSound(r, v), NEW gone \in SUBSET DOMAIN r
    PROVE  TablesSound([a \in DOMAIN r \ gone |-> r[a]],
                       [i \in DOMAIN v \ {r[a].rid : a \in gone} |-> v[i]])
BY DEF TablesSound

\* A write of one atom, as the tables see it.
LEMMA OneAtomUpserted ==
    ASSUME Sound, NEW a \in Atom, NEW lane \in [Atom -> Lane],
           NEW emb \in [Atom -> Embedding], UpsertBatch({a}, lane, emb)
    PROVE  Sound' /\ WrittenRow(row', a, lane[a])
<1>1. PICK f \in FreshRids({a} \ Live) :
          /\ row' = RowAfterUpsert({a}, lane, f)
          /\ fts' = fts \cup {a}
          /\ vec' = VecAfterUpsert({a}, lane, emb, {a} \ Live, row')
  BY DEF UpsertBatch
<1>2. TablesSound(row, vec) /\ fts \subseteq Atom
  BY SoundTables
<1>3. WrittenRow(row', a, lane[a])
  BY <1>1, <1>2, OneRowWritten
<1>4. TablesSound(row', vec')
  BY <1>1, <1>2, <1>3, OneWriteIsSound
<1> QED BY <1>1, <1>2, <1>3, <1>4, SoundTablesNext

\* A merge, as the tables see it: the survivor written in the lane it was listed
\* with, and the loser gone.
LEMMA OneMergeApplied ==
    ASSUME Sound, NEW s \in Atom, NEW l \in Atom, s # l, NEW lane \in Lane,
           ApplyAutoMerge(s, l, lane)
    PROVE  /\ Sound'
           /\ Live' = (Live \cup {s}) \ {l}
           /\ \A b \in Live \ {s, l} : row'[b] = row[b]
           /\ row'[s].lane = lane
           /\ s \in Live => row'[s].superseded_by = row[s].superseded_by
           /\ s \notin Live => row'[s].superseded_by = NoOne
<1> DEFINE lanes == [a \in Atom |-> lane]
           none  == [a \in Atom |-> "none"]
<1>1. PICK f \in FreshRids({s} \ Live) :
        LET r    == RowAfterUpsert({s}, lanes, f)
            v    == VecAfterUpsert({s}, lanes, none, {s} \ Live, r)
            gone == {l} \cap DOMAIN r
        IN /\ row' = [a \in DOMAIN r \ gone |-> r[a]]
           /\ fts' = (fts \cup {s}) \ gone
           /\ vec' = [i \in DOMAIN v \ {r[a].rid : a \in gone} |-> v[i]]
  BY DEF ApplyAutoMerge
<1> DEFINE r    == RowAfterUpsert({s}, lanes, f)
           v    == VecAfterUpsert({s}, lanes, none, {s} \ Live, r)
           gone == {l} \cap DOMAIN r
<1>2. TablesSound(row, vec) /\ fts \subseteq Atom
  BY SoundTables
<1>3. lanes \in [Atom -> Lane] /\ none \in [Atom -> Embedding] /\ lanes[s] = lane
  BY DEF Embedding
<1> HIDE DEF lanes, none
<1>4. WrittenRow(r, s, lane)
  <2> HIDE DEF r
  <2>1. r = RowAfterUpsert({s}, lanes, f)
    BY DEF r
  <2> QED BY <1>2, <1>3, <2>1, OneRowWritten
<1>5. TablesSound(r, v)
  <2> HIDE DEF r, v
  <2>1. v = VecAfterUpsert({s}, lanes, none, {s} \ Live, r)
    BY DEF v
  <2> QED BY <1>2, <1>3, <1>4, <2>1, OneWriteIsSound
<1>6. /\ row' = [a \in DOMAIN r \ gone |-> r[a]]
      /\ fts' = (fts \cup {s}) \ gone
      /\ vec' = [i \in DOMAIN v \ {r[a].rid : a \in gone} |-> v[i]]
  BY <1>1
<1> HIDE DEF r, v
<1>7. gone \subseteq DOMAIN r
  OBVIOUS
<1>8. Sound'
  <2>1. TablesSound(row', vec')
    BY <1>5, <1>6, <1>7, RemovalIsSound
  <2> QED BY <1>2, <1>6, <2>1, SoundTablesNext
<1>9. DOMAIN r = Live \cup {s}
  BY <1>4 DEF WrittenRow
<1>10. Live' = (Live \cup {s}) \ {l}
  BY <1>6, <1>9 DEF Live
<1>11. \A b \in Live' : row'[b] = r[b]
  BY <1>6 DEF Live
<1> QED BY <1>4, <1>8, <1>10, <1>11 DEF WrittenRow

\* A promotion takes a quarantined atom, which has no vector, into the trusted
\* lane.
LEMMA OnePromoted ==
    ASSUME Sound, NEW a, SetTrustLane(a, "trusted")
    PROVE  /\ Sound' /\ Live' = Live
           /\ \A b \in Live \ {a} : row'[b] = row[b]
           /\ row'[a].lane = "trusted" /\ row'[a].superseded_by = row[a].superseded_by
<1>1. /\ Live' = Live
      /\ row' \in [Live -> Row]
      /\ \A b \in Live \ {a} : row'[b] = row[b]
      /\ row'[a].lane = "trusted" /\ row'[a].superseded_by = row[a].superseded_by
      /\ row'[a].rid = row[a].rid
      /\ vec' = vec /\ fts' = fts
  BY DEF SetTrustLane, Live, Sound, StoreInv, AtomStoreTypeOK, Row, Lane
<1>2. Sound'
  BY <1>1 DEF Sound, StoreInv, AtomStoreTypeOK, RowIdsDistinct, QuarantineHasNoVector,
              VectorsBelong, HasVector
<1> QED BY <1>1, <1>2

\* A mark changes neither a lane nor a rowid.
LEMMA CopiesMarked ==
    ASSUME Sound, NEW ids, NEW by \in Atom, MarkSuperseded(ids, by)
    PROVE  /\ Sound' /\ Live' = Live
           /\ \A b \in Live : row'[b].lane = row[b].lane
           /\ \A b \in Live : row'[b].superseded_by # row[b].superseded_by
                                  => b \in ids /\ b # by
<1>1. /\ Live' = Live
      /\ row' \in [Live -> Row]
      /\ \A b \in Live : row'[b].rid = row[b].rid /\ row'[b].lane = row[b].lane
      /\ \A b \in Live : row'[b].superseded_by # row[b].superseded_by
                                  => b \in ids /\ b # by
      /\ vec' = vec /\ fts' = fts
  BY DEF MarkSuperseded, Live, Sound, StoreInv, AtomStoreTypeOK, Row
<1>2. Sound'
  BY <1>1 DEF Sound, StoreInv, AtomStoreTypeOK, RowIdsDistinct, QuarantineHasNoVector,
              VectorsBelong, HasVector
<1> QED BY <1>1, <1>2

----------------------------------------------------------------------------
(* Lists by age, and the first of several                                  *)

\* A nonempty set of numbers has a least one.
LEMMA LeastNumber ==
    ASSUME NEW T \in SUBSET Nat, T # {}
    PROVE  \E n \in T : \A m \in T : n <= m
<1>1. \E n \in T : \A m \in T : ~ (<<m, n>> \in OpToRel(<, Nat))
  BY WFMin, NatLessThanWellFounded, Zenon
<1>2. PICK n \in T : \A m \in T : ~ (<<m, n>> \in OpToRel(<, Nat))
  BY <1>1, Zenon
<1>3. \A m \in T : ~ (m < n)
  BY <1>2, Zenon DEF OpToRel
<1> QED BY <1>3

\* Of atoms with different times, one is the oldest.
LEMMA OldestExists ==
    ASSUME NEW S, S # {}, \A a \in S : at[a] \in Nat
    PROVE  \E a \in S : \A b \in S : at[a] <= at[b]
<1> DEFINE T == {at[a] : a \in S}
<1>1. PICK n \in T : \A m \in T : n <= m
  BY LeastNumber
<1> QED BY <1>1

Injective(s) == \A i, j \in DOMAIN s : s[i] = s[j] => i = j

\* A limit keeps the front of a list.
LEMMA CappedKeeps ==
    ASSUME ScanCap \in Nat, NEW S, NEW s \in Seq(S)
    PROVE  /\ Capped(s) \in Seq(S)
           /\ DOMAIN Capped(s) \subseteq DOMAIN s
           /\ \A i \in DOMAIN Capped(s) : Capped(s)[i] = s[i]
           /\ Injective(s) => Injective(Capped(s))
<1> DEFINE n == IF Len(s) < ScanCap THEN Len(s) ELSE ScanCap
<1>1. n \in Nat /\ n <= Len(s) /\ Capped(s) = SubSeq(s, 1, n)
  BY DEF Capped
<1>2. /\ SubSeq(s, 1, n) \in Seq(S) /\ DOMAIN SubSeq(s, 1, n) = 1..n
      /\ \A i \in 1..n : SubSeq(s, 1, n)[i] = s[i]
  BY <1>1
<1>3. 1..n \subseteq DOMAIN s
  BY <1>1
<1> HIDE DEF n
<1> QED BY <1>1, <1>2, <1>3 DEF Injective

TimesDiffer(S) ==
    /\ \A a \in S : at[a] \in Nat
    /\ \A a, b \in S : at[a] = at[b] => a = b

\* ByAge lists each of finitely many atoms once: an atom's rank is the number of
\* newer ones, and no two atoms have the same.
LEMMA ByAgeLists ==
    ASSUME NEW S, IsFiniteSet(S), TimesDiffer(S)
    PROVE  /\ ByAge(S) \in Seq(S)
           /\ Injective(ByAge(S))
           /\ \A a \in S : \E i \in DOMAIN ByAge(S) : ByAge(S)[i] = a
<1> DEFINE n == Cardinality(S)
           Newer(a) == {b \in S : at[b] > at[a]}
           rank == [a \in S |-> Cardinality(Newer(a)) + 1]
<1>1. n \in Nat
  BY FS_CardinalityType
<1>2. ASSUME NEW a \in S
      PROVE  rank[a] \in 1..n
  <2>1. Newer(a) \in SUBSET S /\ a \notin Newer(a)
    BY DEF TimesDiffer
  <2>2. IsFiniteSet(Newer(a)) /\ Cardinality(Newer(a)) \in Nat /\ Cardinality(Newer(a)) <= n
        /\ (n = Cardinality(Newer(a)) => S = Newer(a))
    BY <2>1, FS_Subset, FS_CardinalityType
  <2>3. Cardinality(Newer(a)) # n
    BY <2>1, <2>2
  <2> HIDE DEF Newer
  <2>4. rank[a] = Cardinality(Newer(a)) + 1
    OBVIOUS
  <2> QED BY <1>1, <2>2, <2>3, <2>4
<1>3. ASSUME NEW a \in S, NEW b \in S, at[a] < at[b]
      PROVE  rank[b] < rank[a]
  <2>1. Newer(b) \in SUBSET Newer(a) /\ b \in Newer(a) /\ b \notin Newer(b)
    BY <1>3 DEF TimesDiffer
  <2>2. IsFiniteSet(Newer(a))
    BY FS_Subset
  <2>3. /\ Cardinality(Newer(a)) \in Nat /\ Cardinality(Newer(b)) \in Nat
        /\ Cardinality(Newer(b)) <= Cardinality(Newer(a))
        /\ (Cardinality(Newer(a)) = Cardinality(Newer(b)) => Newer(a) = Newer(b))
    <3> HIDE DEF Newer
    <3>1. IsFiniteSet(Newer(b))
      BY <2>1, <2>2, FS_Subset
    <3> QED BY <2>1, <2>2, <3>1, FS_Subset, FS_CardinalityType
  <2>4. Newer(a) # Newer(b)
    BY <2>1
  <2> HIDE DEF Newer
  <2>5. rank[a] = Cardinality(Newer(a)) + 1 /\ rank[b] = Cardinality(Newer(b)) + 1
    OBVIOUS
  <2> QED BY <2>3, <2>4, <2>5
<1>4. ASSUME NEW a \in S, NEW b \in S, rank[a] = rank[b]
      PROVE  a = b
  <2>1. at[a] \in Nat /\ at[b] \in Nat /\ (at[a] = at[b] => a = b)
    BY DEF TimesDiffer
  <2>2. rank[a] \in 1..n /\ rank[b] \in 1..n
    BY <1>2
  <2> HIDE DEF rank, n
  <2> QED BY <1>1, <1>3, <1>4, <2>1, <2>2
<1>5. \A i \in 1..n : \E a \in S : rank[a] = i
  <2>1. Cardinality(1..n) = n /\ IsFiniteSet(1..n)
    <3>1. n \in Int /\ 1 \in Int /\ (1 > n => n = 0) /\ (~(1 > n) => n - 1 + 1 = n)
      BY <1>1
    <3> HIDE DEF n
    <3> QED BY <3>1, FS_Interval
  <2>2. rank \in [S -> 1..n] /\ DOMAIN rank = S
    BY <1>2
  <2>3. IsInjective(rank)
    <3> HIDE DEF rank
    <3> QED BY <1>4, <2>2 DEF IsInjective
  <2>4. rank \in Injection(S, 1..n)
    BY <2>2, <2>3 DEF Injection
  <2>5. rank \in Surjection(S, 1..n)
    BY <2>1, <2>4, FS_Injection
  <2> QED BY <2>5 DEF Surjection
<1>6. ASSUME NEW i \in 1..n
      PROVE  ByAge(S)[i] \in S /\ rank[ByAge(S)[i]] = i
  <2>1. PICK a \in S : rank[a] = i
    BY <1>5
  <2>2. Cardinality({b \in S : at[b] > at[a]}) = i - 1
    <3>1. Cardinality(Newer(a)) \in Nat
      <4>1. IsFiniteSet(Newer(a))
        BY FS_Subset
      <4> QED BY <4>1, FS_CardinalityType
    <3> HIDE DEF Newer
    <3>2. Cardinality(Newer(a)) + 1 = i
      BY <2>1
    <3>3. Cardinality(Newer(a)) = i - 1
      BY <3>1, <3>2
    <3> QED BY <3>3 DEF Newer
  <2>3. \E x \in S : Cardinality({b \in S : at[b] > at[x]}) = i - 1
    BY <2>2
  <2> DEFINE c == CHOOSE x \in S : Cardinality({b \in S : at[b] > at[x]}) = i - 1
  <2>4. c \in S /\ Cardinality({b \in S : at[b] > at[c]}) = i - 1
    BY <2>3
  <2>5. ByAge(S)[i] = c
    BY DEF ByAge
  <2>6. rank[c] = (i - 1) + 1
    BY <2>4
  <2>7. (i - 1) + 1 = i
    BY <1>1
  <2> QED BY <2>4, <2>5, <2>6, <2>7
<1>7. DOMAIN ByAge(S) = 1..n
  BY DEF ByAge
<1>8. ByAge(S) \in [1..n -> S]
  <2>1. ByAge(S) = [i \in 1..n |-> ByAge(S)[i]]
    BY DEF ByAge
  <2> HIDE DEF n, rank
  <2> QED BY <1>6, <2>1
<1> HIDE DEF n, rank
<1>9. ByAge(S) \in Seq(S)
  BY <1>1, <1>8
<1>10. Injective(ByAge(S))
  BY <1>6, <1>7 DEF Injective
<1>11. \A a \in S : \E i \in DOMAIN ByAge(S) : ByAge(S)[i] = a
  <2> SUFFICES ASSUME NEW a \in S PROVE \E i \in 1..n : ByAge(S)[i] = a
    BY <1>7
  <2>1. rank[a] \in 1..n
    BY <1>2
  <2>2. ByAge(S)[rank[a]] = a
    BY <1>4, <1>6, <2>1
  <2> QED BY <2>1, <2>2
<1> QED BY <1>9, <1>10, <1>11

----------------------------------------------------------------------------
(* What holds of the jobs beside the store                                 *)

\* A time an atom is known to have been written at: by its row, or by the list of
\* a pass, which may outlive the row.
Known(a, t) ==
    \/ a \in Live /\ t = at[a]
    \/ \E p \in Pass : a \in DOMAIN seen[p] /\ t = seen[p][a].at

\* Known times are in the past, and those of different atoms differ: the order of
\* a list by age, and the survivor of a pair, are settled by the times alone.
TimesApart ==
    \A a, b \in Atom : \A t \in 0..MaxClock :
        Known(a, t) => t < clock /\ (Known(b, t) => a = b)

\* What became of the pair at positions i and j of a list.
Decided(p, i, j) ==
    LET a == list[p][i]
        b == list[p][j]
    IN \/ <<i, j>> \in left[p]
       \/ a \in removed[p] \/ b \in removed[p]
       \/ ProjectOf[a] # ProjectOf[b]
       \/ {a, b} \notin Similar
       \/ {a, b} \in candidates \cup withdrawn

\* A pass lists an atom once, and loses no pair out of sight: what is no longer
\* ahead of its loops was decided.
PassInv(p) ==
    /\ Injective(list[p])
    /\ \A ij \in left[p] : ij[1] < ij[2]
    /\ stage[p] # "pairs" => left[p] = {}
    /\ stage[p] = "pairs" => \A i, j \in DOMAIN list[p] : i < j => Decided(p, i, j)

PassTables == DOMAIN seen = Pass /\ DOMAIN left = Pass /\ DOMAIN removed = Pass

JobsInv ==
    /\ JobsTypeOK
    /\ Sound
    /\ IsFiniteSet(Live)
    /\ TimesApart
    /\ PassTables
    /\ \A p \in Pass : PassInv(p)

\* The invariant holds initially.
LEMMA JobsInit ==
    Init => JobsInv
<1> SUFFICES ASSUME Init PROVE JobsInv
  OBVIOUS
<1>1. Live = {} /\ DOMAIN row = {} /\ DOMAIN vec = {}
  BY DEF Init, AtomStoreInit, Live
<1>2. Sound
  BY DEF Init, AtomStoreInit, Sound, StoreInv, AtomStoreTypeOK, RowIdsDistinct, Live, Row,
         QuarantineHasNoVector, VectorsBelong, HasVector
<1>3. IsFiniteSet(Live)
  BY <1>1, FS_EmptySet
<1>4. \A p \in Pass : /\ stage[p] = "idle" /\ list[p] = <<>> /\ seen[p] = <<>>
                      /\ left[p] = {} /\ removed[p] = {}
  BY DEF Init
<1>5. DOMAIN <<>> = {} /\ ToSet(<<>>) = {} /\ <<>> \in [{} -> Snapshot] /\ <<>> \in Seq(Atom)
  BY DEF ToSet
<1>6. JobsTypeOK
  <2>1. AtomStoreTypeOK
    BY <1>2 DEF Sound, StoreInv
  <2>2. tags \in [Live -> SUBSET Tag] /\ at \in [Live -> 0..MaxClock]
    BY <1>1 DEF Init
  <2>3. clock \in 0..MaxClock /\ DOMAIN gated \subseteq Atom /\ gated \in [DOMAIN gated -> Lane]
    BY ConsolidationFacts DEF Init
  <2>4. /\ candidates \subseteq SUBSET Atom
        /\ stage \in [Pass -> {"idle", "listed", "pairs"}]
        /\ list \in [Pass -> Seq(Atom)]
        /\ groups \subseteq [canonical : Atom, dups : SUBSET Atom]
    BY <1>5 DEF Init
  <2>5. \A p \in Pass : /\ seen[p] \in [ToSet(list[p]) -> Snapshot]
                        /\ left[p] \subseteq (1..Len(list[p])) \X (1..Len(list[p]))
                        /\ removed[p] \subseteq Atom
    BY <1>4, <1>5
  <2> QED BY <2>1, <2>2, <2>3, <2>4, <2>5 DEF JobsTypeOK
<1>7. TimesApart
  BY <1>1, <1>4, <1>5 DEF TimesApart, Known
<1>8. PassTables
  BY DEF Init, PassTables
<1>9. \A p \in Pass : PassInv(p)
  BY <1>4, <1>5 DEF PassInv, Injective
<1> QED BY <1>2, <1>3, <1>6, <1>7, <1>8, <1>9 DEF JobsInv

\* Times stay apart when a step makes no new time known.
LEMMA TimesKept ==
    ASSUME JobsTypeOK, TimesApart, clock' \in Nat, clock <= clock',
           \A a \in Atom : \A t \in 0..MaxClock : Known(a, t)' => Known(a, t)
    PROVE  TimesApart'
<1>1. clock \in Nat /\ MaxClock \in Nat
  BY ConsolidationFacts DEF JobsTypeOK
<1> SUFFICES ASSUME NEW a \in Atom, NEW b \in Atom, NEW t \in 0..MaxClock, Known(a, t)'
             PROVE  t < clock' /\ (Known(b, t)' => a = b)
  BY DEF TimesApart
<1>2. Known(a, t) /\ (Known(b, t)' => Known(b, t))
  OBVIOUS
<1>3. t < clock /\ (Known(b, t) => a = b)
  BY <1>2 DEF TimesApart
<1> QED BY <1>1, <1>2, <1>3

\* What a pass has keeps its shape while others work.
LEMMA PassesKept ==
    ASSUME JobsInv, UNCHANGED passVars,
           candidates \cup withdrawn \subseteq candidates' \cup withdrawn'
    PROVE  /\ PassTables' /\ \A p \in Pass : PassInv(p)'
           /\ stage' \in [Pass -> {"idle", "listed", "pairs"}]
           /\ list' \in [Pass -> Seq(Atom)]
           /\ \A p \in Pass : /\ seen'[p] \in [ToSet(list'[p]) -> Snapshot]
                              /\ left'[p] \subseteq (1..Len(list'[p])) \X (1..Len(list'[p]))
                              /\ removed'[p] \subseteq Atom
<1>1. /\ stage' = stage /\ list' = list /\ seen' = seen /\ left' = left /\ removed' = removed
  BY DEF passVars, writerVars, queueVars
<1>2. PassTables'
  BY <1>1 DEF JobsInv, PassTables
<1>3. ASSUME NEW p \in Pass PROVE PassInv(p)'
  <2>1. PassInv(p)
    BY DEF JobsInv
  <2>2. \A i, j : Decided(p, i, j) => Decided(p, i, j)'
    BY <1>1 DEF Decided
  <2> QED BY <1>1, <2>1, <2>2 DEF PassInv, Injective
<1> QED BY <1>1, <1>2, <1>3 DEF JobsInv, JobsTypeOK

\* The times of rows are apart.
LEMMA RowTimesDiffer ==
    ASSUME JobsInv, NEW S \in SUBSET Live
    PROVE  IsFiniteSet(S) /\ TimesDiffer(S)
<1>1. IsFiniteSet(S)
  BY FS_Subset DEF JobsInv
<1>2. \A a \in S : at[a] \in 0..MaxClock /\ a \in Atom /\ a \in Live
  BY DEF JobsInv, JobsTypeOK, AtomStoreTypeOK
<1>3. \A a, b \in S : at[a] = at[b] => a = b
  <2> SUFFICES ASSUME NEW a \in S, NEW b \in S, at[a] = at[b] PROVE a = b
    OBVIOUS
  <2>1. Known(a, at[a]) /\ Known(b, at[a])
    BY <1>2 DEF Known
  <2> QED BY <1>2, <2>1 DEF JobsInv, TimesApart
<1> QED BY <1>1, <1>2, <1>3, ConsolidationFacts DEF TimesDiffer

----------------------------------------------------------------------------
(* The writers                                                             *)

\* Gating changes nothing but what the writer remembers.
LEMMA GatesKeepJobs ==
    ASSUME JobsInv, NEW a \in Atom, WriterGates(a)
    PROVE  JobsInv'
<1>1. /\ row' = row /\ fts' = fts /\ vec' = vec /\ tags' = tags /\ at' = at /\ clock' = clock
      /\ candidates' = candidates /\ withdrawn' = withdrawn /\ groups' = groups /\ UNCHANGED passVars
  BY DEF WriterGates, rowVars, storeVars, writerVars, queueVars
<1>2. DOMAIN gated' \subseteq Atom /\ gated' \in [DOMAIN gated' -> Lane]
  <2>1. PICK l \in Lane : gated' = [b \in DOMAIN gated \cup {a} |-> IF b = a THEN l ELSE gated[b]]
    BY DEF WriterGates, GateLane, Lane, writerVars, queueVars
  <2> QED BY <2>1 DEF JobsInv, JobsTypeOK
<1>3. Sound' /\ Live' = Live
  BY <1>1 DEF JobsInv, Sound, StoreInv, AtomStoreTypeOK, RowIdsDistinct, QuarantineHasNoVector,
              VectorsBelong, HasVector, Live
<1>4. JobsTypeOK'
  BY <1>1, <1>2, <1>3, PassesKept DEF JobsInv, JobsTypeOK, Sound, StoreInv
<1>5. TimesApart'
  <2>1. \A b \in Atom : \A t \in 0..MaxClock : Known(b, t)' => Known(b, t)
    BY <1>1, <1>3 DEF Known, passVars, writerVars, queueVars
  <2>2. clock \in Nat
    BY ConsolidationFacts DEF JobsInv, JobsTypeOK
  <2> QED BY <1>1, <2>1, <2>2, TimesKept DEF JobsInv
<1> QED BY <1>1, <1>3, <1>4, <1>5, PassesKept DEF JobsInv

\* A write, as tables and times.
LEMMA WriteFacts ==
    ASSUME JobsInv, NEW a \in Atom, WriterWrites(a)
    PROVE  /\ Sound' /\ WrittenRow(row', a, gated[a]) /\ Live' = Live \cup {a}
           /\ gated[a] \in Lane
<1> DEFINE lane == [b \in Atom |-> gated[a]]
           emb == [b \in Atom |-> IF gated[a] = "trusted" /\ ~HasFreshEmbedding(a)
                                  THEN "vector" ELSE "none"]
<1>1. gated[a] \in Lane
  BY DEF WriterWrites, JobsInv, JobsTypeOK, writerVars, queueVars
<1>2. UpsertBatch({a}, lane, emb)
  BY DEF WriterWrites, writerVars, queueVars
<1>3. lane \in [Atom -> Lane] /\ emb \in [Atom -> Embedding] /\ lane[a] = gated[a]
  BY <1>1 DEF Embedding
<1> HIDE DEF lane, emb
<1>4. Sound' /\ WrittenRow(row', a, gated[a])
  BY <1>2, <1>3, OneAtomUpserted DEF JobsInv
<1> QED BY <1>1, <1>4 DEF WrittenRow, Live

\* A write takes a time no atom had.
LEMMA WritesKeepJobs ==
    ASSUME JobsInv, NEW a \in Atom, WriterWrites(a)
    PROVE  JobsInv'
<1>1. Sound' /\ Live' = Live \cup {a}
  BY WriteFacts
<1>2. /\ candidates' = candidates /\ withdrawn' = withdrawn /\ groups' = groups /\ UNCHANGED passVars
      /\ a \in DOMAIN gated /\ clock < MaxClock /\ clock' = clock + 1
      /\ gated' = [b \in DOMAIN gated \ {a} |-> gated[b]]
      /\ tags' = [b \in Live \cup {a} |-> IF b = a THEN TagsOf[a] ELSE tags[b]]
      /\ at' = [b \in Live \cup {a} |-> IF b \in Live THEN at[b] ELSE clock]
  BY DEF WriterWrites, writerVars, queueVars
<1>3. clock \in 0..MaxClock /\ clock' \in 0..MaxClock /\ clock \in Nat /\ MaxClock \in Nat
  BY <1>2, ConsolidationFacts DEF JobsInv, JobsTypeOK
<1>4. JobsTypeOK'
  <2>1. AtomStoreTypeOK'
    BY <1>1 DEF Sound, StoreInv
  <2>2. tags' \in [Live' -> SUBSET Tag]
    BY <1>1, <1>2, ConsolidationFacts DEF JobsInv, JobsTypeOK
  <2>3. at' \in [Live' -> 0..MaxClock]
    BY <1>1, <1>2, <1>3 DEF JobsInv, JobsTypeOK
  <2>4. DOMAIN gated' \subseteq Atom /\ gated' \in [DOMAIN gated' -> Lane]
    BY <1>2 DEF JobsInv, JobsTypeOK
  <2>5. candidates' \subseteq SUBSET Atom /\ groups' \subseteq [canonical : Atom, dups : SUBSET Atom]
    BY <1>2 DEF JobsInv, JobsTypeOK
  <2> QED BY <1>2, <1>3, <2>1, <2>2, <2>3, <2>4, <2>5, PassesKept DEF JobsTypeOK
<1>5. IsFiniteSet(Live')
  BY <1>1, FS_AddElement DEF JobsInv
<1>6. TimesApart'
  <2>1. \A b \in Atom : \A t \in 0..MaxClock :
            Known(b, t)' => Known(b, t) \/ (b = a /\ t = clock)
    BY <1>1, <1>2 DEF Known, passVars, writerVars, queueVars
  <2>2. \A b \in Atom : \A t \in 0..MaxClock : Known(b, t) => t < clock
    BY DEF JobsInv, TimesApart
  <2> SUFFICES ASSUME NEW b \in Atom, NEW c \in Atom, NEW t \in 0..MaxClock, Known(b, t)'
               PROVE  t < clock' /\ (Known(c, t)' => b = c)
    BY DEF TimesApart
  <2>3. Known(b, t) \/ (b = a /\ t = clock)
    BY <2>1
  <2>4. Known(c, t)' => Known(c, t) \/ (c = a /\ t = clock)
    BY <2>1
  <2>5. (Known(b, t) => t < clock) /\ (Known(c, t) => t < clock)
        /\ (Known(b, t) /\ Known(c, t) => b = c)
    BY <2>2 DEF JobsInv, TimesApart
  <2>6. t \in Nat
    BY <1>3
  <2> QED BY <1>2, <1>3, <2>3, <2>4, <2>5, <2>6
<1> QED BY <1>1, <1>2, <1>4, <1>5, <1>6, PassesKept DEF JobsInv

\* Rows that keep their atoms and times, with other lanes or marks.
LEMMA RemarkedKeepsJobs ==
    ASSUME JobsInv, Sound', Live' = Live,
           UNCHANGED <<tags, at, clock, gated, queueVars, passVars>>,
           groups' \subseteq [canonical : Atom, dups : SUBSET Atom]
    PROVE  JobsInv'
<1>1. /\ tags' = tags /\ at' = at /\ clock' = clock /\ gated' = gated
      /\ candidates' = candidates /\ withdrawn' = withdrawn /\ UNCHANGED passVars
  BY DEF queueVars
<1>2. JobsTypeOK'
  BY <1>1, PassesKept DEF JobsInv, JobsTypeOK, Sound, StoreInv
<1>3. TimesApart'
  <2>1. \A b \in Atom : \A t \in 0..MaxClock : Known(b, t)' => Known(b, t)
    BY <1>1 DEF Known, passVars, writerVars, queueVars
  <2>2. clock \in Nat
    BY ConsolidationFacts DEF JobsInv, JobsTypeOK
  <2> QED BY <1>1, <2>1, <2>2, TimesKept DEF JobsInv
<1> QED BY <1>1, <1>2, <1>3, PassesKept DEF JobsInv

\* A promotion.
LEMMA PromotesKeepsJobs ==
    ASSUME JobsInv, NEW a \in Atom, OperatorPromotes(a)
    PROVE  JobsInv'
<1>1. Sound' /\ Live' = Live
  BY OnePromoted DEF OperatorPromotes, JobsInv, writerVars, queueVars
<1>2. groups' \subseteq [canonical : Atom, dups : SUBSET Atom]
  BY DEF OperatorPromotes, JobsInv, JobsTypeOK, writerVars, queueVars
<1> QED BY <1>1, <1>2, RemarkedKeepsJobs DEF OperatorPromotes, writerVars, queueVars

\* The marks of a declared supersession.
LEMMA MarksKeepJobs ==
    ASSUME JobsInv, NEW a \in Atom, WriterMarks(a)
    PROVE  JobsInv'
<1>1. PICK ids \in SUBSET (Declares[a] \cap Live) : MarkSuperseded(ids, a)
  BY DEF WriterMarks
<1>2. Sound' /\ Live' = Live
  BY <1>1, CopiesMarked DEF JobsInv
<1>3. groups' \subseteq [canonical : Atom, dups : SUBSET Atom]
  BY DEF WriterMarks, JobsInv, JobsTypeOK
<1> QED BY <1>2, <1>3, RemarkedKeepsJobs DEF WriterMarks, writerVars, queueVars

\* What a full sync leaves of the tables.
LEMMA DeleteFacts ==
    ASSUME JobsInv, NEW s \in Source, FullSyncDeletes(s)
    PROVE  /\ Sound' /\ Live' \subseteq Live
           /\ \A b \in Live' : row'[b] = row[b] /\ at'[b] = at[b] /\ tags'[b] = tags[b]
           /\ at' = [b \in Live' |-> at[b]] /\ tags' = [b \in Live' |-> tags[b]]
<1> DEFINE gone == {a \in Live : SourceOf[a] = s}
<1>1. /\ row' = [a \in Live \ gone |-> row[a]]
      /\ fts' = fts \ gone
      /\ vec' = [r \in DOMAIN vec \ {row[a].rid : a \in Live \cap gone} |-> vec[r]]
  BY DEF FullSyncDeletes, DeleteSource, DeleteRows
<1>2. Live \cap gone = gone /\ gone \in SUBSET DOMAIN row /\ Live = DOMAIN row
  BY DEF Live
<1> HIDE DEF gone
<1>3. TablesSound(row, vec) /\ fts \subseteq Atom
  BY SoundTables DEF JobsInv
<1>4. TablesSound(row', vec')
  <2>1. TablesSound([a \in DOMAIN row \ gone |-> row[a]],
                    [i \in DOMAIN vec \ {row[a].rid : a \in gone} |-> vec[i]])
    BY <1>2, <1>3, RemovalIsSound
  <2> QED BY <1>1, <1>2, <2>1
<1>5. Sound'
  BY <1>1, <1>3, <1>4, SoundTablesNext
<1>6. Live' = Live \ gone
  BY <1>1 DEF Live
<1>7. at' = [b \in Live' |-> at[b]] /\ tags' = [b \in Live' |-> tags[b]]
  BY DEF FullSyncDeletes, Live
<1> QED BY <1>1, <1>5, <1>6, <1>7

\* The delete of a full sync makes no time known and decides no pair anew.
LEMMA DeletesKeepJobs ==
    ASSUME JobsInv, NEW s \in Source, FullSyncDeletes(s)
    PROVE  JobsInv'
<1>1. /\ Sound' /\ Live' \subseteq Live
      /\ \A b \in Live' : row'[b] = row[b] /\ at'[b] = at[b] /\ tags'[b] = tags[b]
      /\ at' = [b \in Live' |-> at[b]] /\ tags' = [b \in Live' |-> tags[b]]
  BY DeleteFacts
<1>2. PICK hit \in SUBSET candidates : candidates' = candidates \ hit /\ withdrawn' = withdrawn \cup hit
  BY DEF FullSyncDeletes
<1>3. /\ clock' = clock /\ gated' = gated /\ groups' = groups /\ UNCHANGED passVars
  BY DEF FullSyncDeletes, writerVars
<1>4. candidates \cup withdrawn \subseteq candidates' \cup withdrawn'
  BY <1>2
<1>5. JobsTypeOK'
  <2>1. AtomStoreTypeOK'
    BY <1>1 DEF Sound, StoreInv
  <2>2. at' \in [Live' -> 0..MaxClock] /\ tags' \in [Live' -> SUBSET Tag]
    BY <1>1 DEF JobsInv, JobsTypeOK
  <2>3. candidates' \subseteq SUBSET Atom
    BY <1>2 DEF JobsInv, JobsTypeOK
  <2>4. /\ clock' \in 0..MaxClock /\ DOMAIN gated' \subseteq Atom /\ gated' \in [DOMAIN gated' -> Lane]
        /\ groups' \subseteq [canonical : Atom, dups : SUBSET Atom]
    BY <1>3 DEF JobsInv, JobsTypeOK
  <2> QED BY <1>3, <1>4, <2>1, <2>2, <2>3, <2>4, PassesKept DEF JobsTypeOK
<1>6. IsFiniteSet(Live')
  BY <1>1, FS_Subset DEF JobsInv
<1>7. TimesApart'
  <2>1. \A b \in Atom : \A t \in 0..MaxClock : Known(b, t)' => Known(b, t)
    BY <1>1, <1>3 DEF Known, passVars
  <2>2. clock \in Nat
    BY ConsolidationFacts DEF JobsInv, JobsTypeOK
  <2> QED BY <1>3, <2>1, <2>2, TimesKept DEF JobsInv
<1> QED BY <1>1, <1>3, <1>4, <1>5, <1>6, <1>7, PassesKept DEF JobsInv

----------------------------------------------------------------------------
(* The pass                                                                *)

\* What a list of a pass may be, and what it remembers of the atoms on it: as the
\* rows are now, or as the pass remembered them.
Listing(p, s, sn) ==
    /\ s \in Seq(Atom) /\ Injective(s)
    /\ sn \in [ToSet(s) -> Snapshot]
    /\ \A a \in ToSet(s) : \/ a \in Live /\ sn[a] = SnapshotOf(a)
                           \/ a \in DOMAIN seen[p] /\ sn[a] = seen[p][a]

ListsAnew(p) == \E s, sn : Listing(p, s, sn) /\ seen' = [seen EXCEPT ![p] = sn]

\* A listing keeps the invariant as long as the pairs it leaves to the loops are
\* all pairs of the list, or its loops have not begun.
LEMMA ListingKeepsJobs ==
    ASSUME JobsInv, NEW p \in Pass, NEW s, NEW sn, Listing(p, s, sn),
           NEW st \in {"listed", "pairs"}, NEW ps,
           ps \subseteq (1..Len(s)) \X (1..Len(s)),
           \A ij \in ps : ij[1] < ij[2],
           st = "listed" => ps = {},
           st = "pairs" => \A i, j \in 1..Len(s) : i < j => <<i, j>> \in ps,
           stage' = [stage EXCEPT ![p] = st],
           list' = [list EXCEPT ![p] = s],
           seen' = [seen EXCEPT ![p] = sn],
           DOMAIN left' = Pass, left'[p] = ps, \A q \in Pass \ {p} : left'[q] = left[q],
           UNCHANGED <<rowVars, clock, gated, queueVars, removed, groups>>
    PROVE  JobsInv'
<1>1. /\ row' = row /\ fts' = fts /\ vec' = vec /\ tags' = tags /\ at' = at /\ clock' = clock
      /\ gated' = gated /\ candidates' = candidates /\ withdrawn' = withdrawn /\ removed' = removed /\ groups' = groups
  BY DEF rowVars, storeVars, writerVars, queueVars
<1>2. Sound' /\ Live' = Live
  BY <1>1 DEF JobsInv, Sound, StoreInv, AtomStoreTypeOK, RowIdsDistinct, QuarantineHasNoVector,
              VectorsBelong, HasVector, Live
<1>3. /\ stage'[p] = st /\ list'[p] = s /\ seen'[p] = sn /\ left'[p] = ps
      /\ \A q \in Pass \ {p} : /\ stage'[q] = stage[q] /\ list'[q] = list[q]
                               /\ seen'[q] = seen[q] /\ left'[q] = left[q]
      /\ PassTables'
      /\ stage' \in [Pass -> {"idle", "listed", "pairs"}]
      /\ list' \in [Pass -> Seq(Atom)]
  BY <1>1 DEF JobsInv, JobsTypeOK, PassTables, Listing
<1>4. JobsTypeOK'
  <2>1. \A q \in Pass : /\ seen'[q] \in [ToSet(list'[q]) -> Snapshot]
                        /\ left'[q] \subseteq (1..Len(list'[q])) \X (1..Len(list'[q]))
                        /\ removed'[q] \subseteq Atom
    <3> SUFFICES ASSUME NEW q \in Pass
                 PROVE  /\ seen'[q] \in [ToSet(list'[q]) -> Snapshot]
                        /\ left'[q] \subseteq (1..Len(list'[q])) \X (1..Len(list'[q]))
                        /\ removed'[q] \subseteq Atom
      OBVIOUS
    <3>1. removed'[q] \subseteq Atom
      BY <1>1 DEF JobsInv, JobsTypeOK
    <3>2. CASE q = p
      BY <1>3, <3>1, <3>2 DEF Listing
    <3>3. CASE q # p
      BY <1>3, <3>1, <3>3 DEF JobsInv, JobsTypeOK
    <3> QED BY <3>2, <3>3
  <2>2. /\ AtomStoreTypeOK' /\ tags' \in [Live' -> SUBSET Tag] /\ at' \in [Live' -> 0..MaxClock]
        /\ clock' \in 0..MaxClock /\ DOMAIN gated' \subseteq Atom
        /\ gated' \in [DOMAIN gated' -> Lane] /\ candidates' \subseteq SUBSET Atom
        /\ groups' \subseteq [canonical : Atom, dups : SUBSET Atom]
    BY <1>1, <1>2 DEF JobsInv, JobsTypeOK, Sound, StoreInv
  <2> QED BY <1>3, <2>1, <2>2 DEF JobsTypeOK
<1>5. TimesApart'
  <2>1. ASSUME NEW b \in Atom, NEW t \in 0..MaxClock, Known(b, t)'
        PROVE  Known(b, t)
    <3>1. CASE b \in Live' /\ t = at'[b]
      BY <1>1, <1>2, <3>1 DEF Known
    <3>2. CASE \E q \in Pass : b \in DOMAIN seen'[q] /\ t = seen'[q][b].at
      <4>1. PICK q \in Pass : b \in DOMAIN seen'[q] /\ t = seen'[q][b].at
        BY <3>2
      <4>2. CASE q # p
        BY <1>3, <4>1, <4>2 DEF Known
      <4>3. CASE q = p
        <5>1. b \in DOMAIN sn /\ t = sn[b].at
          BY <1>3, <4>1, <4>3
        <5>2. b \in ToSet(s)
          BY <5>1 DEF Listing
        <5>3. \/ b \in Live /\ sn[b] = SnapshotOf(b)
              \/ b \in DOMAIN seen[p] /\ sn[b] = seen[p][b]
          BY <5>2 DEF Listing
        <5>4. SnapshotOf(b).at = at[b]
          BY DEF SnapshotOf
        <5> QED BY <5>1, <5>3, <5>4 DEF Known
      <4> QED BY <4>2, <4>3
    <3> QED BY <2>1, <3>1, <3>2 DEF Known
  <2>2. clock \in Nat
    BY ConsolidationFacts DEF JobsInv, JobsTypeOK
  <2> QED BY <1>1, <2>1, <2>2, TimesKept DEF JobsInv
<1>6. ASSUME NEW q \in Pass PROVE PassInv(q)'
  <2>1. CASE q = p
    <3>1. Injective(s) /\ DOMAIN s = 1..Len(s)
      BY DEF Listing
    <3>2. st = "pairs" => \A i, j \in DOMAIN s : i < j => Decided(p, i, j)'
      BY <1>3, <3>1 DEF Decided
    <3>3. st # "pairs" => ps = {}
      OBVIOUS
    <3> QED BY <1>3, <2>1, <3>1, <3>2, <3>3 DEF PassInv, Injective
  <2>2. CASE q # p
    <3>1. PassInv(q)
      BY DEF JobsInv
    <3>2. \A i, j : Decided(q, i, j) => Decided(q, i, j)'
      BY <1>1, <1>3, <2>2 DEF Decided
    <3> QED BY <1>3, <2>2, <3>1, <3>2 DEF PassInv, Injective
  <2> QED BY <2>1, <2>2
<1> QED BY <1>2, <1>3, <1>4, <1>5, <1>6 DEF JobsInv

\* What is remembered of a row is a snapshot.
LEMMA SnapshotTyped ==
    ASSUME JobsInv, NEW a \in Live
    PROVE  SnapshotOf(a) \in Snapshot
<1>1. row[a] \in Row /\ tags[a] \in SUBSET Tag /\ at[a] \in 0..MaxClock
  BY DEF JobsInv, JobsTypeOK, AtomStoreTypeOK
<1> QED BY <1>1 DEF SnapshotOf, Snapshot, Row

\* The newest of some rows, listed.
LEMMA NewestLists ==
    ASSUME JobsInv, NEW S \in SUBSET Live
    PROVE  Newest(S) \in Seq(S) /\ Injective(Newest(S)) /\ ToSet(Newest(S)) \subseteq S
<1>1. ByAge(S) \in Seq(S) /\ Injective(ByAge(S))
  BY RowTimesDiffer, ByAgeLists
<1>2. Newest(S) \in Seq(S) /\ Injective(Newest(S))
  BY <1>1, CappedKeeps, ConsolidationFacts DEF Newest
<1> QED BY <1>2 DEF ToSet

\* The first query.
LEMMA ListsCandidatesKeepsJobs ==
    ASSUME JobsInv, NEW p \in Pass, NEW cutoff, PassListsCandidates(p, cutoff)
    PROVE  JobsInv' /\ ListsAnew(p)
<1> DEFINE s == Newest(NearDupeCandidates(cutoff))
           sn == [a \in ToSet(s) |-> SnapshotOf(a)]
<1>1. NearDupeCandidates(cutoff) \in SUBSET Live
  BY DEF NearDupeCandidates
<1>2. s \in Seq(NearDupeCandidates(cutoff)) /\ Injective(s) /\ ToSet(s) \subseteq Live
  BY <1>1, NewestLists
<1>3. Live \subseteq Atom
  BY DEF JobsInv, JobsTypeOK, AtomStoreTypeOK
<1>4. /\ stage' = [stage EXCEPT ![p] = "listed"] /\ list' = [list EXCEPT ![p] = s]
      /\ seen' = [seen EXCEPT ![p] = sn] /\ left' = left /\ removed' = removed
      /\ UNCHANGED <<rowVars, clock, gated, queueVars, groups>> /\ stage[p] = "idle"
  BY DEF PassListsCandidates, writerVars
<1> HIDE DEF s
<1>5. Listing(p, s, sn)
  <2>1. s \in Seq(Atom)
    BY <1>1, <1>2, <1>3
  <2>2. sn \in [ToSet(s) -> Snapshot]
    BY <1>2, SnapshotTyped
  <2>3. \A a \in ToSet(s) : a \in Live /\ sn[a] = SnapshotOf(a)
    BY <1>2
  <2> HIDE DEF sn
  <2> QED BY <1>2, <2>1, <2>2, <2>3 DEF Listing
<1>6. left'[p] = {} /\ DOMAIN left' = Pass
  BY <1>4 DEF JobsInv, PassInv, PassTables
<1> HIDE DEF sn
<1> QED BY <1>4, <1>5, <1>6, ListingKeepsJobs DEF ListsAnew

\* Two lists without a common atom, joined.
LEMMA JoinedLists ==
    ASSUME NEW S, NEW s \in Seq(S), NEW u \in Seq(S), Injective(s), Injective(u),
           ToSet(s) \cap ToSet(u) = {}
    PROVE  /\ s \o u \in Seq(S) /\ Injective(s \o u)
           /\ ToSet(s \o u) \subseteq ToSet(s) \cup ToSet(u)
<1> DEFINE n == Len(s)
           k == Len(u)
           j == s \o u
<1>1. /\ n \in Nat /\ k \in Nat /\ DOMAIN s = 1..n /\ DOMAIN u = 1..k
      /\ j \in Seq(S) /\ DOMAIN j = 1..(n + k)
      /\ \A i \in 1..n : j[i] = s[i]
      /\ \A i \in 1..(n + k) : i > n => i - n \in 1..k /\ j[i] = u[i - n]
  <2>1. n \in Nat /\ k \in Nat /\ DOMAIN s = 1..n /\ DOMAIN u = 1..k
    OBVIOUS
  <2>2. j \in Seq(S) /\ Len(j) = n + k
    OBVIOUS
  <2>3. \A i \in 1..(n + k) : j[i] = IF i <= n THEN s[i] ELSE u[i - n]
    OBVIOUS
  <2>4. DOMAIN j = 1..Len(j)
    BY <2>2
  <2> HIDE DEF n, k, j
  <2>5. \A i \in 1..(n + k) : i > n => i - n \in 1..k /\ ~ (i <= n)
    BY <2>1
  <2>6. \A i \in 1..n : i \in 1..(n + k) /\ i <= n
    BY <2>1
  <2> QED BY <2>1, <2>2, <2>3, <2>4, <2>5, <2>6
<1> HIDE DEF n, k, j
<1>2. \A i \in 1..(n + k) : \/ i \in 1..n /\ j[i] = s[i] /\ s[i] \in ToSet(s)
                            \/ i > n /\ i - n \in 1..k /\ j[i] = u[i - n] /\ u[i - n] \in ToSet(u)
  <2> SUFFICES ASSUME NEW i \in 1..(n + k)
               PROVE  \/ i \in 1..n /\ j[i] = s[i] /\ s[i] \in ToSet(s)
                      \/ /\ i > n /\ i - n \in 1..k /\ j[i] = u[i - n]
                         /\ u[i - n] \in ToSet(u)
    OBVIOUS
  <2>1. CASE i > n
    <3>1. i - n \in 1..k /\ j[i] = u[i - n]
      BY <1>1, <2>1
    <3>2. u[i - n] \in ToSet(u)
      BY <1>1, <3>1 DEF ToSet
    <3> QED BY <2>1, <3>1, <3>2
  <2>2. CASE ~ (i > n)
    <3>1. i \in 1..n
      BY <1>1, <2>2
    <3>2. s[i] \in ToSet(s)
      BY <1>1, <3>1 DEF ToSet
    <3> QED BY <1>1, <3>1, <3>2
  <2> QED BY <2>1, <2>2
<1>3. ASSUME NEW x \in 1..(n + k), NEW y \in 1..(n + k), j[x] = j[y]
      PROVE  x = y
  <2>1. CASE x \in 1..n /\ y \in 1..n
    BY <1>1, <1>3, <2>1 DEF Injective
  <2>2. CASE x > n /\ y > n
    <3>1. x - n \in 1..k /\ y - n \in 1..k /\ u[x - n] = u[y - n]
      BY <1>1, <1>3, <2>2
    <3>2. x - n = y - n
      BY <1>1, <3>1 DEF Injective
    <3> QED BY <1>1, <3>2
  <2>3. ~ (x \in 1..n /\ y > n) /\ ~ (y \in 1..n /\ x > n)
    BY <1>1, <1>2, <1>3
  <2> QED BY <1>1, <1>2, <2>1, <2>2, <2>3
<1>4. Injective(j)
  BY <1>1, <1>3 DEF Injective
<1>5. ToSet(j) \subseteq ToSet(s) \cup ToSet(u)
  BY <1>1, <1>2 DEF ToSet
<1>6. j = s \o u
  BY DEF j
<1> QED BY <1>1, <1>4, <1>5, <1>6

\* The second query, its rows appended to what the first one listed.
LEMMA ListsTrustedKeepsJobs ==
    ASSUME JobsInv, NEW p \in Pass, PassListsTrusted(p)
    PROVE  JobsInv' /\ ListsAnew(p)
<1> DEFINE fresh == ToSet(Newest({a \in Live : Trusted(a)})) \ DOMAIN seen[p]
           s == Capped(list[p] \o ByAge(fresh))
           sn == [a \in ToSet(s) |-> IF a \in DOMAIN seen[p] THEN seen[p][a] ELSE SnapshotOf(a)]
           ps == {ij \in (1..Len(s)) \X (1..Len(s)) : ij[1] < ij[2]}
<1>1. /\ list' = [list EXCEPT ![p] = s] /\ seen' = [seen EXCEPT ![p] = sn]
      /\ left' = [left EXCEPT ![p] = ps] /\ stage' = [stage EXCEPT ![p] = "pairs"]
      /\ UNCHANGED <<rowVars, clock, gated, queueVars, removed, groups>>
  BY DEF PassListsTrusted, writerVars
<1>2. Live \subseteq Atom
  BY DEF JobsInv, JobsTypeOK, AtomStoreTypeOK
<1>3. fresh \in SUBSET Live
  <2>1. ToSet(Newest({a \in Live : Trusted(a)})) \subseteq {a \in Live : Trusted(a)}
    BY NewestLists
  <2> QED BY <2>1
<1>4. ByAge(fresh) \in Seq(fresh) /\ Injective(ByAge(fresh))
  <2> HIDE DEF fresh
  <2> QED BY <1>3, RowTimesDiffer, ByAgeLists
<1>5. DOMAIN seen[p] = ToSet(list[p]) /\ seen[p] \in [DOMAIN seen[p] -> Snapshot]
      /\ list[p] \in Seq(Atom) /\ Injective(list[p])
  BY DEF JobsInv, JobsTypeOK, PassInv
<1>6. fresh \cap DOMAIN seen[p] = {}
  OBVIOUS
<1> HIDE DEF fresh
<1>7. ByAge(fresh) \in Seq(Atom) /\ ToSet(ByAge(fresh)) \subseteq fresh
  BY <1>2, <1>3, <1>4 DEF ToSet
<1> DEFINE j == list[p] \o ByAge(fresh)
<1>8. /\ j \in Seq(Atom) /\ Injective(j)
      /\ ToSet(j) \subseteq ToSet(list[p]) \cup ToSet(ByAge(fresh))
  BY <1>4, <1>5, <1>6, <1>7, JoinedLists
<1>9. /\ s \in Seq(Atom) /\ Injective(s) /\ ToSet(s) \subseteq ToSet(j)
  <2> HIDE DEF j
  <2>1. /\ Capped(j) \in Seq(Atom) /\ Injective(Capped(j)) /\ DOMAIN Capped(j) \subseteq DOMAIN j
        /\ \A i \in DOMAIN Capped(j) : Capped(j)[i] = j[i]
    BY <1>8, CappedKeeps, ConsolidationFacts
  <2>2. s = Capped(j)
    BY DEF j
  <2> HIDE DEF s
  <2> QED BY <2>1, <2>2 DEF ToSet
<1> HIDE DEF s, j
<1>10. \A a \in ToSet(s) : a \in DOMAIN seen[p] \/ a \in Live
  BY <1>3, <1>5, <1>7, <1>8, <1>9
<1>11. Listing(p, s, sn)
  <2>1. \A a \in ToSet(s) : \/ a \in Live /\ sn[a] = SnapshotOf(a)
                            \/ a \in DOMAIN seen[p] /\ sn[a] = seen[p][a]
    BY <1>10
  <2>2. \A a \in ToSet(s) : sn[a] \in Snapshot
    BY <1>5, <2>1, SnapshotTyped
  <2>3. sn \in [ToSet(s) -> Snapshot]
    <3>1. DOMAIN sn = ToSet(s) /\ sn = [a \in ToSet(s) |-> sn[a]]
      OBVIOUS
    <3> HIDE DEF sn
    <3> QED BY <2>2, <3>1
  <2> HIDE DEF sn
  <2> QED BY <1>9, <2>1, <2>3 DEF Listing
<1>12. DOMAIN left' = Pass /\ left'[p] = ps /\ \A q \in Pass \ {p} : left'[q] = left[q]
  BY <1>1 DEF JobsInv, PassTables
<1>13. /\ ps \subseteq (1..Len(s)) \X (1..Len(s)) /\ \A ij \in ps : ij[1] < ij[2]
       /\ \A i, k \in 1..Len(s) : i < k => <<i, k>> \in ps
  OBVIOUS
<1> HIDE DEF sn, ps
<1> QED BY <1>1, <1>11, <1>12, <1>13, ListingKeepsJobs DEF ListsAnew

\* The loops find their next pair among those that are left.
LEMMA NextPairIsLeft ==
    ASSUME JobsInv, NEW p \in Pass, PairsLeft(p) # {}
    PROVE  NextPair(p) \in PairsLeft(p)
<1> DEFINE P == PairsLeft(p)
           I == {ij[1] : ij \in P}
<1>1. \A ij \in P : ij[1] \in Nat /\ ij[2] \in Nat
  BY DEF PairsLeft, JobsInv, JobsTypeOK
<1> HIDE DEF P
<1>2. PICK i \in I : \A m \in I : i <= m
  <2>1. I \in SUBSET Nat /\ I # {}
    BY <1>1 DEF P
  <2> QED BY <2>1, LeastNumber
<1> DEFINE J == {ij[2] : ij \in {kl \in P : kl[1] = i}}
<1>3. PICK k \in J : \A m \in J : k <= m
  <2>1. J \in SUBSET Nat /\ J # {}
    BY <1>1, <1>2
  <2> QED BY <2>1, LeastNumber
<1>4. PICK ij \in P : ij[1] = i /\ ij[2] = k
  BY <1>3
<1>5. \A kl \in P : i <= kl[1] /\ (kl[1] = i => k <= kl[2])
  BY <1>2, <1>3
<1>6. \A kl \in P : ij[1] < kl[1] \/ (ij[1] = kl[1] /\ ij[2] <= kl[2])
  BY <1>1, <1>4, <1>5
<1>7. \E mn \in P : \A kl \in P : mn[1] < kl[1] \/ (mn[1] = kl[1] /\ mn[2] <= kl[2])
  BY <1>6
<1> QED BY <1>7 DEF NextPair, P

\* The next pair: two different atoms of the list.
LEMMA NextPairFacts ==
    ASSUME JobsInv, NEW p \in Pass, PairsLeft(p) # {}, stage[p] = "pairs",
           NEW ij, ij = NextPair(p), NEW a, a = list[p][ij[1]], NEW b, b = list[p][ij[2]]
    PROVE  /\ ij \in left[p] /\ a \in DOMAIN seen[p] /\ b \in DOMAIN seen[p] /\ a # b
           /\ a \in Atom /\ b \in Atom
           /\ seen[p][a] \in Snapshot /\ seen[p][b] \in Snapshot
           /\ {a, b} \in Similar
<1>1. ij \in PairsLeft(p)
  BY NextPairIsLeft
<1>2. ij \in left[p] /\ {a, b} \in Similar
  BY <1>1 DEF PairsLeft
<1>3. /\ ij[1] \in DOMAIN list[p] /\ ij[2] \in DOMAIN list[p] /\ ij[1] < ij[2]
      /\ ij[1] \in Nat /\ ij[2] \in Nat
  BY <1>2 DEF JobsInv, JobsTypeOK, PassInv
<1>4. a # b
  BY <1>3 DEF JobsInv, PassInv, Injective
<1>5. a \in ToSet(list[p]) /\ b \in ToSet(list[p])
  BY <1>3 DEF ToSet
<1>6. a \in Atom /\ b \in Atom
  BY <1>3 DEF JobsInv, JobsTypeOK
<1>7. seen[p] \in [ToSet(list[p]) -> Snapshot]
  BY DEF JobsInv, JobsTypeOK
<1> QED BY <1>2, <1>4, <1>5, <1>6, <1>7

\* A pair that was decided leaves only decided pairs behind.
LEMMA PairDecided ==
    ASSUME JobsInv, NEW p \in Pass, stage[p] = "pairs", NEW ij \in left[p],
           stage' = stage, list' = list, seen' = seen, DOMAIN removed' = Pass,
           left' = [left EXCEPT ![p] = PairsLeft(p) \ {ij}],
           candidates \subseteq candidates', withdrawn' = withdrawn, removed[p] \subseteq removed'[p],
           \A q \in Pass \ {p} : removed'[q] = removed[q],
           \/ {list[p][ij[1]], list[p][ij[2]]} \in candidates'
           \/ list[p][ij[1]] \in removed'[p] \/ list[p][ij[2]] \in removed'[p]
    PROVE  /\ PassTables' /\ \A q \in Pass : PassInv(q)'
           /\ \A q \in Pass : left'[q] \subseteq left[q]
<1>1. PassTables' /\ left'[p] = PairsLeft(p) \ {ij}
      /\ \A q \in Pass \ {p} : left'[q] = left[q]
  BY DEF JobsInv, PassTables
<1>2. PairsLeft(p) \subseteq left[p]
  BY DEF PairsLeft
<1>3. ASSUME NEW q \in Pass PROVE PassInv(q)'
  <2>1. PassInv(q)
    BY DEF JobsInv
  <2>2. CASE q # p
    <3>1. \A i, j : Decided(q, i, j) => Decided(q, i, j)'
      BY <1>1, <2>2 DEF Decided
    <3> QED BY <1>1, <2>1, <2>2, <3>1 DEF PassInv, Injective
  <2>3. CASE q = p
    <3>1. ASSUME NEW i \in DOMAIN list[p], NEW j \in DOMAIN list[p], i < j
          PROVE  Decided(p, i, j)'
      <4>1. Decided(p, i, j)
        BY <2>1, <2>3, <3>1 DEF PassInv
      <4>2. CASE <<i, j>> \in left[p]
        <5>1. CASE <<i, j>> = ij
          <6>1. ij[1] = i /\ ij[2] = j
            BY <5>1
          <6> QED BY <6>1 DEF Decided
        <5>2. CASE <<i, j>> # ij /\ <<i, j>> \in PairsLeft(p)
          BY <1>1, <5>2 DEF Decided
        <5>3. CASE <<i, j>> \notin PairsLeft(p)
          <6>1. \/ list[p][i] \in removed[p] \/ list[p][j] \in removed[p]
                \/ ProjectOf[list[p][i]] # ProjectOf[list[p][j]]
                \/ {list[p][i], list[p][j]} \notin Similar
            BY <4>2, <5>3 DEF PairsLeft
          <6> QED BY <6>1 DEF Decided
        <5> QED BY <5>1, <5>2, <5>3
      <4>3. CASE <<i, j>> \notin left[p]
        BY <4>1, <4>3 DEF Decided
      <4> QED BY <4>2, <4>3
    <3>2. \A kl \in left'[p] : kl[1] < kl[2]
      BY <1>1, <1>2, <2>1, <2>3 DEF PassInv
    <3> QED BY <2>1, <2>3, <3>1, <3>2 DEF PassInv, Injective
  <2> QED BY <2>2, <2>3
<1> QED BY <1>1, <1>2, <1>3

\* A pair is queued for the operator.
LEMMA QueuesKeepsJobs ==
    ASSUME JobsInv, NEW p \in Pass, PassQueues(p)
    PROVE  JobsInv'
<1> DEFINE ij == NextPair(p)
           a == list[p][ij[1]]
           b == list[p][ij[2]]
<1>1. /\ stage[p] = "pairs" /\ PairsLeft(p) # {}
      /\ candidates' = candidates \cup {{a, b}} /\ withdrawn' = withdrawn
      /\ left' = [left EXCEPT ![p] = PairsLeft(p) \ {ij}]
      /\ row' = row /\ fts' = fts /\ vec' = vec /\ tags' = tags /\ at' = at
      /\ clock' = clock /\ gated' = gated /\ stage' = stage /\ list' = list /\ seen' = seen
      /\ removed' = removed /\ groups' = groups
  BY DEF PassQueues, rowVars, storeVars, writerVars, queueVars
<1>2. ij \in left[p] /\ a \in Atom /\ b \in Atom
  BY <1>1, NextPairFacts
<1>3. PassTables' /\ (\A q \in Pass : PassInv(q)') /\ \A q \in Pass : left'[q] \subseteq left[q]
  <2> HIDE DEF ij
  <2>1. DOMAIN removed' = Pass
    BY <1>1 DEF JobsInv, PassTables
  <2>2. {list[p][ij[1]], list[p][ij[2]]} \in candidates' /\ candidates \subseteq candidates'
    BY <1>1
  <2> QED BY <1>1, <1>2, <2>1, <2>2, PairDecided
<1> HIDE DEF ij, a, b
<1>4. Sound' /\ Live' = Live
  BY <1>1 DEF JobsInv, Sound, StoreInv, AtomStoreTypeOK, RowIdsDistinct, QuarantineHasNoVector,
              VectorsBelong, HasVector, Live
<1>5. JobsTypeOK'
  <2>1. candidates' \subseteq SUBSET Atom
    BY <1>1, <1>2 DEF JobsInv, JobsTypeOK
  <2>2. \A q \in Pass : /\ seen'[q] \in [ToSet(list'[q]) -> Snapshot]
                        /\ left'[q] \subseteq (1..Len(list'[q])) \X (1..Len(list'[q]))
                        /\ removed'[q] \subseteq Atom
    BY <1>1, <1>3 DEF JobsInv, JobsTypeOK
  <2> QED BY <1>1, <1>4, <2>1, <2>2 DEF JobsInv, JobsTypeOK, Sound, StoreInv
<1>6. TimesApart'
  <2>1. \A c \in Atom : \A t \in 0..MaxClock : Known(c, t)' => Known(c, t)
    BY <1>1, <1>4 DEF Known
  <2>2. clock \in Nat
    BY ConsolidationFacts DEF JobsInv, JobsTypeOK
  <2> QED BY <1>1, <2>1, <2>2, TimesKept DEF JobsInv
<1> QED BY <1>3, <1>4, <1>5, <1>6 DEF JobsInv

\* A merge, with the pair it merges named.
MergesPair(p, ij, s, l) ==
    /\ stage[p] = "pairs" /\ PairsLeft(p) # {} /\ ij = NextPair(p) /\ ij \in left[p]
    /\ {s, l} = {list[p][ij[1]], list[p][ij[2]]} /\ s # l
    /\ s \in Atom /\ l \in Atom /\ s \in DOMAIN seen[p] /\ l \in DOMAIN seen[p]
    /\ seen[p][s] \in Snapshot /\ seen[p][l] \in Snapshot
    /\ AutoMergeable(p, s, l)
    /\ \/ seen[p][s].lane = "trusted" /\ seen[p][l].lane = "quarantine"
       \/ seen[p][s].lane = seen[p][l].lane /\ seen[p][s].at < seen[p][l].at
    /\ ApplyAutoMerge(s, l, seen[p][s].lane)
    /\ tags' = [x \in (Live \cup {s}) \ {l} |->
                   IF x = s THEN seen[p][s].tags \cup seen[p][l].tags ELSE tags[x]]
    /\ at' = [x \in (Live \cup {s}) \ {l} |-> IF x \in Live THEN at[x] ELSE seen[p][x].at]
    /\ removed' = [removed EXCEPT ![p] = @ \cup {l}]
    /\ left' = [left EXCEPT ![p] = PairsLeft(p) \ {ij}]
    /\ clock' = clock /\ gated' = gated /\ candidates' = candidates /\ withdrawn' = withdrawn
    /\ stage' = stage /\ list' = list /\ seen' = seen /\ groups' = groups

\* Every merge has a survivor and a loser: the trusted one of two lanes, the older
\* one of the same lane survives.
LEMMA MergeHasPair ==
    ASSUME JobsInv, NEW p \in Pass, PassMerges(p)
    PROVE  \E ij, s, l : MergesPair(p, ij, s, l)
<1> DEFINE ij == NextPair(p)
           a == list[p][ij[1]]
           b == list[p][ij[2]]
           s == Survivor(p, a, b)
           l == IF s = a THEN b ELSE a
           kept(x, y) == (Live \cup {x}) \ {y}
           Merged(x, y) ==
              /\ ApplyAutoMerge(x, y, seen[p][x].lane)
              /\ tags' = [z \in kept(x, y) |-> IF z = x THEN seen[p][x].tags \cup seen[p][y].tags
                                                        ELSE tags[z]]
              /\ at' = [z \in kept(x, y) |-> IF z \in Live THEN at[z] ELSE seen[p][z].at]
              /\ removed' = [removed EXCEPT ![p] = @ \cup {y}]
<1>0. /\ stage[p] = "pairs" /\ PairsLeft(p) # {}
      /\ AutoMergeable(p, a, b)
      /\ \E y \in {a, b} \ {s} : Merged(s, y)
      /\ left' = [left EXCEPT ![p] = PairsLeft(p) \ {ij}]
      /\ clock' = clock /\ gated' = gated /\ candidates' = candidates /\ withdrawn' = withdrawn
      /\ stage' = stage /\ list' = list /\ seen' = seen /\ groups' = groups
  <2>1. /\ stage[p] = "pairs" /\ PairsLeft(p) # {}
        /\ clock' = clock /\ gated' = gated /\ candidates' = candidates /\ withdrawn' = withdrawn
        /\ stage' = stage /\ list' = list /\ seen' = seen /\ groups' = groups
    BY DEF PassMerges, writerVars, queueVars
  <2>2. PICK z \in {NextPair(p)} :
           LET c == list[p][z[1]]
               d == list[p][z[2]]
           IN /\ AutoMergeable(p, c, d)
              /\ \E x \in {Survivor(p, c, d)} : \E y \in {c, d} \ {x} : Merged(x, y)
              /\ left' = [left EXCEPT ![p] = PairsLeft(p) \ {z}]
    BY Zenon DEF PassMerges
  <2>3. z = ij
    OBVIOUS
  <2> HIDE DEF Merged, ij
  <2>4. /\ AutoMergeable(p, a, b)
        /\ \E x \in {Survivor(p, a, b)} : \E y \in {a, b} \ {x} : Merged(x, y)
        /\ left' = [left EXCEPT ![p] = PairsLeft(p) \ {ij}]
    BY <2>2, <2>3
  <2> QED BY <2>1, <2>4
<1>1. /\ ApplyAutoMerge(s, l, seen[p][s].lane)
      /\ tags' = [x \in kept(s, l) |-> IF x = s THEN seen[p][s].tags \cup seen[p][l].tags
                                                ELSE tags[x]]
      /\ at' = [x \in kept(s, l) |-> IF x \in Live THEN at[x] ELSE seen[p][x].at]
      /\ removed' = [removed EXCEPT ![p] = @ \cup {l}]
  <2>1. \A y \in {a, b} \ {s} : y = l
    <3>1. s \in {a, b}
      BY DEF Survivor
    <3> HIDE DEF a, b, s
    <3> QED BY <3>1
  <2> HIDE DEF a, b, s, l, kept
  <2> QED BY <1>0, <2>1, Zenon
<1>2. /\ ij \in left[p] /\ a \in DOMAIN seen[p] /\ b \in DOMAIN seen[p] /\ a # b
      /\ a \in Atom /\ b \in Atom /\ seen[p][a] \in Snapshot /\ seen[p][b] \in Snapshot
  BY <1>0, NextPairFacts
<1>3. seen[p][a].at # seen[p][b].at
  <2>1. Known(a, seen[p][a].at) /\ Known(b, seen[p][b].at)
    BY <1>2 DEF Known
  <2>2. seen[p][a].at \in 0..MaxClock
    BY <1>2 DEF Snapshot
  <2> HIDE DEF a, b
  <2> QED BY <1>2, <2>1, <2>2 DEF JobsInv, TimesApart
<1>4. ij = NextPair(p) /\ a = list[p][ij[1]] /\ b = list[p][ij[2]]
  OBVIOUS
<1> HIDE DEF ij, a, b
<1>5. /\ (s = a /\ l = b) \/ (s = b /\ l = a)
      /\ \/ seen[p][s].lane = "trusted" /\ seen[p][l].lane = "quarantine"
         \/ seen[p][s].lane = seen[p][l].lane /\ seen[p][s].at < seen[p][l].at
  <2>1. /\ seen[p][a].lane \in Lane /\ seen[p][b].lane \in Lane
        /\ seen[p][a].at \in Nat /\ seen[p][b].at \in Nat
    BY <1>2, ConsolidationFacts DEF Snapshot
  <2>2. CASE seen[p][a].lane # seen[p][b].lane
    BY <1>2, <2>1, <2>2 DEF Survivor, Lane
  <2>3. CASE seen[p][a].lane = seen[p][b].lane
    BY <1>2, <1>3, <2>1, <2>3 DEF Survivor
  <2> QED BY <2>2, <2>3
<1> HIDE DEF s, l
<1>6. AutoMergeable(p, s, l)
  <2>1. {b, a} = {a, b}
    OBVIOUS
  <2> QED BY <1>0, <1>5, <2>1 DEF AutoMergeable
<1>7. {s, l} = {list[p][ij[1]], list[p][ij[2]]} /\ s # l
  BY <1>2, <1>4, <1>5
<1>8. /\ s \in Atom /\ l \in Atom /\ s \in DOMAIN seen[p] /\ l \in DOMAIN seen[p]
      /\ seen[p][s] \in Snapshot /\ seen[p][l] \in Snapshot
  BY <1>2, <1>5
<1>9. MergesPair(p, ij, s, l)
  BY <1>0, <1>1, <1>2, <1>4, <1>5, <1>6, <1>7, <1>8 DEF MergesPair
<1> QED BY <1>9

\* A merge, as tables.
LEMMA MergeFacts ==
    ASSUME JobsInv, NEW p \in Pass, NEW ij, NEW s, NEW l, MergesPair(p, ij, s, l)
    PROVE  /\ Sound'
           /\ Live' = (Live \cup {s}) \ {l}
           /\ \A b \in Live \ {s, l} : row'[b] = row[b]
           /\ row'[s].lane = seen[p][s].lane
           /\ s \in Live => row'[s].superseded_by = row[s].superseded_by
           /\ s \notin Live => row'[s].superseded_by = NoOne
<1>1. /\ s \in Atom /\ l \in Atom /\ s # l /\ seen[p][s].lane \in Lane
      /\ ApplyAutoMerge(s, l, seen[p][s].lane)
  BY DEF MergesPair, Snapshot
<1> QED BY <1>1, OneMergeApplied DEF JobsInv

\* A merge keeps the invariant: a survivor whose row is gone gets one with the
\* time the pass remembers, which no other atom has.
LEMMA MergesKeepsJobs ==
    ASSUME JobsInv, NEW p \in Pass, PassMerges(p)
    PROVE  JobsInv'
<1>1. PICK ij, s, l : MergesPair(p, ij, s, l)
  BY MergeHasPair
<1>2. /\ Sound' /\ Live' = (Live \cup {s}) \ {l}
  BY <1>1, MergeFacts
<1>3. /\ s \in Atom /\ l \in Atom /\ s \in DOMAIN seen[p]
      /\ seen[p][s] \in Snapshot /\ seen[p][l] \in Snapshot
      /\ clock' = clock /\ gated' = gated /\ candidates' = candidates /\ withdrawn' = withdrawn /\ stage' = stage
      /\ list' = list /\ seen' = seen /\ groups' = groups
      /\ removed' = [removed EXCEPT ![p] = @ \cup {l}]
  BY <1>1 DEF MergesPair
<1>4. DOMAIN removed' = Pass /\ removed'[p] = removed[p] \cup {l}
      /\ \A q \in Pass \ {p} : removed'[q] = removed[q]
  BY <1>3 DEF JobsInv, PassTables
<1>5. PassTables' /\ (\A q \in Pass : PassInv(q)') /\ \A q \in Pass : left'[q] \subseteq left[q]
  <2>1. /\ stage[p] = "pairs" /\ ij \in left[p] /\ left' = [left EXCEPT ![p] = PairsLeft(p) \ {ij}]
        /\ {s, l} = {list[p][ij[1]], list[p][ij[2]]}
    BY <1>1 DEF MergesPair
  <2>2. list[p][ij[1]] \in removed'[p] \/ list[p][ij[2]] \in removed'[p]
    BY <1>4, <2>1
  <2> QED BY <1>3, <1>4, <2>1, <2>2, PairDecided
<1>6. JobsTypeOK'
  <2>1. tags' \in [Live' -> SUBSET Tag]
    <3>1. seen[p][s].tags \cup seen[p][l].tags \in SUBSET Tag
      BY <1>3 DEF Snapshot
    <3>2. tags' = [x \in Live' |-> IF x = s THEN seen[p][s].tags \cup seen[p][l].tags ELSE tags[x]]
      BY <1>1, <1>2 DEF MergesPair
    <3> QED BY <1>2, <3>1, <3>2 DEF JobsInv, JobsTypeOK
  <2>2. at' \in [Live' -> 0..MaxClock]
    <3>1. seen[p][s].at \in 0..MaxClock
      BY <1>3 DEF Snapshot
    <3>2. at' = [x \in Live' |-> IF x \in Live THEN at[x] ELSE seen[p][x].at]
      BY <1>1, <1>2 DEF MergesPair
    <3> QED BY <1>2, <3>1, <3>2 DEF JobsInv, JobsTypeOK
  <2>3. \A q \in Pass : /\ seen'[q] \in [ToSet(list'[q]) -> Snapshot]
                        /\ left'[q] \subseteq (1..Len(list'[q])) \X (1..Len(list'[q]))
                        /\ removed'[q] \subseteq Atom
    BY <1>3, <1>4, <1>5 DEF JobsInv, JobsTypeOK
  <2> QED BY <1>2, <1>3, <2>1, <2>2, <2>3 DEF JobsInv, JobsTypeOK, Sound, StoreInv
<1>7. IsFiniteSet(Live')
  BY <1>2, FS_AddElement, FS_RemoveElement DEF JobsInv
<1>8. TimesApart'
  <2>1. ASSUME NEW c \in Atom, NEW t \in 0..MaxClock, Known(c, t)'
        PROVE  Known(c, t)
    <3>1. CASE c \in Live' /\ t = at'[c]
      <4>1. at'[c] = IF c \in Live THEN at[c] ELSE seen[p][c].at
        BY <1>1, <1>2, <3>1 DEF MergesPair
      <4>2. c \notin Live => c = s
        BY <1>2, <3>1
      <4> QED BY <1>3, <3>1, <4>1, <4>2 DEF Known
    <3>2. CASE \E q \in Pass : c \in DOMAIN seen'[q] /\ t = seen'[q][c].at
      BY <1>3, <3>2 DEF Known
    <3> QED BY <2>1, <3>1, <3>2 DEF Known
  <2>2. clock \in Nat
    BY ConsolidationFacts DEF JobsInv, JobsTypeOK
  <2> QED BY <1>3, <2>1, <2>2, TimesKept DEF JobsInv
<1> QED BY <1>2, <1>5, <1>6, <1>7, <1>8 DEF JobsInv

\* A pass that is over leaves nothing behind.
LEMMA OverKeepsJobs ==
    ASSUME JobsInv, NEW p \in Pass, PassIsOver(p), clock' \in 0..MaxClock, clock <= clock'
    PROVE  JobsInv'
<1>1. /\ stage' = [stage EXCEPT ![p] = "idle"] /\ list' = [list EXCEPT ![p] = <<>>]
      /\ seen' = [seen EXCEPT ![p] = <<>>] /\ left' = [left EXCEPT ![p] = {}]
      /\ removed' = [removed EXCEPT ![p] = {}]
      /\ row' = row /\ fts' = fts /\ vec' = vec /\ tags' = tags /\ at' = at
      /\ gated' = gated /\ candidates' = candidates /\ withdrawn' = withdrawn /\ groups' = groups
  BY DEF PassIsOver, rowVars, storeVars, writerVars, queueVars
<1>2. /\ stage'[p] = "idle" /\ list'[p] = <<>> /\ seen'[p] = <<>> /\ left'[p] = {}
      /\ removed'[p] = {}
      /\ \A q \in Pass \ {p} : /\ stage'[q] = stage[q] /\ list'[q] = list[q]
                               /\ seen'[q] = seen[q] /\ left'[q] = left[q]
                               /\ removed'[q] = removed[q]
      /\ PassTables'
  BY <1>1 DEF JobsInv, JobsTypeOK, PassTables
<1>3. DOMAIN <<>> = {} /\ ToSet(<<>>) = {} /\ <<>> \in [{} -> Snapshot] /\ <<>> \in Seq(Atom)
  BY DEF ToSet
<1>4. Sound' /\ Live' = Live
  BY <1>1 DEF JobsInv, Sound, StoreInv, AtomStoreTypeOK, RowIdsDistinct, QuarantineHasNoVector,
              VectorsBelong, HasVector, Live
<1>5. JobsTypeOK'
  <2>1. \A q \in Pass : /\ seen'[q] \in [ToSet(list'[q]) -> Snapshot]
                        /\ left'[q] \subseteq (1..Len(list'[q])) \X (1..Len(list'[q]))
                        /\ removed'[q] \subseteq Atom
    <3> SUFFICES ASSUME NEW q \in Pass
                 PROVE  /\ seen'[q] \in [ToSet(list'[q]) -> Snapshot]
                        /\ left'[q] \subseteq (1..Len(list'[q])) \X (1..Len(list'[q]))
                        /\ removed'[q] \subseteq Atom
      OBVIOUS
    <3>1. CASE q = p
      BY <1>2, <1>3, <3>1
    <3>2. CASE q # p
      BY <1>2, <3>2 DEF JobsInv, JobsTypeOK
    <3> QED BY <3>1, <3>2
  <2>2. list' \in [Pass -> Seq(Atom)] /\ stage' \in [Pass -> {"idle", "listed", "pairs"}]
    BY <1>1, <1>3 DEF JobsInv, JobsTypeOK
  <2> QED BY <1>1, <1>4, <2>1, <2>2 DEF JobsInv, JobsTypeOK, Sound, StoreInv
<1>6. TimesApart'
  <2>1. ASSUME NEW c \in Atom, NEW t \in 0..MaxClock, Known(c, t)'
        PROVE  Known(c, t)
    <3>1. CASE \E q \in Pass : c \in DOMAIN seen'[q] /\ t = seen'[q][c].at
      <4>1. PICK q \in Pass : c \in DOMAIN seen'[q] /\ t = seen'[q][c].at
        BY <3>1
      <4>2. q # p
        BY <1>2, <1>3, <4>1
      <4> QED BY <1>2, <4>1, <4>2 DEF Known
    <3>2. CASE c \in Live' /\ t = at'[c]
      BY <1>1, <1>4, <3>2 DEF Known
    <3> QED BY <2>1, <3>1, <3>2 DEF Known
  <2>2. clock' \in Nat
    BY ConsolidationFacts
  <2> QED BY <2>1, <2>2, TimesKept DEF JobsInv
<1>7. ASSUME NEW q \in Pass PROVE PassInv(q)'
  <2>1. CASE q = p
    BY <1>2, <1>3, <2>1 DEF PassInv, Injective
  <2>2. CASE q # p
    <3>1. PassInv(q)
      BY DEF JobsInv
    <3>2. \A i, j : Decided(q, i, j) => Decided(q, i, j)'
      BY <1>1, <1>2, <2>2 DEF Decided
    <3> QED BY <1>2, <2>2, <3>1, <3>2 DEF PassInv, Injective
  <2> QED BY <2>1, <2>2
<1> QED BY <1>2, <1>4, <1>5, <1>6, <1>7 DEF JobsInv

----------------------------------------------------------------------------
(* The sweep                                                               *)

\* The canonical copy of a group is the oldest visible one.
LEMMA SweepGroupFacts ==
    ASSUME JobsInv, NEW c, Cardinality(VisibleCopies(c)) > 1
    PROVE  /\ SweepGroup(c).canonical \in VisibleCopies(c)
           /\ \A b \in VisibleCopies(c) : at[SweepGroup(c).canonical] <= at[b]
           /\ SweepGroup(c).dups = VisibleCopies(c) \ {SweepGroup(c).canonical}
           /\ SweepGroup(c) \in [canonical : Atom, dups : SUBSET Atom]
<1> DEFINE V == VisibleCopies(c)
           first == CHOOSE a \in V : \A b \in V : at[a] <= at[b]
<1>1. V \in SUBSET Live /\ Live \subseteq Atom
  BY DEF VisibleCopies, JobsInv, JobsTypeOK, AtomStoreTypeOK
<1>2. V # {}
  <2>1. Cardinality({}) = 0
    BY FS_EmptySet
  <2> QED BY <2>1
<1>3. \A a \in V : at[a] \in Nat
  BY <1>1, RowTimesDiffer DEF TimesDiffer
<1> HIDE DEF V
<1>4. \E a \in V : \A b \in V : at[a] <= at[b]
  BY <1>2, <1>3, OldestExists
<1>5. first \in V /\ \A b \in V : at[first] <= at[b]
  BY <1>4
<1>6. SweepGroup(c) = [canonical |-> first, dups |-> V \ {first}]
  BY DEF SweepGroup, V
<1> HIDE DEF first
<1>7. SweepGroup(c).canonical = first /\ SweepGroup(c).dups = V \ {first}
  BY <1>6
<1>8. V = VisibleCopies(c)
  BY DEF V
<1> QED BY <1>1, <1>5, <1>6, <1>7, <1>8

\* The steps of the sweep keep the invariant.
LEMMA SweepKeepsJobs ==
    ASSUME JobsInv, Sweep \/ SweepStops
    PROVE  JobsInv'
<1>1. CASE SweepLists
  <2>1. /\ row' = row /\ fts' = fts /\ vec' = vec /\ tags' = tags /\ at' = at /\ clock' = clock
        /\ gated' = gated /\ candidates' = candidates /\ withdrawn' = withdrawn /\ UNCHANGED passVars
        /\ groups' = {SweepGroup(c) : c \in {d \in Content : Cardinality(VisibleCopies(d)) > 1}}
    BY <1>1 DEF SweepLists, rowVars, storeVars, writerVars, queueVars
  <2>2. groups' \subseteq [canonical : Atom, dups : SUBSET Atom]
    BY <2>1, SweepGroupFacts
  <2>3. Sound' /\ Live' = Live
    BY <2>1 DEF JobsInv, Sound, StoreInv, AtomStoreTypeOK, RowIdsDistinct, QuarantineHasNoVector,
                VectorsBelong, HasVector, Live
  <2> QED BY <2>1, <2>2, <2>3, RemarkedKeepsJobs DEF queueVars
<1>2. ASSUME NEW g \in groups, SweepMarks(g)
      PROVE  JobsInv'
  <2>1. g.canonical \in Atom
    BY DEF JobsInv, JobsTypeOK
  <2>2. Sound' /\ Live' = Live
    BY <1>2, <2>1, CopiesMarked DEF SweepMarks, JobsInv
  <2>3. groups' \subseteq [canonical : Atom, dups : SUBSET Atom]
    BY <1>2 DEF SweepMarks, JobsInv, JobsTypeOK
  <2> QED BY <1>2, <2>2, <2>3, RemarkedKeepsJobs DEF SweepMarks, writerVars, queueVars
<1>3. CASE SweepStops
  <2>1. /\ row' = row /\ fts' = fts /\ vec' = vec /\ tags' = tags /\ at' = at
        /\ gated' = gated /\ candidates' = candidates /\ withdrawn' = withdrawn /\ UNCHANGED passVars
        /\ groups' = {} /\ clock < MaxClock /\ clock' = clock + 1
    BY <1>3 DEF SweepStops, rowVars, storeVars, writerVars, queueVars
  <2>2. clock' \in 0..MaxClock /\ clock' \in Nat /\ clock <= clock'
    BY <2>1, ConsolidationFacts DEF JobsInv, JobsTypeOK
  <2>3. Sound' /\ Live' = Live
    BY <2>1 DEF JobsInv, Sound, StoreInv, AtomStoreTypeOK, RowIdsDistinct, QuarantineHasNoVector,
                VectorsBelong, HasVector, Live
  <2>4. JobsTypeOK'
    BY <2>1, <2>2, <2>3, PassesKept DEF JobsInv, JobsTypeOK, Sound, StoreInv
  <2>5. TimesApart'
    <3>1. \A b \in Atom : \A t \in 0..MaxClock : Known(b, t)' => Known(b, t)
      BY <2>1, <2>3 DEF Known, passVars, writerVars, queueVars
    <3> QED BY <2>2, <3>1, TimesKept DEF JobsInv
  <2> QED BY <2>1, <2>3, <2>4, <2>5, PassesKept DEF JobsInv
<1> QED BY <1>1, <1>2, <1>3 DEF Sweep

----------------------------------------------------------------------------
(* All steps                                                               *)

\* Every step keeps the invariant.
LEMMA JobsStep ==
    ASSUME JobsInv, [Next]_vars
    PROVE  JobsInv'
<1>1. CASE Writer
  BY <1>1, GatesKeepJobs, WritesKeepJobs, MarksKeepJobs, PromotesKeepsJobs, DeletesKeepJobs
     DEF Writer
<1>2. ASSUME NEW p \in Pass, PassStarts(p) \/ PassGoesOn(p) \/ PassStops(p)
      PROVE  JobsInv'
  <2>1. CASE PassStarts(p)
    BY <2>1, ListsCandidatesKeepsJobs DEF PassStarts
  <2>2. clock \in 0..MaxClock /\ MaxClock \in Nat
    BY ConsolidationFacts DEF JobsInv, JobsTypeOK
  <2>3. CASE PassEnds(p)
    <3>1. PassIsOver(p) /\ clock' = clock
      BY <2>3 DEF PassEnds
    <3> QED BY <2>2, <3>1, OverKeepsJobs
  <2>4. CASE PassStops(p)
    <3>1. PassIsOver(p) /\ clock' = clock + 1 /\ clock < MaxClock
      BY <2>4 DEF PassStops
    <3>2. clock' \in 0..MaxClock /\ clock <= clock'
      BY <2>2, <3>1
    <3> QED BY <3>1, <3>2, OverKeepsJobs
  <2> QED BY <1>2, <2>1, <2>3, <2>4, ListsTrustedKeepsJobs, QueuesKeepsJobs, MergesKeepsJobs
      DEF PassGoesOn
<1>3. CASE Sweep \/ SweepStops
  BY <1>3, SweepKeepsJobs
<1>4. CASE UNCHANGED vars
  <2>1. UNCHANGED <<tags, at, clock, gated, queueVars, passVars>> /\ groups' = groups
        /\ row' = row /\ fts' = fts /\ vec' = vec
    BY <1>4 DEF vars, rowVars, storeVars, writerVars, queueVars
  <2>2. Sound' /\ Live' = Live
    BY <2>1 DEF JobsInv, Sound, StoreInv, AtomStoreTypeOK, RowIdsDistinct, QuarantineHasNoVector,
                VectorsBelong, HasVector, Live
  <2>3. groups' \subseteq [canonical : Atom, dups : SUBSET Atom]
    BY <2>1 DEF JobsInv, JobsTypeOK
  <2> QED BY <2>1, <2>2, <2>3, RemarkedKeepsJobs DEF queueVars
<1> QED BY <1>1, <1>2, <1>3, <1>4 DEF Next, Job

\* The jobs, the writers and the operator together keep the invariant.
LEMMA JobsInvariance ==
    Spec => []JobsInv
BY JobsInit, JobsStep, PTL DEF Spec

\* The marks that are due and the history have their types too.
LEMMA HistoryStep ==
    ASSUME JobsInv, TypeOK, [Next]_vars
    PROVE  /\ marking' \subseteq Atom /\ withdrawn' \subseteq SUBSET Atom
           /\ displaced' \subseteq Content
<1>1. marking \subseteq Atom /\ withdrawn \subseteq SUBSET Atom /\ displaced \subseteq Content
  BY DEF TypeOK
<1>2. Disturbed \subseteq Content
  BY AtomFacts DEF Disturbed
<1>3. displaced' \subseteq Content
  <2>1. CASE Disturbs
    BY <1>1, <1>2, <2>1 DEF Disturbs
  <2>2. CASE Settles
    BY <1>1, <2>2 DEF Settles
  <2>3. CASE UNCHANGED vars
    BY <1>1, <2>3 DEF vars
  <2> QED BY <2>1, <2>2, <2>3 DEF Next
<1>4. CASE Writer
  <2>1. ASSUME NEW a \in Atom, WriterGates(a) \/ WriterMarks(a) \/ OperatorPromotes(a)
        PROVE  marking' \subseteq marking /\ withdrawn' = withdrawn
    BY <2>1 DEF WriterGates, WriterMarks, OperatorPromotes, writerVars, queueVars
  <2>2. ASSUME NEW a \in Atom, WriterWrites(a)
        PROVE  marking' \subseteq marking \cup {a} /\ withdrawn' = withdrawn
    BY <2>2 DEF WriterWrites, queueVars
  <2>3. ASSUME NEW s \in Source, FullSyncDeletes(s)
        PROVE  marking' = marking /\ withdrawn' \subseteq withdrawn \cup candidates
    BY <2>3 DEF FullSyncDeletes, writerVars
  <2>4. candidates \subseteq SUBSET Atom
    BY DEF JobsInv, JobsTypeOK
  <2> QED BY <1>1, <1>3, <1>4, <2>1, <2>2, <2>3, <2>4 DEF Writer
<1>5. CASE Job
  <2>1. ASSUME NEW p \in Pass, PassMerges(p) PROVE marking' = marking /\ withdrawn' = withdrawn
    BY <2>1 DEF PassMerges, writerVars, queueVars
  <2>2. ASSUME NEW p \in Pass, PassStarts(p) \/ PassListsTrusted(p) \/ PassQueues(p)
        PROVE  marking' = marking /\ withdrawn' = withdrawn
    BY <2>2 DEF PassStarts, PassListsCandidates, PassListsTrusted, PassQueues, writerVars, queueVars
  <2>3. ASSUME NEW p \in Pass, PassEnds(p) \/ PassStops(p)
        PROVE  marking' = marking /\ withdrawn' = withdrawn
    BY <2>3 DEF PassEnds, PassStops, PassIsOver, writerVars, queueVars
  <2>4. ASSUME Sweep \/ SweepStops
        PROVE  marking' = marking /\ withdrawn' = withdrawn
    BY <2>4 DEF Sweep, SweepLists, SweepMarks, SweepStops, writerVars, queueVars
  <2>5. marking' = marking /\ withdrawn' = withdrawn
    BY <1>5, <2>1, <2>2, <2>3, <2>4 DEF Job, PassGoesOn
  <2> QED BY <1>1, <1>3, <2>5
<1>6. CASE UNCHANGED vars
  BY <1>1, <1>3, <1>6 DEF vars, writerVars, queueVars
<1> QED BY <1>4, <1>5, <1>6 DEF Next

\* Everything the jobs keep has its type, whatever was listed, stopped or deleted
\* meanwhile: a list by age is well defined, a group has a canonical copy.
THEOREM JobsTyped ==
    Spec => []TypeOK
<1>1. Init => TypeOK
  <2>1. Init => JobsTypeOK
    BY JobsInit DEF JobsInv
  <2>2. Init => marking = {} /\ withdrawn = {} /\ displaced = {}
    BY DEF Init
  <2> QED BY <2>1, <2>2 DEF TypeOK
<1>2. JobsInv /\ TypeOK /\ [Next]_vars => TypeOK'
  BY JobsStep, HistoryStep DEF TypeOK, JobsInv
<1> QED BY <1>1, <1>2, JobsInvariance, PTL DEF Spec

\* Merges from stale lists, promotions and rowids handed out again: no atom gets
\* the vector of another.
THEOREM MergedVectorsBelong ==
    Spec => []VectorBelongsToItsRow
<1>1. JobsInv => VectorBelongsToItsRow
  BY DEF JobsInv, Sound, StoreInv, VectorBelongsToItsRow
<1> QED BY <1>1, JobsInvariance, PTL

\* When the loops of a pass are through, no similar pair of its list is undecided,
\* although they skip pairs as they remove atoms.
THEOREM PassDecidesAll ==
    Spec => []PassIsThorough
<1>1. ASSUME JobsInv PROVE PassIsThorough
  <2> SUFFICES ASSUME NEW p \in Pass, stage[p] = "pairs", PairsLeft(p) = {},
                      NEW a \in ToSet(list[p]) \ removed[p], NEW b \in ToSet(list[p]) \ removed[p],
                      a # b, ProjectOf[a] = ProjectOf[b], {a, b} \in Similar
               PROVE  {a, b} \in candidates \cup withdrawn
    BY DEF PassIsThorough
  <2>1. PICK i \in DOMAIN list[p], j \in DOMAIN list[p] : list[p][i] = a /\ list[p][j] = b
    BY DEF ToSet
  <2>2. i \in Nat /\ j \in Nat /\ i # j
    BY <1>1, <2>1 DEF JobsInv, JobsTypeOK
  <2>3. {b, a} = {a, b}
    OBVIOUS
  <2>4. ASSUME NEW x \in DOMAIN list[p], NEW y \in DOMAIN list[p], x < y,
               {list[p][x], list[p][y]} = {a, b}
        PROVE  {a, b} \in candidates \cup withdrawn
    <3>1. Decided(p, x, y)
      BY <1>1, <2>4 DEF JobsInv, PassInv
    <3>2. \/ list[p][x] = a /\ list[p][y] = b
          \/ list[p][x] = b /\ list[p][y] = a
      BY <2>4
    <3>3. <<x, y>> \notin left[p]
      BY <2>4, <3>2 DEF PairsLeft
    <3> QED BY <2>4, <3>1, <3>2, <3>3 DEF Decided
  <2>5. i < j \/ j < i
    BY <2>2
  <2> QED BY <2>1, <2>3, <2>4, <2>5
<1> QED BY <1>1, JobsInvariance, PTL

----------------------------------------------------------------------------
(* The copy that stays                                                     *)

\* Another copy is the first, and older than t.
OlderFirst(a, t) ==
    \E f \in Live \ {a} : First(f) /\ ContentOf[f] = ContentOf[a] /\ at[f] < t

\* The same of the next state.
OlderFirstNext(a, t) ==
    \E f \in Live' \ {a} : First(f)' /\ ContentOf[f] = ContentOf[a] /\ at'[f] < t

ListedTrusted(a) == \E p \in Pass : a \in DOMAIN seen[p] /\ seen[p][a].lane = "trusted"

\* The first copy is shown, and no list has it in quarantine.
FirstLeads(c) ==
    \A a \in Atom : ContentOf[a] = c /\ First(a) =>
        row[a].superseded_by = NoOne /\ ~ListedInQuarantine(a)

\* An atom that is trusted, or is remembered as such by a pass, is the first copy or
\* has it before it, whichever time it is known by: a merge may write it at any.
TrustedRanked(c) ==
    \A a \in Atom : ContentOf[a] = c /\ (Trusted(a) \/ ListedTrusted(a)) =>
        \A t : Known(a, t) => (First(a) /\ at[a] = t) \/ OlderFirst(a, t)

\* The canonical copy of a group is the first.
GroupsRanked(c) ==
    \A g \in groups : ContentOf[g.canonical] = c => g.canonical \in Live /\ First(g.canonical)

RankAt(c) == FirstLeads(c) /\ TrustedRanked(c) /\ GroupsRanked(c)

GroupsAlike ==
    \A g \in groups : \A d \in g.dups :
        d # g.canonical /\ ContentOf[d] = ContentOf[g.canonical]

RankInv == GroupsAlike /\ \A c \in Content \ displaced : RankAt(c)

\* What a step has to establish: a content that it puts in order is ranked by
\* OrderRanks.
RankOrOrder == GroupsAlike /\ \A c \in Content \ displaced : RankAt(c) \/ InOrder(c)

FirstStays(c) ==
    \A f \in Live : First(f) /\ ContentOf[f] = c => f \in Live' /\ First(f)' /\ at'[f] = at[f]

\* A trusted copy has a first one.
LEMMA FirstExists ==
    ASSUME JobsInv, NEW a \in Live, Trusted(a)
    PROVE  \E f \in Live : First(f) /\ ContentOf[f] = ContentOf[a] /\ at[f] <= at[a]
<1> DEFINE S == {b \in Live : Trusted(b) /\ ContentOf[b] = ContentOf[a]}
<1>1. S \in SUBSET Live /\ S # {}
  OBVIOUS
<1>2. \A b \in S : at[b] \in Nat
  BY <1>1, RowTimesDiffer DEF TimesDiffer
<1>3. \E f \in S : \A b \in S : at[f] <= at[b]
  <2> HIDE DEF S
  <2> QED BY <1>1, <1>2, OldestExists
<1>4. PICK f \in S : \A b \in S : at[f] <= at[b]
  BY <1>3
<1> QED BY <1>4 DEF First

\* There is one first copy.
LEMMA FirstIsOne ==
    ASSUME JobsInv, NEW a \in Live, NEW b \in Live, First(a), First(b),
           ContentOf[a] = ContentOf[b]
    PROVE  a = b
<1>1. at[a] <= at[b] /\ at[b] <= at[a]
  BY DEF First
<1>2. TimesDiffer(Live)
  BY RowTimesDiffer
<1> QED BY <1>1, <1>2 DEF TimesDiffer

\* Times are numbers, those of rows in the past.
LEMMA TimesAreNumbers ==
    ASSUME JobsInv
    PROVE  /\ clock \in Nat /\ MaxClock \in Nat /\ Live \subseteq Atom
           /\ \A a \in Live : at[a] \in Nat /\ at[a] < clock /\ at[a] \in 0..MaxClock
           /\ \A p \in Pass : \A a \in DOMAIN seen[p] :
                 /\ a \in Atom /\ seen[p][a].lane \in Lane
                 /\ seen[p][a].at \in Nat /\ seen[p][a].at < clock
<1>1. /\ clock \in Nat /\ MaxClock \in Nat /\ Live \subseteq Atom
  BY ConsolidationFacts DEF JobsInv, JobsTypeOK, AtomStoreTypeOK
<1>2. ASSUME NEW a \in Live
      PROVE  at[a] \in Nat /\ at[a] < clock /\ at[a] \in 0..MaxClock
  <2>1. at[a] \in 0..MaxClock /\ Known(a, at[a]) /\ a \in Atom
    BY <1>1 DEF JobsInv, JobsTypeOK, Known
  <2> QED BY <1>1, <2>1 DEF JobsInv, TimesApart
<1>3. ASSUME NEW p \in Pass, NEW a \in DOMAIN seen[p]
      PROVE  /\ a \in Atom /\ seen[p][a].lane \in Lane
             /\ seen[p][a].at \in Nat /\ seen[p][a].at < clock
  <2>1. seen[p] \in [ToSet(list[p]) -> Snapshot] /\ list[p] \in Seq(Atom)
    BY DEF JobsInv, JobsTypeOK
  <2>2. seen[p][a] \in Snapshot /\ a \in ToSet(list[p])
    BY <2>1
  <2>3. a \in Atom
    BY <2>1, <2>2 DEF ToSet
  <2>4. seen[p][a].lane \in Lane /\ seen[p][a].at \in 0..MaxClock
    BY <2>2 DEF Snapshot
  <2>5. Known(a, seen[p][a].at)
    BY DEF Known
  <2> QED BY <1>1, <2>3, <2>4, <2>5 DEF JobsInv, TimesApart
<1> QED BY <1>1, <1>2, <1>3

\* A trusted row is the first copy or has it before it.
LEMMA TrustedHasFirst ==
    ASSUME JobsInv, NEW a \in Live, Trusted(a)
    PROVE  First(a) \/ OlderFirst(a, at[a])
<1>1. PICK f \in Live : First(f) /\ ContentOf[f] = ContentOf[a] /\ at[f] <= at[a]
  BY FirstExists
<1>2. TimesDiffer(Live)
  BY RowTimesDiffer
<1>3. f # a => at[f] < at[a]
  BY <1>1, <1>2 DEF TimesDiffer
<1> QED BY <1>1, <1>3 DEF OlderFirst

\* With no list in use, all that ranks a content is that its first copy is shown.
LEMMA OrderRanks ==
    ASSUME JobsInv, NEW c, InOrder(c)
    PROVE  RankAt(c)
<1>1. groups = {} /\ \A p \in Pass : DOMAIN seen[p] = {}
  BY DEF InOrder, NothingListed
<1>2. FirstLeads(c)
  BY <1>1 DEF InOrder, FirstIsShown, FirstLeads, First, Trusted, ListedInQuarantine
<1>3. TrustedRanked(c)
  <2> SUFFICES ASSUME NEW a \in Atom, Trusted(a), NEW t, Known(a, t)
               PROVE  (First(a) /\ at[a] = t) \/ OlderFirst(a, t)
    BY <1>1 DEF TrustedRanked, ListedTrusted
  <2>1. a \in Live /\ t = at[a]
    BY <1>1 DEF Known
  <2> QED BY <2>1, TrustedHasFirst
<1> QED BY <1>1, <1>2, <1>3 DEF RankAt, GroupsRanked

\* A writer's step ranks every content that it does not displace: what becomes
\* trusted is not remembered in quarantine by any pass, and is younger than the
\* first copy or the only one.
LEMMA WriterKeepsRank ==
    ASSUME JobsInv, NEW c, RankAt(c), c \notin Disturbed, NEW x, Live' \subseteq Atom,
           seen' = seen, groups' = groups,
           \A b \in Live' \cap Live : at'[b] = at[b],
           \A b \in Live' \ Live : at'[b] = clock,
           \A b \in Live' : b # x /\ row'[b].lane = "trusted" => Trusted(b)
    PROVE  RankAt(c)'
<1>1. ASSUME NEW a \in Atom, ContentOf[a] = c
      PROVE  /\ First(a) => First(a)'
             /\ First(a)' => row'[a].superseded_by = NoOne
             /\ ~Trusted(a) /\ Trusted(a)' => ~ListedInQuarantine(a)
  BY <1>1 DEF Disturbed
<1>2. \A a : Trusted(a)' <=> a \in Live' /\ row'[a].lane = "trusted"
  BY DEF Trusted
<1>3. FirstStays(c)
  <2>1. \A f : First(f)' => f \in Live'
    BY DEF First, Trusted
  <2> QED BY <1>1, <2>1, TimesAreNumbers DEF FirstStays
<1>4. \A a, t : ContentOf[a] = c /\ OlderFirst(a, t) => OlderFirstNext(a, t)
  BY <1>3 DEF FirstStays, OlderFirst, OlderFirstNext
<1>5. \A a : (ListedTrusted(a)' <=> ListedTrusted(a)) /\ (ListedInQuarantine(a)' <=> ListedInQuarantine(a))
  BY DEF ListedTrusted, ListedInQuarantine
<1>6. ASSUME NEW a \in Atom, ContentOf[a] = c, NEW t, OlderFirstNext(a, t), t = at'[a], t \in Nat,
             First(a)'
      PROVE  FALSE
  <2>1. PICK f \in Live' \ {a} : First(f)' /\ ContentOf[f] = ContentOf[a] /\ at'[f] < t
    BY <1>6 DEF OlderFirstNext
  <2>2. at'[a] <= at'[f]
    <3>1. Trusted(f)'
      BY <2>1 DEF First
    <3> QED BY <1>6, <2>1, <3>1 DEF First
  <2>3. at'[f] \in Nat
    BY <2>1, TimesAreNumbers
  <2> QED BY <1>6, <2>1, <2>2, <2>3
<1>7. FirstLeads(c)'
  <2> SUFFICES ASSUME NEW a \in Atom, ContentOf[a] = c, First(a)', ListedInQuarantine(a)
               PROVE  FALSE
    BY <1>1, <1>5 DEF FirstLeads
  <2>1. Trusted(a)'
    BY DEF First
  <2>2. Trusted(a) /\ a \in Live /\ a \in Live'
    BY <1>1, <2>1 DEF Trusted
  <2>3. First(a) \/ OlderFirst(a, at[a])
    BY <2>2, TrustedHasFirst
  <2>4. ~First(a)
    BY DEF RankAt, FirstLeads
  <2>5. OlderFirstNext(a, at'[a]) /\ at'[a] \in Nat
    BY <1>4, <2>2, <2>3, <2>4, TimesAreNumbers
  <2> QED BY <1>6, <2>5
<1>8. ASSUME NEW a \in Atom, ContentOf[a] = c, Trusted(a)' \/ ListedTrusted(a), NEW t, Known(a, t)'
      PROVE  (First(a)' /\ at'[a] = t) \/ OlderFirstNext(a, t)
  <2>1. \/ a \in Live' /\ t = at'[a]
        \/ \E p \in Pass : a \in DOMAIN seen[p] /\ t = seen[p][a].at
    BY <1>8 DEF Known
  <2>2. ASSUME Known(a, t), Trusted(a) \/ ListedTrusted(a)
        PROVE  (First(a)' /\ at'[a] = t) \/ OlderFirstNext(a, t)
    <3>1. (First(a) /\ at[a] = t) \/ OlderFirst(a, t)
      BY <1>8, <2>2 DEF RankAt, TrustedRanked
    <3>2. First(a) => a \in Live
      BY DEF First, Trusted
    <3> QED BY <1>3, <1>4, <1>8, <3>1, <3>2 DEF FirstStays
  <2>3. CASE Trusted(a)
    <3>1. a \in Live
      BY <2>3 DEF Trusted
    <3>2. Known(a, t)
      BY <2>1, <3>1 DEF Known
    <3> QED BY <2>2, <2>3, <3>2
  <2>4. CASE ListedTrusted(a) /\ ~Trusted(a)
    <3>1. CASE Known(a, t)
      BY <2>2, <2>4, <3>1
    <3>2. CASE ~Known(a, t)
      <4>1. a \in Live' /\ t = at'[a] /\ a \notin Live
        BY <2>1, <3>2 DEF Known
      <4>2. PICK p \in Pass : a \in DOMAIN seen[p] /\ seen[p][a].lane = "trusted"
        BY <2>4 DEF ListedTrusted
      <4>3. Known(a, seen[p][a].at)
        BY <4>2 DEF Known
      <4>4. OlderFirst(a, seen[p][a].at)
        BY <1>8, <2>4, <4>1, <4>3 DEF RankAt, TrustedRanked, First, Trusted
      <4>5. OlderFirst(a, clock)
        BY <4>4, TimesAreNumbers DEF OlderFirst
      <4> QED BY <1>4, <1>8, <4>1, <4>5
    <3> QED BY <3>1, <3>2
  <2>5. CASE ~Trusted(a) /\ ~ListedTrusted(a)
    <3>1. Trusted(a)' /\ a \in Live' /\ a = x /\ ~ListedInQuarantine(a)
      BY <1>1, <1>2, <1>8, <2>5
    <3>2. \A p \in Pass : a \notin DOMAIN seen[p]
      BY <2>5, <3>1, TimesAreNumbers DEF ListedTrusted, ListedInQuarantine, Lane
    <3>3. t = at'[a] /\ t \in Nat
      BY <2>1, <3>1, <3>2, TimesAreNumbers
    <3>4. CASE \E f \in Live : First(f) /\ ContentOf[f] = c
      <4>1. PICK f \in Live : First(f) /\ ContentOf[f] = c
        BY <3>4
      <4>2. f \in Live' /\ First(f)' /\ at'[f] = at[f] /\ f # a
        BY <1>3, <2>5, <4>1 DEF FirstStays, First
      <4>3. at'[f] <= at'[a]
        BY <1>8, <3>1, <4>1, <4>2 DEF First
      <4>4. at[f] # at'[a]
        <5>1. CASE a \in Live
          <6>1. TimesDiffer(Live)
            BY RowTimesDiffer
          <6> QED BY <3>1, <4>1, <4>2, <5>1, <6>1 DEF TimesDiffer
        <5>2. CASE a \notin Live
          BY <3>1, <4>1, <5>2, TimesAreNumbers
        <5> QED BY <5>1, <5>2
      <4>5. at'[f] < t
        BY <3>3, <4>1, <4>2, <4>3, <4>4, TimesAreNumbers
      <4> QED BY <1>8, <4>1, <4>2, <4>5 DEF OlderFirstNext
    <3>5. CASE ~ \E f \in Live : First(f) /\ ContentOf[f] = c
      <4>1. \A b \in Live : ContentOf[b] = c => ~Trusted(b)
        BY <3>5, FirstExists
      <4>2. ASSUME NEW b \in Live', Trusted(b)', ContentOf[b] = c
            PROVE  b = a
        <5>1. Trusted(b) => b \in Live
          BY DEF Trusted
        <5> QED BY <1>2, <3>1, <4>1, <4>2, <5>1
      <4>3. at'[a] <= at'[a]
        BY <3>3
      <4>4. \A b \in Live' : Trusted(b)' /\ ContentOf[b] = ContentOf[a] => at'[a] <= at'[b]
        BY <1>8, <4>2, <4>3
      <4>5. First(a)'
        BY <3>1, <4>4 DEF First
      <4> QED BY <3>3, <4>5
    <3> QED BY <3>4, <3>5
  <2> QED BY <2>3, <2>4, <2>5
<1>9. TrustedRanked(c)'
  BY <1>5, <1>8 DEF TrustedRanked, OlderFirst, OlderFirstNext
<1>10. GroupsRanked(c)'
  BY <1>3 DEF RankAt, GroupsRanked, FirstStays
<1> QED BY <1>7, <1>9, <1>10 DEF RankAt

\* What a writer's step leaves is ranked, where it displaces nothing.
LEMMA WriterRanks ==
    ASSUME JobsInv, JobsInv', Writer, NEW c, c \notin Disturbed, RankAt(c)
    PROVE  RankAt(c)'
<1>1. Live' \subseteq Atom
  BY DEF JobsInv, JobsTypeOK, AtomStoreTypeOK
<1>2. ASSUME NEW x, seen' = seen, groups' = groups,
             \A b \in Live' \cap Live : at'[b] = at[b],
             \A b \in Live' \ Live : at'[b] = clock,
             \A b \in Live' : b # x /\ row'[b].lane = "trusted" => Trusted(b)
      PROVE  RankAt(c)'
  BY <1>1, <1>2, WriterKeepsRank
<1>3. ASSUME NEW a \in Atom, row' = row \/ (Live' = Live /\ \A b \in Live \ {a} : row'[b].lane = row[b].lane),
             at' = at, seen' = seen, groups' = groups
      PROVE  RankAt(c)'
  <2>1. Live' = Live /\ \A b \in Live \ {a} : row'[b].lane = row[b].lane
    BY <1>3 DEF Live
  <2>2. \A b \in Live' : b # a /\ row'[b].lane = "trusted" => Trusted(b)
    BY <2>1 DEF Trusted
  <2>3. Live' \ Live = {}
    BY <2>1
  <2> QED BY <1>2, <1>3, <2>2, <2>3
<1>4. ASSUME NEW a \in Atom, WriterGates(a) PROVE RankAt(c)'
  <2>1. row' = row /\ at' = at /\ seen' = seen /\ groups' = groups
    BY <1>4 DEF WriterGates, rowVars, storeVars, passVars
  <2> QED BY <1>3, <2>1
<1>5. ASSUME NEW a \in Atom, WriterMarks(a) PROVE RankAt(c)'
  <2>1. at' = at /\ seen' = seen /\ groups' = groups
    BY <1>5 DEF WriterMarks, passVars
  <2>2. PICK ids \in SUBSET (Declares[a] \cap Live) : MarkSuperseded(ids, a)
    BY <1>5 DEF WriterMarks
  <2>3. Live' = Live /\ \A b \in Live : row'[b].lane = row[b].lane
    BY <2>2, CopiesMarked DEF JobsInv
  <2> QED BY <1>3, <2>1, <2>3
<1>6. ASSUME NEW a \in Atom, OperatorPromotes(a) PROVE RankAt(c)'
  <2>1. at' = at /\ seen' = seen /\ groups' = groups
    BY <1>6 DEF OperatorPromotes, passVars
  <2>2. Live' = Live /\ \A b \in Live \ {a} : row'[b] = row[b]
    BY <1>6, OnePromoted DEF OperatorPromotes, JobsInv
  <2> QED BY <1>3, <2>1, <2>2
<1>7. ASSUME NEW a \in Atom, WriterWrites(a) PROVE RankAt(c)'
  <2>1. /\ seen' = seen /\ groups' = groups
        /\ at' = [b \in Live \cup {a} |-> IF b \in Live THEN at[b] ELSE clock]
    BY <1>7 DEF WriterWrites, passVars
  <2>2. Live' = Live \cup {a} /\ \A b \in Live \ {a} : row'[b] = row[b]
    BY <1>7, WriteFacts DEF WrittenRow
  <2>3. \A b \in Live' : b # a /\ row'[b].lane = "trusted" => Trusted(b)
    BY <2>2 DEF Trusted
  <2> QED BY <1>2, <2>1, <2>2, <2>3
<1>8. ASSUME NEW s \in Source, FullSyncDeletes(s) PROVE RankAt(c)'
  <2>1. seen' = seen /\ groups' = groups
    BY <1>8 DEF FullSyncDeletes, passVars
  <2>2. Live' \subseteq Live /\ \A b \in Live' : row'[b] = row[b] /\ at'[b] = at[b]
    BY <1>8, DeleteFacts
  <2>3. \A b \in Live' : b # NoOne /\ row'[b].lane = "trusted" => Trusted(b)
    BY <2>2 DEF Trusted
  <2>4. Live' \ Live = {}
    BY <2>2
  <2> QED BY <1>2, <2>1, <2>2, <2>3, <2>4
<1> QED BY <1>4, <1>5, <1>6, <1>7, <1>8 DEF Writer

\* What a pass adds to its list is as the rows are.
LEMMA ListsKeepRank ==
    ASSUME NEW c, FirstLeads(c), TrustedRanked(c), row' = row, at' = at,
           \A q \in Pass : \A a \in DOMAIN seen'[q] :
               \/ a \in DOMAIN seen[q] /\ seen'[q][a] = seen[q][a]
               \/ a \in Live /\ seen'[q][a] = SnapshotOf(a)
    PROVE  /\ FirstLeads(c)' /\ TrustedRanked(c)'
           /\ GroupsRanked(c) /\ groups' \subseteq groups => GroupsRanked(c)'
<1>1. /\ Live' = Live
      /\ \A a : (First(a)' <=> First(a)) /\ (Trusted(a)' <=> Trusted(a))
  BY DEF Live, First, Trusted
<1>2. \A a \in Live : SnapshotOf(a).lane = row[a].lane /\ SnapshotOf(a).at = at[a]
  BY DEF SnapshotOf
<1>3. ASSUME NEW a, ListedInQuarantine(a)', First(a)
      PROVE  ListedInQuarantine(a)
  <2>1. PICK p \in Pass : a \in DOMAIN seen'[p] /\ seen'[p][a].lane = "quarantine"
    BY <1>3 DEF ListedInQuarantine
  <2>2. row[a].lane = "trusted"
    BY <1>3 DEF First, Trusted
  <2>3. a \in DOMAIN seen[p] /\ seen'[p][a] = seen[p][a]
    BY <1>2, <2>1, <2>2
  <2> QED BY <2>1, <2>3 DEF ListedInQuarantine
<1>4. FirstLeads(c)'
  BY <1>1, <1>3 DEF FirstLeads
<1>5. ASSUME NEW a, ListedTrusted(a)'
      PROVE  Trusted(a) \/ ListedTrusted(a)
  <2>1. PICK p \in Pass : a \in DOMAIN seen'[p] /\ seen'[p][a].lane = "trusted"
    BY <1>5 DEF ListedTrusted
  <2>2. CASE a \in DOMAIN seen[p] /\ seen'[p][a] = seen[p][a]
    BY <2>1, <2>2 DEF ListedTrusted
  <2>3. CASE a \in Live /\ seen'[p][a] = SnapshotOf(a)
    BY <1>2, <2>1, <2>3 DEF Trusted
  <2> QED BY <2>1, <2>2, <2>3
<1>6. ASSUME NEW a, NEW t, Known(a, t)'
      PROVE  Known(a, t)
  BY <1>1, <1>2, <1>6 DEF Known
<1>7. \A a, t : OlderFirst(a, t)' <=> OlderFirst(a, t)
  BY <1>1 DEF OlderFirst
<1>8. TrustedRanked(c)'
  BY <1>1, <1>5, <1>6, <1>7 DEF TrustedRanked
<1>9. GroupsRanked(c) /\ groups' \subseteq groups => GroupsRanked(c)'
  BY <1>1 DEF GroupsRanked
<1> QED BY <1>4, <1>8, <1>9

\* A step of a job that keeps the first copy, shown, and makes nothing trusted but
\* what was, or what a pass remembers as such.
LEMMA JobKeepsRank ==
    ASSUME JobsInv', NEW c, RankAt(c), FirstStays(c), seen' = seen, groups' \subseteq groups,
           \A f \in Live : First(f) /\ ContentOf[f] = c => row'[f].superseded_by = NoOne,
           \A a \in Atom : Trusted(a)' => Trusted(a) \/ ListedTrusted(a),
           \A b \in Live' : Known(b, at'[b])
    PROVE  RankAt(c)'
<1>1. \A b \in Live' : b \in Atom /\ at'[b] \in Nat
  BY ConsolidationFacts DEF JobsInv, JobsTypeOK, AtomStoreTypeOK
<1>2. \A a : First(a)' => Trusted(a)' /\ a \in Live'
  BY DEF First, Trusted
<1>3. \A a, t : ContentOf[a] = c /\ OlderFirst(a, t) => OlderFirstNext(a, t)
  BY DEF FirstStays, OlderFirst, OlderFirstNext
<1>4. \A a : (ListedTrusted(a)' <=> ListedTrusted(a)) /\ (ListedInQuarantine(a)' <=> ListedInQuarantine(a))
  BY DEF ListedTrusted, ListedInQuarantine
<1>5. ASSUME NEW a \in Atom, ContentOf[a] = c, Trusted(a)' \/ ListedTrusted(a), NEW t, Known(a, t)'
      PROVE  \/ a \in Live /\ First(a) /\ First(a)' /\ at'[a] = t
             \/ OlderFirstNext(a, t)
  <2>1. Trusted(a) \/ ListedTrusted(a)
    BY <1>5
  <2>2. Known(a, t)
    <3>1. CASE a \in Live' /\ t = at'[a]
      BY <3>1
    <3>2. CASE \E p \in Pass : a \in DOMAIN seen[p] /\ t = seen[p][a].at
      BY <3>2 DEF Known
    <3> QED BY <1>5, <3>1, <3>2 DEF Known
  <2>3. (First(a) /\ at[a] = t) \/ OlderFirst(a, t)
    BY <1>5, <2>1, <2>2 DEF RankAt, TrustedRanked
  <2>4. First(a) => a \in Live
    BY DEF First, Trusted
  <2> QED BY <1>3, <1>5, <2>3, <2>4 DEF FirstStays
<1>6. ASSUME NEW a \in Atom, ContentOf[a] = c, First(a)'
      PROVE  a \in Live /\ First(a)
  <2>1. a \in Live' /\ Trusted(a)' /\ at'[a] \in Nat
    BY <1>1, <1>2, <1>6
  <2>2. PICK t : t = at'[a]
    OBVIOUS
  <2>3. Known(a, t)'
    BY <2>1, <2>2 DEF Known
  <2>4. ~OlderFirstNext(a, t)
    <3> SUFFICES ASSUME OlderFirstNext(a, t) PROVE FALSE
      OBVIOUS
    <3>1. PICK f \in Live' \ {a} : First(f)' /\ ContentOf[f] = ContentOf[a] /\ at'[f] < at'[a]
      BY <2>2 DEF OlderFirstNext
    <3>2. at'[a] <= at'[f]
      BY <1>2, <1>6, <3>1 DEF First
    <3>3. at'[f] \in Nat
      BY <1>1, <3>1
    <3> QED BY <2>1, <3>1, <3>2, <3>3
  <2> QED BY <1>5, <1>6, <2>1, <2>3, <2>4
<1>7. FirstLeads(c)'
  <2> SUFFICES ASSUME NEW a \in Atom, ContentOf[a] = c, First(a)'
               PROVE  row'[a].superseded_by = NoOne /\ ~ListedInQuarantine(a)
    BY <1>4 DEF FirstLeads
  <2>1. a \in Live /\ First(a)
    BY <1>6
  <2> QED BY <2>1 DEF RankAt, FirstLeads
<1>8. TrustedRanked(c)'
  BY <1>4, <1>5 DEF TrustedRanked, OlderFirst, OlderFirstNext
<1>9. GroupsRanked(c)'
  BY DEF RankAt, GroupsRanked, FirstStays
<1> QED BY <1>7, <1>8, <1>9 DEF RankAt

\* A merge deletes no first copy and quarantines none: its list has the first copy
\* in the trusted lane and, whatever else it has there, as the older one.
LEMMA MergeSparesFirst ==
    ASSUME JobsInv, NEW c, RankAt(c), NEW p \in Pass, NEW ij, NEW s, NEW l,
           MergesPair(p, ij, s, l)
    PROVE  /\ ContentOf[l] = c => ~First(l)
           /\ ContentOf[s] = c /\ First(s) => seen[p][s].lane = "trusted"
<1>1. /\ s # l /\ s \in Atom /\ l \in Atom /\ s \in DOMAIN seen[p] /\ l \in DOMAIN seen[p]
      /\ AutoMergeable(p, s, l)
      /\ \/ seen[p][s].lane = "trusted" /\ seen[p][l].lane = "quarantine"
         \/ seen[p][s].lane = seen[p][l].lane /\ seen[p][s].at < seen[p][l].at
  BY DEF MergesPair
<1>2. \A x \in {s, l} : /\ seen[p][x].lane \in {"trusted", "quarantine"} /\ seen[p][x].at \in Nat
                        /\ Known(x, seen[p][x].at)
  BY <1>1, TimesAreNumbers DEF Lane, Known
<1>3. ASSUME NEW x \in {s, l}, ContentOf[x] = c, First(x)
      PROVE  seen[p][x].lane = "trusted"
  <2>1. ~ListedInQuarantine(x)
    BY <1>1, <1>3 DEF RankAt, FirstLeads
  <2> QED BY <1>1, <1>2, <1>3, <2>1 DEF ListedInQuarantine
<1>4. ASSUME NEW x \in {s, l}, ContentOf[x] = c, seen[p][x].lane = "trusted"
      PROVE  (First(x) /\ at[x] = seen[p][x].at) \/ OlderFirst(x, seen[p][x].at)
  <2>1. ListedTrusted(x)
    BY <1>1, <1>4 DEF ListedTrusted
  <2> QED BY <1>1, <1>2, <1>4, <2>1 DEF RankAt, TrustedRanked
<1>5. ASSUME ContentOf[l] = c, First(l) PROVE FALSE
  <2>1. seen[p][l].lane = "trusted" /\ l \in Live
    BY <1>3, <1>5 DEF First, Trusted
  <2>2. seen[p][s].lane = "trusted" /\ seen[p][s].at < seen[p][l].at
    BY <1>1, <2>1
  <2>3. ContentOf[s] = c
    BY <1>1, <1>5, <2>1, <2>2 DEF AutoMergeable
  <2>4. at[l] = seen[p][l].at
    <3>1. ~OlderFirst(l, seen[p][l].at)
      BY <1>5, <2>1, FirstIsOne DEF OlderFirst
    <3> QED BY <1>4, <1>5, <2>1, <3>1
  <2>5. ~(First(s) /\ at[s] = seen[p][s].at)
    <3>1. First(s) => s \in Live
      BY DEF First, Trusted
    <3> QED BY <1>1, <1>5, <2>1, <2>3, <3>1, FirstIsOne
  <2>6. OlderFirst(s, seen[p][s].at)
    BY <1>4, <2>2, <2>3, <2>5
  <2>7. PICK f \in Live : First(f) /\ ContentOf[f] = ContentOf[s] /\ at[f] < seen[p][s].at
    BY <2>6 DEF OlderFirst
  <2>8. f = l
    BY <1>5, <2>1, <2>3, <2>7, FirstIsOne
  <2>9. at[l] \in Nat /\ seen[p][s].at \in Nat /\ seen[p][l].at \in Nat
    BY <1>2, <2>1, TimesAreNumbers
  <2> QED BY <2>2, <2>4, <2>7, <2>8, <2>9
<1> QED BY <1>3, <1>5

\* A merge keeps the first copy, even one that revives a row from an old list.
LEMMA MergesKeepRank ==
    ASSUME JobsInv, JobsInv', NEW c, RankAt(c), NEW p \in Pass, PassMerges(p)
    PROVE  FirstStays(c) /\ RankAt(c)'
<1>1. PICK ij, s, l : MergesPair(p, ij, s, l)
  BY MergeHasPair
<1>2. /\ ContentOf[l] = c => ~First(l)
      /\ ContentOf[s] = c /\ First(s) => seen[p][s].lane = "trusted"
  BY <1>1, MergeSparesFirst
<1>3. /\ Live' = (Live \cup {s}) \ {l}
      /\ \A b \in Live \ {s, l} : row'[b] = row[b]
      /\ row'[s].lane = seen[p][s].lane
      /\ s \in Live => row'[s].superseded_by = row[s].superseded_by
  BY <1>1, MergeFacts
<1>4. /\ s \in Atom /\ s # l /\ s \in DOMAIN seen[p] /\ seen' = seen /\ groups' = groups
      /\ at' = [x \in (Live \cup {s}) \ {l} |-> IF x \in Live THEN at[x] ELSE seen[p][x].at]
  BY <1>1 DEF MergesPair
<1>5. /\ \A b \in Live' \cap Live : at'[b] = at[b]
      /\ s \notin Live => at'[s] = seen[p][s].at
      /\ \A b \in Live' : b \in Live \/ b = s
  BY <1>3, <1>4
<1>6. \A b \in Live' : Known(b, at'[b])
  BY <1>4, <1>5 DEF Known
<1>7. \A b : Trusted(b)' => b \in Live' /\ row'[b].lane = "trusted"
  BY DEF Trusted
<1>8. \A b : Trusted(b)' => Trusted(b) \/ ListedTrusted(b)
  <2> SUFFICES ASSUME NEW b, Trusted(b)' PROVE Trusted(b) \/ ListedTrusted(b)
    OBVIOUS
  <2>1. CASE b = s
    BY <1>3, <1>4, <1>7, <2>1 DEF ListedTrusted
  <2>2. CASE b # s
    BY <1>3, <1>5, <1>7, <2>2 DEF Trusted
  <2> QED BY <2>1, <2>2
<1>9. \A b \in Live : at[b] \in Nat
  BY TimesAreNumbers
<1>10. \A b \in Live' : at'[b] \in Nat /\ b \in Atom
  BY ConsolidationFacts DEF JobsInv, JobsTypeOK, AtomStoreTypeOK
<1>11. ASSUME NEW f \in Live, First(f), ContentOf[f] = c
       PROVE  f \in Live' /\ First(f)' /\ at'[f] = at[f] /\ row'[f].superseded_by = NoOne
  <2>1. Trusted(f) /\ f \in Atom /\ f # l
    BY <1>2, <1>11, TimesAreNumbers DEF First
  <2>2. f \in Live' /\ at'[f] = at[f]
    BY <1>3, <1>5, <2>1
  <2>3. Trusted(f)'
    <3>1. row'[f].lane = "trusted"
      <4>1. CASE f = s
        BY <1>2, <1>3, <1>11, <4>1
      <4>2. CASE f # s
        BY <1>3, <2>1, <4>2 DEF Trusted
      <4> QED BY <4>1, <4>2
    <3> QED BY <2>2, <3>1 DEF Trusted
  <2>4. ASSUME NEW b \in Live', Trusted(b)', ContentOf[b] = c
        PROVE  at[f] <= at'[b]
    <3>1. Known(b, at'[b]) /\ (Trusted(b) \/ ListedTrusted(b)) /\ b \in Atom
      BY <1>6, <1>8, <1>10, <2>4
    <3>2. (First(b) /\ at[b] = at'[b]) \/ OlderFirst(b, at'[b])
      BY <2>4, <3>1 DEF RankAt, TrustedRanked
    <3>3. CASE First(b) /\ at[b] = at'[b]
      <4>1. b \in Live
        BY <3>3 DEF First, Trusted
      <4>2. b = f
        BY <1>11, <2>4, <3>3, <4>1, FirstIsOne
      <4> QED BY <1>9, <3>3, <4>2
    <3>4. CASE OlderFirst(b, at'[b])
      <4>1. PICK g \in Live : First(g) /\ ContentOf[g] = ContentOf[b] /\ at[g] < at'[b]
        BY <3>4 DEF OlderFirst
      <4>2. g = f
        BY <1>11, <2>4, <4>1, FirstIsOne
      <4> QED BY <1>9, <1>10, <2>4, <4>1, <4>2
    <3> QED BY <3>2, <3>3, <3>4
  <2>5. First(f)'
    BY <1>11, <2>2, <2>3, <2>4 DEF First
  <2>6. row'[f].superseded_by = row[f].superseded_by
    BY <1>3, <2>1
  <2>7. row[f].superseded_by = NoOne
    BY <1>11, <2>1 DEF RankAt, FirstLeads
  <2> QED BY <2>2, <2>5, <2>6, <2>7
<1>12. FirstStays(c)
  BY <1>11 DEF FirstStays
<1>13. groups' \subseteq groups
  BY <1>4
<1> QED BY <1>4, <1>6, <1>8, <1>11, <1>12, <1>13, JobKeepsRank

\* The marks of the sweep miss the first copy: it is the canonical copy of the group
\* of its content.
LEMMA SweepMarksKeepRank ==
    ASSUME JobsInv, JobsInv', GroupsAlike, NEW c, RankAt(c), NEW g \in groups, SweepMarks(g)
    PROVE  FirstStays(c) /\ RankAt(c)'
<1>1. /\ MarkSuperseded(g.dups, g.canonical) /\ at' = at /\ seen' = seen /\ groups' \subseteq groups
  BY DEF SweepMarks, passVars
<1>2. g.canonical \in Atom
  BY DEF JobsInv, JobsTypeOK
<1>3. /\ Live' = Live /\ \A b \in Live : row'[b].lane = row[b].lane
      /\ \A b \in Live : row'[b].superseded_by # row[b].superseded_by
                             => b \in g.dups /\ b # g.canonical
  BY <1>1, <1>2, CopiesMarked DEF JobsInv
<1>4. \A a : (Trusted(a)' <=> Trusted(a)) /\ (First(a)' <=> First(a))
  BY <1>1, <1>3 DEF Trusted, First
<1>5. FirstStays(c)
  BY <1>1, <1>3, <1>4 DEF FirstStays
<1>6. ASSUME NEW f \in Live, First(f), ContentOf[f] = c
      PROVE  row'[f].superseded_by = NoOne
  <2>1. row[f].superseded_by = NoOne
    BY <1>6, TimesAreNumbers DEF RankAt, FirstLeads
  <2>2. ASSUME f \in g.dups PROVE f = g.canonical
    <3>1. ContentOf[g.canonical] = c
      BY <1>6, <2>2 DEF GroupsAlike
    <3>2. g.canonical \in Live /\ First(g.canonical)
      BY <3>1 DEF RankAt, GroupsRanked
    <3> QED BY <1>6, <3>1, <3>2, FirstIsOne
  <2> QED BY <1>3, <2>1, <2>2
<1>7. \A b \in Live' : Known(b, at'[b])
  BY <1>1, <1>3 DEF Known
<1> QED BY <1>1, <1>4, <1>5, <1>6, <1>7, JobKeepsRank

\* The sweep lists the first copy as the canonical one.
LEMMA SweepListsRank ==
    ASSUME JobsInv, NEW c, RankAt(c), SweepLists
    PROVE  RankAt(c)'
<1>1. /\ row' = row /\ at' = at /\ seen' = seen
      /\ groups' = {SweepGroup(d) : d \in {e \in Content : Cardinality(VisibleCopies(e)) > 1}}
  BY DEF SweepLists, rowVars, storeVars, passVars
<1>2. FirstLeads(c)' /\ TrustedRanked(c)'
  BY <1>1, ListsKeepRank DEF RankAt
<1>3. Live' = Live /\ \A a : First(a)' <=> First(a)
  BY <1>1 DEF Live, First, Trusted
<1>4. ASSUME NEW g \in groups', ContentOf[g.canonical] = c
      PROVE  g.canonical \in Live /\ First(g.canonical)
  <2>1. PICK d \in Content : Cardinality(VisibleCopies(d)) > 1 /\ g = SweepGroup(d)
    BY <1>1
  <2>2. PICK k : k = g.canonical
    OBVIOUS
  <2>3. k \in VisibleCopies(d) /\ \A b \in VisibleCopies(d) : at[k] <= at[b]
    BY <2>1, <2>2, SweepGroupFacts
  <2>4. k \in Live /\ Trusted(k) /\ ContentOf[k] = d /\ d = c
    BY <1>4, <2>2, <2>3 DEF VisibleCopies, Visible
  <2>5. PICK f \in Live : First(f) /\ ContentOf[f] = c /\ at[f] <= at[k]
    BY <2>4, FirstExists
  <2>6. f \in VisibleCopies(d)
    <3>1. row[f].superseded_by = NoOne
      BY <2>5, TimesAreNumbers DEF RankAt, FirstLeads
    <3> QED BY <2>4, <2>5, <3>1 DEF VisibleCopies, Visible, First
  <2>7. f = k
    <3>1. at[k] <= at[f] /\ TimesDiffer(Live)
      BY <2>3, <2>6, RowTimesDiffer
    <3> QED BY <2>4, <2>5, <3>1 DEF TimesDiffer
  <2> QED BY <2>2, <2>4, <2>5, <2>7
<1>5. GroupsRanked(c)'
  BY <1>3, <1>4 DEF GroupsRanked
<1> QED BY <1>2, <1>5 DEF RankAt

\* Every step of a job keeps the ranks.
LEMMA JobRanks ==
    ASSUME JobsInv, JobsInv', GroupsAlike, NEW c, RankAt(c), Job
    PROVE  RankAt(c)'
<1>1. FirstLeads(c) /\ TrustedRanked(c) /\ GroupsRanked(c)
  BY DEF RankAt
<1>2. ASSUME row' = row, at' = at, groups' \subseteq groups,
             \A q \in Pass : \A a \in DOMAIN seen'[q] :
                 \/ a \in DOMAIN seen[q] /\ seen'[q][a] = seen[q][a]
                 \/ a \in Live /\ seen'[q][a] = SnapshotOf(a)
      PROVE  RankAt(c)'
  BY <1>1, <1>2, ListsKeepRank DEF RankAt
<1>3. ASSUME NEW p \in Pass, ListsAnew(p), row' = row, at' = at, groups' = groups
      PROVE  RankAt(c)'
  <2>1. PICK s, sn : Listing(p, s, sn) /\ seen' = [seen EXCEPT ![p] = sn]
    BY <1>3 DEF ListsAnew
  <2>2. DOMAIN sn = ToSet(s) /\ DOMAIN seen = Pass
    BY <2>1 DEF Listing, JobsInv, PassTables
  <2>3. ASSUME NEW q \in Pass, NEW a \in DOMAIN seen'[q]
        PROVE  \/ a \in DOMAIN seen[q] /\ seen'[q][a] = seen[q][a]
               \/ a \in Live /\ seen'[q][a] = SnapshotOf(a)
    <3>1. CASE q = p
      <4>1. seen'[q] = sn
        BY <2>1, <2>2, <3>1
      <4> QED BY <2>1, <2>2, <2>3, <3>1, <4>1 DEF Listing
    <3>2. CASE q # p
      BY <2>1, <2>2, <2>3, <3>2
    <3> QED BY <3>1, <3>2
  <2> QED BY <1>2, <1>3, <2>3
<1>4. ASSUME NEW p \in Pass, PassStarts(p) \/ PassGoesOn(p) \/ PassStops(p)
      PROVE  RankAt(c)'
  <2>1. CASE PassStarts(p)
    <3>1. PICK cutoff \in 0..MaxClock : PassListsCandidates(p, cutoff)
      BY <2>1 DEF PassStarts
    <3>2. ListsAnew(p) /\ row' = row /\ at' = at /\ groups' = groups
      BY <3>1, ListsCandidatesKeepsJobs DEF PassListsCandidates, rowVars, storeVars
    <3> QED BY <1>3, <3>2
  <2>2. CASE PassListsTrusted(p)
    <3>1. ListsAnew(p) /\ row' = row /\ at' = at /\ groups' = groups
      BY <2>2, ListsTrustedKeepsJobs DEF PassListsTrusted, rowVars, storeVars
    <3> QED BY <1>3, <3>1
  <2>3. CASE PassQueues(p)
    <3>1. row' = row /\ at' = at /\ groups' = groups /\ seen' = seen
      BY <2>3 DEF PassQueues, rowVars, storeVars
    <3> QED BY <1>2, <3>1
  <2>4. CASE PassMerges(p)
    BY <2>4, MergesKeepRank
  <2>5. CASE PassEnds(p) \/ PassStops(p)
    <3>1. PassIsOver(p)
      BY <2>5 DEF PassEnds, PassStops
    <3>2. row' = row /\ at' = at /\ groups' = groups /\ seen' = [seen EXCEPT ![p] = <<>>]
      BY <3>1 DEF PassIsOver, rowVars, storeVars
    <3>3. \A q \in Pass : \A a \in DOMAIN seen'[q] : a \in DOMAIN seen[q] /\ seen'[q][a] = seen[q][a]
      <4>1. DOMAIN <<>> = {}
        OBVIOUS
      <4> QED BY <3>2, <4>1 DEF JobsInv, PassTables
    <3> QED BY <1>2, <3>2, <3>3
  <2> QED BY <1>4, <2>1, <2>2, <2>3, <2>4, <2>5 DEF PassGoesOn
<1>5. CASE Sweep
  <2>1. ASSUME NEW g \in groups, SweepMarks(g) PROVE RankAt(c)'
    BY <2>1, SweepMarksKeepRank
  <2> QED BY <1>5, <2>1, SweepListsRank DEF Sweep
<1>6. CASE SweepStops
  <2>1. row' = row /\ at' = at /\ groups' = {} /\ seen' = seen
    BY <1>6 DEF SweepStops, rowVars, storeVars, passVars
  <2> QED BY <1>2, <2>1
<1> QED BY <1>4, <1>5, <1>6 DEF Job

\* A group is of one content.
LEMMA GroupsStayAlike ==
    ASSUME JobsInv, GroupsAlike, [Next]_vars
    PROVE  GroupsAlike'
<1>1. ASSUME groups' \subseteq groups PROVE GroupsAlike'
  BY <1>1 DEF GroupsAlike
<1>2. CASE SweepLists
  <2>1. groups' = {SweepGroup(d) : d \in {e \in Content : Cardinality(VisibleCopies(e)) > 1}}
    BY <1>2 DEF SweepLists
  <2>2. ASSUME NEW g \in groups', NEW b \in g.dups
        PROVE  b # g.canonical /\ ContentOf[b] = ContentOf[g.canonical]
    <3>1. PICK d \in Content : Cardinality(VisibleCopies(d)) > 1 /\ g = SweepGroup(d)
      BY <2>1
    <3>2. PICK k, ds : k = g.canonical /\ ds = g.dups
      OBVIOUS
    <3>3. k \in VisibleCopies(d) /\ ds = VisibleCopies(d) \ {k}
      BY <3>1, <3>2, SweepGroupFacts
    <3>4. b \in VisibleCopies(d) /\ b # k
      BY <2>2, <3>2, <3>3
    <3> QED BY <3>2, <3>3, <3>4 DEF VisibleCopies
  <2> QED BY <2>2 DEF GroupsAlike
<1>3. ASSUME NEW g \in groups, SweepMarks(g) PROVE GroupsAlike'
  BY <1>1, <1>3 DEF SweepMarks
<1>4. CASE SweepStops
  BY <1>1, <1>4 DEF SweepStops
<1>5. CASE Writer
  BY <1>1, <1>5 DEF Writer, WriterGates, WriterWrites, WriterMarks, OperatorPromotes, FullSyncDeletes
<1>6. ASSUME NEW p \in Pass, PassStarts(p) \/ PassGoesOn(p) \/ PassStops(p)
      PROVE  GroupsAlike'
  <2>1. CASE PassMerges(p)
    <3>1. groups' = groups
      BY <2>1 DEF PassMerges
    <3> QED BY <1>1, <3>1
  <2>2. CASE PassStarts(p) \/ PassListsTrusted(p) \/ PassQueues(p) \/ PassEnds(p) \/ PassStops(p)
    <3>1. groups' = groups
      BY <2>2 DEF PassStarts, PassListsCandidates, PassListsTrusted, PassQueues, PassEnds,
                  PassStops, PassIsOver
    <3> QED BY <1>1, <3>1
  <2> QED BY <1>6, <2>1, <2>2 DEF PassGoesOn
<1>7. CASE UNCHANGED vars
  BY <1>1, <1>7 DEF vars
<1> QED BY <1>2, <1>3, <1>4, <1>5, <1>6, <1>7 DEF Next, Job, Sweep

\* Every step keeps the ranks of the contents that no writer has displaced, or puts
\* them in order.
LEMMA RankStep ==
    ASSUME JobsInv, JobsInv', RankInv, [Next]_vars
    PROVE  RankOrOrder'
<1>1. GroupsAlike'
  BY GroupsStayAlike DEF RankInv
<1>2. ASSUME NEW c \in Content, c \notin displaced'
      PROVE  RankAt(c)' \/ InOrder(c)'
  <2>1. CASE Writer /\ Disturbs
    <3>1. (c \notin displaced /\ c \notin Disturbed) \/ InOrder(c)'
      BY <1>2, <2>1 DEF Disturbs
    <3> QED BY <2>1, <3>1, WriterRanks DEF RankInv
  <2>2. CASE Job /\ Settles
    <3>1. c \notin displaced \/ InOrder(c)'
      BY <1>2, <2>2 DEF Settles
    <3> QED BY <2>2, <3>1, JobRanks DEF RankInv
  <2>3. CASE UNCHANGED vars
    <3>1. row' = row /\ at' = at /\ groups' = groups /\ seen' = seen /\ displaced' = displaced
      BY <2>3 DEF vars, rowVars, storeVars, passVars
    <3>2. FirstLeads(c) /\ TrustedRanked(c) /\ GroupsRanked(c)
      BY <1>2, <3>1 DEF RankInv, RankAt
    <3> QED BY <3>1, <3>2, ListsKeepRank DEF RankAt
  <2> QED BY <2>1, <2>2, <2>3 DEF Next
<1> QED BY <1>1, <1>2 DEF RankOrOrder

\* What is in order is ranked.
LEMMA OrderIsRanked ==
    JobsInv /\ RankOrOrder => RankInv
<1> SUFFICES ASSUME JobsInv, RankOrOrder PROVE RankInv
  OBVIOUS
<1>1. \A c \in Content \ displaced : RankAt(c)
  BY OrderRanks DEF RankOrOrder
<1> QED BY <1>1 DEF RankInv, RankOrOrder

\* Initially there is nothing to rank.
LEMMA RankInit ==
    Init => RankInv
<1> SUFFICES ASSUME Init PROVE RankInv
  OBVIOUS
<1>1. Live = {} /\ groups = {} /\ \A p \in Pass : DOMAIN seen[p] = {}
  BY DEF Init, AtomStoreInit, Live
<1> QED BY <1>1 DEF RankInv, GroupsAlike, RankAt, FirstLeads, First, Trusted, TrustedRanked,
                    ListedTrusted, GroupsRanked

\* The ranks hold throughout.
LEMMA Ranked ==
    Spec => []RankInv
<1>1. JobsInv /\ JobsInv' /\ RankInv /\ [Next]_vars => RankOrOrder'
  BY RankStep
<1> QED BY <1>1, RankInit, OrderIsRanked, JobsInvariance, PTL DEF Spec

\* Whatever is re-indexed, deleted by a full sync, superseded or promoted beside
\* them, however many passes merge from lists of different times beside the sweep:
\* while the writers leave the first copy of a content alone, no merge and no mark
\* takes its last visible copy.
THEOREM FoldingKeepsACopy ==
    Spec => VisibleCopyRemains
<1>1. ASSUME JobsInv, JobsInv', RankInv, RankInv', [Next]_vars
      PROVE  [ (\E p \in Pass : PassMerges(p)) \/ (\E g \in groups : SweepMarks(g)) =>
                  \A c \in Content \ displaced : VisibleCopies(c) # {} => VisibleCopies(c)' # {}
             ]_vars
  <2> SUFFICES ASSUME (\E p \in Pass : PassMerges(p)) \/ (\E g \in groups : SweepMarks(g)),
                      NEW c \in Content \ displaced, VisibleCopies(c) # {}
               PROVE  VisibleCopies(c)' # {}
    OBVIOUS
  <2>1. RankAt(c) /\ GroupsAlike
    BY <1>1 DEF RankInv
  <2>2. FirstStays(c) /\ RankAt(c)'
    BY <1>1, <2>1, MergesKeepRank, SweepMarksKeepRank
  <2>3. PICK a \in Live : Trusted(a) /\ ContentOf[a] = c
    BY DEF VisibleCopies, Visible
  <2>4. PICK f \in Live : First(f) /\ ContentOf[f] = c
    BY <1>1, <2>3, FirstExists
  <2>5. f \in Live' /\ First(f)' /\ f \in Atom
    BY <1>1, <2>2, <2>4, TimesAreNumbers DEF FirstStays
  <2>6. row'[f].superseded_by = NoOne
    BY <2>2, <2>4, <2>5 DEF RankAt, FirstLeads
  <2> QED BY <2>4, <2>5, <2>6 DEF VisibleCopies, Visible, First
<1> QED BY <1>1, Ranked, JobsInvariance, PTL DEF Spec, VisibleCopyRemains

============================================================================
