---------------------------- MODULE CatalogProofs ----------------------------
(***************************************************************************)
(* Proofs about Catalog: the reference counts are exact, and what a head,  *)
(* a snapshot or a retained result owns is never collected.                *)
(***************************************************************************)
EXTENDS Catalog, FiniteSetTheorems, TLAPS

-----------------------------------------------------------------------------
(* Counting occurrences.                                                   *)

\* A table has finitely many occurrences of a chunk (Occurrences).
LEMMA OccurrencesFinite ==
    ASSUME NEW files, NEW table, NEW owners, IsFiniteSet(owners), NEW h
    PROVE  /\ IsFiniteSet(Occurrences(files, table, owners, h))
           /\ Cardinality(Occurrences(files, table, owners, h)) \in Nat
<1>1. MaxExtents \in Int
  BY NumbersAssumption
<1>2. IsFiniteSet(Extents)
  BY <1>1, FS_Interval DEF Extents
<1>3. IsFiniteSet(owners \X Extents)
  BY <1>2, FS_Product
<1>4. Occurrences(files, table, owners, h) \in SUBSET (owners \X Extents)
  BY DEF Occurrences
<1>5. IsFiniteSet(Occurrences(files, table, owners, h))
  BY <1>3, <1>4, FS_Subset
<1> QED
  BY <1>5, FS_CardinalityType

\* The occurrences of a table are those of some of its owners and those of the
\* others (Occurrences).
LEMMA OccurrencesSplit ==
    ASSUME NEW files, NEW table, NEW owners, IsFiniteSet(owners), NEW part \in SUBSET owners, NEW h
    PROVE  /\ Cardinality(Occurrences(files, table, owners, h)) =
                Cardinality(Occurrences(files, table, part, h))
                  + Cardinality(Occurrences(files, table, owners \ part, h))
           /\ Cardinality(Occurrences(files, table, part, h)) \in Nat
           /\ Cardinality(Occurrences(files, table, owners \ part, h)) \in Nat
<1> DEFINE P == Occurrences(files, table, part, h)
           R == Occurrences(files, table, owners \ part, h)
<1>1. IsFiniteSet(part) /\ IsFiniteSet(owners \ part)
  BY FS_Subset
<1>2. IsFiniteSet(P) /\ IsFiniteSet(R) /\ Cardinality(P) \in Nat /\ Cardinality(R) \in Nat
  BY <1>1, OccurrencesFinite
<1>3. P \cap R = {}
  BY DEF Occurrences
<1>4. Occurrences(files, table, owners, h) = P \cup R
  BY DEF Occurrences
<1>5. Cardinality(P \cap R) = 0
  BY <1>3, FS_EmptySet
<1>6. Cardinality(P \cup R) = Cardinality(P) + Cardinality(R) - Cardinality(P \cap R)
  BY <1>2, FS_Union
<1> QED
  BY <1>2, <1>4, <1>5, <1>6

\* Owners whose versions stay the same keep their occurrences (Occurrences).
LEMMA OccurrencesSame ==
    ASSUME NEW files, NEW files2, NEW table, NEW table2, NEW owners, NEW h,
           \A o \in owners : /\ table2[o] = table[o]
                             /\ table[o] # NoFile => files2[table[o]] = files[table[o]]
    PROVE  Occurrences(files2, table2, owners, h) = Occurrences(files, table, owners, h)
BY DEF Occurrences

\* Owners without a version have no occurrence (Occurrences).
LEMMA OccurrencesNone ==
    ASSUME NEW files, NEW table, NEW owners, NEW h, \A o \in owners : table[o] = NoFile
    PROVE  Cardinality(Occurrences(files, table, owners, h)) = 0
<1>1. Occurrences(files, table, owners, h) = {}
  BY DEF Occurrences
<1> QED
  BY <1>1, FS_EmptySet

\* An owner's occurrences are those of its version (Occurrences, Count).
LEMMA OccurrencesOne ==
    ASSUME NEW files, NEW table, NEW o, NEW h, table[o] # NoFile
    PROVE  Cardinality(Occurrences(files, table, {o}, h)) = Count(files[table[o]], h)
<1> DEFINE Here == {i \in Extents : files[table[o]][i] = h}
<1>1. MaxExtents \in Int
  BY NumbersAssumption
<1>2. IsFiniteSet(Extents)
  BY <1>1, FS_Interval DEF Extents
<1>3. IsFiniteSet(Here)
  BY <1>2, FS_Subset
<1>4. Occurrences(files, table, {o}, h) = {o} \X Here
  BY DEF Occurrences
<1>5. IsFiniteSet({o}) /\ Cardinality({o}) = 1
  BY FS_Singleton
<1>6. Cardinality({o} \X Here) = Cardinality({o}) * Cardinality(Here)
  BY <1>3, <1>5, FS_Product
<1>7. Cardinality(Here) \in Nat
  BY <1>3, FS_CardinalityType
<1>8. Cardinality({o} \X Here) = Cardinality(Here)
  <2> HIDE DEF Here
  <2> QED BY <1>5, <1>6, <1>7
<1>9. Count(files[table[o]], h) = Cardinality(Here)
  BY DEF Count
<1> QED
  BY <1>4, <1>8, <1>9

\* A version has a natural number of occurrences of a chunk (Count).
LEMMA CountType ==
    ASSUME NEW version, NEW h
    PROVE  Count(version, h) \in Nat
<1>1. MaxExtents \in Int
  BY NumbersAssumption
<1>2. IsFiniteSet(Extents)
  BY <1>1, FS_Interval DEF Extents
<1>3. IsFiniteSet({i \in Extents : version[i] = h})
  BY <1>2, FS_Subset
<1> QED
  BY <1>3, FS_CardinalityType DEF Count

\* A rename moves the source's occurrences and drops the target's (RenameFile).
LEMMA OccurrencesMoved ==
    ASSUME NEW files, NEW table, NEW table2, NEW p, NEW q, NEW h, p # q,
           table[p] # NoFile, table2[q] = table[p], table2[p] = NoFile
    PROVE  /\ Cardinality(Occurrences(files, table, {p, q}, h)) =
                Cardinality(Occurrences(files, table, {q}, h)) + Cardinality(Occurrences(files, table2, {p, q}, h))
           /\ Cardinality(Occurrences(files, table, {q}, h)) \in Nat
           /\ Cardinality(Occurrences(files, table2, {p, q}, h)) \in Nat
<1> DEFINE part == {p, q}
           moved == Count(files[table[p]], h)
           old == Cardinality(Occurrences(files, table, {q}, h))
<1>1. IsFiniteSet({p}) /\ IsFiniteSet({q})
  BY FS_Singleton
<1>2. IsFiniteSet(part)
  <2>1. part = {p} \cup {q}
    OBVIOUS
  <2> QED BY <1>1, <2>1, FS_Union, Zenon
<1>3. {q} \in SUBSET part /\ part \ {q} = {p}
  OBVIOUS
<1> HIDE DEF part
<1>4. /\ Cardinality(Occurrences(files, table, part, h)) = old + Cardinality(Occurrences(files, table, part \ {q}, h))
      /\ old \in Nat
  BY <1>2, <1>3, OccurrencesSplit
<1>5. Cardinality(Occurrences(files, table, part \ {q}, h)) = moved
  BY <1>3, OccurrencesOne
<1>6. Cardinality(Occurrences(files, table2, part, h)) =
        Cardinality(Occurrences(files, table2, {q}, h)) + Cardinality(Occurrences(files, table2, part \ {q}, h))
  BY <1>2, <1>3, OccurrencesSplit
<1>7. Cardinality(Occurrences(files, table2, part \ {q}, h)) = 0
  BY <1>3, OccurrencesNone
<1>8. Cardinality(Occurrences(files, table2, {q}, h)) = moved
  BY OccurrencesOne
<1>9. moved \in Nat
  BY CountType
<1> HIDE DEF moved, old
<1>10. /\ Cardinality(Occurrences(files, table, part, h)) = old + Cardinality(Occurrences(files, table2, part, h))
       /\ old \in Nat /\ Cardinality(Occurrences(files, table2, part, h)) \in Nat
  BY <1>4, <1>5, <1>6, <1>7, <1>8, <1>9
<1> QED
  BY <1>10, Zenon DEF part, old

\* What a change of some owners does to the occurrences in a table (adjustChunkRefs).
LEMMA TableStep ==
    ASSUME NEW files, NEW files2, NEW table, NEW table2, NEW owners, IsFiniteSet(owners),
           NEW part \in SUBSET owners, NEW h,
           \A o \in owners \ part : /\ table2[o] = table[o]
                                    /\ table[o] # NoFile => files2[table[o]] = files[table[o]]
    PROVE  /\ Cardinality(Occurrences(files2, table2, owners, h)) =
                Cardinality(Occurrences(files, table, owners, h))
                  - Cardinality(Occurrences(files, table, part, h))
                  + Cardinality(Occurrences(files2, table2, part, h))
           /\ Cardinality(Occurrences(files, table, owners, h)) \in Nat
           /\ Cardinality(Occurrences(files, table, part, h)) \in Nat
           /\ Cardinality(Occurrences(files2, table2, part, h)) \in Nat
           /\ Cardinality(Occurrences(files2, table2, owners, h)) \in Nat
           /\ Cardinality(Occurrences(files, table, part, h)) <= Cardinality(Occurrences(files, table, owners, h))
<1>1. Occurrences(files2, table2, owners \ part, h) = Occurrences(files, table, owners \ part, h)
  BY OccurrencesSame
<1>2. /\ Cardinality(Occurrences(files, table, owners, h)) =
           Cardinality(Occurrences(files, table, part, h))
             + Cardinality(Occurrences(files, table, owners \ part, h))
      /\ Cardinality(Occurrences(files, table, part, h)) \in Nat
      /\ Cardinality(Occurrences(files, table, owners \ part, h)) \in Nat
  BY OccurrencesSplit
<1>3. /\ Cardinality(Occurrences(files2, table2, owners, h)) =
           Cardinality(Occurrences(files2, table2, part, h))
             + Cardinality(Occurrences(files2, table2, owners \ part, h))
      /\ Cardinality(Occurrences(files2, table2, part, h)) \in Nat
  BY OccurrencesSplit
<1> QED
  BY <1>1, <1>2, <1>3

\* A table none of whose owners changes keeps its count (adjustChunkRefs).
LEMMA TableSame ==
    ASSUME NEW files, NEW files2, NEW table, NEW table2, NEW owners, IsFiniteSet(owners), NEW h,
           \A o \in owners : /\ table2[o] = table[o]
                             /\ table[o] # NoFile => files2[table[o]] = files[table[o]]
    PROVE  /\ Cardinality(Occurrences(files2, table2, owners, h)) = Cardinality(Occurrences(files, table, owners, h))
           /\ Cardinality(Occurrences(files, table, owners, h)) \in Nat
BY OccurrencesSame, OccurrencesFinite

-----------------------------------------------------------------------------
(* Types.                                                                  *)

\* The owners of each table are finitely many (file_head, snapshot_file,
\* write_result_root).
LEMMA TablesFinite ==
    /\ IsFiniteSet(Paths) /\ IsFiniteSet(Keys) /\ IsFiniteSet(Snapshots \X Paths)
    /\ \A p \in Paths : IsFiniteSet({p})
    /\ \A S \in SUBSET Keys : IsFiniteSet(S)
    /\ \A S \in SUBSET Snapshots : IsFiniteSet(S \X Paths)
<1>1. \A S \in SUBSET Snapshots : IsFiniteSet(S)
  BY FiniteAssumption, FS_Subset
<1> QED
  BY <1>1, FiniteAssumption, FS_Product, FS_Subset, FS_Singleton

\* Giving up references leaves integers (adjustChunkRefs).
LEMMA ReleasedType ==
    ASSUME refcount \in [Hashes -> Int], NEW table, NEW owners, IsFiniteSet(owners)
    PROVE  Released(table, owners) \in [Hashes -> Int]
<1>1. \A h \in Hashes : References(table, owners, h) \in Int
  BY OccurrencesFinite DEF References
<1> QED
  BY <1>1 DEF Released

\* Every transaction keeps the types of the tables.
LEMMA TypeStep == TypeOK /\ [Next]_catalogVars => TypeOK'
<1> SUFFICES ASSUME TypeOK, [Next]_catalogVars PROVE TypeOK'
  OBVIOUS
<1> USE NumbersAssumption
<1>1. ASSUME NEW k \in Keys, NEW p \in Paths, CreateWriteOp(k, p) PROVE TypeOK'
  BY <1>1 DEF TypeOK, CreateWriteOp, fileVars, snapVars, rootVars, chunkVars
<1>2. ASSUME NEW k \in Keys, NEW id \in Vlogs, ClaimVlogLease(id, k) PROVE TypeOK'
  BY <1>2 DEF TypeOK, ClaimVlogLease, fileVars, snapVars, rootVars, chunkVars, opVars
<1>3. ASSUME NEW k \in Keys, NEW state \in {"abandoned", "cancelled"}, finishPreparedWriteOp(k, state) PROVE TypeOK'
  BY <1>3 DEF TypeOK, finishPreparedWriteOp, LeasesWithout, fileVars, snapVars, rootVars, chunkVars
<1>4. ASSUME NEW k \in Keys, NEW p \in Paths, NEW version \in Versions, NEW w \in Placements(version), NEW retain \in BOOLEAN,
             CommitWriteOpVersion(k, p, version, w, retain)
      PROVE TypeOK'
  <2>1. Released(head, {p}) \in [Hashes -> Int]
    BY ReleasedType, TablesFinite DEF TypeOK
  <2>2. \A h \in Hashes : Count(version, h) \in Nat
    BY CountType
  <2>3. refcount' \in [Hashes -> Int]
    <3>1. refcount' = [h \in Hashes |->
            (IF h \in rows THEN Released(head, {p})[h] ELSE 0) + (IF retain THEN 2 ELSE 1) * Count(version, h)]
      BY <1>4 DEF CommitWriteOpVersion, PublishChunks
    <3>2. \A h \in Hashes : (IF retain THEN 2 ELSE 1) * Count(version, h) \in Int
      BY <2>2
    <3>3. \A h \in Hashes :
            (IF h \in rows THEN Released(head, {p})[h] ELSE 0) + (IF retain THEN 2 ELSE 1) * Count(version, h) \in Int
      <4> TAKE h \in Hashes
      <4> DEFINE taken    == (IF retain THEN 2 ELSE 1) * Count(version, h)
                 released == Released(head, {p})
      <4>1. taken \in Int
        BY <3>2, Zenon
      <4>2. released \in [Hashes -> Int]
        BY <2>1, Zenon
      <4> HIDE DEF taken, released
      <4>3. (IF h \in rows THEN released[h] ELSE 0) + taken \in Int
        BY <4>1, <4>2
      <4> QED
        BY <4>3, Zenon DEF released, taken
    <3> QED
      BY <3>1, <3>3, Zenon
  <2>4. rows' \subseteq Hashes /\ location' \in [Hashes -> Vlogs]
    BY <1>4 DEF CommitWriteOpVersion, PublishChunks, Placements, TypeOK
  <2>5. nextFile \in FileIds /\ nextFile' \in 1 .. MaxFiles + 1
    BY <1>4 DEF CommitWriteOpVersion, TypeOK, FileIds
  <2>6. file' \in [FileIds -> Versions \cup {NoRow}] /\ head' \in [Paths -> FileIds \cup {NoFile}]
    BY <1>4, <2>5 DEF CommitWriteOpVersion, TypeOK
  <2>7. root' \in [Keys -> FileIds \cup {NoFile}] /\ opFile' \in [Keys -> FileIds \cup {NoFile}]
    BY <1>4, <2>5 DEF CommitWriteOpVersion, TypeOK
  <2>8. deadline' \in [Keys -> Nat]
    BY <1>4 DEF CommitWriteOpVersion, TypeOK
  <2> QED
    BY <1>4, <2>3, <2>4, <2>5, <2>6, <2>7, <2>8 DEF TypeOK, CommitWriteOpVersion, LeasesWithout, snapVars
<1>5. ASSUME ExpireWriteResults PROVE TypeOK'
  <2>1. Released(root, Elapsed) \in [Hashes -> Int]
    BY ReleasedType, TablesFinite DEF TypeOK, Elapsed
  <2> QED
    BY <1>5, <2>1 DEF TypeOK, ExpireWriteResults, fileVars, snapVars
<1>6. ASSUME NEW p \in Paths, UnlinkFile(p) PROVE TypeOK'
  <2>1. Released(head, {p}) \in [Hashes -> Int]
    BY ReleasedType, TablesFinite DEF TypeOK
  <2> QED
    BY <1>6, <2>1 DEF TypeOK, UnlinkFile, Cancelled, LeasesWithout, fileVars, snapVars, rootVars
<1>7. ASSUME NEW p \in Paths, NEW q \in Paths, RenameFile(p, q) PROVE TypeOK'
  <2>1. Released(head, {q}) \in [Hashes -> Int]
    BY ReleasedType, TablesFinite DEF TypeOK
  <2> QED
    BY <1>7, <2>1 DEF TypeOK, RenameFile, Cancelled, LeasesWithout, fileVars, snapVars, rootVars
<1>8. ASSUME NEW id \in Snapshots, CreateSnapshot(id) PROVE TypeOK'
  <2>1. IsFiniteSet({id} \X Paths)
    BY TablesFinite
  <2>2. \A h \in Hashes : Cardinality(Occurrences(file, snapFile', {id} \X Paths, h)) \in Nat
    BY <2>1, OccurrencesFinite
  <2>3. refcount' \in [Hashes -> Int]
    <3>1. refcount' = [h \in Hashes |->
            IF h \in rows
            THEN refcount[h] + Cardinality(Occurrences(file, snapFile', {id} \X Paths, h))
            ELSE refcount[h]]
      BY <1>8 DEF CreateSnapshot
    <3>2. \A h \in Hashes :
            (IF h \in rows
             THEN refcount[h] + Cardinality(Occurrences(file, snapFile', {id} \X Paths, h))
             ELSE refcount[h]) \in Int
      <4> TAKE h \in Hashes
      <4> DEFINE taken == Cardinality(Occurrences(file, snapFile', {id} \X Paths, h))
      <4>1. taken \in Nat
        BY <2>2, Zenon
      <4> HIDE DEF taken
      <4>2. (IF h \in rows THEN refcount[h] + taken ELSE refcount[h]) \in Int
        BY <4>1 DEF TypeOK
      <4> QED
        BY <4>2, Zenon DEF taken
    <3> QED
      BY <3>1, <3>2, Zenon
  <2> QED
    BY <1>8, <2>3 DEF TypeOK, CreateSnapshot, fileVars, rootVars, opVars
<1>9. ASSUME NEW ids \in SUBSET Snapshots, DeleteSnapshots(ids) PROVE TypeOK'
  <2>1. Released(snapFile, ids \X Paths) \in [Hashes -> Int]
    BY ReleasedType, TablesFinite DEF TypeOK
  <2> QED
    BY <1>9, <2>1 DEF TypeOK, DeleteSnapshots, fileVars, rootVars, opVars
<1>10. ASSUME NEW pinned \in SUBSET Hashes, GCChunks(pinned) PROVE TypeOK'
  BY <1>10 DEF TypeOK, GCChunks, fileVars, snapVars, rootVars, opVars
<1>11. ASSUME GCFileVersions PROVE TypeOK'
  BY <1>11 DEF TypeOK, GCFileVersions, snapVars, rootVars, chunkVars, opVars
<1>12. ASSUME NEW id \in Vlogs, MakeVlog(id) PROVE TypeOK'
  BY <1>12 DEF TypeOK, MakeVlog, fileVars, snapVars, rootVars, chunkVars, opVars
<1>13. ASSUME NEW id \in Vlogs, RetireVlog(id) PROVE TypeOK'
  BY <1>13 DEF TypeOK, RetireVlog, fileVars, snapVars, rootVars, opVars
<1>14. ASSUME NEW h \in Hashes, NEW id \in Vlogs, RelocateChunk(h, id) PROVE TypeOK'
  BY <1>14 DEF TypeOK, RelocateChunk, fileVars, snapVars, rootVars, opVars
<1>17. ASSUME NEW k \in Keys, NEW p \in Paths, RetargetPreparedWriteOp(k, p) PROVE TypeOK'
  BY <1>17 DEF TypeOK, RetargetPreparedWriteOp, fileVars, snapVars, rootVars, chunkVars
<1>15. ASSUME Tick PROVE TypeOK'
  BY <1>15 DEF TypeOK, Tick, fileVars, snapVars, rootVars, chunkVars, opVars
<1>16. ASSUME UNCHANGED catalogVars PROVE TypeOK'
  BY <1>16 DEF TypeOK, catalogVars, fileVars, snapVars, rootVars, chunkVars, opVars
<1> QED
  BY <1>1, <1>2, <1>3, <1>4, <1>5, <1>6, <1>7, <1>8, <1>9, <1>10, <1>11, <1>12, <1>13, <1>14, <1>15, <1>16, <1>17
     DEF Next, Operations, Namespace, Reclamation

-----------------------------------------------------------------------------
(* Reference counts.                                                       *)

HeadRefs == [h \in Hashes |-> References(head, Paths, h)]
SnapRefs == [h \in Hashes |-> References(snapFile, Snapshots \X Paths, h)]
RootRefs == [h \in Hashes |-> References(root, Keys, h)]

\* The three counts of a chunk are natural numbers (References).
LEMMA RefsType ==
    /\ HeadRefs \in [Hashes -> Nat] /\ SnapRefs \in [Hashes -> Nat] /\ RootRefs \in [Hashes -> Nat]
    /\ HeadRefs' \in [Hashes -> Nat] /\ SnapRefs' \in [Hashes -> Nat] /\ RootRefs' \in [Hashes -> Nat]
<1>1. \A h \in Hashes : /\ Cardinality(Occurrences(file, head, Paths, h)) \in Nat
                        /\ Cardinality(Occurrences(file, snapFile, Snapshots \X Paths, h)) \in Nat
                        /\ Cardinality(Occurrences(file, root, Keys, h)) \in Nat
  BY OccurrencesFinite, TablesFinite, Zenon
<1>2. \A h \in Hashes : /\ Cardinality(Occurrences(file', head', Paths, h)) \in Nat
                        /\ Cardinality(Occurrences(file', snapFile', Snapshots \X Paths, h)) \in Nat
                        /\ Cardinality(Occurrences(file', root', Keys, h)) \in Nat
  BY OccurrencesFinite, TablesFinite, Zenon
<1> QED
  BY <1>1, <1>2, Zenon DEF HeadRefs, SnapRefs, RootRefs, References

\* RefcountsExact of one chunk, in terms of its three counts.
LEMMA ExactParts ==
    /\ RefcountsExact <=>
         \A h \in Hashes : IF h \in rows THEN refcount[h] = HeadRefs[h] + SnapRefs[h] + RootRefs[h]
                                         ELSE HeadRefs[h] + SnapRefs[h] + RootRefs[h] = 0
    /\ RefcountsExact' <=>
         \A h \in Hashes : IF h \in rows' THEN refcount'[h] = HeadRefs'[h] + SnapRefs'[h] + RootRefs'[h]
                                          ELSE HeadRefs'[h] + SnapRefs'[h] + RootRefs'[h] = 0
BY Zenon DEF RefcountsExact, TotalReferences, HeadRefs, SnapRefs, RootRefs

\* A transaction that changes a chunk's count by what its owners gain or lose
\* keeps the count exact; one that drops the row may do so at zero only.
LEMMA ExactStep ==
    ASSUME NEW h \in Hashes, RefcountsExact, refcount[h] \in Int, NEW dH \in Int, NEW dS \in Int, NEW dR \in Int,
           HeadRefs'[h] = HeadRefs[h] + dH,
           SnapRefs'[h] = SnapRefs[h] + dS,
           RootRefs'[h] = RootRefs[h] + dR,
           h \in rows /\ h \in rows' => refcount'[h] = refcount[h] + dH + dS + dR,
           h \notin rows /\ h \in rows' => refcount'[h] = dH + dS + dR,
           h \notin rows' => dH + dS + dR = 0 /\ (h \in rows => refcount[h] <= 0)
    PROVE  IF h \in rows' THEN refcount'[h] = HeadRefs'[h] + SnapRefs'[h] + RootRefs'[h]
                          ELSE HeadRefs'[h] + SnapRefs'[h] + RootRefs'[h] = 0
<1> DEFINE a == HeadRefs[h]  b == SnapRefs[h]  c == RootRefs[h]
           x == HeadRefs'[h] y == SnapRefs'[h] z == RootRefs'[h]
<1>1. a \in Nat /\ b \in Nat /\ c \in Nat /\ x \in Nat /\ y \in Nat /\ z \in Nat
  BY RefsType
<1>2. IF h \in rows THEN refcount[h] = a + b + c ELSE a + b + c = 0
  BY ExactParts, Zenon
<1>3. x = a + dH /\ y = b + dS /\ z = c + dR
  OBVIOUS
<1> HIDE DEF a, b, c, x, y, z
<1>4. IF h \in rows' THEN refcount'[h] = x + y + z ELSE x + y + z = 0
  <2>1. CASE h \in rows'
    BY <1>1, <1>2, <1>3, <2>1
  <2>2. CASE h \notin rows'
    BY <1>1, <1>2, <1>3, <2>2
  <2> QED BY <2>1, <2>2
<1> QED
  BY <1>4, Zenon DEF x, y, z

\* The count of a table nothing of which changes.
LEMMA RefsSame ==
    ASSUME NEW h \in Hashes, UNCHANGED file
    PROVE  /\ UNCHANGED head => HeadRefs'[h] = HeadRefs[h] + 0
           /\ UNCHANGED snapFile => SnapRefs'[h] = SnapRefs[h] + 0
           /\ UNCHANGED root => RootRefs'[h] = RootRefs[h] + 0
<1>1. /\ UNCHANGED head => HeadRefs'[h] = HeadRefs[h]
      /\ UNCHANGED snapFile => SnapRefs'[h] = SnapRefs[h]
      /\ UNCHANGED root => RootRefs'[h] = RootRefs[h]
  BY Zenon DEF HeadRefs, SnapRefs, RootRefs, References, Occurrences
<1>2. HeadRefs[h] \in Int /\ SnapRefs[h] \in Int /\ RootRefs[h] \in Int
  BY RefsType
<1> QED
  BY <1>1, <1>2

\* A transaction that touches no owner and no count keeps the counts exact.
LEMMA ExactQuiet ==
    ASSUME RefcountsExact, UNCHANGED <<file, head, snapFile, root, rows, refcount>>
    PROVE  RefcountsExact'
BY Zenon DEF RefcountsExact, TotalReferences, References, Occurrences

\* The count of the heads, when some of them change (publishFileVersion, UnlinkFile,
\* RenameFile).
LEMMA HeadStep ==
    ASSUME NEW h \in Hashes, \A f \in AllOwned : file'[f] = file[f],
           NEW part \in SUBSET (Paths), \A o \in (Paths) \ part : head'[o] = head[o]
    PROVE  /\ HeadRefs'[h] = HeadRefs[h] + (Cardinality(Occurrences(file', head', part, h))
                                           - Cardinality(Occurrences(file, head, part, h)))
           /\ Cardinality(Occurrences(file, head, part, h)) \in Nat
           /\ Cardinality(Occurrences(file', head', part, h)) \in Nat
           /\ Cardinality(Occurrences(file, head, part, h)) <= HeadRefs[h]
<1> DEFINE own == Paths
<1>1. IsFiniteSet(own) /\ part \in SUBSET own
  BY TablesFinite
<1>2. \A o \in own \ part : head'[o] = head[o] /\ (head[o] # NoFile => file'[head[o]] = file[head[o]])
  BY Zenon DEF AllOwned, Owned
<1> DEFINE t == Cardinality(Occurrences(file, head, own, h))
           u == Cardinality(Occurrences(file', head', own, h))
           a == Cardinality(Occurrences(file, head, part, h))
           b == Cardinality(Occurrences(file', head', part, h))
<1>3. HeadRefs[h] = t /\ HeadRefs'[h] = u
  BY Zenon DEF HeadRefs, References
<1>4. u = t - a + b /\ t \in Nat /\ a \in Nat /\ b \in Nat /\ a <= t
  <2> HIDE DEF own
  <2>1. ASSUME NEW g, g = file' , NEW s, s = head'
        PROVE  /\ Cardinality(Occurrences(g, s, own, h)) = t - a + Cardinality(Occurrences(g, s, part, h))
               /\ t \in Nat /\ a \in Nat /\ Cardinality(Occurrences(g, s, part, h)) \in Nat /\ a <= t
    BY <1>1, <1>2, <2>1, TableStep
  <2> QED BY <2>1, Zenon
<1> HIDE DEF t, u, a, b
<1>5. HeadRefs'[h] = HeadRefs[h] + (b - a) /\ a <= HeadRefs[h]
  BY <1>3, <1>4
<1> QED
  BY <1>4, <1>5, Zenon DEF a, b

\* The count of the snapshots, when some of them change (CreateSnapshot,
\* deleteSnapshotTx).
LEMMA SnapStep ==
    ASSUME NEW h \in Hashes, \A f \in AllOwned : file'[f] = file[f],
           NEW part \in SUBSET (Snapshots \X Paths), \A o \in (Snapshots \X Paths) \ part : snapFile'[o] = snapFile[o]
    PROVE  /\ SnapRefs'[h] = SnapRefs[h] + (Cardinality(Occurrences(file', snapFile', part, h))
                                           - Cardinality(Occurrences(file, snapFile, part, h)))
           /\ Cardinality(Occurrences(file, snapFile, part, h)) \in Nat
           /\ Cardinality(Occurrences(file', snapFile', part, h)) \in Nat
           /\ Cardinality(Occurrences(file, snapFile, part, h)) <= SnapRefs[h]
<1> DEFINE own == Snapshots \X Paths
<1>1. IsFiniteSet(own) /\ part \in SUBSET own
  BY TablesFinite
<1>2. \A o \in own \ part : snapFile'[o] = snapFile[o] /\ (snapFile[o] # NoFile => file'[snapFile[o]] = file[snapFile[o]])
  BY Zenon DEF AllOwned, Owned
<1> DEFINE t == Cardinality(Occurrences(file, snapFile, own, h))
           u == Cardinality(Occurrences(file', snapFile', own, h))
           a == Cardinality(Occurrences(file, snapFile, part, h))
           b == Cardinality(Occurrences(file', snapFile', part, h))
<1>3. SnapRefs[h] = t /\ SnapRefs'[h] = u
  BY Zenon DEF SnapRefs, References
<1>4. u = t - a + b /\ t \in Nat /\ a \in Nat /\ b \in Nat /\ a <= t
  <2> HIDE DEF own
  <2>1. ASSUME NEW g, g = file' , NEW s, s = snapFile'
        PROVE  /\ Cardinality(Occurrences(g, s, own, h)) = t - a + Cardinality(Occurrences(g, s, part, h))
               /\ t \in Nat /\ a \in Nat /\ Cardinality(Occurrences(g, s, part, h)) \in Nat /\ a <= t
    BY <1>1, <1>2, <2>1, TableStep
  <2> QED BY <2>1, Zenon
<1> HIDE DEF t, u, a, b
<1>5. SnapRefs'[h] = SnapRefs[h] + (b - a) /\ a <= SnapRefs[h]
  BY <1>3, <1>4
<1> QED
  BY <1>4, <1>5, Zenon DEF a, b

\* The count of the retained results, when some of them change
\* (commitWriteOpVersion, ExpireWriteResults).
LEMMA RootStep ==
    ASSUME NEW h \in Hashes, \A f \in AllOwned : file'[f] = file[f],
           NEW part \in SUBSET (Keys), \A o \in (Keys) \ part : root'[o] = root[o]
    PROVE  /\ RootRefs'[h] = RootRefs[h] + (Cardinality(Occurrences(file', root', part, h))
                                           - Cardinality(Occurrences(file, root, part, h)))
           /\ Cardinality(Occurrences(file, root, part, h)) \in Nat
           /\ Cardinality(Occurrences(file', root', part, h)) \in Nat
           /\ Cardinality(Occurrences(file, root, part, h)) <= RootRefs[h]
<1> DEFINE own == Keys
<1>1. IsFiniteSet(own) /\ part \in SUBSET own
  BY TablesFinite
<1>2. \A o \in own \ part : root'[o] = root[o] /\ (root[o] # NoFile => file'[root[o]] = file[root[o]])
  BY Zenon DEF AllOwned, Owned
<1> DEFINE t == Cardinality(Occurrences(file, root, own, h))
           u == Cardinality(Occurrences(file', root', own, h))
           a == Cardinality(Occurrences(file, root, part, h))
           b == Cardinality(Occurrences(file', root', part, h))
<1>3. RootRefs[h] = t /\ RootRefs'[h] = u
  BY Zenon DEF RootRefs, References
<1>4. u = t - a + b /\ t \in Nat /\ a \in Nat /\ b \in Nat /\ a <= t
  <2> HIDE DEF own
  <2>1. ASSUME NEW g, g = file' , NEW s, s = root'
        PROVE  /\ Cardinality(Occurrences(g, s, own, h)) = t - a + Cardinality(Occurrences(g, s, part, h))
               /\ t \in Nat /\ a \in Nat /\ Cardinality(Occurrences(g, s, part, h)) \in Nat /\ a <= t
    BY <1>1, <1>2, <2>1, TableStep
  <2> QED BY <2>1, Zenon
<1> HIDE DEF t, u, a, b
<1>5. RootRefs'[h] = RootRefs[h] + (b - a) /\ a <= RootRefs[h]
  BY <1>3, <1>4
<1> QED
  BY <1>4, <1>5, Zenon DEF a, b

\* The count of a table that does not change (References).
LEMMA RefsKept ==
    ASSUME NEW h \in Hashes, \A f \in AllOwned : file'[f] = file[f]
    PROVE  /\ UNCHANGED head => HeadRefs'[h] = HeadRefs[h] + 0
           /\ UNCHANGED snapFile => SnapRefs'[h] = SnapRefs[h] + 0
           /\ UNCHANGED root => RootRefs'[h] = RootRefs[h] + 0
<1>1. ASSUME UNCHANGED head PROVE HeadRefs'[h] = HeadRefs[h]
  <2>1. \A o \in Paths : head'[o] = head[o] /\ (head[o] # NoFile => file'[head[o]] = file[head[o]])
    BY <1>1, Zenon DEF AllOwned, Owned
  <2>2. Occurrences(file', head', Paths, h) = Occurrences(file, head, Paths, h)
    BY <2>1 DEF Occurrences
  <2> QED BY <2>2, Zenon DEF HeadRefs, References
<1>2. ASSUME UNCHANGED snapFile PROVE SnapRefs'[h] = SnapRefs[h]
  <2>1. \A o \in Snapshots \X Paths : snapFile'[o] = snapFile[o] /\ (snapFile[o] # NoFile => file'[snapFile[o]] = file[snapFile[o]])
    BY <1>2, Zenon DEF AllOwned, Owned
  <2>2. Occurrences(file', snapFile', Snapshots \X Paths, h) = Occurrences(file, snapFile, Snapshots \X Paths, h)
    BY <2>1 DEF Occurrences
  <2> QED BY <2>2, Zenon DEF SnapRefs, References
<1>3. ASSUME UNCHANGED root PROVE RootRefs'[h] = RootRefs[h]
  <2>1. \A o \in Keys : root'[o] = root[o] /\ (root[o] # NoFile => file'[root[o]] = file[root[o]])
    BY <1>3, Zenon DEF AllOwned, Owned
  <2>2. Occurrences(file', root', Keys, h) = Occurrences(file, root, Keys, h)
    BY <2>1 DEF Occurrences
  <2> QED BY <2>2, Zenon DEF RootRefs, References
<1>4. HeadRefs[h] \in Int /\ SnapRefs[h] \in Int /\ RootRefs[h] \in Int
  BY RefsType
<1> QED
  BY <1>1, <1>2, <1>3, <1>4

\* A chunk without a row occurs nowhere (RefcountsExact).
LEMMA NoRowNoRefs ==
    ASSUME RefcountsExact, NEW h \in Hashes \ rows
    PROVE  HeadRefs[h] = 0 /\ SnapRefs[h] = 0 /\ RootRefs[h] = 0
<1> DEFINE a == HeadRefs[h]  b == SnapRefs[h]  c == RootRefs[h]
<1>1. a \in Nat /\ b \in Nat /\ c \in Nat
  BY RefsType
<1>2. a + b + c = 0
  BY ExactParts, Zenon
<1> HIDE DEF a, b, c
<1>3. a = 0 /\ b = 0 /\ c = 0
  BY <1>1, <1>2
<1> QED
  BY <1>3, Zenon DEF a, b, c

\* What adjustChunkRefs leaves of one count.
LEMMA ReleasedAt ==
    ASSUME NEW table, NEW owners, NEW h \in Hashes
    PROVE  /\ h \in rows => Released(table, owners)[h] = refcount[h] - Cardinality(Occurrences(file, table, owners, h))
           /\ h \notin rows => Released(table, owners)[h] = refcount[h]
BY Zenon DEF Released, References

\* Every transaction keeps the reference counts exact.
LEMMA CountsStep == CatalogInv /\ [Next]_catalogVars => RefcountsExact'
<1> SUFFICES ASSUME CatalogInv, [Next]_catalogVars PROVE RefcountsExact'
  OBVIOUS
<1> DEFINE Exact(h) == IF h \in rows' THEN refcount'[h] = HeadRefs'[h] + SnapRefs'[h] + RootRefs'[h]
                                      ELSE HeadRefs'[h] + SnapRefs'[h] + RootRefs'[h] = 0
<1>a. ASSUME \A h \in Hashes : Exact(h) PROVE RefcountsExact'
  BY <1>a, ExactParts, Zenon
<1>b. RefcountsExact /\ \A h \in Hashes : refcount[h] \in Int
  BY DEF CatalogInv, TypeOK
<1>c. ASSUME UNCHANGED file PROVE \A f \in AllOwned : file'[f] = file[f]
  BY <1>c, Zenon
<1>6. ASSUME NEW p \in Paths, UnlinkFile(p) PROVE RefcountsExact'
  <2>1. /\ UNCHANGED <<file, snapFile, root, rows>>
        /\ refcount' = Released(head, {p})
    BY <1>6 DEF UnlinkFile, fileVars, snapVars, rootVars
  <2>2. head'[p] = NoFile /\ \A o \in Paths \ {p} : head'[o] = head[o]
    BY <1>6 DEF UnlinkFile, CatalogInv, TypeOK
  <2>3. ASSUME NEW h \in Hashes PROVE Exact(h)
    <3> DEFINE old == Cardinality(Occurrences(file, head, {p}, h))
    <3>1. Cardinality(Occurrences(file', head', {p}, h)) = 0
      BY <2>2, OccurrencesNone, Zenon
    <3>2. /\ HeadRefs'[h] = HeadRefs[h] + (0 - old) /\ old \in Nat /\ old <= HeadRefs[h]
      BY <2>1, <2>2, <1>c, <3>1, HeadStep, Zenon
    <3>3. SnapRefs'[h] = SnapRefs[h] + 0 /\ RootRefs'[h] = RootRefs[h] + 0
      BY <2>1, RefsSame, Zenon
    <3>4. /\ h \in rows => refcount'[h] = refcount[h] - old
          /\ h \notin rows => HeadRefs[h] = 0
      BY <2>1, ReleasedAt, NoRowNoRefs, <1>b, Zenon
    <3> HIDE DEF old
    <3>5. refcount[h] \in Int
      BY <1>b
    <3>6. h \notin rows => old = 0
      BY <3>2, <3>4
    <3>7. /\ 0 - old \in Int /\ 0 \in Int
          /\ h \in rows /\ h \in rows' => refcount'[h] = refcount[h] + (0 - old) + 0 + 0
          /\ h \notin rows /\ h \in rows' => refcount'[h] = (0 - old) + 0 + 0
          /\ h \notin rows' => (0 - old) + 0 + 0 = 0 /\ (h \in rows => refcount[h] <= 0)
      BY <3>2, <3>4, <3>5, <3>6, <2>1
    <3> QED
      BY <3>2, <3>3, <3>5, <3>7, <1>b, ExactStep, Zenon
  <2> QED BY <2>3, <1>a
<1>5. ASSUME ExpireWriteResults PROVE RefcountsExact'
  <2>1. /\ UNCHANGED <<file, snapFile, head, rows>>
        /\ refcount' = Released(root, Elapsed)
    BY <1>5 DEF ExpireWriteResults, fileVars, snapVars
  <2>2. /\ \A o \in Elapsed : root'[o] = NoFile
        /\ \A o \in Keys \ Elapsed : root'[o] = root[o]
        /\ Elapsed \in SUBSET Keys
    BY <1>5 DEF ExpireWriteResults, Elapsed
  <2>3. ASSUME NEW h \in Hashes PROVE Exact(h)
    <3> DEFINE old == Cardinality(Occurrences(file, root, Elapsed, h))
    <3>1. Cardinality(Occurrences(file', root', Elapsed, h)) = 0
      BY <2>2, OccurrencesNone, Zenon
    <3>2. RootRefs'[h] = RootRefs[h] + (0 - old) /\ old \in Nat /\ old <= RootRefs[h]
      BY <2>1, <2>2, <1>c, <3>1, RootStep, Zenon
    <3>3. SnapRefs'[h] = SnapRefs[h] + 0 /\ HeadRefs'[h] = HeadRefs[h] + 0
      BY <2>1, RefsSame, Zenon
    <3>4. /\ h \in rows => refcount'[h] = refcount[h] - old
          /\ h \notin rows => RootRefs[h] = 0
      BY <2>1, ReleasedAt, NoRowNoRefs, <1>b, Zenon
    <3> HIDE DEF old
    <3>5. refcount[h] \in Int
      BY <1>b
    <3>6. h \notin rows => old = 0
      BY <3>2, <3>4
    <3>7. /\ 0 - old \in Int /\ 0 \in Int
          /\ h \in rows /\ h \in rows' => refcount'[h] = refcount[h] + 0 + 0 + (0 - old)
          /\ h \notin rows /\ h \in rows' => refcount'[h] = 0 + 0 + (0 - old)
          /\ h \notin rows' => 0 + 0 + (0 - old) = 0 /\ (h \in rows => refcount[h] <= 0)
      BY <3>2, <3>4, <3>5, <3>6, <2>1
    <3> QED
      BY <3>2, <3>3, <3>5, <3>7, <1>b, ExactStep, Zenon
  <2> QED BY <2>3, <1>a
<1>9. ASSUME NEW ids \in SUBSET Snapshots, DeleteSnapshots(ids) PROVE RefcountsExact'
  <2> DEFINE part == ids \X Paths
  <2>1. /\ UNCHANGED <<file, head, root, rows>>
        /\ refcount' = Released(snapFile, part)
    BY <1>9 DEF DeleteSnapshots, fileVars, rootVars
  <2>2. /\ \A o \in part : snapFile'[o] = NoFile
        /\ \A o \in (Snapshots \X Paths) \ part : snapFile'[o] = snapFile[o]
        /\ part \in SUBSET (Snapshots \X Paths)
    BY <1>9 DEF DeleteSnapshots
  <2> HIDE DEF part
  <2>3. ASSUME NEW h \in Hashes PROVE Exact(h)
    <3> DEFINE old == Cardinality(Occurrences(file, snapFile, part, h))
    <3>1. Cardinality(Occurrences(file', snapFile', part, h)) = 0
      BY <2>2, OccurrencesNone, Zenon
    <3>2. SnapRefs'[h] = SnapRefs[h] + (0 - old) /\ old \in Nat /\ old <= SnapRefs[h]
      BY <2>1, <2>2, <1>c, <3>1, SnapStep, Zenon
    <3>3. HeadRefs'[h] = HeadRefs[h] + 0 /\ RootRefs'[h] = RootRefs[h] + 0
      BY <2>1, RefsSame, Zenon
    <3>4. /\ h \in rows => refcount'[h] = refcount[h] - old
          /\ h \notin rows => SnapRefs[h] = 0
      BY <2>1, ReleasedAt, NoRowNoRefs, <1>b, Zenon
    <3> HIDE DEF old
    <3>5. refcount[h] \in Int
      BY <1>b
    <3>6. h \notin rows => old = 0
      BY <3>2, <3>4
    <3>7. /\ 0 - old \in Int /\ 0 \in Int
          /\ h \in rows /\ h \in rows' => refcount'[h] = refcount[h] + 0 + (0 - old) + 0
          /\ h \notin rows /\ h \in rows' => refcount'[h] = 0 + (0 - old) + 0
          /\ h \notin rows' => 0 + (0 - old) + 0 = 0 /\ (h \in rows => refcount[h] <= 0)
      BY <3>2, <3>4, <3>5, <3>6, <2>1
    <3> QED
      BY <3>2, <3>3, <3>5, <3>7, <1>b, ExactStep, Zenon
  <2> QED BY <2>3, <1>a
<1>8. ASSUME NEW id \in Snapshots, CreateSnapshot(id) PROVE RefcountsExact'
  <2> DEFINE part == {id} \X Paths
  <2>1. /\ UNCHANGED <<file, head, root, rows>>
        /\ refcount' = [h \in Hashes |->
                          IF h \in rows THEN refcount[h] + Cardinality(Occurrences(file, snapFile', part, h)) ELSE refcount[h]]
    BY <1>8 DEF CreateSnapshot, fileVars, rootVars
  <2>2. /\ \A o \in (Snapshots \X Paths) \ part : snapFile'[o] = snapFile[o]
        /\ \A o \in part : snapFile'[o] = head[o[2]]
        /\ part \in SUBSET (Snapshots \X Paths)
    BY <1>8 DEF CreateSnapshot
  <2>3. \A o \in part : snapFile[o] = NoFile /\ o[2] \in Paths
    BY <1>8 DEF CreateSnapshot, CatalogInv, VersionsPresent
  <2>4. ASSUME NEW h \in Hashes, Occurrences(file, head, Paths, h) = {}
        PROVE  Occurrences(file, snapFile', part, h) = {}
    <3>1. ASSUME NEW o \in part, NEW i \in Extents, head[o[2]] # NoFile, file[head[o[2]]][i] = h PROVE FALSE
      <4>1. <<o[2], i>> \in Occurrences(file, head, Paths, h)
        BY <3>1, <2>3 DEF Occurrences
      <4> QED BY <4>1, <2>4
    <3> HIDE DEF part
    <3> QED BY <3>1, <2>2 DEF Occurrences
  <2> HIDE DEF part
  <2>5. ASSUME NEW h \in Hashes PROVE Exact(h)
    <3> DEFINE new == Cardinality(Occurrences(file, snapFile', part, h))
    <3>1. Cardinality(Occurrences(file, snapFile, part, h)) = 0
      BY <2>3, OccurrencesNone, Zenon
    <3>2. SnapRefs'[h] = SnapRefs[h] + (new - 0) /\ new \in Nat
      BY <2>1, <2>2, <1>c, <3>1, SnapStep, Zenon
    <3>3. HeadRefs'[h] = HeadRefs[h] + 0 /\ RootRefs'[h] = RootRefs[h] + 0
      BY <2>1, RefsSame, Zenon
    <3>4. h \in rows => refcount'[h] = refcount[h] + new
      BY <2>1, Zenon
    <3>5. refcount[h] \in Int
      BY <1>b
    <3>6. h \notin rows => new = 0
      <4>1. ASSUME h \notin rows PROVE Cardinality(Occurrences(file, head, Paths, h)) = 0
        BY <4>1, NoRowNoRefs, <1>b, Zenon DEF HeadRefs, References
      <4>2. ASSUME h \notin rows PROVE Occurrences(file, head, Paths, h) = {}
        BY <4>1, <4>2, OccurrencesFinite, TablesFinite, FS_EmptySet, Zenon
      <4> QED BY <4>2, <2>4, FS_EmptySet, Zenon
    <3> HIDE DEF new
    <3>7. /\ new - 0 \in Int /\ 0 \in Int
          /\ h \in rows /\ h \in rows' => refcount'[h] = refcount[h] + 0 + (new - 0) + 0
          /\ h \notin rows /\ h \in rows' => refcount'[h] = 0 + (new - 0) + 0
          /\ h \notin rows' => 0 + (new - 0) + 0 = 0 /\ (h \in rows => refcount[h] <= 0)
      BY <3>2, <3>4, <3>5, <3>6, <2>1
    <3> QED
      BY <3>2, <3>3, <3>5, <3>7, <1>b, ExactStep, Zenon
  <2> QED BY <2>5, <1>a
<1>7. ASSUME NEW p \in Paths, NEW q \in Paths, RenameFile(p, q) PROVE RefcountsExact'
  <2> DEFINE part == {p, q}
  <2>1. /\ UNCHANGED <<file, snapFile, root, rows>>
        /\ refcount' = Released(head, {q})
    BY <1>7 DEF RenameFile, fileVars, snapVars, rootVars
  <2>2. /\ \A o \in Paths \ part : head'[o] = head[o]
        /\ head'[q] = head[p] /\ head'[p] = NoFile /\ head[p] # NoFile
        /\ part \in SUBSET Paths /\ p # q
    BY <1>7 DEF RenameFile, CatalogInv, TypeOK
  <2> HIDE DEF part
  <2>4. ASSUME NEW h \in Hashes PROVE Exact(h)
    <3> DEFINE old == Cardinality(Occurrences(file, head, {q}, h))
               a == Cardinality(Occurrences(file, head, part, h))
               b == Cardinality(Occurrences(file', head', part, h))
    <3>1. a = old + b /\ old \in Nat
      <4>1. ASSUME NEW s, s = head' PROVE a = old + Cardinality(Occurrences(file, s, part, h)) /\ old \in Nat
        <5>1. s[q] = head[p] /\ s[p] = NoFile /\ head[p] # NoFile /\ p # q
          BY <2>2, <4>1
        <5> QED BY <5>1, OccurrencesMoved DEF part
      <4>2. file' = file
        BY <2>1
      <4> QED BY <4>1, <4>2, Zenon
    <3>2. HeadRefs'[h] = HeadRefs[h] + (b - a) /\ a \in Nat /\ b \in Nat /\ a <= HeadRefs[h]
      BY <2>1, <2>2, <1>c, HeadStep, Zenon
    <3>3. SnapRefs'[h] = SnapRefs[h] + 0 /\ RootRefs'[h] = RootRefs[h] + 0
      BY <2>1, RefsSame, Zenon
    <3>4. /\ h \in rows => refcount'[h] = refcount[h] - old
          /\ h \notin rows => HeadRefs[h] = 0
      BY <2>1, ReleasedAt, NoRowNoRefs, <1>b, Zenon
    <3> HIDE DEF old, a, b
    <3>5. refcount[h] \in Int
      BY <1>b
    <3>6. h \notin rows => a = 0
      BY <3>2, <3>4
    <3>7. /\ b - a \in Int /\ 0 \in Int
          /\ h \in rows /\ h \in rows' => refcount'[h] = refcount[h] + (b - a) + 0 + 0
          /\ h \notin rows /\ h \in rows' => refcount'[h] = (b - a) + 0 + 0
          /\ h \notin rows' => (b - a) + 0 + 0 = 0 /\ (h \in rows => refcount[h] <= 0)
      BY <3>1, <3>2, <3>4, <3>5, <3>6, <2>1
    <3> QED
      BY <3>2, <3>3, <3>5, <3>7, <1>b, ExactStep, Zenon
  <2> QED BY <2>4, <1>a
<1>10. ASSUME NEW pinned \in SUBSET Hashes, GCChunks(pinned) PROVE RefcountsExact'
  <2>1. UNCHANGED <<file, head, snapFile, root>>
    BY <1>10 DEF GCChunks, fileVars, snapVars, rootVars
  <2>2. ASSUME NEW h \in Hashes
        PROVE  /\ h \in rows' => h \in rows /\ refcount'[h] = refcount[h]
               /\ h \in rows /\ h \notin rows' => refcount[h] <= 0
    BY <1>10 DEF GCChunks
  <2>3. ASSUME NEW h \in Hashes PROVE Exact(h)
    <3>1. HeadRefs'[h] = HeadRefs[h] + 0 /\ SnapRefs'[h] = SnapRefs[h] + 0 /\ RootRefs'[h] = RootRefs[h] + 0
      BY <2>1, RefsSame, Zenon
    <3>2. refcount[h] \in Int
      BY <1>b
    <3>3. /\ 0 \in Int /\ 0 + 0 + 0 = 0
          /\ h \in rows /\ h \in rows' => refcount'[h] = refcount[h] + 0 + 0 + 0
          /\ h \notin rows /\ h \in rows' => refcount'[h] = 0 + 0 + 0
          /\ h \notin rows' => 0 + 0 + 0 = 0 /\ (h \in rows => refcount[h] <= 0)
      BY <2>2, <3>2
    <3> QED
      BY <3>1, <3>2, <3>3, <1>b, ExactStep, Zenon
  <2> QED BY <2>3, <1>a
<1>13. ASSUME NEW id \in Vlogs, RetireVlog(id) PROVE RefcountsExact'
  <2>1. UNCHANGED <<file, head, snapFile, root>>
    BY <1>13 DEF RetireVlog, fileVars, snapVars, rootVars
  <2>2. ASSUME NEW h \in Hashes
        PROVE  /\ h \in rows' => h \in rows /\ refcount'[h] = refcount[h]
               /\ h \in rows /\ h \notin rows' => refcount[h] <= 0
    BY <1>13 DEF RetireVlog
  <2>3. ASSUME NEW h \in Hashes PROVE Exact(h)
    <3>1. HeadRefs'[h] = HeadRefs[h] + 0 /\ SnapRefs'[h] = SnapRefs[h] + 0 /\ RootRefs'[h] = RootRefs[h] + 0
      BY <2>1, RefsSame, Zenon
    <3>2. refcount[h] \in Int
      BY <1>b
    <3>3. /\ 0 \in Int /\ 0 + 0 + 0 = 0
          /\ h \in rows /\ h \in rows' => refcount'[h] = refcount[h] + 0 + 0 + 0
          /\ h \notin rows /\ h \in rows' => refcount'[h] = 0 + 0 + 0
          /\ h \notin rows' => 0 + 0 + 0 = 0 /\ (h \in rows => refcount[h] <= 0)
      BY <2>2, <3>2
    <3> QED
      BY <3>1, <3>2, <3>3, <1>b, ExactStep, Zenon
  <2> QED BY <2>3, <1>a
<1>11. ASSUME GCFileVersions PROVE RefcountsExact'
  <2>1. UNCHANGED <<head, snapFile, root, rows, refcount>>
    BY <1>11 DEF GCFileVersions, snapVars, rootVars, chunkVars
  <2>2. \A f \in AllOwned : f \in FileIds /\ f \notin Unowned
    BY DEF AllOwned, Owned, Unowned, CatalogInv, TypeOK
  <2>3. \A f \in AllOwned : file'[f] = file[f]
    BY <1>11, <2>2 DEF GCFileVersions
  <2>4. ASSUME NEW h \in Hashes PROVE Exact(h)
    <3>1. HeadRefs'[h] = HeadRefs[h] + 0 /\ SnapRefs'[h] = SnapRefs[h] + 0 /\ RootRefs'[h] = RootRefs[h] + 0
      BY <2>1, <2>3, RefsKept, Zenon
    <3>2. refcount[h] \in Int /\ (h \notin rows => h \notin rows') /\ refcount'[h] = refcount[h] /\ (h \in rows => h \in rows')
      BY <1>b, <2>1
    <3>3. /\ 0 \in Int /\ 0 + 0 + 0 = 0
          /\ h \in rows /\ h \in rows' => refcount'[h] = refcount[h] + 0 + 0 + 0
          /\ h \notin rows /\ h \in rows' => refcount'[h] = 0 + 0 + 0
          /\ h \notin rows' => 0 + 0 + 0 = 0 /\ (h \in rows => refcount[h] <= 0)
      BY <3>2
    <3> QED
      BY <3>1, <3>2, <3>3, <1>b, ExactStep, Zenon
  <2> QED BY <2>4, <1>a
<1>4. ASSUME NEW k \in Keys, NEW p \in Paths, NEW version \in Versions, NEW w \in Placements(version), NEW retain \in BOOLEAN,
             CommitWriteOpVersion(k, p, version, w, retain)
      PROVE RefcountsExact'
  <2> DEFINE owners == IF retain THEN 2 ELSE 1
  <2>1. /\ UNCHANGED snapFile
        /\ nextFile \in FileIds /\ nextFile # NoFile
        /\ rows' = rows \cup {h \in Hashes : Count(version, h) > 0}
        /\ refcount' = [h \in Hashes |-> (IF h \in rows THEN Released(head, {p})[h] ELSE 0) + owners * Count(version, h)]
    BY <1>4 DEF CommitWriteOpVersion, PublishChunks, snapVars, FileIds, NoFile
  <2>2. /\ file'[nextFile] = version
        /\ \A f \in AllOwned : file'[f] = file[f]
    BY <1>4, <2>1 DEF CommitWriteOpVersion, CatalogInv, VersionsPresent, TypeOK, FileIds
  <2>3. head'[p] = nextFile /\ \A o \in Paths \ {p} : head'[o] = head[o]
    BY <1>4 DEF CommitWriteOpVersion, CatalogInv, TypeOK
  <2>4. root[k] = NoFile
    BY <1>4 DEF CommitWriteOpVersion, CatalogInv, RootsOwnResults
  <2>5. /\ retain => root'[k] = nextFile /\ \A o \in Keys \ {k} : root'[o] = root[o]
        /\ ~retain => UNCHANGED root
    BY <1>4 DEF CommitWriteOpVersion, CatalogInv, TypeOK
  <2>6. ASSUME NEW h \in Hashes PROVE Exact(h)
    <3> DEFINE old == Cardinality(Occurrences(file, head, {p}, h))
               n   == Count(version, h)
               kept == IF retain THEN n ELSE 0
    <3>1. n \in Nat
      BY CountType
    <3>2. Cardinality(Occurrences(file', head', {p}, h)) = n
      <4>1. ASSUME NEW g, g = file', NEW s, s = head' PROVE Cardinality(Occurrences(g, s, {p}, h)) = n
        <5>1. s[p] # NoFile /\ g[s[p]] = version
          BY <2>1, <2>2, <2>3, <4>1
        <5> QED BY <5>1, OccurrencesOne
      <4> QED BY <4>1, Zenon
    <3>3. HeadRefs'[h] = HeadRefs[h] + (n - old) /\ old \in Nat /\ old <= HeadRefs[h]
      BY <2>2, <2>3, <3>2, HeadStep, Zenon
    <3>4. SnapRefs'[h] = SnapRefs[h] + 0
      BY <2>1, <2>2, RefsKept, Zenon
    <3>5. RootRefs'[h] = RootRefs[h] + kept
      <4>1. CASE retain
        <5>1. ASSUME NEW g, g = file', NEW s, s = root' PROVE Cardinality(Occurrences(g, s, {k}, h)) = n
          <6>1. s[k] # NoFile /\ g[s[k]] = version
            BY <2>1, <2>2, <2>5, <4>1, <5>1
          <6> QED BY <6>1, OccurrencesOne
        <5>2. Cardinality(Occurrences(file', root', {k}, h)) = n
          BY <5>1, Zenon
        <5>3. Cardinality(Occurrences(file, root, {k}, h)) = 0
          BY <2>4, OccurrencesNone
        <5>4. RootRefs'[h] = RootRefs[h] + (n - 0)
          BY <2>2, <2>5, <4>1, <5>2, <5>3, RootStep, Zenon
        <5> HIDE DEF n
        <5>5. n - 0 = n
          BY <3>1
        <5> QED BY <4>1, <5>4, <5>5
      <4>2. CASE ~retain
        <5>1. RootRefs'[h] = RootRefs[h] + 0
          BY <4>2, <2>2, <2>5, RefsKept, Zenon
        <5> HIDE DEF n
        <5> QED BY <4>2, <5>1
      <4> QED BY <4>1, <4>2
    <3>6. /\ h \in rows => Released(head, {p})[h] = refcount[h] - old
          /\ h \notin rows => HeadRefs[h] = 0
      BY ReleasedAt, NoRowNoRefs, <1>b, Zenon
    <3>7. /\ h \in rows => refcount'[h] = (refcount[h] - old) + owners * n
          /\ h \notin rows => refcount'[h] = 0 + owners * n
      BY <2>1, <3>6, Zenon
    <3>8. h \in rows' <=> h \in rows \/ n > 0
      BY <2>1, Zenon
    <3> HIDE DEF old, n
    <3>9. refcount[h] \in Int
      BY <1>b
    <3>10. h \notin rows => old = 0
      BY <3>3, <3>6
    <3>11. /\ owners * n = n + kept /\ kept \in Nat /\ (n = 0 => kept = 0)
      BY <3>1
    <3>12. /\ n - old \in Int /\ 0 \in Int /\ kept \in Int
           /\ h \in rows /\ h \in rows' => refcount'[h] = refcount[h] + (n - old) + 0 + kept
           /\ h \notin rows /\ h \in rows' => refcount'[h] = (n - old) + 0 + kept
           /\ h \notin rows' => (n - old) + 0 + kept = 0 /\ (h \in rows => refcount[h] <= 0)
      <4> HIDE DEF kept, owners
      <4> QED BY <3>1, <3>3, <3>7, <3>8, <3>9, <3>10, <3>11
    <3> HIDE DEF kept
    <3> QED
      BY <3>3, <3>4, <3>5, <3>9, <3>12, <1>b, ExactStep, Zenon
  <2> QED BY <2>6, <1>a
<1>1. ASSUME NEW k \in Keys, NEW p \in Paths, CreateWriteOp(k, p) PROVE RefcountsExact'
  BY <1>1, <1>b, ExactQuiet DEF CreateWriteOp, fileVars, snapVars, rootVars, chunkVars
<1>2. ASSUME NEW k \in Keys, NEW id \in Vlogs, ClaimVlogLease(id, k) PROVE RefcountsExact'
  BY <1>2, <1>b, ExactQuiet DEF ClaimVlogLease, fileVars, snapVars, rootVars, chunkVars
<1>3. ASSUME NEW k \in Keys, NEW state \in {"abandoned", "cancelled"}, finishPreparedWriteOp(k, state) PROVE RefcountsExact'
  BY <1>3, <1>b, ExactQuiet DEF finishPreparedWriteOp, fileVars, snapVars, rootVars, chunkVars
<1>12. ASSUME NEW id \in Vlogs, MakeVlog(id) PROVE RefcountsExact'
  BY <1>12, <1>b, ExactQuiet DEF MakeVlog, fileVars, snapVars, rootVars, chunkVars
<1>14. ASSUME NEW h \in Hashes, NEW id \in Vlogs, RelocateChunk(h, id) PROVE RefcountsExact'
  BY <1>14, <1>b, ExactQuiet DEF RelocateChunk, fileVars, snapVars, rootVars
<1>17. ASSUME NEW k \in Keys, NEW p \in Paths, RetargetPreparedWriteOp(k, p) PROVE RefcountsExact'
  BY <1>17, <1>b, ExactQuiet DEF RetargetPreparedWriteOp, fileVars, snapVars, rootVars, chunkVars
<1>15. ASSUME Tick PROVE RefcountsExact'
  BY <1>15, <1>b, ExactQuiet DEF Tick, fileVars, snapVars, rootVars, chunkVars
<1>16. ASSUME UNCHANGED catalogVars PROVE RefcountsExact'
  BY <1>16, <1>b, ExactQuiet DEF catalogVars, fileVars, snapVars, rootVars, chunkVars
<1> QED
  BY <1>1, <1>2, <1>3, <1>4, <1>5, <1>6, <1>7, <1>8, <1>9, <1>10, <1>11, <1>12, <1>13, <1>14, <1>15, <1>16, <1>17
     DEF Next, Operations, Namespace, Reclamation
-----------------------------------------------------------------------------
(* Versions, results, leases and placements.                               *)

\* A version that was written is not a missing row (table file).
LEMMA WrittenVersion == \A version \in Versions : version # NoRow
<1>1. 1 \in Extents
  BY NumbersAssumption DEF Extents
<1>2. DOMAIN NoRow = {} /\ \A version \in Versions : DOMAIN version = Extents
  BY DEF NoRow, Versions
<1> QED
  BY <1>1, <1>2

\* The version a table names for an owner exists.
Held(f) == f # NoFile => f < nextFile /\ file[f] # NoRow

\* VersionsPresent, table by table.
LEMMA HeldParts ==
    /\ (\A f \in AllOwned : f < nextFile /\ file[f] # NoRow) <=>
         /\ \A p \in Paths : Held(head[p])
         /\ \A o \in Snapshots \X Paths : Held(snapFile[o])
         /\ \A k \in Keys : Held(root[k])
    /\ (\A f \in AllOwned : f < nextFile /\ file[f] # NoRow)' <=>
         /\ \A p \in Paths : (Held(head[p]))'
         /\ \A o \in Snapshots \X Paths : (Held(snapFile[o]))'
         /\ \A k \in Keys : (Held(root[k]))'
BY Zenon DEF AllOwned, Owned, Held

\* Owned versions and the results of committed operations keep their rows.
LEMMA VersionsStep == CatalogInv /\ [Next]_catalogVars => VersionsPresent'
<1> SUFFICES ASSUME CatalogInv, [Next]_catalogVars PROVE VersionsPresent'
  OBVIOUS
<1> DEFINE Heads == \A p \in Paths : Held(head[p])
           Snaps == \A o \in Snapshots \X Paths : Held(snapFile[o])
           Roots == \A k \in Keys : Held(root[k])
           Listed == \A o \in Snapshots \X Paths : snapFile[o] # NoFile => snapshot[o[1]] = "active"
           Results == \A k \in Keys : opState[k] = "committed" =>
                         opFile[k] # NoFile /\ opFile[k] < nextFile /\ file[opFile[k]] # NoRow
<1>a. Heads /\ Snaps /\ Roots /\ Listed /\ Results
  BY HeldParts, Zenon DEF CatalogInv, VersionsPresent
<1>b. ASSUME Heads', Snaps', Roots', Listed', Results' PROVE VersionsPresent'
  BY <1>b, HeldParts, Zenon DEF VersionsPresent
<1>c. ASSUME UNCHANGED <<fileVars, head, snapVars, root, opFile>>,
             \A k \in Keys : opState'[k] = "committed" => opState[k] = "committed"
      PROVE VersionsPresent'
  BY <1>a, <1>b, <1>c DEF fileVars, snapVars, Held
<1>d. TypeOK
  BY DEF CatalogInv
<1>1. ASSUME NEW k \in Keys, NEW p \in Paths, CreateWriteOp(k, p) PROVE VersionsPresent'
  BY <1>1, <1>c, <1>d DEF CreateWriteOp, rootVars, TypeOK
<1>2. ASSUME NEW k \in Keys, NEW id \in Vlogs, ClaimVlogLease(id, k) PROVE VersionsPresent'
  BY <1>2, <1>c DEF ClaimVlogLease, rootVars, opVars
<1>3. ASSUME NEW k \in Keys, NEW state \in {"abandoned", "cancelled"}, finishPreparedWriteOp(k, state) PROVE VersionsPresent'
  BY <1>3, <1>c, <1>d DEF finishPreparedWriteOp, rootVars, TypeOK
<1>4. ASSUME NEW k \in Keys, NEW p \in Paths, NEW version \in Versions, NEW w \in Placements(version), NEW retain \in BOOLEAN,
             CommitWriteOpVersion(k, p, version, w, retain)
      PROVE VersionsPresent'
  <2>1. /\ nextFile \in FileIds /\ nextFile # NoFile /\ nextFile' = nextFile + 1 /\ nextFile \in Int
        /\ \A f \in FileIds : file'[f] = IF f = nextFile THEN version ELSE file[f]
        /\ version # NoRow
    BY <1>4, <1>d, WrittenVersion, NumbersAssumption DEF CommitWriteOpVersion, TypeOK, FileIds, NoFile
  <2>2. ASSUME NEW f \in FileIds \cup {NoFile}, Held(f) \/ f = nextFile PROVE Held(f)'
    BY <2>1, <2>2 DEF Held, FileIds, NoFile
  <2>3. \A o \in Paths : head'[o] \in FileIds \cup {NoFile} /\ (Held(head[o]) => Held(head'[o]) \/ head'[o] = nextFile)
    BY <1>4, <1>d, <2>1 DEF CommitWriteOpVersion, TypeOK
  <2>4. \A o \in Keys : root'[o] \in FileIds \cup {NoFile} /\ (Held(root[o]) => Held(root'[o]) \/ root'[o] = nextFile)
    BY <1>4, <1>d, <2>1 DEF CommitWriteOpVersion, TypeOK
  <2>5. UNCHANGED <<snapFile, snapshot>> /\ \A o \in Snapshots \X Paths : snapFile[o] \in FileIds \cup {NoFile}
    BY <1>4, <1>d DEF CommitWriteOpVersion, TypeOK, snapVars
  <2>6. Heads' /\ Roots' /\ Snaps' /\ Listed'
    BY <1>a, <2>2, <2>3, <2>4, <2>5 DEF Held
  <2>7. \A o \in Keys : IF o = k THEN opFile'[o] = nextFile ELSE opFile'[o] = opFile[o] /\ opState'[o] = opState[o]
    BY <1>4, <1>d DEF CommitWriteOpVersion, TypeOK
  <2>8. ASSUME NEW o \in Keys, opState'[o] = "committed"
        PROVE  opFile'[o] # NoFile /\ opFile'[o] < nextFile' /\ file'[opFile'[o]] # NoRow
    <3>1. CASE o = k
      BY <2>1, <2>7, <3>1
    <3>2. CASE o # k
      <4>1. opFile[o] \in FileIds /\ opFile[o] < nextFile /\ file[opFile[o]] # NoRow /\ opFile[o] # NoFile
        BY <1>a, <1>d, <2>7, <2>8, <3>2 DEF TypeOK
      <4> QED BY <2>1, <2>7, <3>2, <4>1 DEF FileIds
    <3> QED BY <3>1, <3>2
  <2> QED BY <2>6, <2>8, <1>b
<1>5. ASSUME ExpireWriteResults PROVE VersionsPresent'
  <2>1. /\ UNCHANGED <<file, nextFile, head, snapFile, snapshot, opFile>>
        /\ \A k \in Keys : root'[k] \in {root[k], NoFile}
        /\ \A k \in Keys : opState'[k] = "committed" => opState[k] = "committed"
    BY <1>5 DEF ExpireWriteResults, fileVars, snapVars
  <2> QED BY <1>a, <1>b, <2>1 DEF Held
<1>6. ASSUME NEW p \in Paths, UnlinkFile(p) PROVE VersionsPresent'
  <2>1. /\ UNCHANGED <<file, nextFile, root, snapFile, snapshot, opFile>>
        /\ \A o \in Paths : head'[o] \in {head[o], NoFile}
        /\ \A k \in Keys : opState'[k] = "committed" => opState[k] = "committed"
    BY <1>6, <1>d DEF UnlinkFile, fileVars, snapVars, rootVars, Cancelled, TypeOK
  <2> QED BY <1>a, <1>b, <2>1 DEF Held
<1>7. ASSUME NEW p \in Paths, NEW q \in Paths, RenameFile(p, q) PROVE VersionsPresent'
  <2>1. /\ UNCHANGED <<file, nextFile, root, snapFile, snapshot, opFile>>
        /\ \A o \in Paths : head'[o] \in {head[o], head[p], NoFile}
        /\ \A k \in Keys : opState'[k] = "committed" => opState[k] = "committed"
    BY <1>7, <1>d DEF RenameFile, fileVars, snapVars, rootVars, Cancelled, TypeOK
  <2> QED BY <1>a, <1>b, <2>1 DEF Held
<1>8. ASSUME NEW id \in Snapshots, CreateSnapshot(id) PROVE VersionsPresent'
  <2>1. /\ UNCHANGED <<file, nextFile, head, root, opFile, opState>>
        /\ \A o \in Snapshots \X Paths : IF o[1] = id THEN snapFile'[o] = head[o[2]] ELSE snapFile'[o] = snapFile[o]
        /\ \A s \in Snapshots : snapshot'[s] = IF s = id THEN "active" ELSE snapshot[s]
    BY <1>8, <1>d DEF CreateSnapshot, fileVars, rootVars, opVars, TypeOK
  <2> QED BY <1>a, <1>b, <2>1 DEF Held
<1>9. ASSUME NEW ids \in SUBSET Snapshots, DeleteSnapshots(ids) PROVE VersionsPresent'
  <2>1. /\ UNCHANGED <<file, nextFile, head, root, opFile, opState>>
        /\ \A o \in Snapshots \X Paths : IF o[1] \in ids THEN snapFile'[o] = NoFile ELSE snapFile'[o] = snapFile[o]
        /\ \A s \in Snapshots : s \notin ids => snapshot'[s] = snapshot[s]
    BY <1>9, <1>d DEF DeleteSnapshots, fileVars, rootVars, opVars, TypeOK
  <2> QED BY <1>a, <1>b, <2>1 DEF Held
<1>10. ASSUME NEW pinned \in SUBSET Hashes, GCChunks(pinned) PROVE VersionsPresent'
  BY <1>10, <1>c DEF GCChunks, rootVars, opVars
<1>11. ASSUME GCFileVersions PROVE VersionsPresent'
  <2>1. /\ UNCHANGED <<nextFile, head, snapFile, snapshot, root, opFile, opState>>
        /\ \A f \in FileIds \ Unowned : file'[f] = file[f]
    BY <1>11 DEF GCFileVersions, snapVars, rootVars, opVars
  <2>2. \A p \in Paths : head[p] \notin Unowned
    BY DEF Unowned
  <2>3. \A o \in Snapshots \X Paths : snapFile[o] \notin Unowned
    BY DEF Unowned
  <2>4. \A k \in Keys : root[k] \notin Unowned /\ (opState[k] = "committed" => opFile[k] \notin Unowned)
    BY DEF Unowned
  <2>5. Heads' /\ Snaps' /\ Roots'
    BY <1>a, <1>d, <2>1, <2>2, <2>3, <2>4 DEF Held, TypeOK
  <2>6. Listed' /\ Results'
    BY <1>a, <1>d, <2>1, <2>4 DEF TypeOK
  <2> QED BY <2>5, <2>6, <1>b
<1>12. ASSUME NEW id \in Vlogs, MakeVlog(id) PROVE VersionsPresent'
  BY <1>12, <1>c DEF MakeVlog, rootVars, opVars
<1>13. ASSUME NEW id \in Vlogs, RetireVlog(id) PROVE VersionsPresent'
  BY <1>13, <1>c DEF RetireVlog, rootVars, opVars
<1>14. ASSUME NEW h \in Hashes, NEW id \in Vlogs, RelocateChunk(h, id) PROVE VersionsPresent'
  BY <1>14, <1>c DEF RelocateChunk, rootVars, opVars
<1>17. ASSUME NEW k \in Keys, NEW p \in Paths, RetargetPreparedWriteOp(k, p) PROVE VersionsPresent'
  BY <1>17, <1>c DEF RetargetPreparedWriteOp, rootVars
<1>15. ASSUME Tick PROVE VersionsPresent'
  BY <1>15, <1>c DEF Tick, rootVars, opVars
<1>16. ASSUME UNCHANGED catalogVars PROVE VersionsPresent'
  BY <1>16, <1>c DEF catalogVars, rootVars, opVars
<1> QED
  BY <1>1, <1>2, <1>3, <1>4, <1>5, <1>6, <1>7, <1>8, <1>9, <1>10, <1>11, <1>12, <1>13, <1>14, <1>15, <1>16, <1>17
     DEF Next, Operations, Namespace, Reclamation

\* Results stay with their operation, leases with prepared operations and rows
\* with vlogs the catalog has.
LEMMA OwnershipStep == CatalogInv /\ [Next]_catalogVars => RootsOwnResults' /\ LeasesArePrepared' /\ RowsPlaced'
<1> SUFFICES ASSUME CatalogInv, [Next]_catalogVars PROVE RootsOwnResults' /\ LeasesArePrepared' /\ RowsPlaced'
  OBVIOUS
<1> DEFINE Goal == RootsOwnResults' /\ LeasesArePrepared' /\ RowsPlaced'
<1>a. TypeOK /\ RootsOwnResults /\ LeasesArePrepared /\ RowsPlaced
  BY DEF CatalogInv
<1>b. ASSUME UNCHANGED <<opState, opFile, root>> PROVE RootsOwnResults'
  BY <1>a, <1>b DEF RootsOwnResults
<1>c. ASSUME UNCHANGED <<opState, lease, vlog>> PROVE LeasesArePrepared'
  BY <1>a, <1>c DEF LeasesArePrepared
<1>d. ASSUME UNCHANGED <<rows, location, vlog>> PROVE RowsPlaced'
  BY <1>a, <1>d DEF RowsPlaced
<1>e. ASSUME NEW keys \in SUBSET Keys, lease' = LeasesWithout(keys), UNCHANGED vlog,
             \A k \in Keys \ keys : opState'[k] = opState[k]
      PROVE  LeasesArePrepared'
  BY <1>a, <1>e, NoKeyAssumption DEF LeasesArePrepared, LeasesWithout, TypeOK
<1>f. ASSUME NEW keys \in SUBSET Keys, UNCHANGED <<root, opFile>>,
             \A k \in keys : opState[k] = "prepared", \A k \in Keys \ keys : opState'[k] = opState[k]
      PROVE  RootsOwnResults'
  BY <1>a, <1>f DEF RootsOwnResults
<1>1. ASSUME NEW k \in Keys, NEW p \in Paths, CreateWriteOp(k, p) PROVE Goal
  <2>1. LeasesArePrepared'
    BY <1>1, <1>a, NoKeyAssumption DEF LeasesArePrepared, CreateWriteOp, TypeOK
  <2>2. RootsOwnResults'
    BY <1>1, <1>a DEF RootsOwnResults, CreateWriteOp, TypeOK, rootVars
  <2> QED BY <1>1, <2>1, <2>2, <1>d DEF CreateWriteOp, chunkVars
<1>2. ASSUME NEW k \in Keys, NEW id \in Vlogs, ClaimVlogLease(id, k) PROVE Goal
  <2>1. LeasesArePrepared'
    BY <1>2, <1>a DEF LeasesArePrepared, ClaimVlogLease, TypeOK, opVars
  <2> QED BY <1>2, <2>1, <1>b, <1>d DEF ClaimVlogLease, opVars, rootVars, chunkVars
<1>3. ASSUME NEW k \in Keys, NEW state \in {"abandoned", "cancelled"}, finishPreparedWriteOp(k, state) PROVE Goal
  <2>1. \A o \in Keys \ {k} : opState'[o] = opState[o]
    BY <1>3, <1>a DEF finishPreparedWriteOp, TypeOK
  <2>2. LeasesArePrepared'
    BY <1>3, <1>e, <2>1 DEF finishPreparedWriteOp
  <2>3. RootsOwnResults'
    BY <1>3, <1>a DEF RootsOwnResults, finishPreparedWriteOp, TypeOK, rootVars
  <2> QED BY <1>3, <2>2, <2>3, <1>d DEF finishPreparedWriteOp, chunkVars
<1>4. ASSUME NEW k \in Keys, NEW p \in Paths, NEW version \in Versions, NEW w \in Placements(version), NEW retain \in BOOLEAN,
             CommitWriteOpVersion(k, p, version, w, retain)
      PROVE Goal
  <2>1. \A o \in Keys \ {k} : opState'[o] = opState[o] /\ root'[o] = root[o] /\ opFile'[o] = opFile[o]
    BY <1>4, <1>a DEF CommitWriteOpVersion, TypeOK
  <2>2. LeasesArePrepared'
    BY <1>4, <1>e, <2>1 DEF CommitWriteOpVersion
  <2>3. opState'[k] = "committed" /\ opFile'[k] = nextFile /\ root'[k] \in {nextFile, NoFile}
    BY <1>4, <1>a DEF CommitWriteOpVersion, TypeOK, RootsOwnResults
  <2>4. RootsOwnResults'
    BY <1>a, <2>1, <2>3 DEF RootsOwnResults
  <2>5. \A h \in rows' : vlog[location'[h]] = "active"
    <3>1. ASSUME NEW h \in rows'
          PROVE /\ h \in Hashes
                /\ (location'[h] = w[h] /\ Count(version, h) > 0) \/ (h \in rows /\ location'[h] = location[h])
      BY <1>4, <1>a DEF CommitWriteOpVersion, PublishChunks, TypeOK
    <3>2. \A h \in Hashes : Count(version, h) > 0 => vlog[w[h]] = "active"
      BY DEF Placements
    <3> QED BY <3>1, <3>2, <1>a DEF RowsPlaced
  <2> QED BY <1>4, <2>2, <2>4, <2>5 DEF CommitWriteOpVersion, RowsPlaced
<1>5. ASSUME ExpireWriteResults PROVE Goal
  <2>1. LeasesArePrepared'
    BY <1>5, <1>a, NoKeyAssumption DEF ExpireWriteResults, LeasesArePrepared, TypeOK
  <2>2. RootsOwnResults'
    BY <1>5, <1>a DEF ExpireWriteResults, RootsOwnResults
  <2> QED BY <1>5, <2>1, <2>2, <1>d DEF ExpireWriteResults
<1>6. ASSUME NEW p \in Paths, UnlinkFile(p) PROVE Goal
  <2>1. /\ PreparedAt(p) \in SUBSET Keys
        /\ \A k \in PreparedAt(p) : opState[k] = "prepared"
        /\ \A k \in Keys \ PreparedAt(p) : opState'[k] = opState[k]
    BY <1>6 DEF UnlinkFile, PreparedAt, Cancelled
  <2>2. LeasesArePrepared'
    BY <1>6, <1>e, <2>1 DEF UnlinkFile
  <2>3. RootsOwnResults'
    BY <1>6, <1>f, <2>1 DEF UnlinkFile, rootVars
  <2> QED BY <1>6, <2>2, <2>3, <1>d DEF UnlinkFile
<1>7. ASSUME NEW p \in Paths, NEW q \in Paths, RenameFile(p, q) PROVE Goal
  <2>1. /\ PreparedAt(q) \in SUBSET Keys
        /\ \A k \in PreparedAt(q) : opState[k] = "prepared"
        /\ \A k \in Keys \ PreparedAt(q) : opState'[k] = opState[k]
    BY <1>7 DEF RenameFile, PreparedAt, Cancelled
  <2>2. LeasesArePrepared'
    BY <1>7, <1>e, <2>1 DEF RenameFile
  <2>3. RootsOwnResults'
    BY <1>7, <1>f, <2>1 DEF RenameFile, rootVars
  <2> QED BY <1>7, <2>2, <2>3, <1>d DEF RenameFile
<1>8. ASSUME NEW id \in Snapshots, CreateSnapshot(id) PROVE Goal
  BY <1>8, <1>b, <1>c, <1>d DEF CreateSnapshot, rootVars, opVars
<1>9. ASSUME NEW ids \in SUBSET Snapshots, DeleteSnapshots(ids) PROVE Goal
  BY <1>9, <1>b, <1>c, <1>d DEF DeleteSnapshots, rootVars, opVars
<1>10. ASSUME NEW pinned \in SUBSET Hashes, GCChunks(pinned) PROVE Goal
  <2>1. RowsPlaced'
    BY <1>10, <1>a DEF GCChunks, RowsPlaced
  <2> QED BY <1>10, <2>1, <1>b, <1>c DEF GCChunks, rootVars, opVars
<1>11. ASSUME GCFileVersions PROVE Goal
  BY <1>11, <1>b, <1>c, <1>d DEF GCFileVersions, rootVars, opVars, chunkVars
<1>12. ASSUME NEW id \in Vlogs, MakeVlog(id) PROVE Goal
  <2>1. LeasesArePrepared' /\ RowsPlaced'
    BY <1>12, <1>a DEF MakeVlog, LeasesArePrepared, RowsPlaced, TypeOK, opVars, chunkVars
  <2> QED BY <1>12, <2>1, <1>b DEF MakeVlog, rootVars, opVars
<1>13. ASSUME NEW id \in Vlogs, RetireVlog(id) PROVE Goal
  <2>1. LeasesArePrepared' /\ RowsPlaced'
    BY <1>13, <1>a DEF RetireVlog, LeasesArePrepared, RowsPlaced, TypeOK, opVars
  <2> QED BY <1>13, <2>1, <1>b DEF RetireVlog, rootVars, opVars
<1>14. ASSUME NEW h \in Hashes, NEW id \in Vlogs, RelocateChunk(h, id) PROVE Goal
  <2>1. RowsPlaced'
    BY <1>14, <1>a DEF RelocateChunk, RowsPlaced, TypeOK
  <2> QED BY <1>14, <2>1, <1>b, <1>c DEF RelocateChunk, rootVars, opVars
<1>17. ASSUME NEW k \in Keys, NEW p \in Paths, RetargetPreparedWriteOp(k, p) PROVE Goal
  BY <1>17, <1>b, <1>c, <1>d DEF RetargetPreparedWriteOp, rootVars, chunkVars
<1>15. ASSUME Tick PROVE Goal
  BY <1>15, <1>b, <1>c, <1>d DEF Tick, rootVars, opVars, chunkVars
<1>16. ASSUME UNCHANGED catalogVars PROVE Goal
  BY <1>16, <1>b, <1>c, <1>d DEF catalogVars, rootVars, opVars, chunkVars
<1> QED
  BY <1>1, <1>2, <1>3, <1>4, <1>5, <1>6, <1>7, <1>8, <1>9, <1>10, <1>11, <1>12, <1>13, <1>14, <1>15, <1>16, <1>17
     DEF Next, Operations, Namespace, Reclamation

-----------------------------------------------------------------------------
(* Theorems.                                                               *)

\* The invariant holds of an empty catalog (meta/db.go).
LEMMA InitInv == Init => CatalogInv
<1> SUFFICES ASSUME Init PROVE CatalogInv
  OBVIOUS
<1>1. TypeOK
  BY NumbersAssumption DEF Init, TypeOK, FileIds, NoFile
<1>2. RefcountsExact
  <2>1. rows = {}
    BY DEF Init
  <2>2. ASSUME NEW h \in Hashes PROVE TotalReferences(h) = 0
    <3>1. /\ \A o \in Paths : head[o] = NoFile
          /\ \A o \in Snapshots \X Paths : snapFile[o] = NoFile
          /\ \A o \in Keys : root[o] = NoFile
      BY DEF Init
    <3>2. References(head, Paths, h) = 0
      BY <3>1, OccurrencesNone DEF References
    <3>3. References(snapFile, Snapshots \X Paths, h) = 0
      BY <3>1, OccurrencesNone, Zenon DEF References
    <3>4. References(root, Keys, h) = 0
      BY <3>1, OccurrencesNone DEF References
    <3> QED BY <3>2, <3>3, <3>4 DEF TotalReferences
  <2> QED BY <2>1, <2>2 DEF RefcountsExact
<1>3. VersionsPresent
  BY DEF Init, VersionsPresent, AllOwned, Owned
<1>4. RootsOwnResults /\ LeasesArePrepared /\ RowsPlaced
  BY DEF Init, RootsOwnResults, LeasesArePrepared, RowsPlaced
<1> QED
  BY <1>1, <1>2, <1>3, <1>4 DEF CatalogInv

\* Every transaction of package meta preserves the invariant.
THEOREM CatalogInvariance == Spec => []CatalogInv
<1>1. CatalogInv /\ [Next]_catalogVars => CatalogInv'
  BY TypeStep, CountsStep, VersionsStep, OwnershipStep DEF CatalogInv
<1> QED
  BY InitInv, <1>1, PTL DEF Spec

\* The reference counts are exact in every reachable state (upsertChunkRefs,
\* adjustChunkRefs and every transaction that calls them).
THEOREM RefcountsCorrect == Spec => []RefcountsExact
<1>1. CatalogInv => RefcountsExact
  BY DEF CatalogInv
<1> QED
  BY CatalogInvariance, <1>1, PTL

\* An occurrence of a chunk makes its count positive, so it has a row
\* (References).
LEMMA OccurrenceHasRow ==
    ASSUME CatalogInv, NEW h \in Hashes, NEW table, NEW owners, NEW o \in owners, NEW i \in Extents,
           table[o] # NoFile, file[table[o]][i] = h,
           \/ table = head /\ owners = Paths
           \/ table = snapFile /\ owners = Snapshots \X Paths
           \/ table = root /\ owners = Keys
    PROVE  h \in rows
<1> SUFFICES ASSUME h \notin rows PROVE FALSE
  OBVIOUS
<1>1. HeadRefs[h] = 0 /\ SnapRefs[h] = 0 /\ RootRefs[h] = 0
  BY NoRowNoRefs DEF CatalogInv
<1>2. Cardinality(Occurrences(file, table, owners, h)) = 0
  BY <1>1, Zenon DEF HeadRefs, SnapRefs, RootRefs, References
<1>3. IsFiniteSet(owners)
  BY TablesFinite
<1>4. Occurrences(file, table, owners, h) = {}
  BY <1>2, <1>3, OccurrencesFinite, FS_EmptySet
<1>5. <<o, i>> \in Occurrences(file, table, owners, h)
  BY DEF Occurrences
<1> QED
  BY <1>4, <1>5

\* Nothing that a head, a snapshot or a retained result owns is ever collected
\* (GCChunks, GCFileVersions, retireVlogTx).
THEOREM NothingOwnedIsCollected == Spec => []OwnedVersionsIntact
<1>1. ASSUME CatalogInv PROVE OwnedVersionsIntact
  <2>1. ASSUME NEW f \in AllOwned PROVE file[f] # NoRow /\ f \in FileIds
    BY <1>1, <2>1 DEF CatalogInv, VersionsPresent, AllOwned, Owned, TypeOK
  <2>2. ASSUME NEW f \in AllOwned, NEW i \in Extents, file[f][i] # Hole PROVE file[f][i] \in rows
    <3>1. file[f][i] \in Hashes
      BY <1>1, <2>1, <2>2 DEF CatalogInv, TypeOK, Versions
    <3>2. CASE f \in Owned(head, Paths)
      <4>1. PICK o \in Paths : f = head[o] /\ f # NoFile
        BY <3>2 DEF Owned
      <4> QED BY <1>1, <3>1, <4>1, OccurrenceHasRow, Zenon
    <3>3. CASE f \in Owned(snapFile, Snapshots \X Paths)
      <4>1. PICK o \in Snapshots \X Paths : f = snapFile[o] /\ f # NoFile
        BY <3>3 DEF Owned
      <4> QED BY <1>1, <3>1, <4>1, OccurrenceHasRow, Zenon
    <3>4. CASE f \in Owned(root, Keys)
      <4>1. PICK o \in Keys : f = root[o] /\ f # NoFile
        BY <3>4 DEF Owned
      <4> QED BY <1>1, <3>1, <4>1, OccurrenceHasRow, Zenon
    <3> QED BY <3>2, <3>3, <3>4 DEF AllOwned
  <2> QED BY <1>1, <2>1, <2>2 DEF OwnedVersionsIntact, CatalogInv, RowsPlaced
<1> QED
  BY CatalogInvariance, <1>1, PTL

\* The outcome of a key is decided once (finishPreparedWriteOp,
\* commitWriteOpVersion, ExpireWriteResults, UnlinkFile, RenameFile).
THEOREM OutcomesDecidedOnce == Spec => OutcomesStable
<1> DEFINE Stable == \A k \in Keys :
             opState[k] \notin {"none", "prepared"} =>
                /\ opState'[k] = opState[k] \/ (opState[k] = "committed" /\ opState'[k] = "expired")
                /\ opFile'[k] = opFile[k]
<1>1. ASSUME CatalogInv, [Next]_catalogVars PROVE [Stable]_catalogVars
  <2>1. CASE UNCHANGED catalogVars
    BY <2>1
  <2>2. CASE Operations
    <3>1. /\ opState \in [Keys -> {"none", "prepared", "committed", "cancelled", "abandoned", "expired"}]
          /\ opFile \in [Keys -> FileIds \cup {NoFile}]
      BY <1>1 DEF CatalogInv, TypeOK
    <3>2. ASSUME NEW k \in Keys, NEW p \in Paths, CreateWriteOp(k, p) PROVE Stable
      BY <3>1, <3>2 DEF CreateWriteOp
    <3>3. ASSUME NEW k \in Keys, NEW p \in Paths, NEW version \in Versions, NEW b \in BOOLEAN,
                 NEW placement \in Placements(version),
                 CommitWriteOpVersion(k, p, version, placement, b)
          PROVE  Stable
      BY <3>1, <3>3 DEF CommitWriteOpVersion
    <3>4. ASSUME NEW k \in Keys, NEW s \in {"cancelled", "abandoned"}, finishPreparedWriteOp(k, s) PROVE Stable
      BY <3>1, <3>4 DEF finishPreparedWriteOp
    <3> QED BY <2>2, <3>1, <3>2, <3>3, <3>4 DEF Operations, RetargetPreparedWriteOp, ClaimVlogLease, ExpireWriteResults, Elapsed, opVars
  <2>3. CASE Namespace
    BY <2>3 DEF Namespace, UnlinkFile, RenameFile, CreateSnapshot, DeleteSnapshots, Cancelled, PreparedAt, opVars
  <2>4. CASE Reclamation \/ Tick
    BY <2>4 DEF Reclamation, GCChunks, GCFileVersions, MakeVlog, RetireVlog, RelocateChunk, Tick, opVars
  <2> QED BY <1>1, <2>1, <2>2, <2>3, <2>4 DEF Next
<1> QED
  BY CatalogInvariance, <1>1, PTL DEF Spec, OutcomesStable
=============================================================================
