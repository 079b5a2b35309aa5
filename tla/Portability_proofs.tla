-------------------------- MODULE Portability_proofs --------------------------
(***************************************************************************)
(* Export and import, for any number of importers, writes and failures:    *)
(* rows refer to rows that exist, bundles are closed and are imported as   *)
(* they were exported, names stay unique, and what was imported exports    *)
(* the same again.                                                         *)
(*                                                                         *)
(* The argument: an export reads one snapshot, whose rows refer to rows of *)
(* their own namespace; the digest of a file that verifies is the records  *)
(* of a bundle that was written; two transactions that have inserted the   *)
(* same name are never both about to commit; and the new ids of an import, *)
(* in whatever order its rows go in, are a bijection onto the places       *)
(* behind the end of each table.                                           *)
(***************************************************************************)
EXTENDS Portability, FiniteSetTheorems, TLAPS

MemoryRow == [ns : Namespaces, deleted : BOOLEAN]
EntityRow == [ns : Namespaces, name : Names]
RelationRow == [ns : Namespaces, subject : Nat, object : Nat \cup {Null},
                source : Nat \cup {Null}, supersedes : Nat \cup {Null},
                supersededBy : Nat \cup {Null}]
SkillRow == [ns : Namespaces, name : Names, active : BOOLEAN]

Tables == [memories : Seq(MemoryRow), entities : Seq(EntityRow), relations : Seq(RelationRow),
           skills : Seq(SkillRow), mentions : SUBSET (Nat \X Nat),
           evidence : SUBSET (Nat \X Nat), lessons : SUBSET (Nat \X Nat)]

(* Rows refer to rows of their own namespace. *)
RowRefers(d, row) ==
    /\ row.subject \in InNamespace(d.entities, row.ns)
    /\ row.object # Null => row.object \in InNamespace(d.entities, row.ns)
    /\ row.source # Null => row.source \in InNamespace(d.memories, row.ns)
    /\ row.supersedes # Null => row.supersedes \in InNamespace(d.relations, row.ns)
    /\ row.supersededBy # Null => row.supersededBy \in InNamespace(d.relations, row.ns)

Refers(d) ==
    /\ \A r \in DOMAIN d.relations : RowRefers(d, d.relations[r])
    /\ \A l \in d.mentions :
          l[2] \in DOMAIN d.entities /\ l[1] \in InNamespace(d.memories, d.entities[l[2]].ns)
    /\ \A l \in d.evidence :
          l[1] \in DOMAIN d.relations /\ l[2] \in InNamespace(d.memories, d.relations[l[1]].ns)
    /\ \A l \in d.lessons :
          l[1] \in DOMAIN d.skills /\ l[2] \in InNamespace(d.memories, d.skills[l[1]].ns)

Distinct(d) ==
    \A ns \in Namespaces :
        /\ \A e, f \in InNamespace(d.entities, ns) :
              d.entities[e].name = d.entities[f].name => e = f
        /\ \A k, l \in ActiveSkills(d, ns) : d.skills[k].name = d.skills[l].name => k = l

Good(d) == d \in Tables /\ Refers(d) /\ Distinct(d)

(* What every bundle is like. *)
RowsOf(kind) ==
    CASE kind = "memory" -> [id : Nat]
      [] kind \in {"entity", "skill"} -> [id : Nat, name : Names]
      [] kind = "relation" -> [id : Nat, subject : Nat, object : Nat \cup {Null},
                               source : Nat \cup {Null}, supersedes : Nat \cup {Null},
                               supersededBy : Nat \cup {Null}]
      [] OTHER -> Nat \X Nat

RowKinds == {"memory", "entity", "relation", "skill"}

Keyed(rows) == IsFiniteSet(rows) /\ \A r, q \in rows : r.id = q.id => r = q

Named(rows) == \A r, q \in rows : r.name = q.name => r = q

Bundle(records) ==
    /\ DOMAIN records = Kinds
    /\ \A kind \in Kinds : records[kind] \subseteq RowsOf(kind)
    /\ \A kind \in RowKinds : Keyed(records[kind])
    /\ \A kind \in {"entity", "skill"} : Named(records[kind])
    /\ \A r \in records["relation"] :
          /\ r.object # Null => \E q \in records["entity"] : q.id = r.object
          /\ r.supersedes # Null => \E q \in records["relation"] : q.id = r.supersedes
          /\ r.supersededBy # Null => \E q \in records["relation"] : q.id = r.supersededBy
    /\ Resolves(records)

ExportInv ==
    /\ exporter = [ns |-> exporter.ns, snapshot |-> exporter.snapshot, read |-> exporter.read,
                   records |-> exporter.records]
    /\ exporter.read \in 0 .. 7 /\ DOMAIN exporter.records = Kinds
    /\ IF exporter.ns = Null THEN exporter.read = 0
       ELSE /\ exporter.ns \in Namespaces /\ Good(exporter.snapshot)
            /\ \A k \in 1 .. exporter.read :
                  exporter.records[KindOrder[k]]
                      = Select(KindOrder[k], exporter.snapshot, exporter.ns)

FileInv ==
    /\ \A records \in exported : Bundle(records)
    /\ file # Null => /\ file = [counts |-> file.counts, digest |-> file.digest,
                                 records |-> file.records]
                      /\ file.digest \in exported
    /\ \A c \in copies : c.records \in exported

Inserted(i, kind) == {r.name : r \in import[i].records[kind]}

ImportInv ==
    /\ pc \in [Importers -> {"idle", "check", "insert", "commit", "audit"}]
    /\ DOMAIN import = Importers
    /\ \A i \in Importers :
          /\ pc[i] # "idle" => import[i].ns \in Namespaces /\ import[i].records \in exported
          /\ pc[i] = "commit" => ~NameTaken(i)
    /\ \A i, j \in Importers : \A kind \in {"entity", "skill"} :
          i # j /\ pc[i] = "commit" /\ pc[j] = "commit" /\ import[i].ns = import[j].ns =>
              Inserted(i, kind) \cap Inserted(j, kind) = {}

PortInv == Good(db) /\ ExportInv /\ FileInv /\ ImportInv

-----------------------------------------------------------------------------
(* Selected rows *)

LEMMA SequenceOf ==
  ASSUME NEW S, NEW s \in Seq(S)
  PROVE  /\ Len(s) \in Nat /\ DOMAIN s = 1 .. Len(s) /\ s \in [1 .. Len(s) -> S]
         /\ IsFiniteSet(DOMAIN s) /\ DOMAIN s \subseteq Nat
<1>1. Len(s) \in Nat /\ DOMAIN s = 1 .. Len(s) /\ s \in [1 .. Len(s) -> S]
  OBVIOUS
<1>2. IsFiniteSet(1 .. Len(s))
  BY <1>1, FS_Interval
<1> QED
  BY <1>1, <1>2

(* Rows made of the elements of a finite set, each with its own id. *)
LEMMA KeyedImage ==
  ASSUME NEW I, IsFiniteSet(I), NEW f, f = [x \in I |-> f[x]], \A x \in I : f[x].id = x
  PROVE  Keyed({f[x] : x \in I})
<1> DEFINE T == {f[x] : x \in I}
<1>1. f \in [I -> T]
  OBVIOUS
<1>2. f \in Surjection(I, T)
  BY <1>1 DEF Surjection
<1>3. IsFiniteSet(T)
  <2> HIDE DEF T
  <2> QED
    BY <1>2, FS_Surjection
<1> QED
  BY <1>3 DEF Keyed

LEMMA TablesOf ==
  ASSUME NEW d \in Tables
  PROVE  /\ d.memories \in Seq(MemoryRow) /\ d.entities \in Seq(EntityRow)
         /\ d.relations \in Seq(RelationRow) /\ d.skills \in Seq(SkillRow)
         /\ d.mentions \in SUBSET (Nat \X Nat) /\ d.evidence \in SUBSET (Nat \X Nat)
         /\ d.lessons \in SUBSET (Nat \X Nat)
         /\ \A m \in DOMAIN d.memories : d.memories[m] \in MemoryRow /\ m \in Nat
         /\ \A e \in DOMAIN d.entities : d.entities[e] \in EntityRow /\ e \in Nat
         /\ \A r \in DOMAIN d.relations : d.relations[r] \in RelationRow /\ r \in Nat
         /\ \A k \in DOMAIN d.skills : d.skills[k] \in SkillRow /\ k \in Nat
         /\ IsFiniteSet(DOMAIN d.memories) /\ IsFiniteSet(DOMAIN d.entities)
         /\ IsFiniteSet(DOMAIN d.relations) /\ IsFiniteSet(DOMAIN d.skills)
<1>1. /\ d.memories \in Seq(MemoryRow) /\ d.entities \in Seq(EntityRow)
      /\ d.relations \in Seq(RelationRow) /\ d.skills \in Seq(SkillRow)
      /\ d.mentions \in SUBSET (Nat \X Nat) /\ d.evidence \in SUBSET (Nat \X Nat)
      /\ d.lessons \in SUBSET (Nat \X Nat)
  BY DEF Tables
<1>2. /\ \A m \in DOMAIN d.memories : d.memories[m] \in MemoryRow /\ m \in Nat
      /\ IsFiniteSet(DOMAIN d.memories)
  BY <1>1, SequenceOf
<1>3. /\ \A e \in DOMAIN d.entities : d.entities[e] \in EntityRow /\ e \in Nat
      /\ IsFiniteSet(DOMAIN d.entities)
  BY <1>1, SequenceOf
<1>4. /\ \A r \in DOMAIN d.relations : d.relations[r] \in RelationRow /\ r \in Nat
      /\ IsFiniteSet(DOMAIN d.relations)
  BY <1>1, SequenceOf
<1>5. /\ \A k \in DOMAIN d.skills : d.skills[k] \in SkillRow /\ k \in Nat
      /\ IsFiniteSet(DOMAIN d.skills)
  BY <1>1, SequenceOf
<1> QED
  BY <1>1, <1>2, <1>3, <1>4, <1>5

LEMMA SelectedRows ==
  ASSUME NEW d \in Tables, NEW ns
  PROVE  /\ SelectMemories(d, ns) \subseteq RowsOf("memory") /\ Keyed(SelectMemories(d, ns))
         /\ SelectEntities(d, ns) \subseteq RowsOf("entity") /\ Keyed(SelectEntities(d, ns))
         /\ SelectRelations(d, ns) \subseteq RowsOf("relation") /\ Keyed(SelectRelations(d, ns))
         /\ SelectSkills(d, ns) \subseteq RowsOf("skill") /\ Keyed(SelectSkills(d, ns))
<1>1. SelectMemories(d, ns) \subseteq RowsOf("memory") /\ Keyed(SelectMemories(d, ns))
  <2> DEFINE I == LiveMemories(d, ns)
             f == [m \in I |-> [id |-> m]]
  <2>1. I \subseteq DOMAIN d.memories
    BY DEF LiveMemories, InNamespace
  <2>2. IsFiniteSet(I)
    BY <2>1, TablesOf, FS_Subset
  <2>3. SelectMemories(d, ns) = {f[m] : m \in I} /\ f = [m \in I |-> f[m]] /\ \A m \in I : f[m].id = m
    BY DEF SelectMemories
  <2>4. SelectMemories(d, ns) \subseteq RowsOf("memory")
    BY <2>1, TablesOf DEF SelectMemories, RowsOf
  <2> HIDE DEF f, I
  <2> QED
    BY <2>2, <2>3, <2>4, KeyedImage
<1>2. SelectEntities(d, ns) \subseteq RowsOf("entity") /\ Keyed(SelectEntities(d, ns))
  <2> DEFINE I == InNamespace(d.entities, ns)
             f == [e \in I |-> [id |-> e, name |-> d.entities[e].name]]
  <2>1. I \subseteq DOMAIN d.entities
    BY DEF InNamespace
  <2>2. IsFiniteSet(I)
    BY <2>1, TablesOf, FS_Subset
  <2>3. SelectEntities(d, ns) = {f[m] : m \in I} /\ f = [m \in I |-> f[m]] /\ \A m \in I : f[m].id = m
    BY DEF SelectEntities
  <2>4. SelectEntities(d, ns) \subseteq RowsOf("entity")
    BY <2>1, TablesOf DEF SelectEntities, RowsOf, EntityRow
  <2> HIDE DEF f, I
  <2> QED
    BY <2>2, <2>3, <2>4, KeyedImage
<1>3. SelectRelations(d, ns) \subseteq RowsOf("relation") /\ Keyed(SelectRelations(d, ns))
  <2> DEFINE I == InNamespace(d.relations, ns)
             f == [r \in I |-> [id |-> r, subject |-> d.relations[r].subject,
                                object |-> d.relations[r].object,
                                source |-> d.relations[r].source,
                                supersedes |-> d.relations[r].supersedes,
                                supersededBy |-> d.relations[r].supersededBy]]
  <2>1. I \subseteq DOMAIN d.relations
    BY DEF InNamespace
  <2>2. IsFiniteSet(I)
    BY <2>1, TablesOf, FS_Subset
  <2>3. SelectRelations(d, ns) = {f[m] : m \in I} /\ f = [m \in I |-> f[m]] /\ \A m \in I : f[m].id = m
    BY DEF SelectRelations
  <2>4. SelectRelations(d, ns) \subseteq RowsOf("relation")
    BY <2>1, TablesOf DEF SelectRelations, RowsOf, RelationRow
  <2> HIDE DEF f, I
  <2> QED
    BY <2>2, <2>3, <2>4, KeyedImage
<1>4. SelectSkills(d, ns) \subseteq RowsOf("skill") /\ Keyed(SelectSkills(d, ns))
  <2> DEFINE I == ActiveSkills(d, ns)
             f == [k \in I |-> [id |-> k, name |-> d.skills[k].name]]
  <2>1. I \subseteq DOMAIN d.skills
    BY DEF ActiveSkills, InNamespace
  <2>2. IsFiniteSet(I)
    BY <2>1, TablesOf, FS_Subset
  <2>3. SelectSkills(d, ns) = {f[m] : m \in I} /\ f = [m \in I |-> f[m]] /\ \A m \in I : f[m].id = m
    BY DEF SelectSkills
  <2>4. SelectSkills(d, ns) \subseteq RowsOf("skill")
    BY <2>1, TablesOf DEF SelectSkills, RowsOf, SkillRow
  <2> HIDE DEF f, I
  <2> QED
    BY <2>2, <2>3, <2>4, KeyedImage
<1> QED
  BY <1>1, <1>2, <1>3, <1>4

LEMMA SelectCases ==
  \A d, ns :
     /\ Select("memory", d, ns) = SelectMemories(d, ns)
     /\ Select("entity", d, ns) = SelectEntities(d, ns)
     /\ Select("relation", d, ns) = SelectRelations(d, ns)
     /\ Select("memory_entity", d, ns) = SelectMentions(d, ns)
     /\ Select("relation_provenance", d, ns) = SelectEvidence(d, ns)
     /\ Select("skill", d, ns) = SelectSkills(d, ns)
     /\ Select("skill_provenance", d, ns) = SelectLessons(d, ns)
BY DEF Select

LEMMA SelectedIds ==
  ASSUME NEW d, NEW ns
  PROVE  /\ {r.id : r \in SelectMemories(d, ns)} = LiveMemories(d, ns)
         /\ {r.id : r \in SelectEntities(d, ns)} = InNamespace(d.entities, ns)
         /\ {r.id : r \in SelectRelations(d, ns)} = InNamespace(d.relations, ns)
         /\ {r.id : r \in SelectSkills(d, ns)} = ActiveSkills(d, ns)
<1>1. \A m \in LiveMemories(d, ns) : \E r \in SelectMemories(d, ns) : r.id = m
  <2> TAKE m \in LiveMemories(d, ns)
  <2> DEFINE row == [id |-> m]
  <2>1. row \in SelectMemories(d, ns) /\ row.id = m
    BY DEF SelectMemories
  <2> QED
    BY <2>1
<1>2. \A e \in InNamespace(d.entities, ns) : \E r \in SelectEntities(d, ns) : r.id = e
  <2> TAKE e \in InNamespace(d.entities, ns)
  <2> DEFINE row == [id |-> e, name |-> d.entities[e].name]
  <2>1. row \in SelectEntities(d, ns) /\ row.id = e
    BY DEF SelectEntities
  <2> QED
    BY <2>1
<1>3. \A n \in InNamespace(d.relations, ns) : \E r \in SelectRelations(d, ns) : r.id = n
  <2> TAKE n \in InNamespace(d.relations, ns)
  <2> DEFINE row == [id |-> n, subject |-> d.relations[n].subject,
                     object |-> d.relations[n].object, source |-> d.relations[n].source,
                     supersedes |-> d.relations[n].supersedes,
                     supersededBy |-> d.relations[n].supersededBy]
  <2>1. row \in SelectRelations(d, ns) /\ row.id = n
    BY DEF SelectRelations
  <2> QED
    BY <2>1
<1>4. \A k \in ActiveSkills(d, ns) : \E r \in SelectSkills(d, ns) : r.id = k
  <2> TAKE k \in ActiveSkills(d, ns)
  <2> DEFINE row == [id |-> k, name |-> d.skills[k].name]
  <2>1. row \in SelectSkills(d, ns) /\ row.id = k
    BY DEF SelectSkills
  <2> QED
    BY <2>1
<1>5. /\ \A r \in SelectMemories(d, ns) : r.id \in LiveMemories(d, ns)
      /\ \A r \in SelectEntities(d, ns) : r.id \in InNamespace(d.entities, ns)
      /\ \A r \in SelectRelations(d, ns) : r.id \in InNamespace(d.relations, ns)
      /\ \A r \in SelectSkills(d, ns) : r.id \in ActiveSkills(d, ns)
  BY DEF SelectMemories, SelectEntities, SelectRelations, SelectSkills
<1> QED
  BY <1>1, <1>2, <1>3, <1>4, <1>5

(* The records of a snapshot are a bundle: nothing they refer to, and the  *)
(* importer looks up without a default, is missing.                        *)
LEMMA SnapshotIsBundle ==
  ASSUME NEW d, Good(d), NEW ns \in Namespaces, NEW records, DOMAIN records = Kinds,
         \A kind \in Kinds : records[kind] = Select(kind, d, ns)
  PROVE  Bundle(records)
<1>1. /\ records["memory"] = SelectMemories(d, ns) /\ records["entity"] = SelectEntities(d, ns)
      /\ records["relation"] = SelectRelations(d, ns) /\ records["skill"] = SelectSkills(d, ns)
      /\ records["memory_entity"] = SelectMentions(d, ns)
      /\ records["relation_provenance"] = SelectEvidence(d, ns)
      /\ records["skill_provenance"] = SelectLessons(d, ns)
  BY SelectCases DEF Kinds
<1>2. d \in Tables /\ Refers(d) /\ Distinct(d)
  BY DEF Good
<1>3. \A kind \in RowKinds : records[kind] \subseteq RowsOf(kind) /\ Keyed(records[kind])
  BY <1>1, <1>2, SelectedRows DEF RowKinds
<1>4. /\ SelectMentions(d, ns) \subseteq Nat \X Nat /\ SelectEvidence(d, ns) \subseteq Nat \X Nat
      /\ SelectLessons(d, ns) \subseteq Nat \X Nat
  BY <1>2, TablesOf DEF SelectMentions, SelectEvidence, SelectLessons
<1>5. \A kind \in Kinds : records[kind] \subseteq RowsOf(kind)
  <2>1. \A kind \in Kinds \ RowKinds : records[kind] \subseteq Nat \X Nat /\ RowsOf(kind) = Nat \X Nat
    BY <1>1, <1>4 DEF Kinds, RowKinds, RowsOf
  <2> QED
    BY <1>3, <2>1
<1>6. Named(records["entity"]) /\ Named(records["skill"])
  <2>1. \A e, f \in InNamespace(d.entities, ns) : d.entities[e].name = d.entities[f].name => e = f
    BY <1>2 DEF Distinct
  <2>2. \A k, l \in ActiveSkills(d, ns) : d.skills[k].name = d.skills[l].name => k = l
    BY <1>2 DEF Distinct
  <2>3. Named(records["entity"])
    BY <1>1, <2>1 DEF Named, SelectEntities
  <2>4. Named(records["skill"])
    BY <1>1, <2>2 DEF Named, SelectSkills
  <2> QED
    BY <2>3, <2>4
<1>7. \A r \in records["relation"] :
         /\ r.object # Null => \E q \in records["entity"] : q.id = r.object
         /\ r.supersedes # Null => \E q \in records["relation"] : q.id = r.supersedes
         /\ r.supersededBy # Null => \E q \in records["relation"] : q.id = r.supersededBy
         /\ r.subject \in {q.id : q \in records["entity"]}
  <2> SUFFICES ASSUME NEW r \in SelectRelations(d, ns)
               PROVE  /\ r.object # Null => r.object \in {q.id : q \in SelectEntities(d, ns)}
                      /\ r.supersedes # Null => r.supersedes \in {q.id : q \in SelectRelations(d, ns)}
                      /\ r.supersededBy # Null =>
                            r.supersededBy \in {q.id : q \in SelectRelations(d, ns)}
                      /\ r.subject \in {q.id : q \in SelectEntities(d, ns)}
    BY <1>1
  <2>1. PICK n \in InNamespace(d.relations, ns) :
           /\ r.subject = d.relations[n].subject /\ r.object = d.relations[n].object
           /\ r.supersedes = d.relations[n].supersedes
           /\ r.supersededBy = d.relations[n].supersededBy
    BY DEF SelectRelations
  <2>2. n \in DOMAIN d.relations /\ d.relations[n].ns = ns
    BY DEF InNamespace
  <2>3. RowRefers(d, d.relations[n])
    BY <1>2, <2>2 DEF Refers
  <2> QED
    BY <2>1, <2>2, <2>3, SelectedIds DEF RowRefers
<1>8. Resolves(records)
  <2>1. /\ {r.id : r \in records["memory"]} = LiveMemories(d, ns)
        /\ {r.id : r \in records["entity"]} = InNamespace(d.entities, ns)
        /\ {r.id : r \in records["relation"]} = InNamespace(d.relations, ns)
        /\ {r.id : r \in records["skill"]} = ActiveSkills(d, ns)
    BY <1>1, SelectedIds
  <2> QED
    BY <1>1, <1>7, <2>1 DEF Resolves, SelectMentions, SelectEvidence, SelectLessons
<1> QED
  BY <1>3, <1>5, <1>6, <1>7, <1>8 DEF Bundle

-----------------------------------------------------------------------------
(* Places: the ids of imported rows *)

Numbered(rows) == Keyed(rows) /\ \A r \in rows : r.id \in Nat

LEMMA BundleNumbered ==
  ASSUME NEW records, Bundle(records), NEW kind \in RowKinds
  PROVE  Numbered(records[kind])
<1>1. kind \in Kinds /\ records[kind] \subseteq RowsOf(kind) /\ Keyed(records[kind])
  BY DEF Bundle, RowKinds, Kinds
<1>2. \A r \in RowsOf(kind) : r.id \in Nat
  BY DEF RowsOf, RowKinds
<1> QED
  BY <1>1, <1>2 DEF Numbered

(* New ids are the k places behind place m, one record for each of them.   *)
Placed(rows, ids, m, k) ==
    /\ DOMAIN ids = {r.id : r \in rows}
    /\ \A r \in rows : ids[r.id] \in m + 1 .. m + k
    /\ \A r \in rows : ids[r.id] \in Nat /\ RecordOf(rows, ids, ids[r.id]) = r
    /\ \A x \in m + 1 .. m + k :
          RecordOf(rows, ids, x) \in rows /\ ids[RecordOf(rows, ids, x).id] = x

LEMMA FreshPlaces ==
  ASSUME NEW S, NEW table \in Seq(S), NEW rows, Numbered(rows), NEW ids \in FreshIds(rows, table)
  PROVE  Placed(rows, ids, Len(table), Cardinality(rows))
<1> DEFINE T == Len(table) + 1 .. Len(table) + Cardinality(rows)
           I == {r.id : r \in rows}
<1>1. Len(table) \in Nat /\ Cardinality(rows) \in Nat
  BY SequenceOf, FS_CardinalityType DEF Numbered, Keyed
<1>2. /\ ids \in [I -> T] /\ \A i, j \in I : ids[i] = ids[j] => i = j
      /\ \A x \in T : \E i \in I : ids[i] = x
  <2>1. ids \in Injection(I, T) /\ ids \in Surjection(I, T)
    BY DEF FreshIds, Bijection
  <2> HIDE DEF I, T
  <2>2. ids \in [I -> T] /\ \A i, j \in I : ids[i] = ids[j] => i = j
    BY <2>1 DEF Injection, IsInjective
  <2>3. \A x \in T : \E i \in I : ids[i] = x
    BY <2>1 DEF Surjection
  <2> QED
    BY <2>2, <2>3
<1>3. \A r \in rows : ids[r.id] \in T
  BY <1>2
<1>4. \A x \in T : \E r \in rows : ids[r.id] = x
  BY <1>2
<1>5. \A x \in T : RecordOf(rows, ids, x) \in rows /\ ids[RecordOf(rows, ids, x).id] = x
  BY <1>4 DEF RecordOf
<1>6. \A x \in T : x \in Nat
  BY <1>1
<1>7. \A r, q \in rows : ids[r.id] = ids[q.id] => r = q
  BY <1>2 DEF Numbered, Keyed
<1>8. DOMAIN ids = I
  BY <1>2
<1> HIDE DEF T
<1>9. \A r \in rows : ids[r.id] \in Nat /\ RecordOf(rows, ids, ids[r.id]) = r
  BY <1>3, <1>5, <1>6, <1>7
<1> QED
  BY <1>3, <1>5, <1>8, <1>9 DEF T, Placed

LEMMA FreshDomain ==
  ASSUME NEW S, NEW table \in Seq(S), NEW rows, Numbered(rows), NEW ids \in FreshIds(rows, table)
  PROVE  DOMAIN ids = {r.id : r \in rows} /\ \A r \in rows : ids[r.id] \in Nat
<1>1. Placed(rows, ids, Len(table), Cardinality(rows))
  BY FreshPlaces
<1> QED
  BY <1>1 DEF Placed

LEMMA FreshRecords ==
  ASSUME NEW S, NEW table \in Seq(S), NEW rows, Numbered(rows), NEW ids \in FreshIds(rows, table),
         NEW n \in 1 .. Cardinality(rows)
  PROVE  RecordOf(rows, ids, Len(table) + n) \in rows
<1>1. Len(table) \in Nat /\ Cardinality(rows) \in Nat
  BY SequenceOf, FS_CardinalityType DEF Numbered, Keyed
<1>2. Len(table) + n \in Len(table) + 1 .. Len(table) + Cardinality(rows)
  BY <1>1
<1>3. Placed(rows, ids, Len(table), Cardinality(rows))
  BY FreshPlaces
<1> QED
  BY <1>2, <1>3 DEF Placed

(* What import_bundle does to a table: the rows it had are there as they   *)
(* were, and every record has a row of its own under its new id.           *)
Extends(new, table, rows, ids, row) ==
    /\ DOMAIN table \subseteq DOMAIN new
    /\ \A x \in DOMAIN table : new[x] = table[x]
    /\ DOMAIN ids = {r.id : r \in rows}
    /\ \A r \in rows : ids[r.id] \in DOMAIN new \ DOMAIN table /\ new[ids[r.id]] = row[r]
    /\ \A x \in DOMAIN new \ DOMAIN table : \E r \in rows : x = ids[r.id] /\ new[x] = row[r]

LEMMA Concatenation ==
  ASSUME NEW S, NEW s \in Seq(S), NEW k \in Nat, NEW t \in [1 .. k -> S]
  PROVE  /\ s \o t \in Seq(S) /\ DOMAIN (s \o t) = 1 .. (Len(s) + k)
         /\ \A x \in 1 .. Len(s) : (s \o t)[x] = s[x]
         /\ \A n \in 1 .. k : (s \o t)[Len(s) + n] = t[n]
<1>1. t \in Seq(S) /\ Len(t) = k
  OBVIOUS
<1> QED
  BY <1>1

LEMMA AddedExtends ==
  ASSUME NEW S, NEW table \in Seq(S), NEW rows, Numbered(rows), NEW row \in [rows -> S],
         NEW ids \in FreshIds(rows, table),
         NEW new, new = table \o [n \in 1 .. Cardinality(rows) |->
                                    row[RecordOf(rows, ids, Len(table) + n)]]
  PROVE  new \in Seq(S) /\ Extends(new, table, rows, ids, row)
<1> DEFINE k == Cardinality(rows)
           t == [n \in 1 .. k |-> row[RecordOf(rows, ids, Len(table) + n)]]
<1>1. k \in Nat
  BY FS_CardinalityType DEF Numbered, Keyed
<1>2. PICK m \in Nat : m = Len(table) /\ DOMAIN table = 1 .. m
  BY SequenceOf
<1>3. /\ DOMAIN ids = {r.id : r \in rows}
      /\ \A r \in rows : ids[r.id] \in m + 1 .. m + k /\ RecordOf(rows, ids, ids[r.id]) = r
      /\ \A x \in m + 1 .. m + k :
            RecordOf(rows, ids, x) \in rows /\ ids[RecordOf(rows, ids, x).id] = x
  <2>1. Placed(rows, ids, Len(table), Cardinality(rows))
    BY FreshPlaces
  <2>2. Placed(rows, ids, m, k)
    BY <1>2, <2>1 DEF k
  <2> QED
    BY <2>2 DEF Placed
<1>4. new = table \o t
  OBVIOUS
<1> HIDE DEF k
<1>5. \A n \in 1 .. k : m + n \in m + 1 .. m + k /\ m + n \in Nat
  BY <1>1
<1>6. t \in [1 .. k -> S] /\ \A n \in 1 .. k : t[n] = row[RecordOf(rows, ids, m + n)]
  BY <1>2, <1>3, <1>5
<1> HIDE DEF t
<1>7. /\ new \in Seq(S) /\ DOMAIN new = 1 .. (m + k)
      /\ \A x \in 1 .. m : new[x] = table[x]
      /\ \A n \in 1 .. k : new[m + n] = t[n]
  <2>1. /\ table \o t \in Seq(S) /\ DOMAIN (table \o t) = 1 .. (Len(table) + k)
        /\ \A x \in 1 .. Len(table) : (table \o t)[x] = table[x]
        /\ \A n \in 1 .. k : (table \o t)[Len(table) + n] = t[n]
    <3>1. t \in [1 .. k -> S]
      BY <1>6
    <3> QED
      BY <1>1, <3>1, Concatenation
  <2> QED
    BY <1>2, <1>4, <2>1
<1>8. ASSUME NEW x \in m + 1 .. m + k PROVE new[x] = row[RecordOf(rows, ids, x)]
  <2>1. PICK n \in 1 .. k : x = m + n
    <3> DEFINE place == x - m
    <3>1. place \in 1 .. k /\ x = m + place
      BY <1>1
    <3> HIDE DEF place
    <3> QED
      BY <3>1
  <2> QED
    BY <1>6, <1>7, <2>1
<1>9. DOMAIN new \ DOMAIN table = m + 1 .. m + k
  <2>1. (1 .. (m + k)) \ (1 .. m) = m + 1 .. m + k
    BY <1>1
  <2> QED
    BY <1>2, <1>7, <2>1
<1>10. DOMAIN table \subseteq DOMAIN new /\ \A x \in DOMAIN table : new[x] = table[x]
  <2>1. 1 .. m \subseteq 1 .. (m + k)
    BY <1>1
  <2> QED
    BY <1>2, <1>7, <2>1
<1>11. \A r \in rows : ids[r.id] \in DOMAIN new \ DOMAIN table /\ new[ids[r.id]] = row[r]
  BY <1>3, <1>8, <1>9
<1>12. \A x \in DOMAIN new \ DOMAIN table : \E r \in rows : x = ids[r.id] /\ new[x] = row[r]
  BY <1>3, <1>8, <1>9
<1> QED
  BY <1>3, <1>7, <1>10, <1>11, <1>12 DEF Extends

MemoryOf(rows, ns) == [r \in rows |-> [ns |-> ns, deleted |-> FALSE]]

EntityOf(rows, ns) == [r \in rows |-> [ns |-> ns, name |-> r.name]]

RelationOf(rows, ns, ids) ==
    [r \in rows |-> ImportedRelation(ns, ids, r)]

SkillOf(rows, ns) == [r \in rows |-> [ns |-> ns, name |-> r.name, active |-> TRUE]]

(* The tables after an import, in one place. *)
ExtendedBy(e, d, ns, records, ids) ==
    /\ Extends(e.memories, d.memories, records["memory"], ids.memory,
               MemoryOf(records["memory"], ns))
    /\ Extends(e.entities, d.entities, records["entity"], ids.entity,
               EntityOf(records["entity"], ns))
    /\ Extends(e.relations, d.relations, records["relation"], ids.relation,
               RelationOf(records["relation"], ns, ids))
    /\ Extends(e.skills, d.skills, records["skill"], ids.skill, SkillOf(records["skill"], ns))
    /\ e.mentions = d.mentions \cup InsertLinks(records["memory_entity"], ids.memory, ids.entity)
    /\ e.evidence = d.evidence
                    \cup InsertLinks(records["relation_provenance"], ids.relation, ids.memory)
    /\ e.lessons = d.lessons \cup InsertLinks(records["skill_provenance"], ids.skill, ids.memory)

(* The records of a bundle whose references an import looks up. *)
LEMMA BundleRows ==
  ASSUME NEW records, Bundle(records)
  PROVE  /\ \A r \in records["entity"] : r.id \in Nat /\ r.name \in Names
         /\ \A r \in records["skill"] : r.id \in Nat /\ r.name \in Names
         /\ \A r \in records["relation"] :
               /\ r.id \in Nat /\ r.subject \in {q.id : q \in records["entity"]}
               /\ r.object # Null => r.object \in {q.id : q \in records["entity"]}
               /\ r.supersedes # Null => r.supersedes \in {q.id : q \in records["relation"]}
               /\ r.supersededBy # Null => r.supersededBy \in {q.id : q \in records["relation"]}
         /\ \A l \in records["memory_entity"] :
               /\ l[1] \in {q.id : q \in records["memory"]}
               /\ l[2] \in {q.id : q \in records["entity"]}
         /\ \A l \in records["relation_provenance"] :
               /\ l[1] \in {q.id : q \in records["relation"]}
               /\ l[2] \in {q.id : q \in records["memory"]}
         /\ \A l \in records["skill_provenance"] :
               /\ l[1] \in {q.id : q \in records["skill"]}
               /\ l[2] \in {q.id : q \in records["memory"]}
         /\ Numbered(records["memory"]) /\ Numbered(records["entity"])
         /\ Numbered(records["relation"]) /\ Numbered(records["skill"])
<1>1. /\ records["entity"] \subseteq [id : Nat, name : Names]
      /\ records["skill"] \subseteq [id : Nat, name : Names]
      /\ records["relation"] \subseteq [id : Nat, subject : Nat, object : Nat \cup {Null},
                                        source : Nat \cup {Null}, supersedes : Nat \cup {Null},
                                        supersededBy : Nat \cup {Null}]
  BY DEF Bundle, Kinds, RowsOf
<1>2. Resolves(records) /\ \A r \in records["relation"] :
          /\ r.object # Null => \E q \in records["entity"] : q.id = r.object
          /\ r.supersedes # Null => \E q \in records["relation"] : q.id = r.supersedes
          /\ r.supersededBy # Null => \E q \in records["relation"] : q.id = r.supersededBy
  BY DEF Bundle
<1>3. /\ \A r \in records["relation"] : r.subject \in {q.id : q \in records["entity"]}
      /\ \A l \in records["memory_entity"] :
               /\ l[1] \in {q.id : q \in records["memory"]}
               /\ l[2] \in {q.id : q \in records["entity"]}
      /\ \A l \in records["relation_provenance"] :
               /\ l[1] \in {q.id : q \in records["relation"]}
               /\ l[2] \in {q.id : q \in records["memory"]}
      /\ \A l \in records["skill_provenance"] :
               /\ l[1] \in {q.id : q \in records["skill"]}
               /\ l[2] \in {q.id : q \in records["memory"]}
  BY <1>2 DEF Resolves
<1>4. /\ Numbered(records["memory"]) /\ Numbered(records["entity"])
      /\ Numbered(records["relation"]) /\ Numbered(records["skill"])
  BY BundleNumbered DEF RowKinds
<1> QED
  BY <1>1, <1>2, <1>3, <1>4

LEMMA ImportExtends ==
  ASSUME NEW d \in Tables, NEW ns \in Namespaces, NEW records, Bundle(records),
         NEW ids \in NewIds(d, records), NEW e, e = Imported(d, ns, records, ids)
  PROVE  /\ ExtendedBy(e, d, ns, records, ids)
         /\ e \in Tables
<1>1. /\ ids.memory \in FreshIds(records["memory"], d.memories)
      /\ ids.entity \in FreshIds(records["entity"], d.entities)
      /\ ids.relation \in FreshIds(records["relation"], d.relations)
      /\ ids.skill \in FreshIds(records["skill"], d.skills)
  BY DEF NewIds
<1>2. /\ e = [memories |-> e.memories, entities |-> e.entities, relations |-> e.relations,
              skills |-> e.skills, mentions |-> e.mentions, evidence |-> e.evidence,
              lessons |-> e.lessons]
      /\ e.memories = InsertMemories(d, ns, records, ids)
      /\ e.entities = InsertEntities(d, ns, records, ids)
      /\ e.relations = InsertRelations(d, ns, records, ids)
      /\ e.skills = InsertSkills(d, ns, records, ids)
      /\ e.mentions = d.mentions \cup InsertLinks(records["memory_entity"], ids.memory, ids.entity)
      /\ e.evidence = d.evidence
                    \cup InsertLinks(records["relation_provenance"], ids.relation, ids.memory)
      /\ e.lessons = d.lessons \cup InsertLinks(records["skill_provenance"], ids.skill, ids.memory)
  BY DEF Imported
<1>3. /\ d.memories \in Seq(MemoryRow) /\ d.entities \in Seq(EntityRow)
      /\ d.relations \in Seq(RelationRow) /\ d.skills \in Seq(SkillRow)
      /\ d.mentions \in SUBSET (Nat \X Nat) /\ d.evidence \in SUBSET (Nat \X Nat)
      /\ d.lessons \in SUBSET (Nat \X Nat)
  BY DEF Tables
<1>4. /\ DOMAIN ids.memory = {r.id : r \in records["memory"]}
      /\ \A r \in records["memory"] : ids.memory[r.id] \in Nat
  <2> DEFINE rows == records["memory"]
  <2>1. Numbered(rows)
    BY BundleRows
  <2> HIDE DEF rows
  <2>2. ids.memory \in FreshIds(rows, d.memories)
    BY <1>1 DEF rows
  <2>3. DOMAIN ids.memory = {r.id : r \in rows} /\ \A r \in rows : ids.memory[r.id] \in Nat
    BY <1>3, <2>1, <2>2, FreshDomain
  <2> QED
    BY <2>3 DEF rows
<1>5. /\ DOMAIN ids.entity = {r.id : r \in records["entity"]}
      /\ \A r \in records["entity"] : ids.entity[r.id] \in Nat
  <2> DEFINE rows == records["entity"]
  <2>1. Numbered(rows)
    BY BundleRows
  <2> HIDE DEF rows
  <2>2. ids.entity \in FreshIds(rows, d.entities)
    BY <1>1 DEF rows
  <2>3. DOMAIN ids.entity = {r.id : r \in rows} /\ \A r \in rows : ids.entity[r.id] \in Nat
    BY <1>3, <2>1, <2>2, FreshDomain
  <2> QED
    BY <2>3 DEF rows
<1>6. /\ DOMAIN ids.relation = {r.id : r \in records["relation"]}
      /\ \A r \in records["relation"] : ids.relation[r.id] \in Nat
  <2> DEFINE rows == records["relation"]
  <2>1. Numbered(rows)
    BY BundleRows
  <2> HIDE DEF rows
  <2>2. ids.relation \in FreshIds(rows, d.relations)
    BY <1>1 DEF rows
  <2>3. DOMAIN ids.relation = {r.id : r \in rows} /\ \A r \in rows : ids.relation[r.id] \in Nat
    BY <1>3, <2>1, <2>2, FreshDomain
  <2> QED
    BY <2>3 DEF rows
<1>7. /\ DOMAIN ids.skill = {r.id : r \in records["skill"]}
      /\ \A r \in records["skill"] : ids.skill[r.id] \in Nat
  <2> DEFINE rows == records["skill"]
  <2>1. Numbered(rows)
    BY BundleRows
  <2> HIDE DEF rows
  <2>2. ids.skill \in FreshIds(rows, d.skills)
    BY <1>1 DEF rows
  <2>3. DOMAIN ids.skill = {r.id : r \in rows} /\ \A r \in rows : ids.skill[r.id] \in Nat
    BY <1>3, <2>1, <2>2, FreshDomain
  <2> QED
    BY <2>3 DEF rows
<1>8. /\ e.memories \in Seq(MemoryRow)
      /\ Extends(e.memories, d.memories, records["memory"], ids.memory,
                 MemoryOf(records["memory"], ns))
  <2> DEFINE rows == records["memory"]
             row == MemoryOf(rows, ns)
  <2>1. row \in [rows -> MemoryRow]
    BY DEF MemoryOf, MemoryRow
  <2>2. Numbered(rows)
    BY BundleRows
  <2>3. \A r \in rows : row[r] = [ns |-> ns, deleted |-> FALSE]
    BY DEF MemoryOf
  <2>4. ids.memory \in FreshIds(rows, d.memories)
    BY <1>1
  <2>5. \A n \in 1 .. Cardinality(rows) : RecordOf(rows, ids.memory, Len(d.memories) + n) \in rows
    BY <1>3, <2>2, <2>4, FreshRecords
  <2>6. e.memories = d.memories \o [n \in 1 .. Cardinality(rows) |->
                                   row[RecordOf(rows, ids.memory, Len(d.memories) + n)]]
    BY <1>2, <2>3, <2>5 DEF InsertMemories, Added
  <2> HIDE DEF rows, row
  <2>7. e.memories \in Seq(MemoryRow) /\ Extends(e.memories, d.memories, rows, ids.memory, row)
    BY <1>3, <2>1, <2>2, <2>4, <2>6, AddedExtends
  <2> QED
    BY <2>7 DEF rows, row
<1>9. /\ e.entities \in Seq(EntityRow)
      /\ Extends(e.entities, d.entities, records["entity"], ids.entity,
                 EntityOf(records["entity"], ns))
  <2> DEFINE rows == records["entity"]
             row == EntityOf(rows, ns)
  <2>1. row \in [rows -> EntityRow]
    BY BundleRows DEF EntityOf, EntityRow
  <2>2. Numbered(rows)
    BY BundleRows
  <2>3. \A r \in rows : row[r] = [ns |-> ns, name |-> r.name]
    BY DEF EntityOf
  <2>4. ids.entity \in FreshIds(rows, d.entities)
    BY <1>1
  <2>5. \A n \in 1 .. Cardinality(rows) : RecordOf(rows, ids.entity, Len(d.entities) + n) \in rows
    BY <1>3, <2>2, <2>4, FreshRecords
  <2>6. e.entities = d.entities \o [n \in 1 .. Cardinality(rows) |->
                                   row[RecordOf(rows, ids.entity, Len(d.entities) + n)]]
    BY <1>2, <2>3, <2>5 DEF InsertEntities, Added
  <2> HIDE DEF rows, row
  <2>7. e.entities \in Seq(EntityRow) /\ Extends(e.entities, d.entities, rows, ids.entity, row)
    BY <1>3, <2>1, <2>2, <2>4, <2>6, AddedExtends
  <2> QED
    BY <2>7 DEF rows, row
<1>10. /\ e.skills \in Seq(SkillRow)
       /\ Extends(e.skills, d.skills, records["skill"], ids.skill, SkillOf(records["skill"], ns))
  <2> DEFINE rows == records["skill"]
             row == SkillOf(rows, ns)
  <2>1. row \in [rows -> SkillRow]
    BY BundleRows DEF SkillOf, SkillRow
  <2>2. Numbered(rows)
    BY BundleRows
  <2>3. \A r \in rows : row[r] = [ns |-> ns, name |-> r.name, active |-> TRUE]
    BY DEF SkillOf
  <2>4. ids.skill \in FreshIds(rows, d.skills)
    BY <1>1
  <2>5. \A n \in 1 .. Cardinality(rows) : RecordOf(rows, ids.skill, Len(d.skills) + n) \in rows
    BY <1>3, <2>2, <2>4, FreshRecords
  <2>6. e.skills = d.skills \o [n \in 1 .. Cardinality(rows) |->
                                   row[RecordOf(rows, ids.skill, Len(d.skills) + n)]]
    BY <1>2, <2>3, <2>5 DEF InsertSkills, Added
  <2> HIDE DEF rows, row
  <2>7. e.skills \in Seq(SkillRow) /\ Extends(e.skills, d.skills, rows, ids.skill, row)
    BY <1>3, <2>1, <2>2, <2>4, <2>6, AddedExtends
  <2> QED
    BY <2>7 DEF rows, row
<1>11. /\ e.relations \in Seq(RelationRow)
       /\ Extends(e.relations, d.relations, records["relation"], ids.relation,
                  RelationOf(records["relation"], ns, ids))
  <2> DEFINE rows == records["relation"]
             row == RelationOf(rows, ns, ids)
  <2>1. \A x : /\ Remap(ids.memory, x) \in Nat \cup {Null}
               /\ Remap(ids.entity, x) \in Nat \cup {Null}
               /\ Remap(ids.relation, x) \in Nat \cup {Null}
    BY <1>4, <1>5, <1>6 DEF Remap
  <2>2. \A r \in rows : ids.entity[r.subject] \in Nat
    BY <1>5, BundleRows
  <2>3. \A r \in rows : ImportedRelation(ns, ids, r) \in RelationRow
    BY <2>1, <2>2 DEF ImportedRelation, RelationRow
  <2>4. row \in [rows -> RelationRow] /\ \A r \in rows : row[r] = ImportedRelation(ns, ids, r)
    BY <2>3 DEF RelationOf
  <2>5. Numbered(rows)
    BY BundleRows
  <2>6. ids.relation \in FreshIds(rows, d.relations)
    BY <1>1
  <2>7. \A n \in 1 .. Cardinality(rows) : RecordOf(rows, ids.relation, Len(d.relations) + n) \in rows
    BY <1>3, <2>5, <2>6, FreshRecords
  <2>8. e.relations = d.relations \o [n \in 1 .. Cardinality(rows) |->
                                         row[RecordOf(rows, ids.relation, Len(d.relations) + n)]]
    BY <1>2, <2>4, <2>7 DEF InsertRelations, Added
  <2> HIDE DEF rows, row
  <2>9. e.relations \in Seq(RelationRow)
        /\ Extends(e.relations, d.relations, rows, ids.relation, row)
    BY <1>3, <2>4, <2>5, <2>6, <2>8, AddedExtends
  <2> QED
    BY <2>9 DEF rows, row
<1>12. ExtendedBy(e, d, ns, records, ids)
  BY <1>2, <1>8, <1>9, <1>10, <1>11 DEF ExtendedBy
<1>13. /\ InsertLinks(records["memory_entity"], ids.memory, ids.entity) \subseteq Nat \X Nat
       /\ InsertLinks(records["relation_provenance"], ids.relation, ids.memory) \subseteq Nat \X Nat
       /\ InsertLinks(records["skill_provenance"], ids.skill, ids.memory) \subseteq Nat \X Nat
  <2>1. InsertLinks(records["memory_entity"], ids.memory, ids.entity) \subseteq Nat \X Nat
    BY <1>4, <1>5, BundleRows DEF InsertLinks
  <2>2. InsertLinks(records["relation_provenance"], ids.relation, ids.memory) \subseteq Nat \X Nat
    BY <1>4, <1>6, BundleRows DEF InsertLinks
  <2>3. InsertLinks(records["skill_provenance"], ids.skill, ids.memory) \subseteq Nat \X Nat
    BY <1>4, <1>7, BundleRows DEF InsertLinks
  <2> QED
    BY <2>1, <2>2, <2>3
<1>14. e \in Tables
  BY <1>2, <1>3, <1>8, <1>9, <1>10, <1>11, <1>13 DEF Tables
<1> QED
  BY <1>12, <1>14

LEMMA ExtendedNamespace ==
  ASSUME NEW new, NEW table, NEW rows, NEW ids, NEW row, NEW ns,
         Extends(new, table, rows, ids, row), \A r \in rows : row[r].ns = ns
  PROVE  /\ \A n : InNamespace(table, n) \subseteq InNamespace(new, n)
         /\ \A i \in {r.id : r \in rows} : i \in DOMAIN ids /\ ids[i] \in InNamespace(new, ns)
BY DEF Extends, InNamespace

LEMMA ImportRefers ==
  ASSUME NEW d \in Tables, Refers(d), NEW ns, NEW records, Bundle(records),
         NEW ids, NEW e, ExtendedBy(e, d, ns, records, ids)
  PROVE  Refers(e)
<1>1. /\ \A n : InNamespace(d.memories, n) \subseteq InNamespace(e.memories, n)
      /\ \A i \in {r.id : r \in records["memory"]} :
            i \in DOMAIN ids.memory /\ ids.memory[i] \in InNamespace(e.memories, ns)
  <2> DEFINE row == MemoryOf(records["memory"], ns)
  <2>1. \A r \in records["memory"] : row[r].ns = ns
    BY DEF MemoryOf
  <2>2. Extends(e.memories, d.memories, records["memory"], ids.memory, row)
    BY DEF ExtendedBy
  <2> HIDE DEF row
  <2> QED
    BY <2>1, <2>2, ExtendedNamespace, Zenon
<1>2. /\ \A n : InNamespace(d.entities, n) \subseteq InNamespace(e.entities, n)
      /\ \A i \in {r.id : r \in records["entity"]} :
            i \in DOMAIN ids.entity /\ ids.entity[i] \in InNamespace(e.entities, ns)
  <2> DEFINE row == EntityOf(records["entity"], ns)
  <2>1. \A r \in records["entity"] : row[r].ns = ns
    BY DEF EntityOf
  <2>2. Extends(e.entities, d.entities, records["entity"], ids.entity, row)
    BY DEF ExtendedBy
  <2> HIDE DEF row
  <2> QED
    BY <2>1, <2>2, ExtendedNamespace, Zenon
<1>3. /\ \A n : InNamespace(d.relations, n) \subseteq InNamespace(e.relations, n)
      /\ \A i \in {r.id : r \in records["relation"]} :
            i \in DOMAIN ids.relation /\ ids.relation[i] \in InNamespace(e.relations, ns)
  <2> DEFINE row == RelationOf(records["relation"], ns, ids)
  <2>1. \A r \in records["relation"] : row[r].ns = ns
    BY DEF RelationOf, ImportedRelation
  <2>2. Extends(e.relations, d.relations, records["relation"], ids.relation, row)
    BY DEF ExtendedBy
  <2> HIDE DEF row
  <2> QED
    BY <2>1, <2>2, ExtendedNamespace, Zenon
<1>4. /\ \A n : InNamespace(d.skills, n) \subseteq InNamespace(e.skills, n)
      /\ \A i \in {r.id : r \in records["skill"]} :
            i \in DOMAIN ids.skill /\ ids.skill[i] \in InNamespace(e.skills, ns)
  <2> DEFINE row == SkillOf(records["skill"], ns)
  <2>1. \A r \in records["skill"] : row[r].ns = ns
    BY DEF SkillOf
  <2>2. Extends(e.skills, d.skills, records["skill"], ids.skill, row)
    BY DEF ExtendedBy
  <2> HIDE DEF row
  <2> QED
    BY <2>1, <2>2, ExtendedNamespace, Zenon
<1>5. ASSUME NEW x \in DOMAIN e.relations PROVE RowRefers(e, e.relations[x])
  <2>1. CASE x \in DOMAIN d.relations
    <3>1. e.relations[x] = d.relations[x]
      BY <2>1 DEF ExtendedBy, Extends
    <3>2. RowRefers(d, d.relations[x])
      BY <2>1 DEF Refers
    <3> QED
      BY <1>1, <1>2, <1>3, <3>1, <3>2 DEF RowRefers
  <2>2. CASE x \notin DOMAIN d.relations
    <3> DEFINE row == RelationOf(records["relation"], ns, ids)
    <3>1. Extends(e.relations, d.relations, records["relation"], ids.relation, row)
      BY DEF ExtendedBy
    <3>2. PICK r \in records["relation"] : e.relations[x] = row[r]
      <4> HIDE DEF row
      <4> QED
        BY <2>2, <3>1 DEF Extends
    <3>3. e.relations[x] = ImportedRelation(ns, ids, r)
      BY <3>2 DEF RelationOf
    <3>4. ids.entity[r.subject] \in InNamespace(e.entities, ns)
      BY <1>2, BundleRows
    <3>5. /\ DOMAIN ids.memory = {q.id : q \in records["memory"]}
          /\ DOMAIN ids.entity = {q.id : q \in records["entity"]}
          /\ DOMAIN ids.relation = {q.id : q \in records["relation"]}
      BY DEF ExtendedBy, Extends
    <3>6. \A y : /\ Remap(ids.memory, y) # Null => Remap(ids.memory, y) \in InNamespace(e.memories, ns)
                 /\ Remap(ids.entity, y) # Null => Remap(ids.entity, y) \in InNamespace(e.entities, ns)
                 /\ Remap(ids.relation, y) # Null =>
                       Remap(ids.relation, y) \in InNamespace(e.relations, ns)
      BY <1>1, <1>2, <1>3, <3>5 DEF Remap
    <3> QED
      BY <3>3, <3>4, <3>6 DEF RowRefers, ImportedRelation
  <2> QED
    BY <2>1, <2>2
(* A row that was in a table still is, in its namespace. *)
<1>6. /\ \A x \in DOMAIN d.entities : x \in DOMAIN e.entities /\ e.entities[x] = d.entities[x]
      /\ \A x \in DOMAIN d.relations : x \in DOMAIN e.relations /\ e.relations[x] = d.relations[x]
      /\ \A x \in DOMAIN d.skills : x \in DOMAIN e.skills /\ e.skills[x] = d.skills[x]
  BY DEF ExtendedBy, Extends
<1>7. ASSUME NEW l \in e.mentions
      PROVE  l[2] \in DOMAIN e.entities /\ l[1] \in InNamespace(e.memories, e.entities[l[2]].ns)
  <2>1. CASE l \in d.mentions
    <3>1. l[2] \in DOMAIN d.entities /\ l[1] \in InNamespace(d.memories, d.entities[l[2]].ns)
      BY <2>1 DEF Refers
    <3> QED
      BY <1>1, <1>6, <3>1
  <2>2. CASE l \notin d.mentions
    <3>1. PICK k \in records["memory_entity"] : l = <<ids.memory[k[1]], ids.entity[k[2]]>>
      BY <2>2 DEF ExtendedBy, InsertLinks
    <3>2. l[1] \in InNamespace(e.memories, ns) /\ l[2] \in InNamespace(e.entities, ns)
      BY <1>1, <1>2, <3>1, BundleRows
    <3> QED
      BY <3>2 DEF InNamespace
  <2> QED
    BY <2>1, <2>2
<1>8. ASSUME NEW l \in e.evidence
      PROVE  l[1] \in DOMAIN e.relations /\ l[2] \in InNamespace(e.memories, e.relations[l[1]].ns)
  <2>1. CASE l \in d.evidence
    <3>1. l[1] \in DOMAIN d.relations /\ l[2] \in InNamespace(d.memories, d.relations[l[1]].ns)
      BY <2>1 DEF Refers
    <3> QED
      BY <1>1, <1>6, <3>1
  <2>2. CASE l \notin d.evidence
    <3>1. PICK k \in records["relation_provenance"] : l = <<ids.relation[k[1]], ids.memory[k[2]]>>
      BY <2>2 DEF ExtendedBy, InsertLinks
    <3>2. l[2] \in InNamespace(e.memories, ns) /\ l[1] \in InNamespace(e.relations, ns)
      BY <1>1, <1>3, <3>1, BundleRows
    <3> QED
      BY <3>2 DEF InNamespace
  <2> QED
    BY <2>1, <2>2
<1>9. ASSUME NEW l \in e.lessons
      PROVE  l[1] \in DOMAIN e.skills /\ l[2] \in InNamespace(e.memories, e.skills[l[1]].ns)
  <2>1. CASE l \in d.lessons
    <3>1. l[1] \in DOMAIN d.skills /\ l[2] \in InNamespace(d.memories, d.skills[l[1]].ns)
      BY <2>1 DEF Refers
    <3> QED
      BY <1>1, <1>6, <3>1
  <2>2. CASE l \notin d.lessons
    <3>1. PICK k \in records["skill_provenance"] : l = <<ids.skill[k[1]], ids.memory[k[2]]>>
      BY <2>2 DEF ExtendedBy, InsertLinks
    <3>2. l[2] \in InNamespace(e.memories, ns) /\ l[1] \in InNamespace(e.skills, ns)
      BY <1>1, <1>4, <3>1, BundleRows
    <3> QED
      BY <3>2 DEF InNamespace
  <2> QED
    BY <2>1, <2>2
<1> QED
  BY <1>5, <1>7, <1>8, <1>9 DEF Refers

(* Rows of new names, no two of them alike, beside rows no two of which    *)
(* are alike.                                                              *)
NoneAlike(table, places) ==
    \A e, f \in places : table[e].name = table[f].name => e = f

NewNames(table, places, rows, row) ==
    /\ Named(rows)
    /\ places \subseteq DOMAIN table
    /\ NoneAlike(table, places)
    /\ \A r \in rows : row[r].name = r.name
    /\ {r.name : r \in rows} \cap {table[e].name : e \in places} = {}

LEMMA NamesStayDistinct ==
  ASSUME NEW new, NEW table, NEW rows, NEW ids, NEW row, Extends(new, table, rows, ids, row),
         NEW Old, NewNames(table, Old, rows, row)
  PROVE  NoneAlike(new, Old \cup (DOMAIN new \ DOMAIN table))
<1> SUFFICES ASSUME NEW e \in Old \cup (DOMAIN new \ DOMAIN table),
                    NEW f \in Old \cup (DOMAIN new \ DOMAIN table), new[e].name = new[f].name
             PROVE  e = f
  BY DEF NoneAlike
<1> USE DEF NewNames, NoneAlike
<1>1. \A x \in Old : new[x] = table[x]
  BY DEF Extends
<1>2. \A x \in DOMAIN new \ DOMAIN table : \E r \in rows : x = ids[r.id] /\ new[x].name = r.name
  BY DEF Extends
<1>3. CASE e \in Old /\ f \in Old
  BY <1>1, <1>3
<1>4. CASE e \in Old /\ f \notin Old
  BY <1>1, <1>2, <1>4
<1>5. CASE e \notin Old /\ f \in Old
  BY <1>1, <1>2, <1>5
<1>6. CASE e \notin Old /\ f \notin Old
  <2>1. PICK r \in rows : e = ids[r.id] /\ new[e].name = r.name
    BY <1>2, <1>6
  <2>2. PICK q \in rows : f = ids[q.id] /\ new[f].name = q.name
    BY <1>2, <1>6
  <2> QED
    BY <2>1, <2>2 DEF Named
<1> QED
  BY <1>3, <1>4, <1>5, <1>6

LEMMA ImportDistinct ==
  ASSUME NEW d \in Tables, Distinct(d), NEW ns \in Namespaces, NEW records, Bundle(records),
         NEW ids, NEW e, ExtendedBy(e, d, ns, records, ids),
         {r.name : r \in records["entity"]} \cap EntityNames(d, ns) = {},
         {r.name : r \in records["skill"]} \cap SkillNames(d, ns) = {}
  PROVE  Distinct(e)
<1>1. Named(records["entity"]) /\ Named(records["skill"])
  BY DEF Bundle
<1>2. ASSUME NEW n \in Namespaces, NEW x \in InNamespace(e.entities, n),
             NEW y \in InNamespace(e.entities, n), e.entities[x].name = e.entities[y].name
      PROVE  x = y
  <2> DEFINE rows == records["entity"]
             row == EntityOf(rows, ns)
             Old == InNamespace(d.entities, n)
  <2>1. Extends(e.entities, d.entities, rows, ids.entity, row)
    BY DEF ExtendedBy
  <2>2. \A r \in rows : row[r].name = r.name /\ row[r].ns = ns
    BY DEF EntityOf
  <2>3. Old \subseteq DOMAIN d.entities
        /\ \A a, b \in Old : d.entities[a].name = d.entities[b].name => a = b
    BY DEF Distinct, InNamespace
  <2>4. EntityNames(d, ns) = {d.entities[a].name : a \in InNamespace(d.entities, ns)}
    BY DEF EntityNames
  <2> HIDE DEF row
  <2>5. \A a \in InNamespace(e.entities, n) :
           a \in Old \/ (a \in DOMAIN e.entities \ DOMAIN d.entities /\ n = ns)
    BY <2>1, <2>2 DEF Extends, InNamespace
  <2>6. CASE n = ns
    <3>1. rows = records["entity"] /\ Named(rows)
      BY <1>1
    <3>2. {r.name : r \in rows} \cap {d.entities[a].name : a \in Old} = {}
      BY <2>4, <2>6
    <3>3. x \in Old \cup (DOMAIN e.entities \ DOMAIN d.entities)
          /\ y \in Old \cup (DOMAIN e.entities \ DOMAIN d.entities)
      BY <2>5
    <3>4. NewNames(d.entities, Old, rows, row)
      BY <2>2, <2>3, <3>1, <3>2 DEF NewNames, NoneAlike
    <3> HIDE DEF rows, Old
    <3>5. NoneAlike(e.entities, Old \cup (DOMAIN e.entities \ DOMAIN d.entities))
      BY <2>1, <3>4, NamesStayDistinct
    <3> QED
      BY <1>2, <3>3, <3>5 DEF NoneAlike
  <2>7. CASE n # ns
    <3>1. x \in Old /\ y \in Old
      BY <2>5, <2>7
    <3>2. e.entities[x] = d.entities[x] /\ e.entities[y] = d.entities[y]
      BY <2>1, <2>3, <3>1 DEF Extends
    <3> QED
      BY <1>2, <2>3, <3>1, <3>2
  <2> QED
    BY <2>6, <2>7
<1>3. ASSUME NEW n \in Namespaces, NEW x \in ActiveSkills(e, n), NEW y \in ActiveSkills(e, n),
             e.skills[x].name = e.skills[y].name
      PROVE  x = y
  <2> DEFINE rows == records["skill"]
             row == SkillOf(rows, ns)
             Old == ActiveSkills(d, n)
  <2>1. Extends(e.skills, d.skills, rows, ids.skill, row)
    BY DEF ExtendedBy
  <2>2. \A r \in rows : row[r].name = r.name /\ row[r].ns = ns
    BY DEF SkillOf
  <2>3. Old \subseteq DOMAIN d.skills
        /\ \A a, b \in Old : d.skills[a].name = d.skills[b].name => a = b
    BY DEF Distinct, ActiveSkills, InNamespace
  <2>4. SkillNames(d, ns) = {d.skills[a].name : a \in ActiveSkills(d, ns)}
    BY DEF SkillNames
  <2> HIDE DEF row
  <2>5. \A a \in ActiveSkills(e, n) :
           a \in Old \/ (a \in DOMAIN e.skills \ DOMAIN d.skills /\ n = ns)
    BY <2>1, <2>2 DEF Extends, InNamespace, ActiveSkills
  <2>6. CASE n = ns
    <3>1. rows = records["skill"] /\ Named(rows)
      BY <1>1
    <3>2. {r.name : r \in rows} \cap {d.skills[a].name : a \in Old} = {}
      BY <2>4, <2>6
    <3>3. x \in Old \cup (DOMAIN e.skills \ DOMAIN d.skills)
          /\ y \in Old \cup (DOMAIN e.skills \ DOMAIN d.skills)
      BY <2>5
    <3>4. NewNames(d.skills, Old, rows, row)
      BY <2>2, <2>3, <3>1, <3>2 DEF NewNames, NoneAlike
    <3> HIDE DEF rows, Old
    <3>5. NoneAlike(e.skills, Old \cup (DOMAIN e.skills \ DOMAIN d.skills))
      BY <2>1, <3>4, NamesStayDistinct
    <3> QED
      BY <1>3, <3>3, <3>5 DEF NoneAlike
  <2>7. CASE n # ns
    <3>1. x \in Old /\ y \in Old
      BY <2>5, <2>7
    <3>2. e.skills[x] = d.skills[x] /\ e.skills[y] = d.skills[y]
      BY <2>1, <2>3, <3>1 DEF Extends
    <3> QED
      BY <1>3, <2>3, <3>1, <3>2
  <2> QED
    BY <2>6, <2>7
<1> QED
  BY <1>2, <1>3 DEF Distinct

-----------------------------------------------------------------------------
(* Writes of the service *)

LEMMA AppendedRow ==
  ASSUME NEW S, NEW s \in Seq(S), NEW v \in S
  PROVE  /\ Append(s, v) \in Seq(S) /\ Len(s) + 1 \in Nat
         /\ DOMAIN Append(s, v) = DOMAIN s \cup {Len(s) + 1} /\ Len(s) + 1 \notin DOMAIN s
         /\ \A x \in DOMAIN s : Append(s, v)[x] = s[x]
         /\ Append(s, v)[Len(s) + 1] = v
OBVIOUS

LEMMA FunctionIsSequence ==
  ASSUME NEW S, NEW n \in Nat, NEW f \in [1 .. n -> S]
  PROVE  f \in Seq(S)
OBVIOUS

(* A row that was there still is, and still in its namespace; relations    *)
(* and entities are as they were.                                          *)
Grows(e, d) ==
    /\ \A x \in DOMAIN d.memories : x \in DOMAIN e.memories /\ e.memories[x].ns = d.memories[x].ns
    /\ \A x \in DOMAIN d.entities : x \in DOMAIN e.entities /\ e.entities[x] = d.entities[x]
    /\ \A x \in DOMAIN d.relations : x \in DOMAIN e.relations /\ e.relations[x].ns = d.relations[x].ns
    /\ \A x \in DOMAIN d.skills : x \in DOMAIN e.skills /\ e.skills[x].ns = d.skills[x].ns

(* What was added or changed refers to rows of its own namespace. *)
AddedRefers(e, d) ==
    /\ \A x \in DOMAIN e.relations :
          \/ x \in DOMAIN d.relations /\ e.relations[x] = d.relations[x]
          \/ RowRefers(e, e.relations[x])
    /\ \A l \in e.mentions \ d.mentions :
          l[2] \in DOMAIN e.entities /\ l[1] \in InNamespace(e.memories, e.entities[l[2]].ns)
    /\ \A l \in e.evidence \ d.evidence :
          l[1] \in DOMAIN e.relations /\ l[2] \in InNamespace(e.memories, e.relations[l[1]].ns)
    /\ \A l \in e.lessons \ d.lessons :
          l[1] \in DOMAIN e.skills /\ l[2] \in InNamespace(e.memories, e.skills[l[1]].ns)

LEMMA GrownRefers ==
  ASSUME NEW d, Refers(d), NEW e, Grows(e, d), AddedRefers(e, d)
  PROVE  Refers(e)
<1>1. \A n : /\ InNamespace(d.memories, n) \subseteq InNamespace(e.memories, n)
             /\ InNamespace(d.entities, n) \subseteq InNamespace(e.entities, n)
             /\ InNamespace(d.relations, n) \subseteq InNamespace(e.relations, n)
  BY DEF Grows, InNamespace
<1>2. ASSUME NEW x \in DOMAIN e.relations PROVE RowRefers(e, e.relations[x])
  <2>1. CASE x \in DOMAIN d.relations /\ e.relations[x] = d.relations[x]
    <3>1. RowRefers(d, d.relations[x])
      BY <2>1 DEF Refers
    <3> QED
      BY <1>1, <2>1, <3>1 DEF RowRefers
  <2> QED
    BY <2>1 DEF AddedRefers
<1>3. ASSUME NEW l \in e.mentions
      PROVE  l[2] \in DOMAIN e.entities /\ l[1] \in InNamespace(e.memories, e.entities[l[2]].ns)
  <2>1. CASE l \in d.mentions
    <3>1. l[2] \in DOMAIN d.entities /\ l[1] \in InNamespace(d.memories, d.entities[l[2]].ns)
      BY <2>1 DEF Refers
    <3> QED
      BY <1>1, <3>1 DEF Grows
  <2> QED
    BY <2>1 DEF AddedRefers
<1>4. ASSUME NEW l \in e.evidence
      PROVE  l[1] \in DOMAIN e.relations /\ l[2] \in InNamespace(e.memories, e.relations[l[1]].ns)
  <2>1. CASE l \in d.evidence
    <3>1. l[1] \in DOMAIN d.relations /\ l[2] \in InNamespace(d.memories, d.relations[l[1]].ns)
      BY <2>1 DEF Refers
    <3> QED
      BY <1>1, <3>1 DEF Grows
  <2> QED
    BY <2>1 DEF AddedRefers
<1>5. ASSUME NEW l \in e.lessons
      PROVE  l[1] \in DOMAIN e.skills /\ l[2] \in InNamespace(e.memories, e.skills[l[1]].ns)
  <2>1. CASE l \in d.lessons
    <3>1. l[1] \in DOMAIN d.skills /\ l[2] \in InNamespace(d.memories, d.skills[l[1]].ns)
      BY <2>1 DEF Refers
    <3> QED
      BY <1>1, <3>1 DEF Grows
  <2> QED
    BY <2>1 DEF AddedRefers
<1> QED
  BY <1>2, <1>3, <1>4, <1>5 DEF Refers

(* A write adds no name that a transaction about to commit has inserted.   *)
SafeNames(e, d) ==
    \A n : /\ \A name \in EntityNames(e, n) \ EntityNames(d, n) : name \notin InsertedNames(n, "entity")
           /\ \A name \in SkillNames(e, n) \ SkillNames(d, n) : name \notin InsertedNames(n, "skill")

LEMMA SameNames ==
  ASSUME NEW d, NEW e, e.entities = d.entities, e.skills = d.skills
  PROVE  SafeNames(e, d) /\ (Distinct(d) => Distinct(e))
<1>1. SafeNames(e, d)
  BY DEF SafeNames, EntityNames, SkillNames, ActiveSkills
<1>2. Distinct(d) => Distinct(e)
  BY DEF Distinct, ActiveSkills
<1> QED
  BY <1>1, <1>2

LEMMA RememberGood ==
  ASSUME NEW d, Good(d), NEW ns \in Namespaces, NEW e,
         e = [d EXCEPT !.memories = Append(@, [ns |-> ns, deleted |-> FALSE])]
  PROVE  Good(e) /\ SafeNames(e, d)
<1> DEFINE row == [ns |-> ns, deleted |-> FALSE]
<1>1. d \in Tables /\ Refers(d) /\ Distinct(d) /\ d.memories \in Seq(MemoryRow)
  BY DEF Good, Tables
<1>2. row \in MemoryRow
  BY DEF MemoryRow
<1>3. /\ e = [d EXCEPT !.memories = Append(d.memories, row)]
      /\ e.memories = Append(d.memories, row) /\ e.entities = d.entities
      /\ e.relations = d.relations /\ e.skills = d.skills /\ e.mentions = d.mentions
      /\ e.evidence = d.evidence /\ e.lessons = d.lessons
  BY <1>1 DEF Tables
<1> HIDE DEF row
<1>4. Append(d.memories, row) \in Seq(MemoryRow)
      /\ DOMAIN d.memories \subseteq DOMAIN Append(d.memories, row)
      /\ \A x \in DOMAIN d.memories : Append(d.memories, row)[x] = d.memories[x]
  BY <1>1, <1>2, AppendedRow
<1>5. e \in Tables
  BY <1>1, <1>3, <1>4 DEF Tables
<1>6. Grows(e, d) /\ AddedRefers(e, d)
  BY <1>3, <1>4 DEF Grows, AddedRefers
<1> QED
  BY <1>1, <1>3, <1>5, <1>6, GrownRefers, SameNames DEF Good

LEMMA ForgetGood ==
  ASSUME NEW d, Good(d), NEW m \in DOMAIN d.memories, NEW e,
         e = [d EXCEPT !.memories[m].deleted = TRUE]
  PROVE  Good(e) /\ SafeNames(e, d)
<1>1. d \in Tables /\ Refers(d) /\ Distinct(d) /\ d.memories \in Seq(MemoryRow)
  BY DEF Good, Tables
<1>2. /\ e.memories = [d.memories EXCEPT ![m].deleted = TRUE] /\ e.entities = d.entities
      /\ e.relations = d.relations /\ e.skills = d.skills /\ e.mentions = d.mentions
      /\ e.evidence = d.evidence /\ e.lessons = d.lessons
      /\ e = [d EXCEPT !.memories = e.memories]
  BY <1>1 DEF Tables
<1>3. \A x \in DOMAIN d.memories : d.memories[x] \in MemoryRow
  BY <1>1, TablesOf
<1>4. e.memories \in Seq(MemoryRow) /\ DOMAIN e.memories = DOMAIN d.memories
      /\ \A x \in DOMAIN d.memories : e.memories[x].ns = d.memories[x].ns
  <2> DEFINE row == [d.memories[m] EXCEPT !.deleted = TRUE]
  <2>1. row \in MemoryRow /\ row.ns = d.memories[m].ns
    BY <1>3 DEF MemoryRow
  <2>2. e.memories = [d.memories EXCEPT ![m] = row]
    BY <1>2
  <2> HIDE DEF row
  <2>3. /\ DOMAIN e.memories = DOMAIN d.memories
        /\ \A x \in DOMAIN d.memories :
              e.memories[x] \in MemoryRow /\ e.memories[x].ns = d.memories[x].ns
    BY <1>3, <2>1, <2>2
  <2>4. PICK n \in Nat : d.memories \in [1 .. n -> MemoryRow]
    BY <1>1, SequenceOf
  <2>5. e.memories \in [1 .. n -> MemoryRow]
    BY <2>2, <2>3, <2>4
  <2>6. e.memories \in Seq(MemoryRow)
    BY <2>5, FunctionIsSequence
  <2> QED
    BY <2>3, <2>6
<1>5. e \in Tables
  BY <1>1, <1>2, <1>4 DEF Tables
<1>6. Grows(e, d) /\ AddedRefers(e, d)
  BY <1>2, <1>4 DEF Grows, AddedRefers
<1> QED
  BY <1>1, <1>2, <1>5, <1>6, GrownRefers, SameNames DEF Good

LEMMA UpsertGood ==
  ASSUME NEW d, Good(d), NEW ns \in Namespaces, NEW name \in Names, NEW e,
         name \notin EntityNames(d, ns) \cup InsertedNames(ns, "entity"),
         e = [d EXCEPT !.entities = Append(@, [ns |-> ns, name |-> name])]
  PROVE  Good(e) /\ SafeNames(e, d)
<1> DEFINE row == [ns |-> ns, name |-> name]
           new == Len(d.entities) + 1
<1>1. d \in Tables /\ Refers(d) /\ Distinct(d) /\ d.entities \in Seq(EntityRow)
  BY DEF Good, Tables
<1>2. row \in EntityRow /\ row.ns = ns /\ row.name = name
  BY DEF EntityRow
<1>3. /\ e = [d EXCEPT !.entities = Append(d.entities, row)]
      /\ e.entities = Append(d.entities, row) /\ e.memories = d.memories
      /\ e.relations = d.relations /\ e.skills = d.skills /\ e.mentions = d.mentions
      /\ e.evidence = d.evidence /\ e.lessons = d.lessons
  BY <1>1 DEF Tables
<1> HIDE DEF row, new
<1>4. /\ e.entities \in Seq(EntityRow)
      /\ DOMAIN e.entities = DOMAIN d.entities \cup {new} /\ new \notin DOMAIN d.entities
      /\ \A x \in DOMAIN d.entities : e.entities[x] = d.entities[x]
      /\ e.entities[new] = row
  BY <1>1, <1>2, <1>3, AppendedRow DEF new
<1>5. e \in Tables
  BY <1>1, <1>3, <1>4 DEF Tables
<1>6. Grows(e, d) /\ AddedRefers(e, d)
  BY <1>3, <1>4 DEF Grows, AddedRefers
<1>7. \A n : \A x \in InNamespace(e.entities, n) :
         \/ x \in InNamespace(d.entities, n) /\ e.entities[x].name = d.entities[x].name
         \/ n = ns /\ x = new /\ e.entities[x].name = name
  BY <1>2, <1>4 DEF InNamespace
<1>8. \A x \in InNamespace(d.entities, ns) : d.entities[x].name # name
  BY DEF EntityNames
<1>9. Distinct(e)
  <2> SUFFICES ASSUME NEW n \in Namespaces
               PROVE  /\ \A x, y \in InNamespace(e.entities, n) :
                            e.entities[x].name = e.entities[y].name => x = y
                      /\ \A k, l \in ActiveSkills(e, n) :
                            e.skills[k].name = e.skills[l].name => k = l
    BY DEF Distinct
  <2>1. \A x, y \in InNamespace(d.entities, n) : d.entities[x].name = d.entities[y].name => x = y
    BY <1>1 DEF Distinct
  <2>3. ASSUME NEW x \in InNamespace(e.entities, n), NEW y \in InNamespace(e.entities, n),
               e.entities[x].name = e.entities[y].name
        PROVE  x = y
    <3>1. \/ x \in InNamespace(d.entities, n) /\ e.entities[x].name = d.entities[x].name
          \/ n = ns /\ x = new /\ e.entities[x].name = name
      BY <1>7
    <3>2. \/ y \in InNamespace(d.entities, n) /\ e.entities[y].name = d.entities[y].name
          \/ n = ns /\ y = new /\ e.entities[y].name = name
      BY <1>7
    <3> QED
      BY <1>8, <2>1, <2>3, <3>1, <3>2
  <2>4. \A k, l \in ActiveSkills(e, n) : e.skills[k].name = e.skills[l].name => k = l
    BY <1>1, <1>3 DEF Distinct, ActiveSkills
  <2> QED
    BY <2>3, <2>4
<1>10. SafeNames(e, d)
  <2>1. \A n : SkillNames(e, n) = SkillNames(d, n)
    BY <1>3 DEF SkillNames, ActiveSkills
  <2>2. ASSUME NEW n, NEW a \in EntityNames(e, n) \ EntityNames(d, n) PROVE n = ns /\ a = name
    <3>1. PICK x \in InNamespace(e.entities, n) : a = e.entities[x].name
      BY DEF EntityNames
    <3>2. ~(x \in InNamespace(d.entities, n) /\ a = d.entities[x].name)
      BY DEF EntityNames
    <3> QED
      BY <1>7, <3>1, <3>2
  <2> QED
    BY <2>1, <2>2 DEF SafeNames
<1> QED
  BY <1>1, <1>5, <1>6, <1>9, <1>10, GrownRefers DEF Good

(* e is d with a claim about entity s, which supersedes claim old if that   *)
(* is not Null.                                                            *)
Claims(e, d, s, object, source, old, before, row) ==
    /\ s \in DOMAIN d.entities /\ old \in DOMAIN d.relations \cup {Null}
    /\ object \in DOMAIN d.entities \cup {Null} /\ source \in DOMAIN d.memories \cup {Null}
    /\ object # Null => d.entities[object].ns = d.entities[s].ns
    /\ source # Null => d.memories[source].ns = d.entities[s].ns
    /\ old # Null => d.relations[old].subject = s
    /\ old = Null => before = d.relations
    /\ old # Null => before = [d.relations EXCEPT ![old].supersededBy = Len(d.relations) + 1]
    /\ row = [ns |-> d.entities[s].ns, subject |-> s, object |-> object, source |-> source,
              supersedes |-> old, supersededBy |-> Null]
    /\ e = [d EXCEPT !.relations = Append(before, row)]

LEMMA RelateGood ==
  ASSUME NEW d, Good(d), NEW e, NEW s, NEW object, NEW source, NEW old, NEW before, NEW row,
         Claims(e, d, s, object, source, old, before, row)
  PROVE  Good(e) /\ SafeNames(e, d)
<1>0. /\ s \in DOMAIN d.entities /\ old \in DOMAIN d.relations \cup {Null}
      /\ object \in DOMAIN d.entities \cup {Null} /\ source \in DOMAIN d.memories \cup {Null}
      /\ object # Null => d.entities[object].ns = d.entities[s].ns
      /\ source # Null => d.memories[source].ns = d.entities[s].ns
      /\ old # Null => d.relations[old].subject = s
      /\ old = Null => before = d.relations
      /\ old # Null => before = [d.relations EXCEPT ![old].supersededBy = Len(d.relations) + 1]
      /\ row = [ns |-> d.entities[s].ns, subject |-> s, object |-> object, source |-> source,
                supersedes |-> old, supersededBy |-> Null]
      /\ e = [d EXCEPT !.relations = Append(before, row)]
  BY DEF Claims
<1> USE <1>0
<1> DEFINE new == Len(d.relations) + 1
           n == d.entities[s].ns
<1>1. d \in Tables /\ Refers(d) /\ Distinct(d) /\ d.relations \in Seq(RelationRow)
  BY DEF Good, Tables
<1>2. /\ s \in Nat /\ d.entities[s].ns \in Namespaces /\ object \in Nat \cup {Null}
      /\ source \in Nat \cup {Null} /\ old \in Nat \cup {Null}
  BY <1>1, TablesOf DEF EntityRow
<1>3. /\ row \in RelationRow /\ row.ns = d.entities[s].ns /\ row.subject = s /\ row.object = object
      /\ row.source = source /\ row.supersedes = old /\ row.supersededBy = Null
  BY <1>2 DEF RelationRow
<1>4. /\ e = [d EXCEPT !.relations = Append(before, row)]
      /\ e.relations = Append(before, row) /\ e.memories = d.memories
      /\ e.entities = d.entities /\ e.skills = d.skills /\ e.mentions = d.mentions
      /\ e.evidence = d.evidence /\ e.lessons = d.lessons
  BY <1>1 DEF Tables
<1>5. new \in Nat /\ \A x \in DOMAIN d.relations : d.relations[x] \in RelationRow /\ x \in Nat
  BY <1>1, SequenceOf
(* The row that is superseded differs in its link only. *)
<1>6. /\ before \in Seq(RelationRow) /\ Len(before) = Len(d.relations)
      /\ DOMAIN before = DOMAIN d.relations
      /\ \A x \in DOMAIN d.relations : x # old => before[x] = d.relations[x]
      /\ old # Null => before[old] = [d.relations[old] EXCEPT !.supersededBy = new]
  <2>1. CASE old = Null
    BY <1>1, <1>5, <2>1, PortabilityAssumption
  <2>2. CASE old # Null
    <3> DEFINE closed == [d.relations[old] EXCEPT !.supersededBy = new]
    <3>1. closed \in RelationRow
      BY <1>5, <2>2 DEF RelationRow
    <3>2. before = [d.relations EXCEPT ![old] = closed]
      BY <2>2
    <3> HIDE DEF closed
    <3>3. before \in Seq(RelationRow) /\ Len(before) = Len(d.relations)
      BY <1>1, <2>2, <3>1, <3>2
    <3> QED
      BY <1>1, <2>2, <3>2, <3>3 DEF closed
  <2> QED
    BY <2>1, <2>2
<1> HIDE DEF new
<1>7. /\ e.relations \in Seq(RelationRow)
      /\ DOMAIN e.relations = DOMAIN before \cup {new} /\ new \notin DOMAIN before
      /\ \A x \in DOMAIN before : e.relations[x] = before[x]
      /\ e.relations[new] = row
  BY <1>3, <1>4, <1>6, AppendedRow DEF new
<1>8. e \in Tables
  BY <1>1, <1>4, <1>7 DEF Tables
<1>9. \A x \in DOMAIN d.relations : x # old => e.relations[x] = d.relations[x]
  BY <1>6, <1>7
<1>10. old # Null => /\ old \in DOMAIN d.relations /\ d.relations[old].ns = n
                     /\ RowRefers(d, d.relations[old])
  <2> SUFFICES ASSUME old # Null PROVE d.relations[old].ns = n /\ RowRefers(d, d.relations[old])
    OBVIOUS
  <2>1. RowRefers(d, d.relations[old]) /\ d.relations[old].subject = s
    BY <1>1 DEF Refers
  <2> QED
    BY <2>1 DEF RowRefers, InNamespace
<1>11. old # Null => LET closed == e.relations[old]
                         was == d.relations[old]
                     IN  /\ closed.ns = n /\ closed.subject = was.subject
                         /\ closed.object = was.object /\ closed.source = was.source
                         /\ closed.supersedes = was.supersedes /\ closed.supersededBy = new
  <2> SUFFICES ASSUME old # Null, NEW closed, closed = e.relations[old],
                      NEW was, was = d.relations[old]
               PROVE  /\ closed.ns = n /\ closed.subject = was.subject
                      /\ closed.object = was.object /\ closed.source = was.source
                      /\ closed.supersedes = was.supersedes /\ closed.supersededBy = new
    OBVIOUS
  <2>1. closed = [was EXCEPT !.supersededBy = new] /\ was \in RelationRow /\ was.ns = n
    BY <1>5, <1>6, <1>7, <1>10
  <2> QED
    BY <2>1 DEF RelationRow
<1>12. Grows(e, d)
  BY <1>4, <1>6, <1>7, <1>9, <1>10, <1>11 DEF Grows
<1>13. \A k : /\ InNamespace(d.relations, k) \subseteq InNamespace(e.relations, k)
              /\ InNamespace(d.memories, k) = InNamespace(e.memories, k)
              /\ InNamespace(d.entities, k) = InNamespace(e.entities, k)
  BY <1>4, <1>12 DEF Grows, InNamespace
<1>14. new \in InNamespace(e.relations, n)
  BY <1>3, <1>7 DEF InNamespace
<1>15. RowRefers(e, e.relations[new])
  <2>1. s \in InNamespace(e.entities, n)
        /\ (object # Null => object \in InNamespace(e.entities, n))
        /\ (source # Null => source \in InNamespace(e.memories, n))
    BY <1>4 DEF InNamespace
  <2>2. old # Null => old \in InNamespace(e.relations, n)
    BY <1>10, <1>13 DEF InNamespace
  <2> QED
    BY <1>3, <1>7, <2>1, <2>2 DEF RowRefers
<1>16. old # Null => RowRefers(e, e.relations[old])
  <2> SUFFICES ASSUME old # Null, NEW closed, closed = e.relations[old],
                      NEW was, was = d.relations[old]
               PROVE  RowRefers(e, closed)
    OBVIOUS
  <2>1. /\ closed.ns = n /\ closed.subject = was.subject /\ closed.object = was.object
        /\ closed.source = was.source /\ closed.supersedes = was.supersedes
        /\ closed.supersededBy = new
    BY <1>11
  <2>2. was.ns = n /\ RowRefers(d, was)
    BY <1>10
  <2> HIDE DEF n
  <2> QED
    BY <1>13, <1>14, <2>1, <2>2 DEF RowRefers
<1>17. AddedRefers(e, d)
  BY <1>4, <1>6, <1>7, <1>9, <1>15, <1>16 DEF AddedRefers
<1> QED
  BY <1>1, <1>4, <1>8, <1>12, <1>17, GrownRefers, SameNames DEF Good

NewMention(d, l) ==
    l[2] \in DOMAIN d.entities /\ l[1] \in InNamespace(d.memories, d.entities[l[2]].ns)

NewEvidence(d, l) ==
    l[1] \in DOMAIN d.relations /\ l[2] \in InNamespace(d.memories, d.relations[l[1]].ns)

NewLesson(d, l) ==
    l[1] \in DOMAIN d.skills /\ l[2] \in InNamespace(d.memories, d.skills[l[1]].ns)

LEMMA LinkGood ==
  ASSUME NEW d, Good(d), NEW l \in Nat \X Nat, NEW e,
         \/ NewMention(d, l) /\ e = [d EXCEPT !.mentions = @ \cup {l}]
         \/ NewEvidence(d, l) /\ e = [d EXCEPT !.evidence = @ \cup {l}]
         \/ NewLesson(d, l) /\ e = [d EXCEPT !.lessons = @ \cup {l}]
  PROVE  Good(e) /\ SafeNames(e, d)
<1>1. d \in Tables /\ Refers(d) /\ Distinct(d)
  BY DEF Good
<1>2. SUFFICES /\ e \in Tables /\ e.memories = d.memories /\ e.entities = d.entities
               /\ e.relations = d.relations /\ e.skills = d.skills
               /\ AddedRefers(e, d)
  <2>1. ASSUME e.memories = d.memories, e.entities = d.entities, e.relations = d.relations,
               e.skills = d.skills
        PROVE  Grows(e, d)
    BY <2>1 DEF Grows
  <2> QED
    BY <1>1, <2>1, GrownRefers, SameNames DEF Good
<1>3. CASE NewMention(d, l) /\ e = [d EXCEPT !.mentions = @ \cup {l}]
  <2>1. /\ e = [d EXCEPT !.mentions = e.mentions] /\ e.mentions = d.mentions \cup {l}
        /\ e.memories = d.memories /\ e.entities = d.entities /\ e.relations = d.relations
        /\ e.skills = d.skills /\ e.evidence = d.evidence /\ e.lessons = d.lessons
    BY <1>1, <1>3 DEF Tables
  <2>2. e.mentions \in SUBSET (Nat \X Nat)
    BY <1>1, <2>1 DEF Tables
  <2>3. e \in Tables
    BY <1>1, <2>1, <2>2 DEF Tables
  <2>4. AddedRefers(e, d)
    BY <1>3, <2>1 DEF AddedRefers, NewMention
  <2> QED
    BY <2>1, <2>3, <2>4
<1>4. CASE NewEvidence(d, l) /\ e = [d EXCEPT !.evidence = @ \cup {l}]
  <2>1. /\ e = [d EXCEPT !.evidence = e.evidence] /\ e.evidence = d.evidence \cup {l}
        /\ e.memories = d.memories /\ e.entities = d.entities /\ e.relations = d.relations
        /\ e.skills = d.skills /\ e.mentions = d.mentions /\ e.lessons = d.lessons
    BY <1>1, <1>4 DEF Tables
  <2>2. e.evidence \in SUBSET (Nat \X Nat)
    BY <1>1, <2>1 DEF Tables
  <2>3. e \in Tables
    BY <1>1, <2>1, <2>2 DEF Tables
  <2>4. AddedRefers(e, d)
    BY <1>4, <2>1 DEF AddedRefers, NewEvidence
  <2> QED
    BY <2>1, <2>3, <2>4
<1>5. CASE NewLesson(d, l) /\ e = [d EXCEPT !.lessons = @ \cup {l}]
  <2>1. /\ e = [d EXCEPT !.lessons = e.lessons] /\ e.lessons = d.lessons \cup {l}
        /\ e.memories = d.memories /\ e.entities = d.entities /\ e.relations = d.relations
        /\ e.skills = d.skills /\ e.mentions = d.mentions /\ e.evidence = d.evidence
    BY <1>1, <1>5 DEF Tables
  <2>2. e.lessons \in SUBSET (Nat \X Nat)
    BY <1>1, <2>1 DEF Tables
  <2>3. e \in Tables
    BY <1>1, <2>1, <2>2 DEF Tables
  <2>4. AddedRefers(e, d)
    BY <1>5, <2>1 DEF AddedRefers, NewLesson
  <2> QED
    BY <2>1, <2>3, <2>4
<1> QED
  BY <1>3, <1>4, <1>5

(* The skills when a version named name is superseded in ns. *)
Retired(d, ns, name) ==
    [k \in DOMAIN d.skills |-> IF d.skills[k].ns = ns /\ d.skills[k].name = name
                               THEN [d.skills[k] EXCEPT !.active = FALSE] ELSE d.skills[k]]

LEMMA LearnGood ==
  ASSUME NEW d, Good(d), NEW ns \in Namespaces, NEW name \in Names,
         name \notin InsertedNames(ns, "skill"), NEW e,
         e = [d EXCEPT !.skills =
                Append(Retired(d, ns, name), [ns |-> ns, name |-> name, active |-> TRUE])]
  PROVE  Good(e) /\ SafeNames(e, d)
<1> DEFINE retired == Retired(d, ns, name)
           row == [ns |-> ns, name |-> name, active |-> TRUE]
           new == Len(retired) + 1
<1>1. d \in Tables /\ Refers(d) /\ Distinct(d) /\ d.skills \in Seq(SkillRow)
  BY DEF Good, Tables
<1>2. row \in SkillRow /\ row.ns = ns /\ row.name = name /\ row.active
  BY DEF SkillRow
<1>3. /\ DOMAIN retired = DOMAIN d.skills
      /\ \A k \in DOMAIN d.skills :
            /\ retired[k] \in SkillRow /\ retired[k].ns = d.skills[k].ns
            /\ retired[k].name = d.skills[k].name
            /\ retired[k].active
                 => d.skills[k].active /\ ~(d.skills[k].ns = ns /\ d.skills[k].name = name)
  <2>1. \A k \in DOMAIN d.skills : d.skills[k] \in SkillRow
    BY <1>1, TablesOf
  <2> QED
    BY <2>1 DEF SkillRow, Retired
<1>4. retired \in Seq(SkillRow)
  <2>1. PICK n \in Nat : d.skills \in [1 .. n -> SkillRow]
    BY <1>1, SequenceOf
  <2>2. retired \in [1 .. n -> SkillRow]
    BY <1>3, <2>1 DEF Retired
  <2> QED
    BY <2>2, FunctionIsSequence
<1>5. /\ e = [d EXCEPT !.skills = Append(retired, row)]
      /\ e.skills = Append(retired, row) /\ e.memories = d.memories
      /\ e.entities = d.entities /\ e.relations = d.relations /\ e.mentions = d.mentions
      /\ e.evidence = d.evidence /\ e.lessons = d.lessons
  BY <1>1 DEF Tables
<1> HIDE DEF row, new, retired
<1>6. /\ e.skills \in Seq(SkillRow)
      /\ DOMAIN e.skills = DOMAIN d.skills \cup {new} /\ new \notin DOMAIN d.skills
      /\ \A k \in DOMAIN d.skills : e.skills[k] = retired[k]
      /\ e.skills[new] = row
  <2>1. /\ Append(retired, row) \in Seq(SkillRow)
        /\ DOMAIN Append(retired, row) = DOMAIN retired \cup {new} /\ new \notin DOMAIN retired
        /\ \A k \in DOMAIN retired : Append(retired, row)[k] = retired[k]
        /\ Append(retired, row)[new] = row
    BY <1>2, <1>4, AppendedRow DEF new
  <2> QED
    BY <1>3, <1>5, <2>1
<1>7. e \in Tables
  BY <1>1, <1>5, <1>6 DEF Tables
<1>8. Grows(e, d) /\ AddedRefers(e, d)
  BY <1>3, <1>5, <1>6 DEF Grows, AddedRefers
<1>9. ASSUME NEW n, NEW k \in ActiveSkills(e, n)
      PROVE  \/ /\ k \in ActiveSkills(d, n) /\ e.skills[k].name = d.skills[k].name
                /\ ~(n = ns /\ d.skills[k].name = name)
             \/ n = ns /\ k = new /\ e.skills[k].name = name
  <2>1. k \in DOMAIN e.skills /\ e.skills[k].ns = n /\ e.skills[k].active
    BY DEF ActiveSkills, InNamespace
  <2>2. CASE k = new
    BY <1>2, <1>6, <2>1, <2>2
  <2>3. CASE k # new
    <3>1. k \in DOMAIN d.skills /\ e.skills[k] = retired[k]
      BY <1>6, <2>1, <2>3
    <3> QED
      BY <1>3, <2>1, <3>1 DEF ActiveSkills, InNamespace
  <2> QED
    BY <2>2, <2>3
<1>10. Distinct(e)
  <2> SUFFICES ASSUME NEW n \in Namespaces
               PROVE  /\ \A x, y \in InNamespace(e.entities, n) :
                            e.entities[x].name = e.entities[y].name => x = y
                      /\ \A k, l \in ActiveSkills(e, n) :
                            e.skills[k].name = e.skills[l].name => k = l
    BY DEF Distinct
  <2>1. \A k, l \in ActiveSkills(d, n) : d.skills[k].name = d.skills[l].name => k = l
    BY <1>1 DEF Distinct
  <2>2. ASSUME NEW k \in ActiveSkills(e, n), NEW l \in ActiveSkills(e, n),
               e.skills[k].name = e.skills[l].name
        PROVE  k = l
    <3>1. \/ /\ k \in ActiveSkills(d, n) /\ e.skills[k].name = d.skills[k].name
             /\ ~(n = ns /\ d.skills[k].name = name)
          \/ n = ns /\ k = new /\ e.skills[k].name = name
      BY <1>9
    <3>2. \/ /\ l \in ActiveSkills(d, n) /\ e.skills[l].name = d.skills[l].name
             /\ ~(n = ns /\ d.skills[l].name = name)
          \/ n = ns /\ l = new /\ e.skills[l].name = name
      BY <1>9
    <3> QED
      BY <2>1, <2>2, <3>1, <3>2
  <2>3. \A x, y \in InNamespace(e.entities, n) : e.entities[x].name = e.entities[y].name => x = y
    BY <1>1, <1>5 DEF Distinct
  <2> QED
    BY <2>2, <2>3
<1>11. SafeNames(e, d)
  <2>1. \A n : EntityNames(e, n) = EntityNames(d, n)
    BY <1>5 DEF EntityNames
  <2>2. ASSUME NEW n, NEW a \in SkillNames(e, n) \ SkillNames(d, n) PROVE n = ns /\ a = name
    <3>1. PICK k \in ActiveSkills(e, n) : a = e.skills[k].name
      BY DEF SkillNames
    <3>2. ~(k \in ActiveSkills(d, n) /\ a = d.skills[k].name)
      BY DEF SkillNames
    <3> QED
      BY <1>9, <3>1, <3>2
  <2> QED
    BY <2>1, <2>2 DEF SafeNames
<1> QED
  BY <1>1, <1>7, <1>8, <1>10, <1>11, GrownRefers DEF Good

(* A write of the service leaves the tables good, and no import that is    *)
(* about to commit finds its names taken.                                  *)
LEMMA ServiceGood ==
  ASSUME Good(db), ServiceStep
  PROVE  /\ Good(db') /\ SafeNames(db', db)
         /\ UNCHANGED <<exporter, file, pc, import, exported, copies>>
<1>1. UNCHANGED <<exporter, file, pc, import, exported, copies>>
  BY DEF ServiceStep, Remember, Forget, UpsertEntity, LearnSkill, Relate, LinkMemoryEntity,
         LinkRelationProvenance, LinkSkillProvenance, Write
<1>2. ASSUME NEW ns \in Namespaces, Remember(ns) PROVE Good(db') /\ SafeNames(db', db)
  <2>1. db' = [db EXCEPT !.memories = Append(@, [ns |-> ns, deleted |-> FALSE])]
    BY <1>2 DEF Remember, Write
  <2> QED
    BY <2>1, RememberGood
<1>3. ASSUME NEW m \in DOMAIN db.memories, Forget(m) PROVE Good(db') /\ SafeNames(db', db)
  <2>1. db' = [db EXCEPT !.memories[m].deleted = TRUE]
    BY <1>3 DEF Forget, Write
  <2> QED
    BY <2>1, ForgetGood
<1>4. ASSUME NEW ns \in Namespaces, NEW name \in Names, UpsertEntity(ns, name)
      PROVE  Good(db') /\ SafeNames(db', db)
  <2>1. /\ name \notin EntityNames(db, ns) \cup InsertedNames(ns, "entity")
        /\ db' = [db EXCEPT !.entities = Append(@, [ns |-> ns, name |-> name])]
    BY <1>4 DEF UpsertEntity, Write
  <2> QED
    BY <2>1, UpsertGood
<1>5. ASSUME NEW ns \in Namespaces, NEW name \in Names, LearnSkill(ns, name)
      PROVE  Good(db') /\ SafeNames(db', db)
  <2>1. /\ name \notin InsertedNames(ns, "skill")
        /\ db' = [db EXCEPT !.skills = Append(Retired(db, ns, name),
                                              [ns |-> ns, name |-> name, active |-> TRUE])]
    BY <1>5 DEF LearnSkill, Write, Retired
  <2> QED
    BY <2>1, LearnGood
<1>6. ASSUME NEW s \in DOMAIN db.entities, NEW object \in DOMAIN db.entities \cup {Null},
             NEW source \in DOMAIN db.memories \cup {Null}, Relate(s, object, source)
      PROVE  Good(db') /\ SafeNames(db', db)
  <2>1. /\ object # Null => db.entities[object].ns = db.entities[s].ns
        /\ source # Null => db.memories[source].ns = db.entities[s].ns
    BY <1>6 DEF Relate
  <2> DEFINE Claim(old) == [ns |-> db.entities[s].ns, subject |-> s, object |-> object,
                            source |-> source, supersedes |-> old, supersededBy |-> Null]
  <2>2. CASE db' = [db EXCEPT !.relations = Append(@, Claim(Null))]
    <3>1. Claims(db', db, s, object, source, Null, db.relations, Claim(Null))
      BY <2>1, <2>2 DEF Claims
    <3> QED
      BY <3>1, RelateGood
  <2>3. ASSUME NEW old \in DOMAIN db.relations, db.relations[old].subject = s,
               db' = [db EXCEPT !.relations =
                        Append([@ EXCEPT ![old].supersededBy = Len(db.relations) + 1], Claim(old))]
        PROVE  Good(db') /\ SafeNames(db', db)
    <3>1. old # Null
      BY TablesOf, PortabilityAssumption DEF Good
    <3> DEFINE before == [db.relations EXCEPT ![old].supersededBy = Len(db.relations) + 1]
    <3>2. Claims(db', db, s, object, source, old, before, Claim(old))
      BY <2>1, <2>3, <3>1 DEF Claims
    <3> HIDE DEF before
    <3> QED
      BY <3>2, RelateGood
  <2> QED
    BY <1>6, <2>2, <2>3 DEF Relate, Write
<1>7. /\ \A m \in DOMAIN db.memories : m \in Nat
      /\ \A n \in DOMAIN db.entities : n \in Nat
      /\ \A r \in DOMAIN db.relations : r \in Nat
      /\ \A k \in DOMAIN db.skills : k \in Nat
  BY TablesOf DEF Good
<1>8. ASSUME NEW m \in DOMAIN db.memories,
             \/ \E n \in DOMAIN db.entities : LinkMemoryEntity(m, n)
             \/ \E r \in DOMAIN db.relations : LinkRelationProvenance(r, m)
             \/ \E k \in DOMAIN db.skills : LinkSkillProvenance(k, m)
      PROVE  Good(db') /\ SafeNames(db', db)
  <2>1. CASE \E n \in DOMAIN db.entities : LinkMemoryEntity(m, n)
    <3>1. PICK n \in DOMAIN db.entities : LinkMemoryEntity(m, n)
      BY <2>1
    <3> DEFINE l == <<m, n>>
    <3>2. l \in Nat \X Nat /\ l[1] = m /\ l[2] = n
      BY <1>7
    <3>3. db' = [db EXCEPT !.mentions = @ \cup {l}] /\ db.memories[m].ns = db.entities[n].ns
      BY <3>1 DEF LinkMemoryEntity, Write
    <3>4. NewMention(db, l)
      BY <3>2, <3>3 DEF NewMention, InNamespace
    <3> HIDE DEF l
    <3> QED
      BY <3>2, <3>3, <3>4, LinkGood
  <2>2. CASE \E r \in DOMAIN db.relations : LinkRelationProvenance(r, m)
    <3>1. PICK r \in DOMAIN db.relations : LinkRelationProvenance(r, m)
      BY <2>2
    <3> DEFINE l == <<r, m>>
    <3>2. l \in Nat \X Nat /\ l[1] = r /\ l[2] = m
      BY <1>7
    <3>3. db' = [db EXCEPT !.evidence = @ \cup {l}] /\ db.relations[r].ns = db.memories[m].ns
      BY <3>1 DEF LinkRelationProvenance, Write
    <3>4. NewEvidence(db, l)
      BY <3>2, <3>3 DEF NewEvidence, InNamespace
    <3> HIDE DEF l
    <3> QED
      BY <3>2, <3>3, <3>4, LinkGood
  <2>3. CASE \E k \in DOMAIN db.skills : LinkSkillProvenance(k, m)
    <3>1. PICK k \in DOMAIN db.skills : LinkSkillProvenance(k, m)
      BY <2>3
    <3> DEFINE l == <<k, m>>
    <3>2. l \in Nat \X Nat /\ l[1] = k /\ l[2] = m
      BY <1>7
    <3>3. db' = [db EXCEPT !.lessons = @ \cup {l}] /\ db.skills[k].ns = db.memories[m].ns
      BY <3>1 DEF LinkSkillProvenance, Write
    <3>4. NewLesson(db, l)
      BY <3>2, <3>3 DEF NewLesson, InNamespace
    <3> HIDE DEF l
    <3> QED
      BY <3>2, <3>3, <3>4, LinkGood
  <2> QED
    BY <1>8, <2>1, <2>2, <2>3
<1> QED
  BY <1>1, <1>2, <1>3, <1>4, <1>5, <1>6, <1>8 DEF ServiceStep

-----------------------------------------------------------------------------
(* Steps of an export and of imports *)

(* What a run of the export command does, and a file that loses records.   *)
LEMMA ExportStep ==
  ASSUME Good(db), ExportInv, FileInv,
         (\E ns \in Namespaces : BeginExport(ns)) \/ ReadTable \/ WriteFile \/ CorruptFile
  PROVE  /\ ExportInv' /\ FileInv' /\ exported \subseteq exported'
         /\ UNCHANGED <<db, pc, import>>
<1>1. CASE \E ns \in Namespaces : BeginExport(ns)
  <2>1. PICK ns \in Namespaces : BeginExport(ns)
    BY <1>1
  <2>2. /\ exporter' = [ns |-> ns, snapshot |-> db, read |-> 0, records |-> [k \in Kinds |-> {}]]
        /\ UNCHANGED <<db, file, pc, import, exported, copies>>
    BY <2>1 DEF BeginExport, NoExport
  <2>3. ns # Null
    BY PortabilityAssumption
  <2>4. ExportInv'
    BY <2>2, <2>3 DEF ExportInv
  <2> QED
    BY <2>2, <2>4 DEF FileInv
<1>2. CASE ReadTable
  <2> DEFINE n == exporter.read + 1
             kind == KindOrder[n]
  <2>1. /\ exporter.ns # Null /\ exporter.read < 7
        /\ exporter' = [exporter EXCEPT !.read = n,
                           !.records[kind] = Select(kind, exporter.snapshot, exporter.ns)]
        /\ UNCHANGED <<db, file, pc, import, exported, copies>>
    BY <1>2 DEF ReadTable, Snapshot
  <2>2. n \in 1 .. 7 /\ n = exporter.read + 1 /\ exporter.read \in 0 .. 7
    BY <2>1 DEF ExportInv
  <2>3. kind \in Kinds /\ \A k \in 1 .. 7 : k # n => KindOrder[k] # kind
    BY <2>2 DEF KindOrder, Kinds
  <2>4. PICK e : e = exporter'
    OBVIOUS
  <2>5. /\ e.ns = exporter.ns /\ e.snapshot = exporter.snapshot /\ e.read = n
        /\ e.records = [exporter.records EXCEPT
                           ![kind] = Select(kind, exporter.snapshot, exporter.ns)]
        /\ e = [ns |-> e.ns, snapshot |-> e.snapshot, read |-> e.read, records |-> e.records]
    <3>1. exporter = [ns |-> exporter.ns, snapshot |-> exporter.snapshot, read |-> exporter.read,
                      records |-> exporter.records]
      BY DEF ExportInv
    <3> HIDE DEF n, kind
    <3> QED
      BY <2>1, <2>4, <3>1
  <2>6. \A k \in 1 .. n : e.records[KindOrder[k]]
                             = Select(KindOrder[k], exporter.snapshot, exporter.ns)
    <3>1. \A k \in 1 .. exporter.read :
             exporter.records[KindOrder[k]]
                 = Select(KindOrder[k], exporter.snapshot, exporter.ns)
      BY <2>1 DEF ExportInv
    <3>2. DOMAIN exporter.records = Kinds
      BY DEF ExportInv
    <3>3. \A k \in 1 .. n : k = n \/ (k \in 1 .. exporter.read /\ KindOrder[k] # kind)
      BY <2>2, <2>3
    <3>4. e.records[kind] = Select(kind, exporter.snapshot, exporter.ns)
      BY <2>3, <2>5, <3>2
    <3>5. \A k \in 1 .. exporter.read : KindOrder[k] # kind =>
             e.records[KindOrder[k]] = exporter.records[KindOrder[k]]
      <4> SUFFICES ASSUME NEW k \in 1 .. exporter.read, KindOrder[k] # kind
                   PROVE  e.records[KindOrder[k]] = exporter.records[KindOrder[k]]
        OBVIOUS
      <4>1. k \in 1 .. 7
        BY <2>2
      <4>2. KindOrder[k] \in Kinds
        BY <4>1 DEF KindOrder, Kinds
      <4> HIDE DEF kind
      <4> QED
        BY <2>5, <3>2, <4>2
    <3> HIDE DEF n
    <3>6. ASSUME NEW k \in 1 .. n
          PROVE  e.records[KindOrder[k]] = Select(KindOrder[k], exporter.snapshot, exporter.ns)
      <4>1. CASE k = n
        BY <3>4, <4>1
      <4>2. CASE k \in 1 .. exporter.read /\ KindOrder[k] # kind
        BY <3>1, <3>5, <4>2
      <4> QED
        BY <3>3, <4>1, <4>2
    <3> QED
      BY <3>6
  <2>7. DOMAIN e.records = Kinds
    BY <2>5 DEF ExportInv
  <2>8. e.ns \in Namespaces /\ Good(e.snapshot) /\ e.ns # Null
    BY <2>1, <2>5 DEF ExportInv
  <2> HIDE DEF n, kind
  <2>9. /\ exporter' = [ns |-> e.ns, snapshot |-> e.snapshot, read |-> e.read,
                        records |-> e.records]
        /\ e.read \in 0 .. 7
    BY <2>2, <2>4, <2>5
  <2>10. ExportInv'
    BY <2>4, <2>5, <2>6, <2>7, <2>8, <2>9 DEF ExportInv
  <2> QED
    BY <2>1, <2>10 DEF FileInv
<1>3. CASE WriteFile
  <2>1. /\ exporter.read = 7 /\ exporter' = NoExport
        /\ file' = [counts |-> CountsOf(exporter.records), digest |-> exporter.records,
                    records |-> exporter.records]
        /\ exported' = exported \cup {exporter.records}
        /\ UNCHANGED <<db, pc, import, copies>>
    BY <1>3 DEF WriteFile, BuildBundle
  <2>2. Bundle(exporter.records)
    <3>1. exporter.ns \in Namespaces /\ Good(exporter.snapshot)
          /\ DOMAIN exporter.records = Kinds
      BY <2>1 DEF ExportInv
    <3>2. \A k \in 1 .. 7 : exporter.records[KindOrder[k]]
                              = Select(KindOrder[k], exporter.snapshot, exporter.ns)
      BY <2>1 DEF ExportInv
    <3>3. \A kind \in Kinds : \E k \in 1 .. 7 : kind = KindOrder[k]
      <4>1. /\ KindOrder[1] = "memory" /\ KindOrder[2] = "entity" /\ KindOrder[3] = "relation"
            /\ KindOrder[4] = "memory_entity" /\ KindOrder[5] = "relation_provenance"
            /\ KindOrder[6] = "skill" /\ KindOrder[7] = "skill_provenance"
        BY DEF KindOrder
      <4>2. 1 \in 1 .. 7 /\ 2 \in 1 .. 7 /\ 3 \in 1 .. 7 /\ 4 \in 1 .. 7 /\ 5 \in 1 .. 7
            /\ 6 \in 1 .. 7 /\ 7 \in 1 .. 7
        OBVIOUS
      <4> QED
        BY <4>1, <4>2 DEF Kinds
    <3>4. \A kind \in Kinds :
             exporter.records[kind] = Select(kind, exporter.snapshot, exporter.ns)
      BY <3>2, <3>3
    <3> QED
      BY <3>1, <3>4, SnapshotIsBundle
  <2>3. FileInv'
    BY <2>1, <2>2 DEF FileInv
  <2>4. ExportInv'
    BY <2>1 DEF ExportInv, NoExport
  <2> QED
    BY <2>1, <2>3, <2>4
<1>4. CASE CorruptFile
  <2>1. /\ file # Null /\ UNCHANGED <<db, exporter, pc, import, exported, copies>>
        /\ \E kind \in {"memory", "memory_entity"} : \E r \in file.records[kind] :
              \/ file' = [file EXCEPT !.records[kind] = @ \ {r}]
              \/ file' = [file EXCEPT !.records["memory"] = (@ \ {r}) \cup {[id |-> 0]}]
    BY <1>4 DEF CorruptFile
  <2>2. file = [counts |-> file.counts, digest |-> file.digest, records |-> file.records]
        /\ file.digest \in exported
    BY <2>1 DEF FileInv
  <2>3. PICK f : f = file'
    OBVIOUS
  <2>4. f.digest = file.digest
        /\ f = [counts |-> f.counts, digest |-> f.digest, records |-> f.records]
    BY <2>1, <2>2, <2>3
  <2>5. FileInv'
    BY <2>1, <2>2, <2>3, <2>4 DEF FileInv
  <2>6. ExportInv'
    BY <2>1 DEF ExportInv
  <2> QED
    BY <2>1, <2>5, <2>6
<1> QED
  BY <1>1, <1>2, <1>3, <1>4

(* The names an import adds are those of its bundle, in its namespace.     *)
LEMMA ImportedNames ==
  ASSUME NEW d, NEW ns, NEW records, NEW ids, NEW e, ExtendedBy(e, d, ns, records, ids), NEW n
  PROVE  /\ \A name \in EntityNames(e, n) :
               \/ name \in EntityNames(d, n)
               \/ n = ns /\ \E r \in records["entity"] : r.name = name
         /\ \A name \in SkillNames(e, n) :
               \/ name \in SkillNames(d, n)
               \/ n = ns /\ \E r \in records["skill"] : r.name = name
<1>1. ASSUME NEW name \in EntityNames(e, n)
      PROVE  \/ name \in EntityNames(d, n)
             \/ n = ns /\ \E r \in records["entity"] : r.name = name
  <2> DEFINE row == EntityOf(records["entity"], ns)
  <2>1. Extends(e.entities, d.entities, records["entity"], ids.entity, row)
    BY DEF ExtendedBy
  <2>2. \A r \in records["entity"] : row[r].name = r.name /\ row[r].ns = ns
    BY DEF EntityOf
  <2>3. PICK x \in DOMAIN e.entities : e.entities[x].ns = n /\ name = e.entities[x].name
    BY DEF EntityNames, InNamespace
  <2> HIDE DEF row
  <2>4. CASE x \in DOMAIN d.entities
    <3>1. x \in InNamespace(d.entities, n) /\ d.entities[x].name = name
      BY <2>1, <2>3, <2>4 DEF Extends, InNamespace
    <3> QED
      BY <3>1 DEF EntityNames
  <2>5. CASE x \notin DOMAIN d.entities
    <3>1. PICK r \in records["entity"] : e.entities[x] = row[r]
      BY <2>1, <2>5 DEF Extends
    <3> QED
      BY <2>2, <2>3, <3>1
  <2> QED
    BY <2>4, <2>5
<1>2. ASSUME NEW name \in SkillNames(e, n)
      PROVE  \/ name \in SkillNames(d, n)
             \/ n = ns /\ \E r \in records["skill"] : r.name = name
  <2> DEFINE row == SkillOf(records["skill"], ns)
  <2>1. Extends(e.skills, d.skills, records["skill"], ids.skill, row)
    BY DEF ExtendedBy
  <2>2. \A r \in records["skill"] : row[r].name = r.name /\ row[r].ns = ns
    BY DEF SkillOf
  <2>3. PICK x \in DOMAIN e.skills :
           e.skills[x].ns = n /\ e.skills[x].active /\ name = e.skills[x].name
    BY DEF SkillNames, ActiveSkills, InNamespace
  <2> HIDE DEF row
  <2>4. CASE x \in DOMAIN d.skills
    <3>1. x \in ActiveSkills(d, n) /\ d.skills[x].name = name
      BY <2>1, <2>3, <2>4 DEF Extends, ActiveSkills, InNamespace
    <3> QED
      BY <3>1 DEF SkillNames
  <2>5. CASE x \notin DOMAIN d.skills
    <3>1. PICK r \in records["skill"] : e.skills[x] = row[r]
      BY <2>1, <2>5 DEF Extends
    <3> QED
      BY <2>2, <2>3, <3>1
  <2> QED
    BY <2>4, <2>5
<1> QED
  BY <1>1, <1>2

(* What it takes for an import to find its names free in the tables d.     *)
Free(i, d) ==
    /\ Inserted(i, "entity") \cap EntityNames(d, import[i].ns) = {}
    /\ Inserted(i, "skill") \cap SkillNames(d, import[i].ns) = {}

LEMMA FreeIsNotTaken == \A i : ~NameTaken(i) <=> Free(i, db)
BY DEF NameTaken, Free, Inserted

LEMMA FreeAfter ==
  ASSUME UNCHANGED import
  PROVE  \A i : ~NameTaken(i)' <=> Free(i, db')
BY DEF NameTaken, Free, Inserted

(* A write of the service does not take the names of a pending import.     *)
LEMMA SafeNamesKeepFree ==
  ASSUME NEW d, NEW e, SafeNames(e, d), NEW i \in Importers, pc[i] = "commit", Free(i, d)
  PROVE  Free(i, e)
<1> DEFINE n == import[i].ns
<1>1. Inserted(i, "entity") \subseteq InsertedNames(n, "entity")
  BY DEF Inserted, InsertedNames
<1>2. Inserted(i, "skill") \subseteq InsertedNames(n, "skill")
  BY DEF Inserted, InsertedNames
<1>3. \A name \in EntityNames(e, n) \ EntityNames(d, n) : name \notin InsertedNames(n, "entity")
  BY DEF SafeNames
<1>4. \A name \in SkillNames(e, n) \ SkillNames(d, n) : name \notin InsertedNames(n, "skill")
  BY DEF SafeNames
<1> QED
  BY <1>1, <1>2, <1>3, <1>4 DEF Free

(* Two imports that have inserted rows into the same namespace inserted    *)
(* different names, and when one commits the other is still free to.       *)
LEMMA CommitKeepsFree ==
  ASSUME NEW i, NEW j, NEW d, NEW e, NEW ids,
         ExtendedBy(e, d, import[i].ns, import[i].records, ids), Free(j, d),
         import[j].ns = import[i].ns =>
            /\ Inserted(i, "entity") \cap Inserted(j, "entity") = {}
            /\ Inserted(i, "skill") \cap Inserted(j, "skill") = {}
  PROVE  Free(j, e)
<1> DEFINE n == import[j].ns
<1>1. \A name \in EntityNames(e, n) :
         name \in EntityNames(d, n) \/ (n = import[i].ns /\ name \in Inserted(i, "entity"))
  BY ImportedNames DEF Inserted
<1>2. \A name \in SkillNames(e, n) :
         name \in SkillNames(d, n) \/ (n = import[i].ns /\ name \in Inserted(i, "skill"))
  BY ImportedNames DEF Inserted
<1> QED
  BY <1>1, <1>2 DEF Free

LEMMA CommitGood ==
  ASSUME Good(db), FileInv, ImportInv, NEW i \in Importers, CommitImport(i)
  PROVE  /\ \E ids : /\ ExtendedBy(db', db, import[i].ns, import[i].records, ids)
                      /\ copies' = copies \cup {[by |-> i, ns |-> import[i].ns,
                                                 records |-> import[i].records, ids |-> ids]}
         /\ Bundle(import[i].records) /\ import[i].ns \in Namespaces
         /\ import[i].records \in exported /\ Good(db')
<1> DEFINE b == import[i]
<1>0. PICK m \in NewIds(db, b.records) :
         /\ db' = Imported(db, b.ns, b.records, m)
         /\ copies' = copies \cup {[by |-> i, ns |-> b.ns, records |-> b.records, ids |-> m]}
  BY DEF CommitImport
<1>1. pc[i] = "commit" /\ db' = Imported(db, b.ns, b.records, m)
  BY <1>0 DEF CommitImport
<1>2. b.ns \in Namespaces /\ b.records \in exported /\ Free(i, db)
  BY <1>1, FreeIsNotTaken DEF ImportInv
<1>3. Bundle(b.records) /\ db \in Tables /\ Refers(db) /\ Distinct(db)
  BY <1>2 DEF FileInv, Good
<1>4. /\ {r.name : r \in b.records["entity"]} \cap EntityNames(db, b.ns) = {}
      /\ {r.name : r \in b.records["skill"]} \cap SkillNames(db, b.ns) = {}
  BY <1>2 DEF Free, Inserted
<1>5. PICK e : e = db'
  OBVIOUS
<1> HIDE DEF b
<1>7. m \in NewIds(db, b.records) /\ e = Imported(db, b.ns, b.records, m)
  BY <1>1, <1>5
<1>8. ExtendedBy(e, db, b.ns, b.records, m) /\ e \in Tables
  BY <1>2, <1>3, <1>7, ImportExtends
<1>9. Refers(e)
  BY <1>3, <1>8, ImportRefers
<1>10. Distinct(e)
  BY <1>2, <1>3, <1>4, <1>8, ImportDistinct
<1>11. Good(e)
  BY <1>8, <1>9, <1>10 DEF Good
<1> QED
  BY <1>0, <1>2, <1>3, <1>5, <1>8, <1>11 DEF b

LEMMA PortInit == Init => PortInv
<1> SUFFICES ASSUME Init PROVE PortInv
  OBVIOUS
<1>1. Good(db)
  <2>1. PICK ns \in Namespaces : db = InUse(ns)
    BY DEF Init
  <2> DEFINE name == CHOOSE n \in Names : TRUE
  <2>2. name \in Names
    BY PortabilityAssumption
  <2>3. PICK a : a = name
    OBVIOUS
  <2>4. /\ db = [memories |-> <<[ns |-> ns, deleted |-> FALSE]>>,
                 entities |-> <<[ns |-> ns, name |-> a]>>, relations |-> <<>>, skills |-> <<>>,
                 mentions |-> {}, evidence |-> {}, lessons |-> {}]
        /\ a \in Names
    BY <2>1, <2>2, <2>3 DEF InUse, EmptyDb
  <2> HIDE DEF name
  <2>5. db \in Tables
    <3>1. [ns |-> ns, deleted |-> FALSE] \in MemoryRow /\ [ns |-> ns, name |-> a] \in EntityRow
      BY <2>4 DEF MemoryRow, EntityRow
    <3>2. /\ <<[ns |-> ns, deleted |-> FALSE]>> \in Seq(MemoryRow)
          /\ <<[ns |-> ns, name |-> a]>> \in Seq(EntityRow)
          /\ <<>> \in Seq(RelationRow) /\ <<>> \in Seq(SkillRow)
      BY <3>1
    <3> QED
      BY <2>4, <3>2 DEF Tables
  <2>6. Refers(db)
    BY <2>4 DEF Refers
  <2>7. Distinct(db)
    <3>1. DOMAIN db.entities = {1} /\ DOMAIN db.skills = {}
      BY <2>4
    <3> QED
      BY <3>1 DEF Distinct, InNamespace, ActiveSkills
  <2> QED
    BY <2>5, <2>6, <2>7 DEF Good
<1>2. ExportInv
  BY DEF Init, NoExport, ExportInv
<1>3. FileInv
  BY DEF Init, FileInv
<1>4. ImportInv
  BY DEF Init, ImportInv
<1> QED
  BY <1>1, <1>2, <1>3, <1>4 DEF PortInv

(* An importer that does not come to be about to commit.                   *)
LEMMA StepBack ==
  ASSUME ImportInv, UNCHANGED <<db, import, exported>>, NEW i \in Importers,
         NEW to \in {"idle", "check", "insert", "audit"}, pc' = [pc EXCEPT ![i] = to],
         pc[i] # "idle"
  PROVE  ImportInv'
<1>1. \A j \in Importers : pc'[j] = "commit" => pc[j] = "commit"
  BY DEF ImportInv
<1>2. \A j \in Importers : pc'[j] # "idle" => pc[j] # "idle"
  BY DEF ImportInv
<1>3. pc' \in [Importers -> {"idle", "check", "insert", "commit", "audit"}]
  BY DEF ImportInv
<1>4. \A j \in Importers : pc'[j] = "commit" => ~NameTaken(j)'
  BY <1>1, FreeIsNotTaken, FreeAfter DEF ImportInv
<1>5. \A j \in Importers : \A kind \in {"entity", "skill"} : Inserted(j, kind)' = Inserted(j, kind)
  BY DEF Inserted
<1> QED
  BY <1>1, <1>2, <1>3, <1>4, <1>5 DEF ImportInv

LEMMA ImportStepKeeps ==
  ASSUME Good(db), FileInv, ImportInv, NEW i \in Importers,
         (\E ns \in Namespaces : BeginImport(i, ns)) \/ ImportStep(i) \/ ImportFails(i)
  PROVE  /\ Good(db') /\ FileInv' /\ ImportInv'
         /\ UNCHANGED exporter
<1>1. CASE \E ns \in Namespaces : BeginImport(i, ns)
  <2>1. PICK ns \in Namespaces : BeginImport(i, ns)
    BY <1>1
  <2>2. /\ pc[i] = "idle" /\ file # Null /\ file.digest = file.records
        /\ pc' = [pc EXCEPT ![i] = "check"]
        /\ import' = [import EXCEPT ![i] = [ns |-> ns, records |-> file.records]]
        /\ UNCHANGED <<db, exporter, file, exported, copies>>
    BY <2>1 DEF BeginImport, Verifies
  <2>3. file.records \in exported
    BY <2>2 DEF FileInv
  <2>4. /\ \A j \in Importers \ {i} : pc'[j] = pc[j] /\ import'[j] = import[j]
        /\ pc'[i] = "check" /\ import'[i].ns = ns /\ import'[i].records = file.records
        /\ pc' \in [Importers -> {"idle", "check", "insert", "commit", "audit"}]
        /\ DOMAIN import' = Importers
    BY <2>2 DEF ImportInv
  <2>5. \A j \in Importers : pc'[j] = "commit" => j # i /\ pc[j] = "commit"
    BY <2>4
  <2>6. \A j \in Importers \ {i} : \A kind \in {"entity", "skill"} :
           Inserted(j, kind)' = Inserted(j, kind)
    BY <2>4 DEF Inserted
  <2>7. \A j \in Importers : pc'[j] = "commit" => ~NameTaken(j)'
    <3> SUFFICES ASSUME NEW j \in Importers, pc'[j] = "commit" PROVE ~NameTaken(j)'
      OBVIOUS
    <3>1. j # i /\ pc[j] = "commit" /\ ~NameTaken(j) /\ import'[j] = import[j] /\ db' = db
      BY <2>2, <2>4, <2>5 DEF ImportInv
    <3> QED
      BY <3>1 DEF NameTaken
  <2>8. ImportInv'
    <3>1. \A j \in Importers : pc'[j] # "idle" =>
             import'[j].ns \in Namespaces /\ import'[j].records \in exported'
      BY <2>2, <2>3, <2>4 DEF ImportInv
    <3>2. \A j, k \in Importers : \A kind \in {"entity", "skill"} :
             j # k /\ pc'[j] = "commit" /\ pc'[k] = "commit" /\ import'[j].ns = import'[k].ns =>
                 Inserted(j, kind)' \cap Inserted(k, kind)' = {}
      BY <2>4, <2>5, <2>6 DEF ImportInv
    <3> QED
      BY <2>4, <2>7, <3>1, <3>2 DEF ImportInv
  <2>9. FileInv'
    BY <2>2 DEF FileInv
  <2> QED
    BY <2>2, <2>8, <2>9
<1>2. CASE CheckEmpty(i) \/ AuditImport(i) \/ ImportFails(i)
  <2>1. UNCHANGED <<db, exporter, file, import, exported, copies>>
    BY <1>2 DEF CheckEmpty, AuditImport, ImportFails
  <2>2. PICK to \in {"idle", "check", "insert", "audit"} :
           pc' = [pc EXCEPT ![i] = to] /\ pc[i] # "idle"
    BY <1>2 DEF CheckEmpty, AuditImport, ImportFails
  <2>3. ImportInv'
    BY <2>1, <2>2, StepBack
  <2>4. FileInv'
    BY <2>1 DEF FileInv
  <2> QED
    BY <2>1, <2>3, <2>4
<1>3. CASE InsertRows(i)
  <2>1. /\ pc[i] = "insert" /\ ~MustWait(i)
        /\ pc' = [pc EXCEPT ![i] =
                    IF Resolves(import[i].records) /\ ~NameTaken(i) THEN "commit" ELSE "idle"]
        /\ UNCHANGED <<db, exporter, file, import, exported, copies>>
    BY <1>3 DEF InsertRows
  <2>2. FileInv'
    BY <2>1 DEF FileInv
  <2>3. CASE pc' = [pc EXCEPT ![i] = "idle"]
    BY <2>1, <2>2, <2>3, StepBack
  <2>4. CASE pc' = [pc EXCEPT ![i] = "commit"] /\ ~NameTaken(i)
    <3>1. /\ \A j \in Importers \ {i} : pc'[j] = pc[j]
          /\ pc' \in [Importers -> {"idle", "check", "insert", "commit", "audit"}]
      BY <2>4 DEF ImportInv
    <3>2. \A j \in Importers : pc'[j] = "commit" => ~NameTaken(j)
      BY <2>4, <3>1 DEF ImportInv
    <3>3. \A j \in Importers : pc'[j] = "commit" => ~NameTaken(j)'
      BY <2>1, <3>2, FreeIsNotTaken, FreeAfter
    <3>4. ASSUME NEW j \in Importers \ {i}, pc[j] = "commit", import[j].ns = import[i].ns,
                 NEW kind \in {"entity", "skill"}
          PROVE  Inserted(i, kind) \cap Inserted(j, kind) = {}
      <4>1. Inserted(j, kind) \subseteq InsertedNames(import[i].ns, kind)
        BY <3>4 DEF Inserted, InsertedNames
      <4>2. Inserted(i, kind) \cap InsertedNames(import[i].ns, kind) = {}
        BY <2>1 DEF MustWait, Inserted
      <4> QED
        BY <4>1, <4>2
    <3>5. \A j, k \in Importers : \A kind \in {"entity", "skill"} :
             j # k /\ pc'[j] = "commit" /\ pc'[k] = "commit" /\ import[j].ns = import[k].ns =>
                 Inserted(j, kind) \cap Inserted(k, kind) = {}
      <4> SUFFICES ASSUME NEW j \in Importers, NEW k \in Importers, NEW kind \in {"entity", "skill"},
                          j # k, pc'[j] = "commit", pc'[k] = "commit", import[j].ns = import[k].ns
                   PROVE  Inserted(j, kind) \cap Inserted(k, kind) = {}
        OBVIOUS
      <4>1. CASE j = i
        BY <3>1, <3>4, <4>1
      <4>2. CASE k = i
        BY <3>1, <3>4, <4>2
      <4>3. CASE j # i /\ k # i
        BY <3>1, <4>3 DEF ImportInv
      <4> QED
        BY <4>1, <4>2, <4>3
    <3>6. \A j \in Importers : \A kind \in {"entity", "skill"} :
             Inserted(j, kind)' = Inserted(j, kind)
      BY <2>1 DEF Inserted
    <3>7. \A j \in Importers : pc'[j] # "idle" =>
             import[j].ns \in Namespaces /\ import[j].records \in exported
      BY <2>1, <3>1 DEF ImportInv
    <3>8. ImportInv'
      BY <2>1, <3>1, <3>3, <3>5, <3>6, <3>7 DEF ImportInv
    <3> QED
      BY <2>1, <2>2, <3>8
  <2> QED
    BY <2>1, <2>3, <2>4
<1>4. CASE CommitImport(i)
  <2>1. /\ pc[i] = "commit" /\ pc' = [pc EXCEPT ![i] = "audit"]
        /\ UNCHANGED <<exporter, file, import, exported>>
        /\ \E ids : copies' = copies \cup
              {[by |-> i, ns |-> import[i].ns, records |-> import[i].records, ids |-> ids]}
    BY <1>4 DEF CommitImport
  <2>2. /\ \E ids : ExtendedBy(db', db, import[i].ns, import[i].records, ids)
        /\ import[i].records \in exported /\ Good(db')
    BY <1>4, CommitGood
  <2>3. /\ \A j \in Importers : pc'[j] = "commit" => j # i /\ pc[j] = "commit"
        /\ pc' \in [Importers -> {"idle", "check", "insert", "commit", "audit"}]
        /\ \A j \in Importers : pc'[j] # "idle" => pc[j] # "idle"
    BY <2>1 DEF ImportInv
  <2>4. ASSUME NEW j \in Importers, pc'[j] = "commit" PROVE ~NameTaken(j)'
    <3>1. j # i /\ pc[j] = "commit" /\ Free(j, db)
      BY <2>3, <2>4, FreeIsNotTaken DEF ImportInv
    <3>2. import[j].ns = import[i].ns =>
             /\ Inserted(i, "entity") \cap Inserted(j, "entity") = {}
             /\ Inserted(i, "skill") \cap Inserted(j, "skill") = {}
      BY <2>1, <3>1 DEF ImportInv
    <3>3. Free(j, db')
      BY <2>2, <3>1, <3>2, CommitKeepsFree
    <3> QED
      BY <2>1, <3>3, FreeAfter
  <2>5. \A j \in Importers : \A kind \in {"entity", "skill"} : Inserted(j, kind)' = Inserted(j, kind)
    BY <2>1 DEF Inserted
  <2>6. ImportInv'
    BY <2>1, <2>3, <2>4, <2>5 DEF ImportInv
  <2>7. FileInv'
    BY <2>1, <2>2 DEF FileInv
  <2> QED
    BY <2>1, <2>2, <2>6, <2>7
<1> QED
  BY <1>1, <1>2, <1>3, <1>4 DEF ImportStep

LEMMA PortStep == PortInv /\ [Next]_vars => PortInv'
<1> SUFFICES ASSUME Good(db), ExportInv, FileInv, ImportInv, [Next]_vars PROVE PortInv'
  BY DEF PortInv
<1>1. CASE ServiceStep
  <2>1. /\ Good(db') /\ SafeNames(db', db)
        /\ UNCHANGED <<exporter, file, pc, import, exported, copies>>
    BY <1>1, ServiceGood
  <2>2. ExportInv' /\ FileInv'
    BY <2>1 DEF ExportInv, FileInv
  <2>3. \A i \in Importers : pc[i] = "commit" => ~NameTaken(i)'
    <3> SUFFICES ASSUME NEW i \in Importers, pc[i] = "commit" PROVE ~NameTaken(i)'
      OBVIOUS
    <3>1. Free(i, db)
      BY FreeIsNotTaken DEF ImportInv
    <3>2. Free(i, db')
      BY <2>1, <3>1, SafeNamesKeepFree
    <3> QED
      BY <2>1, <3>2, FreeAfter
  <2>4. \A i \in Importers : \A kind \in {"entity", "skill"} : Inserted(i, kind)' = Inserted(i, kind)
    BY <2>1 DEF Inserted
  <2>5. ImportInv'
    BY <2>1, <2>3, <2>4 DEF ImportInv
  <2> QED
    BY <2>1, <2>2, <2>5 DEF PortInv
<1>2. CASE (\E ns \in Namespaces : BeginExport(ns)) \/ ReadTable \/ WriteFile \/ CorruptFile
  <2>1. /\ ExportInv' /\ FileInv' /\ exported \subseteq exported'
        /\ UNCHANGED <<db, pc, import>>
    BY <1>2, ExportStep
  <2>2. \A i \in Importers : pc[i] = "commit" => ~NameTaken(i)'
    BY <2>1, FreeIsNotTaken, FreeAfter DEF ImportInv
  <2>3. \A i \in Importers : \A kind \in {"entity", "skill"} : Inserted(i, kind)' = Inserted(i, kind)
    BY <2>1 DEF Inserted
  <2>4. ImportInv'
    BY <2>1, <2>2, <2>3 DEF ImportInv
  <2> QED
    BY <2>1, <2>4 DEF PortInv
<1>3. CASE \E i \in Importers :
             (\E ns \in Namespaces : BeginImport(i, ns)) \/ ImportStep(i) \/ ImportFails(i)
  <2>1. PICK i \in Importers :
           (\E ns \in Namespaces : BeginImport(i, ns)) \/ ImportStep(i) \/ ImportFails(i)
    BY <1>3
  <2>2. Good(db') /\ FileInv' /\ ImportInv' /\ UNCHANGED exporter
    BY <2>1, ImportStepKeeps
  <2>3. ExportInv'
    BY <2>2 DEF ExportInv
  <2> QED
    BY <2>2, <2>3 DEF PortInv
<1>4. CASE UNCHANGED vars
  <2>1. UNCHANGED <<db, exporter, file, pc, import, exported, copies>>
    BY <1>4 DEF vars
  <2>2. ExportInv' /\ FileInv'
    BY <2>1 DEF ExportInv, FileInv
  <2>3. ImportInv'
    BY <2>1 DEF ImportInv, NameTaken, Inserted
  <2> QED
    BY <2>1, <2>2, <2>3 DEF PortInv
<1> QED
  BY <1>1, <1>2, <1>3, <1>4 DEF Next

LEMMA PortAlways == Spec => []PortInv
<1>1. Init => PortInv
  BY PortInit
<1>2. PortInv /\ [Next]_vars => PortInv'
  BY PortStep
<1> QED
  BY <1>1, <1>2, PTL DEF Spec

-----------------------------------------------------------------------------
(* The tables of a namespace after an import *)

LEMMA ImportedIds ==
  ASSUME NEW d, NEW ns, NEW records, NEW ids, NEW e, ExtendedBy(e, d, ns, records, ids)
  PROVE  /\ \A r \in records["memory"] : ids.memory[r.id] \in LiveMemories(e, ns)
         /\ \A r \in records["entity"] :
               /\ ids.entity[r.id] \in InNamespace(e.entities, ns)
               /\ e.entities[ids.entity[r.id]].name = r.name
         /\ \A r \in records["relation"] :
               /\ ids.relation[r.id] \in InNamespace(e.relations, ns)
               /\ e.relations[ids.relation[r.id]] = ImportedRelation(ns, ids, r)
         /\ \A r \in records["skill"] :
               /\ ids.skill[r.id] \in ActiveSkills(e, ns)
               /\ e.skills[ids.skill[r.id]].name = r.name
<1>1. \A r \in records["memory"] :
         /\ ids.memory[r.id] \in DOMAIN e.memories
         /\ e.memories[ids.memory[r.id]] = [ns |-> ns, deleted |-> FALSE]
  BY DEF ExtendedBy, Extends, MemoryOf
<1>2. \A r \in records["entity"] :
         /\ ids.entity[r.id] \in DOMAIN e.entities
         /\ e.entities[ids.entity[r.id]] = [ns |-> ns, name |-> r.name]
  BY DEF ExtendedBy, Extends, EntityOf
<1>3. \A r \in records["relation"] :
         /\ ids.relation[r.id] \in DOMAIN e.relations
         /\ e.relations[ids.relation[r.id]] = ImportedRelation(ns, ids, r)
  BY DEF ExtendedBy, Extends, RelationOf
<1>4. \A r \in records["skill"] :
         /\ ids.skill[r.id] \in DOMAIN e.skills
         /\ e.skills[ids.skill[r.id]] = [ns |-> ns, name |-> r.name, active |-> TRUE]
  BY DEF ExtendedBy, Extends, SkillOf
<1>5. \A r \in records["memory"] : ids.memory[r.id] \in LiveMemories(e, ns)
  BY <1>1 DEF LiveMemories, InNamespace
<1>6. ASSUME NEW r \in records["entity"]
      PROVE  /\ ids.entity[r.id] \in InNamespace(e.entities, ns)
             /\ e.entities[ids.entity[r.id]].name = r.name
  <2>1. PICK x : x = ids.entity[r.id]
    OBVIOUS
  <2>2. x \in DOMAIN e.entities /\ e.entities[x] = [ns |-> ns, name |-> r.name]
    BY <1>2, <2>1
  <2>3. e.entities[x].ns = ns /\ e.entities[x].name = r.name
    BY <2>2
  <2> QED
    BY <2>1, <2>2, <2>3 DEF InNamespace
<1>7. ASSUME NEW r \in records["relation"]
      PROVE  /\ ids.relation[r.id] \in InNamespace(e.relations, ns)
             /\ e.relations[ids.relation[r.id]] = ImportedRelation(ns, ids, r)
  BY <1>3 DEF InNamespace, ImportedRelation
<1>8. ASSUME NEW r \in records["skill"]
      PROVE  /\ ids.skill[r.id] \in ActiveSkills(e, ns)
             /\ e.skills[ids.skill[r.id]].name = r.name
  <2>1. PICK x : x = ids.skill[r.id]
    OBVIOUS
  <2>2. /\ x \in DOMAIN e.skills
        /\ e.skills[x] = [ns |-> ns, name |-> r.name, active |-> TRUE]
    BY <1>4, <2>1
  <2>3. e.skills[x].ns = ns /\ e.skills[x].active /\ e.skills[x].name = r.name
    BY <2>2
  <2> QED
    BY <2>1, <2>2, <2>3 DEF ActiveSkills, InNamespace
<1> QED
  BY <1>5, <1>6, <1>7, <1>8

LEMMA RenamedCases ==
  \A c :
     /\ Renamed(c, "memory") = {[id |-> c.ids.memory[r.id]] : r \in c.records["memory"]}
     /\ Renamed(c, "entity")
           = {[id |-> c.ids.entity[r.id], name |-> r.name] : r \in c.records["entity"]}
     /\ Renamed(c, "skill")
           = {[id |-> c.ids.skill[r.id], name |-> r.name] : r \in c.records["skill"]}
     /\ Renamed(c, "relation")
           = {[id |-> c.ids.relation[r.id], subject |-> c.ids.entity[r.subject],
               object |-> IF r.object = Null THEN Null ELSE c.ids.entity[r.object],
               source |-> Remap(c.ids.memory, r.source),
               supersedes |-> IF r.supersedes = Null THEN Null ELSE c.ids.relation[r.supersedes],
               supersededBy |-> IF r.supersededBy = Null THEN Null
                                ELSE c.ids.relation[r.supersededBy]] :
                 r \in c.records["relation"]}
     /\ Renamed(c, "memory_entity")
           = InsertLinks(c.records["memory_entity"], c.ids.memory, c.ids.entity)
     /\ Renamed(c, "relation_provenance")
           = InsertLinks(c.records["relation_provenance"], c.ids.relation, c.ids.memory)
     /\ Renamed(c, "skill_provenance")
           = InsertLinks(c.records["skill_provenance"], c.ids.skill, c.ids.memory)
BY DEF Renamed

LEMMA RenamedSelected ==
  ASSUME NEW d, NEW ns, NEW records, Bundle(records), NEW ids, NEW e,
         ExtendedBy(e, d, ns, records, ids), NEW c, c.records = records, c.ids = ids,
         NEW kind \in Kinds
  PROVE  Renamed(c, kind) \subseteq Select(kind, e, ns)
<1>1. Renamed(c, "memory") \subseteq SelectMemories(e, ns)
  <2>1. Renamed(c, "memory") = {[id |-> ids.memory[r.id]] : r \in records["memory"]}
    BY RenamedCases
  <2> QED
    BY <2>1, ImportedIds DEF SelectMemories
<1>2. Renamed(c, "entity") \subseteq SelectEntities(e, ns)
  <2>1. Renamed(c, "entity")
           = {[id |-> ids.entity[r.id], name |-> r.name] : r \in records["entity"]}
    BY RenamedCases
  <2> QED
    BY <2>1, ImportedIds DEF SelectEntities
<1>3. Renamed(c, "skill") \subseteq SelectSkills(e, ns)
  <2>1. Renamed(c, "skill")
           = {[id |-> ids.skill[r.id], name |-> r.name] : r \in records["skill"]}
    BY RenamedCases
  <2> QED
    BY <2>1, ImportedIds DEF SelectSkills
<1>4. Renamed(c, "relation") \subseteq SelectRelations(e, ns)
  <2>1. \A r \in records["relation"] :
           /\ Remap(ids.entity, r.object) = IF r.object = Null THEN Null ELSE ids.entity[r.object]
           /\ Remap(ids.relation, r.supersedes)
                 = IF r.supersedes = Null THEN Null ELSE ids.relation[r.supersedes]
           /\ Remap(ids.relation, r.supersededBy)
                 = IF r.supersededBy = Null THEN Null ELSE ids.relation[r.supersededBy]
    <3>1. /\ DOMAIN ids.relation = {q.id : q \in records["relation"]}
          /\ DOMAIN ids.entity = {q.id : q \in records["entity"]}
      BY DEF ExtendedBy, Extends
    <3>2. /\ \A q \in records["relation"] : q.id \in Nat
          /\ \A q \in records["entity"] : q.id \in Nat
      BY BundleRows
    <3>3. Null \notin DOMAIN ids.relation /\ Null \notin DOMAIN ids.entity
      BY <3>1, <3>2, PortabilityAssumption
    <3>4. \A r \in records["relation"] :
             /\ r.object # Null => r.object \in DOMAIN ids.entity
             /\ r.supersedes # Null => r.supersedes \in DOMAIN ids.relation
             /\ r.supersededBy # Null => r.supersededBy \in DOMAIN ids.relation
      BY <3>1, BundleRows
    <3> QED
      BY <3>3, <3>4 DEF Remap
  <2> SUFFICES ASSUME NEW x \in Renamed(c, "relation") PROVE x \in SelectRelations(e, ns)
    OBVIOUS
  <2>2. PICK r \in records["relation"] :
           x = [id |-> ids.relation[r.id], subject |-> ids.entity[r.subject],
                object |-> IF r.object = Null THEN Null ELSE ids.entity[r.object],
                source |-> Remap(ids.memory, r.source),
                supersedes |-> IF r.supersedes = Null THEN Null ELSE ids.relation[r.supersedes],
                supersededBy |-> IF r.supersededBy = Null THEN Null
                                 ELSE ids.relation[r.supersededBy]]
    BY RenamedCases
  <2> DEFINE n == ids.relation[r.id]
  <2>3. n \in InNamespace(e.relations, ns) /\ e.relations[n] = ImportedRelation(ns, ids, r)
    BY ImportedIds
  <2>4. /\ e.relations[n].subject = ids.entity[r.subject]
        /\ e.relations[n].object = Remap(ids.entity, r.object)
        /\ e.relations[n].source = Remap(ids.memory, r.source)
        /\ e.relations[n].supersedes = Remap(ids.relation, r.supersedes)
        /\ e.relations[n].supersededBy = Remap(ids.relation, r.supersededBy)
    BY <2>3 DEF ImportedRelation
  <2>5. x = [id |-> n, subject |-> e.relations[n].subject, object |-> e.relations[n].object,
             source |-> e.relations[n].source, supersedes |-> e.relations[n].supersedes,
             supersededBy |-> e.relations[n].supersededBy]
    BY <2>1, <2>2, <2>4
  <2> HIDE DEF n
  <2> QED
    BY <2>3, <2>5 DEF SelectRelations
(* Links have both their ends. *)
<1>5. /\ \A i \in {r.id : r \in records["memory"]} : ids.memory[i] \in LiveMemories(e, ns)
      /\ \A i \in {r.id : r \in records["entity"]} : ids.entity[i] \in InNamespace(e.entities, ns)
      /\ \A i \in {r.id : r \in records["relation"]} :
            ids.relation[i] \in InNamespace(e.relations, ns)
      /\ \A i \in {r.id : r \in records["skill"]} : ids.skill[i] \in ActiveSkills(e, ns)
  BY ImportedIds
<1>6. Renamed(c, "memory_entity") \subseteq SelectMentions(e, ns)
  <2> SUFFICES ASSUME NEW x \in InsertLinks(records["memory_entity"], ids.memory, ids.entity)
               PROVE  x \in SelectMentions(e, ns)
    BY RenamedCases
  <2>1. x \in e.mentions
    BY DEF ExtendedBy
  <2>2. PICK l \in records["memory_entity"] : x = <<ids.memory[l[1]], ids.entity[l[2]]>>
    BY DEF InsertLinks
  <2>3. x[1] \in LiveMemories(e, ns) /\ x[2] \in InNamespace(e.entities, ns)
    BY <1>5, <2>2, BundleRows
  <2> QED
    BY <2>1, <2>3 DEF SelectMentions
<1>7. Renamed(c, "relation_provenance") \subseteq SelectEvidence(e, ns)
  <2> SUFFICES ASSUME NEW x \in InsertLinks(records["relation_provenance"], ids.relation, ids.memory)
               PROVE  x \in SelectEvidence(e, ns)
    BY RenamedCases
  <2>1. x \in e.evidence
    BY DEF ExtendedBy
  <2>2. PICK l \in records["relation_provenance"] : x = <<ids.relation[l[1]], ids.memory[l[2]]>>
    BY DEF InsertLinks
  <2>3. x[1] \in InNamespace(e.relations, ns) /\ x[2] \in LiveMemories(e, ns)
    BY <1>5, <2>2, BundleRows
  <2> QED
    BY <2>1, <2>3 DEF SelectEvidence
<1>8. Renamed(c, "skill_provenance") \subseteq SelectLessons(e, ns)
  <2> SUFFICES ASSUME NEW x \in InsertLinks(records["skill_provenance"], ids.skill, ids.memory)
               PROVE  x \in SelectLessons(e, ns)
    BY RenamedCases
  <2>1. x \in e.lessons
    BY DEF ExtendedBy
  <2>2. PICK l \in records["skill_provenance"] : x = <<ids.skill[l[1]], ids.memory[l[2]]>>
    BY DEF InsertLinks
  <2>3. x[1] \in ActiveSkills(e, ns) /\ x[2] \in LiveMemories(e, ns)
    BY <1>5, <2>2, BundleRows
  <2> QED
    BY <2>1, <2>3 DEF SelectLessons
<1> QED
  BY <1>1, <1>2, <1>3, <1>4, <1>6, <1>7, <1>8, SelectCases DEF Kinds

(* Only a commit adds a copy, and what it copied is there. *)
LEMMA CopiesRoundTrip ==
  ASSUME PortInv, [Next]_vars, NEW c \in copies' \ copies, NEW kind \in Kinds
  PROVE  Renamed(c, kind) \subseteq Select(kind, db', c.ns)
<1>1. \E i \in Importers : CommitImport(i)
  <2> SUFFICES ASSUME ~\E i \in Importers : CommitImport(i) PROVE copies' = copies
    OBVIOUS
  <2>1. CASE ServiceStep
    BY <2>1, ServiceGood DEF PortInv
  <2>2. CASE (\E ns \in Namespaces : BeginExport(ns)) \/ ReadTable \/ WriteFile \/ CorruptFile
    BY <2>2 DEF BeginExport, ReadTable, WriteFile, CorruptFile
  <2>3. ASSUME NEW i \in Importers,
               (\E ns \in Namespaces : BeginImport(i, ns)) \/ ImportStep(i) \/ ImportFails(i)
        PROVE  copies' = copies
    BY <2>3 DEF BeginImport, ImportStep, CheckEmpty, InsertRows, AuditImport, ImportFails
  <2>4. CASE UNCHANGED vars
    BY <2>4 DEF vars
  <2> QED
    BY <2>1, <2>2, <2>3, <2>4 DEF Next
<1>2. PICK i \in Importers : CommitImport(i)
  BY <1>1
<1>3. PICK b : b = import[i]
  OBVIOUS
<1>4. PICK ids : /\ ExtendedBy(db', db, b.ns, b.records, ids)
                 /\ copies' = copies \cup {[by |-> i, ns |-> b.ns, records |-> b.records, ids |-> ids]}
  BY <1>2, <1>3, CommitGood DEF PortInv
<1>5. c.ns = b.ns /\ c.records = b.records /\ c.ids = ids
  BY <1>4
<1>6. ExtendedBy(db', db, b.ns, b.records, ids) /\ Bundle(b.records)
  BY <1>2, <1>3, <1>4, CommitGood DEF PortInv
<1> QED
  BY <1>5, <1>6, RenamedSelected

-----------------------------------------------------------------------------

(* Rows refer to rows that exist, of their own namespace, whatever is      *)
(* written, superseded and imported (portability_repository.py, foreign    *)
(* keys of 0003 and 0005).                                                 *)
THEOREM TypeCorrect == Spec => []TypeOK
<1>1. PortInv => TypeOK
  <2> SUFFICES ASSUME PortInv PROVE TypeOK
    OBVIOUS
  <2>1. Refers(db)
    BY DEF PortInv, Good
  <2>2. /\ \A l \in db.mentions : db.memories[l[1]].ns = db.entities[l[2]].ns
        /\ \A l \in db.evidence : db.relations[l[1]].ns = db.memories[l[2]].ns
        /\ \A l \in db.lessons : db.skills[l[1]].ns = db.memories[l[2]].ns
    BY <2>1 DEF Refers, InNamespace
  <2>3. /\ pc \in [Importers -> {"idle", "check", "insert", "commit", "audit"}]
        /\ exporter.read \in 0 .. 7
        /\ \A i \in Importers : pc[i] # "idle" => import[i].ns \in Namespaces
    BY DEF PortInv, ExportInv, ImportInv
  <2>4. \A r \in DOMAIN db.relations :
           LET row == db.relations[r]
           IN  /\ row.subject \in InNamespace(db.entities, row.ns)
               /\ row.object # Null => row.object \in InNamespace(db.entities, row.ns)
               /\ row.source # Null => row.source \in InNamespace(db.memories, row.ns)
               /\ \A other \in {row.supersedes, row.supersededBy} \ {Null} :
                     other \in InNamespace(db.relations, row.ns)
    BY <2>1 DEF Refers, RowRefers
  <2> QED
    BY <2>2, <2>3, <2>4 DEF TypeOK
<1> QED
  BY <1>1, PortAlways, PTL

(* No bundle lacks a record that its records refer to, whatever is written *)
(* while it is exported (export_namespace's one transaction).              *)
THEOREM ExportsAreClosed == Spec => []BundlesClosed
<1>1. PortInv => BundlesClosed
  BY DEF PortInv, FileInv, Bundle, BundlesClosed
<1> QED
  BY <1>1, PortAlways, PTL

(* A bundle is imported as it was exported or not at all (load_jsonl).     *)
THEOREM ImportsAreExports == Spec => []OnlyExportedImported
<1>1. PortInv => OnlyExportedImported
  BY DEF PortInv, FileInv, OnlyExportedImported
<1> QED
  BY <1>1, PortAlways, PTL

(* Concurrent imports and writes never leave two entities or two active    *)
(* skills of one name (import_bundle, UNIQUE in 0003 and 0005).            *)
THEOREM NamesStayUnique == Spec => []NamesUnique
<1>1. PortInv => NamesUnique
  BY DEF PortInv, Good, Distinct, NamesUnique
<1> QED
  BY <1>1, PortAlways, PTL

(* What was imported is exported again, under its new ids (import_bundle   *)
(* followed by export_namespace).                                          *)
THEOREM ImportsRoundTrip == Spec => RoundTrip
<1>1. PortInv /\ [Next]_vars =>
         [\A c \in copies' \ copies, kind \in Kinds :
             Renamed(c, kind) \subseteq Select(kind, db, c.ns)']_vars
  BY CopiesRoundTrip
<1> QED
  BY <1>1, PortAlways, PTL DEF Spec, RoundTrip

=============================================================================
