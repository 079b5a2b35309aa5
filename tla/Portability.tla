----------------------------- MODULE Portability -----------------------------
(***************************************************************************)
(* Export of a namespace to a bundle file and import of a bundle into an   *)
(* empty namespace: portability/bundle.py, portability/cli.py and          *)
(* storage/postgres/portability_repository.py, while the service goes on   *)
(* writing to both.                                                        *)
(*                                                                         *)
(* Export is seven SELECTs in one REPEATABLE READ transaction.  Import is  *)
(* one READ COMMITTED transaction: its rows are seen when it commits, but  *)
(* the unique index on entities makes another insert of the same entity    *)
(* wait for it.                                                            *)
(*                                                                         *)
(* Abstractions: rows carry their namespace, what refers to them and what  *)
(* an index compares; other columns are copied unread.  SHA-256 has no     *)
(* collisions: a digest is the records.                                    *)
(***************************************************************************)
EXTENDS Integers, Sequences, FiniteSets, Functions

CONSTANTS
    Namespaces,
    Names,      \* names of entities, after normalize_entity_name, and of skills
    Importers,  \* runs of the import command
    Null,
    MaxWrites, MaxCorruptions, MaxFaults   \* bounds

ASSUME PortabilityAssumption ==
    /\ MaxWrites \in Nat /\ MaxCorruptions \in Nat /\ MaxFaults \in Nat
    /\ Names # {} /\ Null \notin Namespaces \cup Nat

VARIABLES
    db,        \* the tables: memories, entities, relations and skills, a row's id
               \* is its place; memory_entities, relation_provenance and
               \* procedural_memory_provenance as sets of pairs
    exporter,  \* the export under way: its snapshot and what it has read
    file,      \* the bundle file
    pc,        \* importer |-> idle, check, insert, commit, audit
    import,    \* importer |-> its target and bundle
    exported,  \* history: the records of every bundle written
    copies,    \* history: imports committed
    writes, corruptions, faults

vars == <<db, exporter, file, pc, import, exported, copies, writes, corruptions, faults>>

-----------------------------------------------------------------------------
(* Tables *)

InNamespace(table, ns) == {x \in DOMAIN table : table[x].ns = ns}

LiveMemories(d, ns) == {m \in InNamespace(d.memories, ns) : ~d.memories[m].deleted}

EntityNames(d, ns) == {d.entities[e].name : e \in InNamespace(d.entities, ns)}

ActiveSkills(d, ns) == {k \in InNamespace(d.skills, ns) : d.skills[k].active}

SkillNames(d, ns) == {d.skills[k].name : k \in ActiveSkills(d, ns)}

EmptyDb == [memories |-> <<>>, entities |-> <<>>, relations |-> <<>>, skills |-> <<>>,
            mentions |-> {}, evidence |-> {}, lessons |-> {}]

-----------------------------------------------------------------------------
(* The SELECTs of export_namespace *)

Kinds == {"memory", "entity", "relation", "memory_entity", "relation_provenance", "skill",
          "skill_provenance"}

SelectMemories(d, ns) == {[id |-> m] : m \in LiveMemories(d, ns)}

SelectEntities(d, ns) ==
    {[id |-> e, name |-> d.entities[e].name] : e \in InNamespace(d.entities, ns)}

SelectRelations(d, ns) ==
    {[id |-> r, subject |-> d.relations[r].subject, object |-> d.relations[r].object,
      source |-> d.relations[r].source, supersedes |-> d.relations[r].supersedes,
      supersededBy |-> d.relations[r].supersededBy] : r \in InNamespace(d.relations, ns)}

SelectMentions(d, ns) ==
    {l \in d.mentions : l[1] \in LiveMemories(d, ns) /\ l[2] \in InNamespace(d.entities, ns)}

SelectEvidence(d, ns) ==
    {l \in d.evidence : l[1] \in InNamespace(d.relations, ns) /\ l[2] \in LiveMemories(d, ns)}

SelectSkills(d, ns) == {[id |-> k, name |-> d.skills[k].name] : k \in ActiveSkills(d, ns)}

SelectLessons(d, ns) ==
    {l \in d.lessons : l[1] \in ActiveSkills(d, ns) /\ l[2] \in LiveMemories(d, ns)}

Select(kind, d, ns) ==
    CASE kind = "memory" -> SelectMemories(d, ns)
      [] kind = "entity" -> SelectEntities(d, ns)
      [] kind = "relation" -> SelectRelations(d, ns)
      [] kind = "memory_entity" -> SelectMentions(d, ns)
      [] kind = "relation_provenance" -> SelectEvidence(d, ns)
      [] kind = "skill" -> SelectSkills(d, ns)
      [] kind = "skill_provenance" -> SelectLessons(d, ns)

(* In the order of export_namespace. *)
KindOrder == <<"memory", "entity", "relation", "memory_entity", "relation_provenance", "skill",
               "skill_provenance">>

CountsOf(records) == [kind \in Kinds |-> Cardinality(records[kind])]

(* build_bundle: the manifest carries counts and digest of the records.    *)
BuildBundle(records) ==
    [counts |-> CountsOf(records), digest |-> records, records |-> records]

(* Mutant: only the counts are compared. *)
CountsMatch(bundle) == bundle.counts = CountsOf(bundle.records)

(* load_jsonl *)
Verifies(bundle) ==
    /\ bundle.counts = CountsOf(bundle.records)
    /\ bundle.digest = bundle.records

-----------------------------------------------------------------------------
(* import_bundle *)

(* The rows of a kind are inserted in the order of their canonical JSON,   *)
(* which may be any, and their ids are their places.                       *)
FreshIds(rows, table) ==
    Bijection({r.id : r \in rows}, Len(table) + 1 .. Len(table) + Cardinality(rows))

NewIds(d, records) ==
    [memory   : FreshIds(records["memory"], d.memories),
     entity   : FreshIds(records["entity"], d.entities),
     relation : FreshIds(records["relation"], d.relations),
     skill    : FreshIds(records["skill"], d.skills)]

(* _uid: a reference to a record that is not in the bundle becomes NULL.   *)
Remap(ids, x) == IF x \in DOMAIN ids THEN ids[x] ELSE Null

RecordOf(rows, ids, x) == CHOOSE r \in rows : ids[r.id] = x

Added(table, rows, ids, Row(_)) ==
    table \o [n \in 1 .. Cardinality(rows) |-> Row(RecordOf(rows, ids, Len(table) + n))]

InsertMemories(d, ns, records, ids) ==
    LET Row(r) == [ns |-> ns, deleted |-> FALSE]
    IN  Added(d.memories, records["memory"], ids.memory, Row)

InsertEntities(d, ns, records, ids) ==
    LET Row(r) == [ns |-> ns, name |-> r.name]
    IN  Added(d.entities, records["entity"], ids.entity, Row)

(* A relation of the bundle as a row of ns. *)
ImportedRelation(ns, ids, r) ==
    [ns |-> ns, subject |-> ids.entity[r.subject], object |-> Remap(ids.entity, r.object),
     source |-> Remap(ids.memory, r.source), supersedes |-> Remap(ids.relation, r.supersedes),
     supersededBy |-> Remap(ids.relation, r.supersededBy)]

(* Mutant: the source memory keeps its id of the exported namespace. *)
InsertRelationsAsTheyAre(d, ns, records, ids) ==
    LET Row(r) == [ImportedRelation(ns, ids, r) EXCEPT !.source = r.source]
    IN  Added(d.relations, records["relation"], ids.relation, Row)

(* Mutant: the links are set with the row, when only the relations before  *)
(* it are there.                                                           *)
InsertRelationsOnePass(d, ns, records, ids) ==
    LET Before(r) == [x \in {y \in DOMAIN ids.relation : ids.relation[y] < ids.relation[r.id]}
                         |-> ids.relation[x]]
        Row(r) == ImportedRelation(ns, [ids EXCEPT !.relation = Before(r)], r)
    IN  Added(d.relations, records["relation"], ids.relation, Row)

(* The rows, and in a second loop their supersede links. *)
InsertRelations(d, ns, records, ids) ==
    LET Row(r) == ImportedRelation(ns, ids, r)
    IN  Added(d.relations, records["relation"], ids.relation, Row)

InsertSkills(d, ns, records, ids) ==
    LET Row(r) == [ns |-> ns, name |-> r.name, active |-> TRUE]
    IN  Added(d.skills, records["skill"], ids.skill, Row)

InsertLinks(links, left, right) == {<<left[l[1]], right[l[2]]>> : l \in links}

Imported(d, ns, records, ids) ==
    [memories  |-> InsertMemories(d, ns, records, ids),
     entities  |-> InsertEntities(d, ns, records, ids),
     relations |-> InsertRelations(d, ns, records, ids),
     skills    |-> InsertSkills(d, ns, records, ids),
     mentions  |-> d.mentions \cup InsertLinks(records["memory_entity"], ids.memory, ids.entity),
     evidence  |-> d.evidence
                   \cup InsertLinks(records["relation_provenance"], ids.relation, ids.memory),
     lessons   |-> d.lessons
                   \cup InsertLinks(records["skill_provenance"], ids.skill, ids.memory)]

(* References whose ids the importer looks up without a default. *)
Resolves(records) ==
    LET Ids(kind) == {r.id : r \in records[kind]}
    IN  /\ \A r \in records["relation"] : r.subject \in Ids("entity")
        /\ \A l \in records["memory_entity"] : l[1] \in Ids("memory") /\ l[2] \in Ids("entity")
        /\ \A l \in records["relation_provenance"] :
              l[1] \in Ids("relation") /\ l[2] \in Ids("memory")
        /\ \A l \in records["skill_provenance"] : l[1] \in Ids("skill") /\ l[2] \in Ids("memory")

(* Soft-deleted memories and superseded skills occupy a namespace as well. *)
Occupied(d, ns) ==
    InNamespace(d.memories, ns) \cup InNamespace(d.entities, ns) \cup InNamespace(d.skills, ns)
        # {}

-----------------------------------------------------------------------------

NoExport == [ns |-> Null, snapshot |-> EmptyDb, read |-> 0, records |-> [k \in Kinds |-> {}]]

(* A namespace in use, every other one is empty. *)
InUse(ns) ==
    [EmptyDb EXCEPT !.memories = <<[ns |-> ns, deleted |-> FALSE]>>,
                    !.entities = <<[ns |-> ns, name |-> CHOOSE name \in Names : TRUE]>>]

Init ==
    /\ \E ns \in Namespaces : db = InUse(ns)
    /\ exporter = NoExport
    /\ file = Null
    /\ pc = [i \in Importers |-> "idle"]
    /\ import = [i \in Importers |-> Null]
    /\ exported = {} /\ copies = {}
    /\ writes = 0 /\ corruptions = 0 /\ faults = 0

Write(d) ==
    /\ writes < MaxWrites
    /\ writes' = writes + 1
    /\ db' = d
    /\ UNCHANGED <<exporter, file, pc, import, exported, copies, corruptions, faults>>

Remember(ns) ==
    Write([db EXCEPT !.memories = Append(@, [ns |-> ns, deleted |-> FALSE])])

Forget(m) ==
    /\ ~db.memories[m].deleted
    /\ Write([db EXCEPT !.memories[m].deleted = TRUE])

(* What an import has inserted in ns and not committed: another insert of  *)
(* the same entity or active skill waits for it (UNIQUE in 0003 and 0005). *)
InsertedNames(ns, kind) ==
    UNION {{e.name : e \in import[i].records[kind]} :
              i \in {j \in Importers : pc[j] = "commit" /\ import[j].ns = ns}}

UpsertEntity(ns, name) ==
    /\ name \notin EntityNames(db, ns) \cup InsertedNames(ns, "entity")
    /\ Write([db EXCEPT !.entities = Append(@, [ns |-> ns, name |-> name])])

(* create_relation: a new claim about e supersedes the one there is.       *)
Relate(e, object, source) ==
    LET ns == db.entities[e].ns
        new == Len(db.relations) + 1
        Claim(old) == [ns |-> ns, subject |-> e, object |-> object, source |-> source,
                       supersedes |-> old, supersededBy |-> Null]
        current == {r \in DOMAIN db.relations :
                      db.relations[r].subject = e /\ db.relations[r].supersededBy = Null}
    IN  /\ object # Null => db.entities[object].ns = ns
        /\ source # Null => db.memories[source].ns = ns
        /\ \/ current = {} /\ Write([db EXCEPT !.relations = Append(@, Claim(Null))])
           \/ \E old \in current :
                 Write([db EXCEPT !.relations =
                     Append([@ EXCEPT ![old].supersededBy = new], Claim(old))])

LinkMemoryEntity(m, e) ==
    /\ db.memories[m].ns = db.entities[e].ns
    /\ <<m, e>> \notin db.mentions
    /\ Write([db EXCEPT !.mentions = @ \cup {<<m, e>>}])

LinkRelationProvenance(r, m) ==
    /\ db.relations[r].ns = db.memories[m].ns
    /\ <<r, m>> \notin db.evidence
    /\ Write([db EXCEPT !.evidence = @ \cup {<<r, m>>}])

(* create of the procedural repository: the version there was is superseded.*)
LearnSkill(ns, name) ==
    LET Retire(s) == IF s.ns = ns /\ s.name = name THEN [s EXCEPT !.active = FALSE] ELSE s
        retired == [k \in DOMAIN db.skills |-> Retire(db.skills[k])]
    IN  /\ name \notin InsertedNames(ns, "skill")
        /\ Write([db EXCEPT !.skills =
               Append(retired, [ns |-> ns, name |-> name, active |-> TRUE])])

LinkSkillProvenance(k, m) ==
    /\ db.skills[k].ns = db.memories[m].ns
    /\ <<k, m>> \notin db.lessons
    /\ Write([db EXCEPT !.lessons = @ \cup {<<k, m>>}])

ServiceStep ==
    \/ \E ns \in Namespaces : Remember(ns)
    \/ \E m \in DOMAIN db.memories : Forget(m)
    \/ \E ns \in Namespaces, name \in Names : UpsertEntity(ns, name) \/ LearnSkill(ns, name)
    \/ \E e \in DOMAIN db.entities, o \in DOMAIN db.entities \cup {Null},
          m \in DOMAIN db.memories \cup {Null} : Relate(e, o, m)
    \/ \E m \in DOMAIN db.memories :
          \/ \E e \in DOMAIN db.entities : LinkMemoryEntity(m, e)
          \/ \E r \in DOMAIN db.relations : LinkRelationProvenance(r, m)
          \/ \E k \in DOMAIN db.skills : LinkSkillProvenance(k, m)

-----------------------------------------------------------------------------
(* export *)

BeginExport(ns) ==
    /\ exporter = NoExport /\ file = Null
    /\ exporter' = [NoExport EXCEPT !.ns = ns, !.snapshot = db]
    /\ UNCHANGED <<db, file, pc, import, exported, copies, writes, corruptions, faults>>

(* Mutant: READ COMMITTED, each SELECT sees what is committed by then. *)
Latest == db

Snapshot == exporter.snapshot

ReadTable ==
    LET kind == KindOrder[exporter.read + 1]
    IN  /\ exporter.ns # Null /\ exporter.read < 7
        /\ exporter' = [exporter EXCEPT !.read = @ + 1,
                            !.records[kind] = Select(kind, Snapshot, exporter.ns)]
        /\ UNCHANGED <<db, file, pc, import, exported, copies, writes, corruptions, faults>>

WriteFile ==
    /\ exporter.read = 7
    /\ file' = BuildBundle(exporter.records)
    /\ exported' = exported \cup {exporter.records}
    /\ exporter' = NoExport
    /\ UNCHANGED <<db, pc, import, copies, writes, corruptions, faults>>

(* Environment: the file loses a record, or one is replaced by another. *)
CorruptFile ==
    /\ file # Null /\ corruptions < MaxCorruptions
    /\ corruptions' = corruptions + 1
    /\ \E kind \in {"memory", "memory_entity"} : \E r \in file.records[kind] :
          \/ file' = [file EXCEPT !.records[kind] = @ \ {r}]
          \/ /\ kind = "memory"
             /\ file' = [file EXCEPT !.records["memory"] = (@ \ {r}) \cup {[id |-> 0]}]
    /\ UNCHANGED <<db, exporter, pc, import, exported, copies, writes, faults>>

-----------------------------------------------------------------------------
(* import *)

(* load_jsonl, before anything is written. *)
BeginImport(i, ns) ==
    /\ pc[i] = "idle" /\ import[i] = Null
    /\ file # Null /\ Verifies(file)
    /\ pc' = [pc EXCEPT ![i] = "check"]
    /\ import' = [import EXCEPT ![i] = [ns |-> ns, records |-> file.records]]
    /\ UNCHANGED <<db, exporter, file, exported, copies, writes, corruptions, faults>>

(* NamespaceNotEmptyError *)
CheckEmpty(i) ==
    /\ pc[i] = "check"
    /\ pc' = [pc EXCEPT ![i] = IF Occupied(db, import[i].ns) THEN "idle" ELSE "insert"]
    /\ UNCHANGED <<db, exporter, file, import, exported, copies, writes, corruptions, faults>>

NameTaken(i) ==
    LET New(kind) == {r.name : r \in import[i].records[kind]}
    IN  \/ New("entity") \cap EntityNames(db, import[i].ns) # {}
        \/ New("skill") \cap SkillNames(db, import[i].ns) # {}

MustWait(i) ==
    \E kind \in {"entity", "skill"} :
        {r.name : r \in import[i].records[kind]} \cap InsertedNames(import[i].ns, kind) # {}

(* Mutant: an insert neither waits nor fails for a name that is taken. *)
InsertRowsUnchecked(i) ==
    /\ pc[i] = "insert"
    /\ pc' = [pc EXCEPT ![i] = "commit"]
    /\ UNCHANGED <<db, exporter, file, import, exported, copies, writes, corruptions, faults>>

(* The inserts, not yet visible: they wait for a transaction that inserts  *)
(* the same name, and fail if one has committed it.                        *)
InsertRows(i) ==
    /\ pc[i] = "insert" /\ ~MustWait(i)
    /\ pc' = [pc EXCEPT ![i] =
           IF Resolves(import[i].records) /\ ~NameTaken(i) THEN "commit" ELSE "idle"]
    /\ UNCHANGED <<db, exporter, file, import, exported, copies, writes, corruptions, faults>>

CommitImport(i) ==
    LET b == import[i]
    IN  /\ pc[i] = "commit"
        /\ \E ids \in NewIds(db, b.records) :
              /\ db' = Imported(db, b.ns, b.records, ids)
              /\ copies' =
                    copies \cup {[by |-> i, ns |-> b.ns, records |-> b.records, ids |-> ids]}
        /\ pc' = [pc EXCEPT ![i] = "audit"]
        /\ UNCHANGED <<exporter, file, import, exported, writes, corruptions, faults>>

(* The audit entry is a transaction of its own. *)
AuditImport(i) ==
    /\ pc[i] = "audit"
    /\ pc' = [pc EXCEPT ![i] = "idle"]
    /\ UNCHANGED <<db, exporter, file, import, exported, copies, writes, corruptions, faults>>

(* An error rolls the transaction back. *)
ImportFails(i) ==
    /\ pc[i] # "idle"
    /\ faults < MaxFaults
    /\ faults' = faults + 1
    /\ pc' = [pc EXCEPT ![i] = "idle"]
    /\ UNCHANGED <<db, exporter, file, import, exported, copies, writes, corruptions>>

ImportStep(i) == CheckEmpty(i) \/ InsertRows(i) \/ CommitImport(i) \/ AuditImport(i)

Next ==
    \/ ServiceStep
    \/ (\E ns \in Namespaces : BeginExport(ns)) \/ ReadTable \/ WriteFile \/ CorruptFile
    \/ \E i \in Importers :
          (\E ns \in Namespaces : BeginImport(i, ns)) \/ ImportStep(i) \/ ImportFails(i)

Spec == Init /\ [][Next]_vars

-----------------------------------------------------------------------------
(* Properties *)

(* The state has its types: rows refer to rows that exist, of their own    *)
(* namespace (the foreign keys of 0003 and 0005, and _uid).                *)
TypeOK ==
    /\ \A r \in DOMAIN db.relations :
          LET row == db.relations[r]
          IN  /\ row.subject \in InNamespace(db.entities, row.ns)
              /\ row.object # Null => row.object \in InNamespace(db.entities, row.ns)
              /\ row.source # Null => row.source \in InNamespace(db.memories, row.ns)
              /\ \A other \in {row.supersedes, row.supersededBy} \ {Null} :
                    other \in InNamespace(db.relations, row.ns)
    /\ \A l \in db.mentions : db.memories[l[1]].ns = db.entities[l[2]].ns
    /\ \A l \in db.evidence : db.relations[l[1]].ns = db.memories[l[2]].ns
    /\ \A l \in db.lessons : db.skills[l[1]].ns = db.memories[l[2]].ns
    /\ pc \in [Importers -> {"idle", "check", "insert", "commit", "audit"}]
    /\ exporter.read \in 0 .. 7
    /\ \A i \in Importers : pc[i] # "idle" => import[i].ns \in Namespaces

(* A bundle contains every record its own records refer to and the         *)
(* importer looks up without a default, whatever is written to the         *)
(* namespace while it is exported: export_namespace's one repeatable-read  *)
(* transaction.                                                            *)
BundlesClosed == \A records \in exported : Resolves(records)

(* What is imported was exported as such: a file that lost or replaced     *)
(* records is refused before anything is written (load_jsonl).             *)
OnlyExportedImported == \A c \in copies : c.records \in exported

(* No two imports, and no import and write of the service, leave two       *)
(* entities or two active skills of one name in a namespace, though both   *)
(* may have found it empty (import_bundle, UNIQUE in 0003 and 0005).       *)
NamesUnique ==
    \A ns \in Namespaces :
        /\ \A e, f \in InNamespace(db.entities, ns) :
              db.entities[e].name = db.entities[f].name => e = f
        /\ \A k, l \in ActiveSkills(db, ns) : db.skills[k].name = db.skills[l].name => k = l

(* The records of a copy under their new ids; a relation loses the source  *)
(* memory that was soft-deleted and so not in the bundle, and nothing else.*)
Renamed(c, kind) ==
    LET ids == c.ids
        New(map, x) == IF x = Null THEN Null ELSE map[x]
        Relation(r) == [id |-> ids.relation[r.id], subject |-> ids.entity[r.subject],
                        object |-> New(ids.entity, r.object),
                        source |-> Remap(ids.memory, r.source),
                        supersedes |-> New(ids.relation, r.supersedes),
                        supersededBy |-> New(ids.relation, r.supersededBy)]
    IN  CASE kind = "memory" -> {[id |-> ids.memory[r.id]] : r \in c.records[kind]}
          [] kind \in {"entity", "skill"} ->
                {[id |-> ids[kind][r.id], name |-> r.name] : r \in c.records[kind]}
          [] kind = "relation" -> {Relation(r) : r \in c.records[kind]}
          [] kind = "memory_entity" -> InsertLinks(c.records[kind], ids.memory, ids.entity)
          [] kind = "relation_provenance" ->
                InsertLinks(c.records[kind], ids.relation, ids.memory)
          [] kind = "skill_provenance" -> InsertLinks(c.records[kind], ids.skill, ids.memory)

(* A namespace that was just imported exports, up to the new ids, every    *)
(* record of the bundle, its history of superseded claims included         *)
(* (import_bundle followed by export_namespace).                           *)
RoundTrip ==
    [][\A c \in copies' \ copies, kind \in Kinds :
          Renamed(c, kind) \subseteq Select(kind, db, c.ns)']_vars

=============================================================================
