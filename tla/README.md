# ROOTMEM, specified

TLA+ models of [ROOTMEM](../src/README.md), a memory server for AI agents: MCP tools over a
Postgres store, with a graph of facts held with a degree of belief, consolidation of episodes
into distilled facts, skills and lessons, an autonomous process that settles contested facts,
and a tamper-evident audit log. The models are translated from the Python code and its SQL;
TLC checks them on small instances and TLAPS proves the main results for every instance.

The code is asynchronous Python over one connection pool. Everything that can go wrong between
two requests goes wrong between two database transactions, so that is what the models show:
**a step is what one transaction does between two points at which another one can be noticed**
(a `SELECT`, the moment a lock is granted, a commit), at Postgres's default READ COMMITTED.

    tlc -workers 2 -config RelationStore_ingest.cfg MCRelationStore.tla
    tlapm RelationStore_proofs.tla

## 1. Inventory

Paths are relative to `src/src/rootmem/`.

| Component | State it keeps | Operations | Modelled |
|---|---|---|---|
| Relation store (`storage/postgres/graph_repository.py`) | `relations`: a fact (subject, predicate, object) with a Beta belief, valid time, successor links, a `contested` mark; entities, aliases, links to episodes | `create_relation` (corroborate, contest, supersede or insert), `record_feedback`, `list_contested`, `resolve_contest`, `upsert_entity`, queries (`as_of`) | `RelationStore`; entities and links in `Portability`; queries not |
| Belief arithmetic (`extraction/contradiction.py`, `retrieval/decay.py`, `rumination/reconcile.py`) | none | `apply_evidence`, `apply_feedback`, `resolve_contradiction`, `retention`, `decide_reconciliation` | `Belief` |
| Rumination (`rumination/`, tool `ruminate`) | none but the pass under way | the loop; `run_rumination_pass` | `RelationStore` |
| Audit log (`storage/postgres/audit_repository.py`, `audit/`) | `audit_log`: one hash chain per namespace | `append`, `verify_chain`, `list_entries` | `AuditLog`, `AppendOnlyLog` |
| Consolidation (`consolidation/`, `storage/postgres/consolidation_repository.py`) | `consolidation_runs`; `consolidated_at` of episodes | trigger check, `run_consolidation`, run records | `Consolidation` |
| Procedural store (`storage/postgres/procedural_repository.py`) | `procedural_memories`: versions of skills and lessons, one active per name | `create` (supersedes), `record_outcome`, provenance links | `ProceduralStore`, `SkillRegister`; links in `Consolidation` |
| Memory store (`storage/postgres/repository.py`) | `memories`: episodes with an idempotency key, soft deletion, access counts | `create`, `update`, `soft_delete`, `record_access`, `mark_consolidated`, `update_salience`, lookups and searches | `MemoryRows`, `MemoryStore`, `InMemoryStore` (not `update_salience`) |
| Clustering and session traces (`consolidation/clustering.py`, `procedural_clustering.py`) | none | connected components of a similarity graph; grouping by session and outcome | `Consolidation` |
| Identity (`identity/`, `storage/postgres/identity_repository.py`) | `identities`: token hash, scope, namespaces, expiry, revocation | verify, authorize, create, rotate, revoke | `IdentityTable`, `ToolServer` |
| Rate limiter (`identity/ratelimit.py`) | a token bucket per identity, in memory | `allow` | `TokenBucket`, `ToolServer` |
| Tool server (`integration/mcp/server.py`, `integration/rest.py`) | background consolidation tasks | `guarded`: authorize, limit, call, audit, then maybe consolidate | `ToolServer` |
| Portability (`portability/`, `storage/postgres/portability_repository.py`) | the bundle file | `export_namespace`, `import_bundle` | `Portability` |
| Capture and extraction (`capture/`, `extraction/pipeline.py`) | none | `ingest_transcript`: embed, `create`, extract, `apply_extraction` | as steps of `Providers`, `Consolidation`, `ToolServer` |
| Salience, ranking, trust, search (`consolidation/salience.py`, `retrieval/`, `trust/`) | none but access counts | candidate selection; weighted sums for the order of results | candidates in `MemoryRows`; not the floats |
| Providers (`embedding/`, `*_anthropic_*`) | the task that constructs each of them | calls of remote models | `Providers`; distillation as calls of `Consolidation` |
| Hooks, HTTP client, evaluation, configuration, logging, metrics | none that other parts read | one-shot scripts, settings, formatting | no |
| In-memory repositories (`storage/fakes/`) | dictionaries | the same protocols, one call at a time | three of them, as the abstract specifications `InMemoryStore`, `SkillRegister`, `AppendOnlyLog` |

### How the parts interact

* A **tool call** passes `guarded` (identity, namespace ownership, scope, rate limit), runs one
  tool function, which makes one or more repository calls, and then appends an audit entry.
  Each repository method is a transaction of its own on a pooled connection; nothing spans two.
* `ingest_session` starts a **consolidation** of the namespace as a background task, as may the
  `consolidate` tool and a scheduled command; if it is due they
  list unconsolidated episodes, cluster them, call a model per cluster, feed what it returns to
  `create_relation` and the procedural store, mark the episodes.
* The **rumination loop** lives in the HTTP server and runs over all namespaces; the `ruminate`
  tool runs the same pass for one namespace, at the same time if need be. Several server
  processes may share a database. Both call `list_contested`, decide, then `resolve_contest` and
  an audit `append` per decision.
* What the parts share is the database. Row locks (`FOR UPDATE`), one advisory lock per audited
  namespace, primary keys and two partial unique indexes are the only synchronisation.

### What is hard, and what makes each part correct

* **Relation store** - concurrent read-modify-writes of one belief; a verdict taken from a row
  that changes before it is applied; a row superseded while a transaction waits for its lock.
  Correct if no evidence is lost, a verdict still holds when it is committed, no row loses its
  claim or its evidence or comes back once superseded, and a fact, once learnt, keeps an active
  relation.
* **Rumination** - decisions carried out later than they were taken, passes that overlap, locks
  taken in an order that depends on the beliefs, an audit entry in another transaction than what
  it reports. Correct if every pass ends, no resolution retires the last side standing, and an
  audit entry names as loser only what was superseded.
* **Audit log** - appends that race for the tail of a chain, advisory locks shared by a hash
  collision, failures after the lock is taken. Correct if the chain verifies at every moment
  and the table is an append-only log.
* **Consolidation** - check, then act, without a lock; a batch marked only after the last
  external call. Correct if no episode is marked before everything it could teach was dealt
  with, a pass never draws again on what a completed one used, run records are true, and a
  backlog is served in the end.
* **Procedural store** - creation races under a partial unique index, a version superseded while
  an outcome waits for its row, outcomes reported by name, an outcome committed whose answer is
  lost. Correct if a name has one active version, versions form one line, replaced versions stay
  as they were, an outcome that was acknowledged is counted once and one whose report failed at
  most once.
* **Memory store** - retries against deletion, row locks taken in the order of a query plan.
  Correct if every answer to one idempotency key names one memory while it lives, a forgotten
  memory never changes or comes back, and accesses are counted exactly.
* **Tool server, identity, rate limiter** - authorization before the effect, audit after it,
  tokens that die while calls are under way. Correct if a dead token changes nothing, every
  effect was authorized, no window admits more than burst plus rate, and every effect is audited
  or its caller was not told of success.
* **Providers** - constructed while the server already answers, awaited by every call that
  arrives in the meantime. Correct if no failure of theirs costs a memory.
* **Portability** - a snapshot of seven tables, an import into an empty namespace under new ids.
  Correct if a bundle is self-contained, a damaged one is refused, two imports never leave a
  name twice, and what was imported exports the same again.

PROJECT.json lists the hazards one by one, each at its line.

## 2. The modules

| Module | What it is |
|---|---|
| `Belief` | pure operators: evidence, decay and the two decisions |
| `RelationStore` | the relations table, its writers and the rumination passes; extends `Belief` |
| `MCRelationStore` | values of its constants for TLC |
| `RelationStore_proofs` | type correctness, protected reads, conservation of evidence |
| `RelationFacts_proofs` | a fact never vanishes, with one ruminating process; the graph never forgets, verdicts hold at the commit, audited resolutions happened |
| `AppendOnlyLog` | what the audit log promises: sequences that only grow |
| `AuditLog` | the audit table, `append`, `verify_chain`; implements `AppendOnlyLog` |
| `MCAuditLog` | values of its constants for TLC |
| `AuditLog_proofs` | the chain verifies, numbers are free, the refinement |
| `SkillRegister` | what the procedural store promises: one current version per name, frozen past ones |
| `ProceduralStore` | the table of versions, `create`, `record_outcome`; implements `SkillRegister` |
| `ProceduralStore_proofs` | versions form a line, names stay, outcomes are conserved, the refinement |
| `MemoryRows` | the memories table: what each statement of the repository does to it, and what the searches return |
| `InMemoryStore` | what the memory store promises: the dictionary of the in-memory repository |
| `MemoryStore` | the tools on episodes, called concurrently, with failures and retries; implements `InMemoryStore` |
| `MemoryStore_proofs` | types, retries agree, accesses are counted, the refinement |
| `Consolidation` | trigger, clustering, a pass of any number of processes, run records |
| `Consolidation_proofs` | types, clusters are components, no episode is marked before its batch was dealt with, no evidence twice in passes in a row, true run records |
| `TokenBucket`, `IdentityTable` | the limiter's arithmetic; the identities table and the decisions taken from a row |
| `ToolServer` | a call from its arrival to its answer, the operator's commands, restarts; composes the two above |
| `ToolServer_proofs` | types, dead tokens, authorization, audit, the rate |
| `Providers` | construction of the remote models, and `ingest_transcript` through them |
| `Portability` | export, the bundle file, import |
| `Portability_proofs` | references, closed bundles, only exports are imported, unique names, the round trip |
| `MCMemoryStore`, `MCConsolidation`, `MCToolServer`, `MCPortability` | values of the constants for TLC |

An operator whose comment begins with `Mutant:` is not part of the specification. It is a
changed form of the definition that follows it, one a plausible slip in the code would give;
putting it in the definition's place must violate the property PROJECT.json names, which shows
that the property does say something about the code.

### Belief

`apply_evidence` adds `weight * confidence` to one side of a Beta(alpha, beta) belief and
`weight * (1 - confidence)` to the other. The code computes in floats; the model in whole units
(`Prior` units are 1.0, a confidence is `0 .. Full`, `Weight[derivation]` is reliability times
prior strength in belief units per unit of confidence). Comparisons of confidences
`alpha / (alpha + beta)` are cross-multiplied, so no rounding happens and the margin and its
boundary are exact. `exp(-age/stability)` is a table, `Retention`, about which only
monotonicity is assumed. A claim's own confidence is the one of its fresh belief, prior
included, as in `resolve_contradiction`.

### RelationStore

| Variable | In the code |
|---|---|
| `relation` | rows of `relations` (object, belief, derivation, valid time, links, `contested`) |
| `owner` | the row lock of each row |
| `pc`, `request`, `stamp`, `cand`, `held`, `seen` | the program counter and locals of a transaction: the claim, `now()`, the rows its `SELECT` found, the row locked, the copy it read |
| `todo` | what a pass decided from its list and has not carried out |
| `audited` | `ruminate_resolve` entries |
| `clock`, `creates`, `feedbacks` | time and the number of calls made (bounds) |
| `evidence` | history variable: the weight of all evidence committed for a row |

| Action | In the code |
|---|---|
| `BeginCreate`, `ScanActive` | call and snapshot of the `SELECT ... WHERE valid_to IS NULL FOR UPDATE` |
| `LockPrevious`, `SkipSuperseded` | the lock is granted and the `WHERE` is checked again on the row: kept, or left out with its lock still held |
| `CreateFirst`, `Corroborate`, `Contest`, `Supersede` | the four outcomes of `create_relation`, each with all its writes and the commit |
| `BeginFeedback`, `LockFeedback`, `RecordFeedback` | `record_feedback` |
| `BeginPass`, `ListContested` | `now` of the pass, `list_contested` and the decisions of `run_rumination_pass` on it (groups of two, old enough unless forced, one side prevailing after decay) |
| `LockWinner`, `LockLoser`, `ResolveContest` | `resolve_contest`: two `FOR UPDATE`s, then the updates and the commit |
| `RecordAudit`, `FinishPass` | the append after each resolution; the end |
| `WriterFails`, `PassFails` | a `StorageError`, a lost connection, a cancelled task, a crash: rollback, the rest is dropped, the loop goes on to its next pass |
| `DeadlockVictim` | Postgres aborts a transaction on a cycle of waits |

Two rows that are both active for a key, such as those two overlapping first claims insert, are
reachable: `FOR UPDATE` locks nothing when there is no row. `cand` is therefore a set and the
row the `SELECT` returns first any member of it, as there is no `ORDER BY`.

Simplifications, each harmless to what is checked: one namespace (no statement touches two); a
(subject, predicate) pair is one key; `recorded_at` and `valid_from` are one instant (both are
`now()` of the inserting transaction); the `confidence` column is a function of the belief; the
clocks of server and database are one; entities, episode links and the "not found" answers are
left out, since they change no row of `relations` that a decision reads.

### AuditLog and AppendOnlyLog

`append` is `BeginAppend` (`created_at` is read before the transaction), `AcquireLock`
(`pg_advisory_xact_lock(hashtext(namespace))`; `Slot` maps namespaces to locks and need not be
injective), `ReadTail`, `InsertEntry` (with the primary key's check) or, at any moment,
`AppendFails`. `VerifyChain` is what `verify_chain` computes: numbers consecutive from 1, each
`prev_hash` the hash of the entry before, each hash that of its contents. A hash is the tuple of
what is hashed, which is what collision-freedom means.

`AppendOnlyLog` is the promise: a sequence of events per namespace that changes only by an
event at its end. The refinement maps the rows of a namespace, ordered by `seq`, to that
sequence (`Recorded`), so it says at once that numbers have no gaps, that nothing is rewritten
and that an append to one namespace leaves the others alone.

### ProceduralStore and SkillRegister

| Variable | In the code |
|---|---|
| `version` | rows of `procedural_memories` (name, links both ways, `applied_count`, `success_count`) |
| `owner` | the row lock of each row |
| `pc`, `request`, `cand`, `held` | program counter and locals of a call: the name, the rows its snapshot found, the row it locked |
| `answer` | how the last call of a process ended |
| `creates`, `reports` | the number of calls made (bounds) |
| `found`, `unsure` | history variables: outcomes answered with `found=True`, and reports that ended with an error or with nothing, by name |

| Action | In the code |
|---|---|
| `BeginCreate`, `ScanActive` | call and snapshot of `SELECT ... FOR UPDATE` |
| `LockPrevious`, `FindNoPrevious` | the lock is granted and the `WHERE` checked again: the row is kept, or left out with its lock held, and `previous` is `None` |
| `InsertFirst`, `InsertSuperseding` | the `UPDATE` that closes the previous version, if any, the `INSERT` and the commit, whose answer may be lost (`Commit`) |
| `InsertCollides` | `ix_procedural_memories_active_name` refuses the row: rollback and `StorageError` |
| `BeginReport`, `ScanReport`, `RecordOutcome` | `record_outcome`, one `UPDATE` that commits by itself: snapshot, then the row once its lock is free; the caller is told of it, or of a failure because the connection is lost or the audit entry cannot be appended (`CommitOutcome`) |
| `MissOutcome` | no row was there, or it was superseded while the `UPDATE` waited: `found=False` |
| `CallFails` | an error, a connection lost before the commit, a crash: rollback |

`UPDATE` and `INSERT` of a create are one step with the commit: until then no other transaction
sees either, and who wants the closed row waits for its lock. The insert itself cannot meet
another uncommitted insert in this granularity; on Postgres it would wait for that one's end and
then find what the model finds at once.

Simplifications: one namespace; what a skill says is left out; no row is deleted, as no code sets
`deleted_at`; the belief is a function of the two counts, as every outcome weighs the same;
`link_provenance`, calls of their own after a create, is a step of `Consolidation`.

`SkillRegister` is the in-memory procedural repository with nothing of locks or links: `Publish`
puts a new version in the place of the current one, which is past for good; `Report` adds one
outcome to the current version. The refinement maps `current` to the active version of a name
and `past` to the superseded ones.

### MemoryRows, MemoryStore and InMemoryStore

`MemoryRows` has one operator per statement, from the table to the table after it (`Inserted`,
`Edited`, `Forgotten`, `Accessed`, `MarkedConsolidated`) or to what it returns (`SearchText`,
`SearchSemantic`, `SearchHybrid`). `MemoryStore` interleaves them:

| Action | In the code |
|---|---|
| `BeginRemember`, `InsertMemory`, `FindExisting`, `AnswerRemember` | `remember` and `create`: `INSERT ... ON CONFLICT DO NOTHING`, then a `SELECT` of the row that was in the way, in two commits |
| `Retry`, `GiveUp` | the caller repeats a remember that failed or whose answer was lost, with the same key |
| `BeginUpdate`, `ApplyUpdate` | `update`, one statement that finds rows not deleted |
| `BeginForget`, `FindForgotten`, `DeleteMemory` | `soft_delete`: a read, then an `UPDATE` of its own |
| `BeginRecall`, `ReadMemory`, `BeginSearch`, `ReadHits` | the reads, which leave ids whose access is to be recorded |
| `ReadBatch` | `list_unconsolidated`, whose batch is marked later |
| `LockRow` | the `UPDATE` of `record_access` or `mark_consolidated` comes to a row, in any order, and locks it |
| `CommitAccess`, `CommitMark` | it has all its rows and commits |
| `AbortDeadlocked` | two of them wait for each other: the database aborts one |
| `CallFails` | a connection lost before or after the statement committed |

The scores of the searches are an order given by constants (`Rank`, `Cosine`). A member of
`Reasons` stands for what a forget writes, its moment and its reason. Of two overlapping forgets
the second writes its own over the first one's (`ForgetsAgain`), which the in-memory repository,
called by one caller at a time, never does, and which is not what the `forget` tool says of
itself (`integration/mcp/server.py:362`, forgetting what is forgotten is a no-op).
`ImplementsDictionary` therefore names this case: every step of the table is an operation of the
dictionary, or the `UPDATE` of a forget that began while the memory still lived.

### Consolidation

An episode is absent, fresh or consolidated. A pass is one process's way through
`maybe_run_consolidation`: `Check` or `ForceRun`, `StartRun`, `ListBatch` (with its clusters),
then `Distil` and one `LinkSource` per source for each cluster, `BeginProcedures` (the session
traces), the same for skills and lessons, `MarkBatch`, `CompleteRun`. `SkipItem` is a provider
that fails on one item, which the code leaves out; `PassFails` anything else, which ends the
pass where it is, with its run record never completed. `ClusterBySimilarity` folds `Union` over
the pairs, as the union-find does; `Components` is the reference it is compared with. `TraceOf`
is the dictionary keyed by session id that both traces of a session are put into.

Each behaviour chooses its bounds from `Bounds` and keeps them in `bound`: which episodes arrive
and may be forgotten, which processes consolidate, and how many runs, failures, forced runs and
elapsed windows there are. The similar pairs and the salience update of every episode are part
of `ListBatch`: similarities never change and no decision reads a salience.

### ToolServer

| Variable | In the code |
|---|---|
| `identities`, `issued`, `now` | the identities table, the tokens given out, the clock |
| `buckets` | the limiter's dictionary, lost on restart |
| `pc`, `call` | where a call is; its tool, namespace or memory, claims and answer |
| `memories` | which ids exist, their namespaces and whether they were forgotten; `Stored` were there before |
| `audit`, `tasks` | audit entries; background consolidations |
| `effects`, `window` | history: every change with who asked for it; admissions of one identity since one of them |

A call goes through `Arrive`, `Lookup`, `CheckExpiry` (the verifier reads the row, then the
clock), `DenyScope` or `Limit` (the guard up to its first await), `AuthorizeMemory` for the tools
that name only an id, one action per tool, and `AuditRecord`. `Fail` is a storage error at any
await, `BreakOff` one in the middle of a tool of several transactions, `Restart` the end of the
process. The tools here apply a change (`Apply`), find nothing or only look: what they do to the
stores is the matter of the other modules; `Ruminate` resolves one contest or none. A remember
whose key a living memory has, and a forget of a forgotten memory, change nothing and are audited
all the same (`Repeat`); a remember whose key a forgotten memory has fails. Over stdio there is
one caller and the guard lets it through; only the HTTP transport is modelled.

### Providers

`ConstructEmbedding` and `ConstructExtraction` end the two construction tasks, with a provider or
with its refusal to go without an API key. `AwaitProvider` is the await of such a task, with its
three outcomes. A cancelled call cancels the task it awaits: that is asyncio's rule for a task
that is awaited without a shield.

### Portability

`db` holds the seven tables; a row's id is its place. `ServiceStep` is the running service, which
goes on adding to them. `BeginExport` takes the snapshot of the repeatable-read transaction,
`ReadTable` is one of its `SELECT`s, `WriteFile` builds the bundle with counts and digest,
`CorruptFile` loses or replaces records. An import checks the bundle (`BeginImport`) and the
namespace (`CheckEmpty`), inserts under new ids (`InsertRows`, which waits for or collides with
another transaction's rows of the same name), commits and, in a transaction of its own, writes an
audit entry. The records of a kind are inserted in the order of their canonical JSON, which may
be any: the new ids are an arbitrary bijection of the old ones to the next places (`FreshIds`). A
relation refers to two entities, a memory, the claim it superseded and the claim that superseded
it (`ImportedRelation`), so one of the two links always leads forward; they are set in a second
loop, when every relation has its new id.

## 3. What TLC checks

| Run | Instance | Shows |
|---|---|---|
| `ingest` | 2 writers, 1 ruminator, 1 key, 3 rows, 3 claims + 1 feedback, 2 days; 597 thousand states | `TypeOK`, `ReadsStayCurrent`, `EvidenceConserved`, `FactNeverVanishes`, `AuditedLoserSuperseded`, and of every step `VerdictStillHolds`, `HistoryKept` |
| `liveness` | 1 writer, 2 ruminators, 2 claims close enough for 1 feedback between two decisions to turn the verdict, so that one pair is locked in opposite orders; 34 thousand states | `EverythingEnds`: no transaction waits for ever |
| `audit_log` | 3 appends at once, 3 namespaces, 2 of them on one lock; 87 thousand states | `TypeOK`, `ChainVerifies`, `AppendNeverCollides`, `LogIsAppendOnly`, `AppendsEnd` |
| `procedural` | 2 distillers, 2 reporters, 1 name, 3 creates, 2 reports; 215 thousand states | `TypeOK`, `Lineage`, `NameKept`, `OutcomesConserved`, `ImplementsRegister`, `CallsEnd` |
| `episodes` | 2 callers, 2 memories, 1 idempotency key, 2 reasons, 4 calls, 1 lost connection; 230 thousand states | `TypeOK`, `RetriesAgree`, `AccessesCounted`, `ImplementsDictionary`, `CallsEnd` |
| `consolidation` | 2 processes, 2 episodes, 3 runs, 1 failure; or 1 process, 4 episodes, 6 runs, 2 failures; batches and threshold of 2; 898 thousand states | `TypeOK`, `ClustersAreComponents`, `MarkedWhenDealtWith`, `EvidenceCountedOnce`, `RunsTellTheTruth`, `BacklogServed` |
| `tool_server` | 2 calls, 2 identities, 2 tokens, 2 namespaces, 1 memory and room for another, 2 commands, 1 fault, 3 instants; 4.5 million states | `TypeOK`, `DeadTokensRefused`, `EffectsAuthorized`, `EffectsAudited`, `RateBounded` |
| `portability` | 2 namespaces, 2 names, 2 imports, 3 writes of the service, 1 damaged file, 1 failure; 2.4 million states | `TypeOK`, `BundlesClosed`, `OnlyExportedImported`, `NamesUnique`, and of every step `RoundTrip` |

Four more runs state what the documentation says and the code does not do; TLC's
counterexample is the evidence (the quotations are under `findings` in PROJECT.json):

| Run | Statement | What happens instead |
|---|---|---|
| `passes` | `FactNeverVanishes` with two ruminating processes | two passes decide the same pair before and after a feedback; each retires the other's winner and no row is left active |
| `forgotten` | `RememberAnswers`: a remember fails only with its connection | the unique index still holds the key of a forgotten memory, the `SELECT` after the conflict does not find it: the call fails, and so does every retry |
| `traces` | `SameOutcomeTraces`: skills come from successful sessions | a session with both outcomes has two traces and one dictionary entry: a skill is distilled from the failed one |
| `cancelled` | `UncancelledStored`: providers never cost a memory | a caller that gives up while the provider is being constructed cancels its construction; later calls end before their memory is stored |

Other disagreements the models show without a run of their own: a claim supersedes unless the
old relation is better by the margin, as ADR 0013, the phase 2 math spec and the code's comment
have it, while `docs/requirements/phase2-requirements.md:21` (FR5) still asks for the opposite
default; a second forget that overlaps the first replaces its moment and reason; of two
contested rows the `SELECT` of `create_relation` returns either, so a restatement met with the
rival is inserted again; a contested pair whose sides both decay below the margin is never
resolved; a failure between a resolution and its audit entry loses the entry; a consolidation
started in the background writes no audit entry, though
`docs/requirements/phase4-requirements.md:26` asks for audit rows for consolidation writes.

### Bounds, and why they are enough

* One key: no statement reads or writes the rows of two keys, and the decisions of a pass on
  two keys are independent. Three rows are the first number at which a group of two can be
  contested beside a third row, a successor can itself be superseded, and a group is ambiguous.
* Two writers overlap in every pair of ways (two first claims, a claim and a feedback, a wait
  for a row that is superseded meanwhile). A third adds no new pair of conflicting statements.
* The claims (a distilled certainty, a rival as certain as an extracted fact can be, and a weak
  rival) meet all four verdicts, on either side of the margin and after corroboration.
* The clock of `RelationStore` has two readings, before and after the minimum age, a day apart;
  with the default settings a day keeps 87% of a belief. `tool_server` has three instants, so that
  a token is valid, expires and a bucket refills in between.
* Three appends at three namespaces, two sharing a lock: the first size at which an append can
  wait behind another namespace while a third proceeds, and a chain can have three entries.
* The two claims of `liveness` are contested, and stand far enough apart for a pass to settle
  them and near enough for one contradiction to turn that verdict: a pass that decided before the
  feedback and one that decided after it lock the same two rows in opposite orders, and a writer
  that keeps the lock of a superseded row can be in a deadlock with either.
* Symmetry is used in safety runs only: row identities in those of `RelationStore` (`IdSymmetry`),
  names and tokens in `tool_server`, namespaces and importers in `portability`. `RoundTrip` is
  about one step at a time and treats them alike. `liveness` instead gives new rows their
  identities in order (`IdsInOrder`), which loses only the names of the rows.
* One name: names share nothing but the table. Three creates and two reports are enough for a
  line of three versions, for a create to wait for the row another one supersedes, and for an
  outcome to be waiting while its version is superseded and the successor too.
* Two callers of the memory store and two memories are the first size with opposite lock orders;
  four calls allow a remember, its retry, a forget in between and a search. One idempotency key
  and one request without it tell apart what a key does; two reasons tell apart what two forgets
  leave.
* Two passes overlap in every pair of steps; three runs let a third list after one completed and
  one died. A single process with four episodes has a backlog of two batches, dies over it twice
  and has runs left to finish it. The two are scenarios of one run, as a behaviour that is large
  in both respects is beyond an exhaustive search. The clusters are compared
  with the components of every set of episodes in a chain of four, where unions meet.
  `MinRecurrence` is 1 for the main run, so that two episodes can yield a skill; the default 2 is
  used in `traces`.
* Two calls with any tool against one that names a memory or one that stores one, two commands
  (an identity and its rotation or revocation, or two identities), a profile that expires and a
  reader. A third call adds no new pair; the proofs cover any number of all of these.
* Three writes of the service are enough for a memory, an entity and what links them, before,
  between and after the reads of an export.
* `MaxCreates`, `MaxReports`, `MaxFeedback`, `MaxAppends`, `MaxCalls`, `MaxCommands`,
  `MaxWrites`, `MaxCorruptions`, `MaxFaults` and the `Bounds` of `Consolidation` bound the number
  of calls and of things that go wrong; rumination passes are unbounded. In all configurations but
  those of `RelationStore` deadlock is not checked, because the model stops once its calls are
  used up.

### Fairness

`FairSpec` assumes of `RelationStore` that a transaction which can go on does (strong fairness
of a process's steps: a lock that is free again and again is granted, as Postgres queues its
waiters, and one victim of a deadlock is chosen), that the loop keeps starting passes, and that
time goes on. It assumes neither that calls are made nor that they fail. Of `AuditLog` it
assumes strong fairness of the steps of an append, for the queue of its advisory lock, and
likewise of the steps of a call of `ProceduralStore` and of `MemoryStore`. Of `Consolidation` it
assumes weak fairness of each process: a pass under way goes on. That a check follows when a
namespace is due is not the code's doing, which checks only when it is asked, by an ingest, the
`consolidate` tool or the command line; it is an assumption about the environment of its own,
`CheckedAgain`, which a scheduled `rootmem.consolidation.cli` meets, and `BacklogServed` holds
under it. Nothing is assumed of arriving episodes, nor that failures end. `ToolServer`, `Providers` and `Portability`
are checked for safety only.

## 4. What is proved

For every number of writers, ruminators, keys, rows, namespaces and locks and all parameter
values that satisfy the modules' assumptions:

| Theorem | Says |
|---|---|
| `RelationStore_proofs!TypeCorrect` | `Spec => []TypeOK`: no transaction acts on a row or request that is not there |
| `RelationStore_proofs!ReadsAreProtected` | `Spec => []ReadsStayCurrent`: what was read under a lock is what the table holds at the write |
| `RelationStore_proofs!NoEvidenceLost` | `Spec => []EvidenceConserved`: belief mass is the prior plus all committed evidence |
| `RelationFacts_proofs!FactsStay` | with one ruminating process, `Spec => []FactNeverVanishes` |
| `RelationFacts_proofs!GraphNeverForgets` | `Spec => HistoryKept`: what no step may do to a row |
| `RelationFacts_proofs!VerdictsHoldAtCommit` | `Spec => VerdictStillHolds` |
| `RelationFacts_proofs!AuditedResolutionsHappened` | `Spec => []AuditedLoserSuperseded` |
| `AuditLog_proofs!TypeCorrect` | `Spec => []TypeOK` |
| `AuditLog_proofs!ChainAlwaysVerifies` | `Spec => []ChainVerifies` |
| `AuditLog_proofs!NumbersAreFree` | `Spec => []AppendNeverCollides` |
| `AuditLog_proofs!ImplementsLog` | `Spec => LogIsAppendOnly`: the refinement |
| `ProceduralStore_proofs!TypeCorrect` | `Spec => []TypeOK`: a locked version is a row of the name its call is about |
| `ProceduralStore_proofs!VersionsFormLine` | `Spec => []Lineage`: versions linked both ways, one first version per name |
| `ProceduralStore_proofs!NamesStay` | `Spec => []NameKept`: a learnt name keeps an active version |
| `ProceduralStore_proofs!OutcomesCounted` | `Spec => []OutcomesConserved`: the outcomes of all versions of a name are those that were acknowledged, and at most those whose report failed besides |
| `ProceduralStore_proofs!RegisterImplemented` | `Spec => ImplementsRegister`: the refinement |
| `MemoryStore_proofs!TypeCorrect` | `Spec => []TypeOK`: no tool names a memory that is not there |
| `MemoryStore_proofs!AnswersAgree` | `Spec => []RetriesAgree`: one idempotency key, one living memory |
| `MemoryStore_proofs!EveryAccessCounts` | `Spec => []AccessesCounted` |
| `MemoryStore_proofs!DictionaryImplemented` | `Spec => ImplementsDictionary`: the refinement, but for overlapping forgets |
| `Consolidation_proofs!TypeCorrect` | `Spec => []TypeOK`: a pass under way has an open run record and works on what it listed |
| `Consolidation_proofs!ComponentsFound` | `Spec => []ClustersAreComponents`: union-find gives the connected components, whatever the similarity and the order of the pairs |
| `Consolidation_proofs!NothingSkipped` | `Spec => []MarkedWhenDealtWith` |
| `Consolidation_proofs!CountedOnce` | `Spec => []EvidenceCountedOnce`: no pass draws on what a completed one before it drew on |
| `Consolidation_proofs!RecordsTrue` | `Spec => []RunsTellTheTruth` |
| `ToolServer_proofs!TypeCorrect` | `Spec => []TypeOK`: calls past the verifier have claims, no bucket overflows |
| `ToolServer_proofs!RateIsBounded` | `Spec => []RateBounded`: no identity is admitted beyond a full bucket and the time, whatever rate and burst |
| `ToolServer_proofs!DeadTokensAreRefused` | `Spec => []DeadTokensRefused` |
| `ToolServer_proofs!ChangesAreAuthorized` | `Spec => []EffectsAuthorized` |
| `ToolServer_proofs!ChangesAreAudited` | `Spec => []EffectsAudited`: changes are audited, and entries tell of changes but for a remember or forget that found its work done |
| `Portability_proofs!TypeCorrect` | `Spec => []TypeOK`: rows refer to rows of their own namespace |
| `Portability_proofs!ExportsAreClosed` | `Spec => []BundlesClosed` |
| `Portability_proofs!ImportsAreExports` | `Spec => []OnlyExportedImported` |
| `Portability_proofs!NamesStayUnique` | `Spec => []NamesUnique`, with any number of racing imports and writes |
| `Portability_proofs!ImportsRoundTrip` | `Spec => RoundTrip`: an import exports its bundle again |

The assumptions are those of the modules (`BeliefAssumption`, `RetentionAssumption`,
`StoreAssumption`, `NoneAssumption`, `RowAssumption`, `AuditAssumption`,
`ProceduralAssumption`, `ServerAssumption`, `BucketAssumption`, `ConsolidationAssumption`,
`PortabilityAssumption`): types, finitely many versions and episodes, a bounded clock, a
retention that does not grow with age, pairs of two episodes as similarities, a minimum cluster
of at least two, and a null that is no other value. TLC evaluates each of them on every run.

**Protected reads and evidence.** `ReadsStayCurrent` is inductive together with `TypeOK`: every
action that writes a row holds its lock or takes an unused row, so who holds a lock sees its
row unchanged (`OthersCurrent`, `WritesOwnRow`, `ResolvesOwnRows`). Conservation of evidence
follows because a write computed from `seen` is a write computed from the row itself, and
`EvidenceMass` says that an event adds the same mass whatever its confidence and side.

**Facts stay.** That a key has an active relation is not inductive: a state in which a row's
successors run in a circle satisfies it until the one other active row is retired. The
strengthening `FactInv` has four parts. `Links`: a superseded row's successor exists and has
its key. `NoTrap`: no non-empty set of rows contains the successor of each of its members, or
chains of successors would never reach an active row. `PendingSafe`: every decision a pass has
still to carry out is *safe*, meaning that its winner leads to an active row without passing
through its loser, and no two pending decisions concern one key. `ScansKey`: what a writer has
found is of its claim's key. A decision is safe when taken, as both rows are then active;
ingest may supersede the winner afterwards, but only by a new row, which extends the chain and
never leads it to the loser; only another pass could, which is why one ruminating process is
assumed, and why the theorem needs it: run `passes` is the counterexample with two.

**History, verdicts, audited resolutions.** By `WhoWritesRows` a step changes rows only as a
writer's commit or a resolution. A writer changes the row it holds and one nobody used; as
`seen` is the row held (`ReadsStayCurrent`), the verdict taken from `seen` is the verdict on the
rows (`WriterVerdicts`), and an event leaves neither side of a belief smaller (`WriterKeeps`).
What holds of every step holds of the audit: `AuditInv` adds that a pass about to write an entry
(`AuditReady`) has superseded its loser, and a superseded row stays so (`StaysSuperseded`).

**Audit chain.** `ChainInv` adds to the property that who is between the lock and the commit
owns the lock of its namespace (`Exclusive`), that the tail it read is the tail still
(`LinksCurrent`) and that numbers are unique (`KeyUnique`). For the refinement, `Counted` says
that the numbers of a namespace are 1 to the number of its rows; then an insert is exactly an
`Append` to the sequence of events and every other step a stutter.

**Versions.** `Base` adds to types that a version a call holds is locked by it and still active
(`PreviousProtected`), so a create closes an active row. Every step then is one of four things
(`Effect`): nothing, a first version, a replacement, an outcome. `LineInv` is preserved by each:
`OneActive` because the index admits a row only if no other is active; `NameKept` because a
replacement closes one and inserts one; `Lineage`'s claim of a single first version because a
first insert needs, by the index, that no version is active, and by `NameKept` that then there
is none at all. With `OneActive` the current version of a name is well defined, and the four
effects are a stutter, two kinds of `Publish` and a `Report`.

**Outcomes.** `Applied` is a fold over all versions. `SumsExist` gives the function of partial
sums that the fold computes, `AppliedAddsUp` says that it is the one, and `SumGrows` that raising
one weight raises the sum by as much. By `Effect` only an outcome changes a count: one version of
the name, by one, together with `found` if the caller hears of it and with `unsure` if not;
versions are inserted with the count 0 and a replaced one keeps its own.

**The memory store.** Every statement is one of five things to the table (`TableStep`): an
insertion the unique index admits, an edition, a deletion of a row nobody has locked, a counted
access, a marking. `LocksHeld` says that a row locked to be counted lives, so what a tracking counts
when it commits is live; a row locked by a marking may be a forgotten one. *Retries*: `KeyUnique`, one row per namespace and key, deleted ones included,
and `AnswersHold` with `AcksHold`, that an answer is the row of its key. *Accesses*: a count and
its history variable move together. *The dictionary*: each of the five is an operation of
`InMemoryStore`, as a deleted row is edited by nobody but a forget that found it living and comes
second (`ForgetsAgain`, which the theorem names).

**Consolidation: the mark.** `MarkInv` says of a pass under way what it has listed (`Dealing`):
each item of its batch is still to do or entered as dealt with, facts before procedures; and that
passes under way have run records of their own (`RecordsHeld`), so that no pass touches another's
entry. When the batch is marked nothing is left to do.

**Consolidation: clusters.** `ClusterBySimilarity` is a fold of `Union` over the pairs.
`RecursionOnSubsets` shows that the function the fold chooses exists, `ClusterInduction` that what
holds of the singletons and is kept by each `Union` holds of the result, in whatever order pairs
are taken. What is kept is `IsClustering`: the clusters are a partition of the batch, and none
has a smaller non-empty part that is closed under the pairs used so far; with all pairs used these
are the connected components (`ClustersOfPairs`).

**Consolidation: rows and records.** `WorkInv` adds to `MarkInv` the state of the store, of each
pass (`PassInv`: its items come from its batch, its tally counts the rows it made, the row it is
linking has every link but those still to do) and of each run (`RunInv`: its rows draw on its
batch; the batches of the runs completed when it listed are disjoint from its own; a completed
record is true). The central fact is the one about batches: what a completed run listed is
consolidated, and a batch is listed from what is not, so evidence is counted twice only by passes
that overlap or die. The types of items need that clusters are of the batch, which is a
consequence of the clustering.

**Portability.** `PortInv` has four parts. *The tables* (`Good`): rows refer to rows of their own
namespace, and names are unique in it; every write of the service keeps this, by one lemma per
write. *The export*: what has been read is what the snapshot holds, and the snapshot was good, so
the bundle is closed whatever has been written since (`SnapshotIsBundle`). *The file*: its digest
is the records of some bundle that was written, so a file whose records have that digest is that
bundle. *The imports*: of two importers that may both commit into one namespace neither has
inserted a name of the other (`MustWait`, `NameTaken`), and no service write takes a name that an
open import has inserted. An import appends rows to each table in an order of its own;
`FreshPlaces` and `AddedExtends` say that old ids and new places correspond one to one and that
each record has its row, from which follow that the new references hit the rows meant (`ImportRefers`), that names stay unique (`ImportDistinct`) and that
the namespace exports the renamed records (`RenamedSelected`).

**The tool server.** `IInv` types every variable and says what a request has by the step its call
is at. Each theorem adds what makes it inductive. *Rate*: `WindowPaid`, that the admissions of a
window and what is left in the bucket were once a full bucket or were added since; an admission
moves one token from the one to the other (`LimitKept`), and multiplication by a rate that is any
number is the lemma `Product`. *Dead tokens*: `StaysDead`, that no command and no tick makes a
token of use that is not, because tokens are never given out twice and rows only get revoked or
older; and `DeadTokensKnown`, that such a call will find no row, or one that has expired by the
clock it is going to read. *Authorization*: `GuardHeld`, what the guard has established for a call
before its tool; it stays true because memories never change their namespace (`MemoriesGrow`).
*Audit*: `EffectsFollowed`, that a change is its call's only one, that the entry that is next is its, and that,
but for remember and forget, there is such a change.

Only model-checked are the liveness properties (`EverythingEnds`, `AppendsEnd`, `CallsEnd` of
`ProceduralStore` and of `MemoryStore`, `BacklogServed`): liveness under fairness is out of the
prover's reach. Every invariant and action property of the passing runs is a theorem. The library's
induction theorems, which take an operator as a parameter, are of no use with the installed
provers: where an induction over finite data is needed (sums over versions, unions over pairs) it
is done by a set of naturals that contains 0 and with each number the next (`AllNaturals`, from
the well-foundedness of `<`), applied to the cardinalities of subsets.

## 5. What is not modelled, and the plan

Not modelled: salience, ranking and trust scores (sums of floats that only order results,
`update_salience` among them); what prompts say and how answers are parsed; the aliases of an
entity; the read-only graph queries; chunking of transcripts; the hooks and the HTTP client, the
evaluation harness, configuration, logging and metrics, which keep no state another part reads;
the stdio transport, where the guard has nothing to decide.

Left for later, in the order of importance:

1. Queries as of an instant over the rows of `RelationStore`, with a property about the rows whose
   `valid_to` precedes their `valid_from`.
2. That a transaction under way always has a step of its own or of a deadlock's victim, as an
   invariant of locks and waits: the safety half of the liveness properties.
3. Aliases and mention counts of entities.
