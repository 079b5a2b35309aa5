---------------------------- MODULE Consolidation ----------------------------
(***************************************************************************)
(* Consolidation of one namespace: maybe_run_consolidation and             *)
(* run_consolidation of consolidation/distill.py with trigger.py,          *)
(* clustering.py, procedural_clustering.py, extraction/pipeline.py and the *)
(* run records of storage/postgres/consolidation_repository.py.            *)
(*                                                                         *)
(* Passes are started by the consolidate tool, by the background task of   *)
(* ingest_session and by the command line; nothing keeps two from running  *)
(* at once.  A call of a repository or a provider is a step, and a pass    *)
(* may die at any of them.  Two groups of calls are one step: the count    *)
(* and the last run of Check, and in ListBatch find_similar_pairs and the  *)
(* update_salience of each episode after list_unconsolidated: similarities *)
(* never change and no decision reads a salience.                          *)
(*                                                                         *)
(* Abstractions: episodes are numbered in the order of created_at; one     *)
(* distilled relation stands for what a cluster's extraction contains; the *)
(* clock is whether the time window has elapsed since the last run started.*)
(***************************************************************************)
EXTENDS Integers, Sequences, FiniteSets, FiniteSetsExt, Folds

CONSTANTS
    Episodes,           \* 1 .. n, in the order they are remembered
    Session, Outcome,   \* episode |-> session id, and success, failure or Null
    Alike,              \* pairs of sessions whose traces are similar
    SimilarityGraphs,   \* sets of pairs of episodes
    Passes,             \* processes that may consolidate
    BatchSize, EpisodeThreshold, MinClusterSize, MinSessionLength, MinRecurrence,
    Null,
    Bounds              \* what a behaviour may have at most: one of these

(* The episodes remembered and forgotten, the processes that start runs,   *)
(* and the number of runs, of windows elapsed, of forced runs and of       *)
(* failures.                                                               *)
BoundType == [arriving : SUBSET Episodes, forgettable : SUBSET Episodes,
              passes : SUBSET Passes, runs : Nat, ticks : Nat, forced : Nat, faults : Nat]

ASSUME ConsolidationAssumption ==
    /\ Episodes \subseteq Nat \ {0} /\ IsFiniteSet(Episodes)
    /\ DOMAIN Session = Episodes
    /\ Outcome \in [Episodes -> {"success", "failure", Null}]
    /\ BatchSize \in Nat \ {0} /\ EpisodeThreshold \in Nat \ {0}
    /\ MinClusterSize \in Nat \ {0, 1}
    /\ MinSessionLength \in Nat \ {0} /\ MinRecurrence \in Nat \ {0}
    /\ \A graph \in SimilarityGraphs : \A pair \in graph :
          pair \subseteq Episodes /\ Cardinality(pair) = 2
    /\ Bounds \subseteq BoundType

VARIABLES
    state,      \* episode |-> absent, fresh, consolidated
    forgotten,  \* episodes soft-deleted
    similar,    \* pairs of episodes at or above the similarity threshold
    runs,       \* rows of consolidation_runs, in the order of started_at
    products,   \* rows the passes made: facts, skills and lessons
    links,      \* provenance: <<product, episode>>
    elapsed,    \* the time window has elapsed since the last run started
    pc,         \* pass |-> the call it is about to make
    run,        \* pass |-> index of its run record
    batch,      \* pass |-> the episodes it listed
    todo,       \* pass |-> what it has still to distil
    product,    \* pass |-> the row whose provenance it is linking
    tally,      \* pass |-> facts, skills and lessons it has counted
    log,        \* history: run |-> its batch, the runs completed when it listed
                \* it and the items it is done with
    ticks, forced, faults,
    bound       \* bounds of this behaviour

(* Rows of relations and of procedural_memories, as far as a pass cares.   *)
Row == [run : Nat, kind : {"fact", "skill", "lesson"}, traces : SUBSET SUBSET Episodes]

ASSUME RowAssumption == Null \notin Row

store == <<state, forgotten, similar, products, links>>
working == <<state, forgotten, similar, runs, products, links, elapsed, pc, run, batch,
             todo, product, tally, log, ticks, forced, faults>>
vars == <<working, bound>>

-----------------------------------------------------------------------------
(* Clustering *)

Singletons(items) == {{x} : x \in items}

(* One union of the union-find structure, as the partition it represents.  *)
Union(pair, clusters) ==
    {C \in clusters : C \cap pair = {}} \cup {UNION {C \in clusters : C \cap pair # {}}}

(* Mutant: a union of neighbours only, without find. *)
ClusterOfNeighbours(items, pairs) ==
    {{x} \cup {y \in items : {x, y} \in pairs} : x \in items}

ClusterBySimilarity(items, pairs) == FoldSet(Union, Singletons(items), pairs)

(* find_similar_pairs, and build_trace_pairs at the threshold. *)
SimilarPairs(items) == {p \in similar : p \subseteq items}

TracePairs(sessions) == {p \in Alike : p \subseteq sessions}

(* Reference: the smallest sets that similarity does not lead out of. *)
Closed(C, items, pairs) ==
    \A x \in C, y \in items : {x, y} \in pairs => y \in C

Components(items, pairs) ==
    {C \in (SUBSET items) \ {{}} :
        /\ Closed(C, items, pairs)
        /\ \A D \in (SUBSET C) \ {{}} : Closed(D, items, pairs) => D = C}

(* The memory ids of a session's episodes with one outcome, if they make a *)
(* trace.                                                                  *)
Trace(episodes, s, outcome) == {e \in episodes : Session[e] = s /\ Outcome[e] = outcome}

IsTrace(t) == Cardinality(t) >= MinSessionLength

Sessions == {Session[e] : e \in Episodes} \ {Null}

(* traces_by_session_id: of two traces of a session, the one whose first   *)
(* episode is later, because it was put into the dictionary last.          *)
TraceOf(episodes, s) ==
    LET success == Trace(episodes, s, "success")
        failure == Trace(episodes, s, "failure")
    IN  IF ~IsTrace(failure) THEN success
        ELSE IF ~IsTrace(success) THEN failure
        ELSE IF Min(success) > Min(failure) THEN success ELSE failure

FactItems(episodes) ==
    {[kind |-> "fact", traces |-> {C}] :
        C \in {D \in ClusterBySimilarity(episodes, SimilarPairs(episodes)) :
                  Cardinality(D) >= MinClusterSize}}

SkillItems(episodes) ==
    LET learnt == {s \in Sessions : IsTrace(Trace(episodes, s, "success"))}
    IN  {[kind |-> "skill", traces |-> {TraceOf(episodes, s) : s \in C}] :
            C \in {D \in ClusterBySimilarity(learnt, TracePairs(learnt)) :
                      Cardinality(D) >= MinRecurrence}}

LessonItems(episodes) ==
    {[kind |-> "lesson", traces |-> {Trace(episodes, s, "failure")}] :
        s \in {x \in Sessions : IsTrace(Trace(episodes, x, "failure"))}}

-----------------------------------------------------------------------------

NoTally == [fact |-> 0, skill |-> 0, lesson |-> 0]

Init ==
    /\ state = [e \in Episodes |-> "absent"]
    /\ forgotten = {}
    /\ similar \in SimilarityGraphs
    /\ runs = <<>> /\ products = {} /\ links = {}
    /\ elapsed = FALSE
    /\ pc = [p \in Passes |-> "idle"]
    /\ run = [p \in Passes |-> 0]
    /\ batch = [p \in Passes |-> {}]
    /\ todo = [p \in Passes |-> {}]
    /\ product = [p \in Passes |-> Null]
    /\ tally = [p \in Passes |-> NoTally]
    /\ log = <<>>
    /\ ticks = 0 /\ forced = 0 /\ faults = 0
    /\ bound \in Bounds

Goto(p, step) == pc' = [pc EXCEPT ![p] = step]

(* remember or ingest_session, and forget *)
Remember ==
    /\ \E e \in Episodes :
          /\ e \in bound.arriving
          /\ state[e] = "absent"
          /\ \A f \in bound.arriving : f < e => state[f] # "absent"
          /\ state' = [state EXCEPT ![e] = "fresh"]
    /\ UNCHANGED <<forgotten, similar, runs, products, links, elapsed, pc, run, batch, todo,
                   product, tally, log, ticks, forced, faults>>

Forget ==
    /\ \E e \in Episodes :
          /\ e \in bound.forgettable
          /\ state[e] # "absent" /\ e \notin forgotten
          /\ forgotten' = forgotten \cup {e}
    /\ UNCHANGED <<state, similar, runs, products, links, elapsed, pc, run, batch, todo,
                   product, tally, log, ticks, forced, faults>>

WindowElapses ==
    /\ ~elapsed /\ runs # <<>>
    /\ ticks < bound.ticks
    /\ ticks' = ticks + 1
    /\ elapsed' = TRUE
    /\ UNCHANGED <<store, runs, pc, run, batch, todo, product, tally, log, forced, faults>>

Unconsolidated == {e \in Episodes : state[e] = "fresh" /\ e \notin forgotten}

(* Mutant: no run while one is not complete. *)
ShouldConsolidateAlone ==
    /\ \A r \in DOMAIN runs : runs[r].done
    /\ Cardinality(Unconsolidated) >= EpisodeThreshold \/ runs = <<>> \/ elapsed

(* No run yet, or the window elapsed since the start of the last one,      *)
(* completed or not.                                                       *)
ShouldConsolidate ==
    \/ Cardinality(Unconsolidated) >= EpisodeThreshold
    \/ runs = <<>> \/ elapsed

RunsLeft == Len(runs) + Cardinality({p \in Passes : pc[p] = "start"}) < bound.runs

MayStart(p) == pc[p] = "idle" /\ p \in bound.passes /\ RunsLeft

(* The count, the last run and the decision; the run starts later. *)
Check(p) ==
    /\ MayStart(p)
    /\ ShouldConsolidate
    /\ Goto(p, "start")
    /\ UNCHANGED <<store, runs, elapsed, run, batch, todo, product, tally, log, ticks,
                   forced, faults>>

(* consolidate(force=True) *)
ForceRun(p) ==
    /\ MayStart(p)
    /\ forced < bound.forced
    /\ forced' = forced + 1
    /\ Goto(p, "start")
    /\ UNCHANGED <<store, runs, elapsed, run, batch, todo, product, tally, log, ticks, faults>>

StartRun(p) ==
    /\ pc[p] = "start"
    /\ runs' = Append(runs, [done |-> FALSE, processed |-> 0, tally |-> NoTally])
    /\ run' = [run EXCEPT ![p] = Len(runs) + 1]
    /\ log' = Append(log, [batch |-> {}, seen |-> {}, dealt |-> {}])
    /\ elapsed' = FALSE
    /\ Goto(p, "list")
    /\ UNCHANGED <<store, batch, todo, product, tally, ticks, forced, faults>>

(* ORDER BY created_at LIMIT batch_size *)
Oldest(S, n) == {e \in S : Cardinality({f \in S : f < e}) < n}

(* The batch, its similar pairs and its clusters.  An empty batch          *)
(* completes the run at once.                                              *)
ListBatch(p) ==
    LET listed == Oldest(Unconsolidated, BatchSize)
    IN  /\ pc[p] = "list"
        /\ batch' = [batch EXCEPT ![p] = listed]
        /\ todo' = [todo EXCEPT ![p] = FactItems(listed)]
        /\ log' = [log EXCEPT ![run[p]] =
               [batch |-> listed, seen |-> {r \in DOMAIN runs : runs[r].done}, dealt |-> {}]]
        /\ Goto(p, IF listed = {} THEN "complete" ELSE "facts")
        /\ UNCHANGED <<store, runs, elapsed, run, product, tally, ticks, forced, faults>>

Deal(p, items) ==
    /\ todo' = [todo EXCEPT ![p] = @ \ items]
    /\ log' = [log EXCEPT ![run[p]].dealt = @ \cup items]

(* The provider fails on an item, or its draft is not a valid skill: the   *)
(* item is left out and the pass goes on.                                  *)
SkipItem(p, item) ==
    /\ pc[p] \in {"facts", "procedures"}
    /\ item \in todo[p]
    /\ faults < bound.faults
    /\ faults' = faults + 1
    /\ Deal(p, {item})
    /\ UNCHANGED <<store, runs, elapsed, pc, run, batch, product, tally, ticks, forced>>

(* The provider answers and the row is created: create_relation of         *)
(* apply_extraction, or create of the procedural repository.               *)
Distil(p, item) ==
    LET row == [run |-> run[p], kind |-> item.kind, traces |-> item.traces]
    IN  /\ pc[p] \in {"facts", "procedures"}
        /\ item \in todo[p]
        /\ products' = products \cup {row}
        /\ product' = [product EXCEPT ![p] = row]
        /\ Goto(p, IF pc[p] = "facts" THEN "link_fact" ELSE "link_procedure")
        /\ UNCHANGED <<state, forgotten, similar, links, runs, elapsed, run, batch, todo, tally,
                       log, ticks, forced, faults>>

Sources(row) == UNION row.traces

Unlinked(p) == {e \in Sources(product[p]) : <<product[p], e>> \notin links}

(* The call that is about to be made is the last one. *)
LastLink(p) == Cardinality(Unlinked(p)) <= 1

(* Mutant: the count is of items, the other passes' included. *)
TallyEverywhere(p, kind) == tally' = [q \in Passes |-> [tally[q] EXCEPT ![kind] = @ + 1]]

TallyItem(p, kind) == tally' = [tally EXCEPT ![p][kind] = @ + 1]

(* link_relation_provenance, link_provenance: one call per source; after   *)
(* the last one the item is counted.                                       *)
LinkSource(p) ==
    /\ pc[p] \in {"link_fact", "link_procedure"}
    /\ links' = links \cup {<<product[p], Min(Unlinked(p))>>}
    /\ IF LastLink(p)
       THEN /\ Deal(p, {[kind |-> product[p].kind, traces |-> product[p].traces]})
            /\ TallyItem(p, product[p].kind)
            /\ product' = [product EXCEPT ![p] = Null]
            /\ Goto(p, IF pc[p] = "link_fact" THEN "facts" ELSE "procedures")
       ELSE UNCHANGED <<todo, log, tally, product, pc>>
    /\ UNCHANGED <<state, forgotten, similar, products, runs, elapsed, run, batch, ticks,
                   forced, faults>>

ProcedureItems(episodes) == SkillItems(episodes) \cup LessonItems(episodes)

Marked(episodes) == [e \in Episodes |-> IF e \in episodes THEN "consolidated" ELSE state[e]]

(* Mutant: the batch is marked before the procedures are distilled. *)
MarkAfterFacts(p) ==
    /\ pc[p] = "facts" /\ todo[p] = {}
    /\ state' = Marked(batch[p])
    /\ todo' = [todo EXCEPT ![p] = ProcedureItems(batch[p])]
    /\ Goto(p, "procedures")
    /\ UNCHANGED <<forgotten, similar, products, links, runs, elapsed, run, batch, product,
                   tally, log, ticks, forced, faults>>

(* The session traces are embedded, or that fails and the stage is left    *)
(* out.                                                                    *)
BeginProcedures(p) ==
    /\ pc[p] = "facts" /\ todo[p] = {}
    /\ \/ /\ todo' = [todo EXCEPT ![p] = ProcedureItems(batch[p])]
          /\ UNCHANGED <<log, faults>>
       \/ /\ faults < bound.faults
          /\ faults' = faults + 1
          /\ Deal(p, ProcedureItems(batch[p]))
    /\ Goto(p, "procedures")
    /\ UNCHANGED <<store, runs, elapsed, run, batch, product, tally, ticks, forced>>

(* Mutant: the run record is completed first, and marking left for later. *)
CompleteFirst(p) ==
    /\ pc[p] = "procedures" /\ todo[p] = {} /\ ~runs[run[p]].done
    /\ runs' = [runs EXCEPT ![run[p]] =
           [done |-> TRUE, processed |-> Cardinality(batch[p]), tally |-> tally[p]]]
    /\ UNCHANGED <<store, elapsed, pc, run, batch, todo, product, tally, log, ticks, forced,
                   faults>>

(* mark_consolidated: whatever became of the episodes meanwhile. *)
MarkBatch(p) ==
    /\ pc[p] = "procedures" /\ todo[p] = {}
    /\ state' = Marked(batch[p])
    /\ Goto(p, "complete")
    /\ UNCHANGED <<forgotten, similar, products, links, runs, elapsed, run, batch, todo, product,
                   tally, log, ticks, forced, faults>>

(* Mutant: a pass that ends keeps its item. *)
EndKeepingItem(p) ==
    /\ Goto(p, "idle")
    /\ run' = [run EXCEPT ![p] = 0]
    /\ batch' = [batch EXCEPT ![p] = {}]
    /\ tally' = [tally EXCEPT ![p] = NoTally]
    /\ UNCHANGED <<todo, product>>

End(p) ==
    /\ Goto(p, "idle")
    /\ run' = [run EXCEPT ![p] = 0]
    /\ batch' = [batch EXCEPT ![p] = {}]
    /\ todo' = [todo EXCEPT ![p] = {}]
    /\ product' = [product EXCEPT ![p] = Null]
    /\ tally' = [tally EXCEPT ![p] = NoTally]

CompleteRun(p) ==
    /\ pc[p] = "complete"
    /\ runs' = [runs EXCEPT ![run[p]] =
           [done |-> TRUE, processed |-> Cardinality(batch[p]), tally |-> tally[p]]]
    /\ End(p)
    /\ UNCHANGED <<store, elapsed, log, ticks, forced, faults>>

(* StorageError or a crash: what is committed stays. *)
PassFails(p) ==
    /\ pc[p] # "idle"
    /\ faults < bound.faults
    /\ faults' = faults + 1
    /\ End(p)
    /\ UNCHANGED <<store, runs, elapsed, log, ticks, forced>>

PassStep(p) ==
    \/ StartRun(p) \/ ListBatch(p)
    \/ (\E item \in todo[p] : Distil(p, item))
    \/ LinkSource(p) \/ BeginProcedures(p) \/ MarkBatch(p) \/ CompleteRun(p)

Next ==
    /\ \/ Remember \/ Forget \/ WindowElapses
       \/ \E p \in Passes : \/ Check(p) \/ ForceRun(p) \/ PassStep(p) \/ PassFails(p)
                            \/ \E item \in todo[p] : SkipItem(p, item)
    /\ UNCHANGED bound

Spec == Init /\ [][Next]_vars

(* A pass under way goes on. *)
Fairness == \A p \in Passes : WF_working(PassStep(p))

(* Of the environment, not of the code: some process checks the trigger    *)
(* again and again.  The code does so when a session is ingested, when the *)
(* consolidate tool is called and from the command line, and has no timer. *)
CheckedAgain == WF_working(\E p \in Passes : Check(p))

FairSpec == Spec /\ Fairness /\ CheckedAgain

-----------------------------------------------------------------------------
(* Properties *)

Steps == {"idle", "start", "list", "facts", "link_fact", "procedures",
          "link_procedure", "complete"}

(* Type invariant; a pass under way has a run record that is not complete  *)
(* and works on what it listed.                                            *)
TypeOK ==
    /\ state \in [Episodes -> {"absent", "fresh", "consolidated"}]
    /\ forgotten \subseteq {e \in Episodes : state[e] # "absent"}
    /\ pc \in [Passes -> Steps]
    /\ DOMAIN log = DOMAIN runs
    /\ \A p \in Passes :
          /\ pc[p] \in Steps \ {"idle", "start"} =>
                run[p] \in DOMAIN runs /\ ~runs[run[p]].done
          /\ batch[p] \subseteq Episodes
          /\ \A item \in todo[p] : UNION item.traces \subseteq batch[p]
          /\ pc[p] \in {"link_fact", "link_procedure"} <=> product[p] # Null
    /\ \A l \in links : l[1] \in products /\ l[2] \in Sources(l[1])

(* The clusters of any batch are the connected components of its similarity*)
(* graph (cluster_by_similarity).  TLC unites the pairs in one order; the  *)
(* theorem ComponentsFound is about every order.  The similarities never   *)
(* change: before the first run is as good as ever.                        *)
ClustersAreComponents ==
    runs = <<>> =>
        \A items \in SUBSET Episodes :
            ClusterBySimilarity(items, SimilarPairs(items)) = Components(items, similar)

(* An episode is marked consolidated only when some pass that listed it is *)
(* done with everything its batch had to give: a crash may repeat work,    *)
(* but leaves nothing out (the mark comes last).  An item whose provider   *)
(* failed is done with as well: it is skipped and not tried again.         *)
MarkedWhenDealtWith ==
    \A e \in Episodes : state[e] = "consolidated" =>
        \E r \in DOMAIN log :
            /\ e \in log[r].batch
            /\ FactItems(log[r].batch) \cup ProcedureItems(log[r].batch) \subseteq log[r].dealt

(* A pass that lists its batch after another pass has completed draws on   *)
(* none of that pass's episodes: the same episode is evidence twice only   *)
(* when passes overlap or one dies (mark_consolidated before complete_run).*)
EvidenceCountedOnce ==
    \A f, g \in products :
        f.kind = g.kind /\ f.run \in log[g.run].seen => Sources(f) \cap Sources(g) = {}

(* The record of a completed run states what the run made, and each thing  *)
(* it made is linked to every episode it came from.  facts_distilled       *)
(* counts the clusters applied, however many relations each contained.     *)
RunsTellTheTruth ==
    \A r \in DOMAIN runs : runs[r].done =>
        LET made == {row \in products : row.run = r}
        IN  /\ \A kind \in {"fact", "skill", "lesson"} :
                  runs[r].tally[kind] = Cardinality({row \in made : row.kind = kind})
            /\ runs[r].processed = Cardinality(log[r].batch)
            /\ \A row \in made : \A e \in Sources(row) : <<row, e>> \in links

(* A backlog of several batches is worked off, even when passes die over   *)
(* it: a namespace that has reached the threshold comes down below it (the *)
(* count trigger), as long as the trigger is checked again and again.      *)
BacklogServed ==
    Cardinality(Unconsolidated) >= EpisodeThreshold
        ~> Cardinality(Unconsolidated) < EpisodeThreshold \/ ~RunsLeft

(* A skill is distilled from successful sessions only, and a lesson from a *)
(* failed one.                                                             *)
SameOutcomeTraces ==
    \A row \in products, e \in Episodes : e \in Sources(row) =>
        /\ row.kind = "skill" => Outcome[e] = "success"
        /\ row.kind = "lesson" => Outcome[e] = "failure"

=============================================================================
