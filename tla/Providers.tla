------------------------------ MODULE Providers ------------------------------
(***************************************************************************)
(* The remote models behind ingest_session: embedding (embedding/) and     *)
(* extraction (extraction/anthropic_provider.py), constructed in the       *)
(* background while the server already answers (_LazyEmbeddingProvider and *)
(* _LazyExtractionProvider of integration/mcp/server.py), and the way of a *)
(* transcript through them (capture/ingest.py).                            *)
(*                                                                         *)
(* Every call of a provider first awaits the one asyncio task that         *)
(* constructs it.  asyncio cancels what a cancelled call is awaiting, and  *)
(* a cancelled task stays so.  Callers cancel when they time out or        *)
(* disconnect.  remember ends after its memory was created.                *)
(***************************************************************************)
EXTENDS Integers

CONSTANT Calls

VARIABLES
    task,     \* provider |-> loading, ready, refused (no key), cancelled
    pc,       \* call |-> new, the step it is at, or how it ended
    vectors,  \* calls whose text was embedded
    stored    \* calls whose memory is in the table

vars == <<task, pc, vectors, stored>>

Providers == {"embedding", "extraction"}

(* step |-> the provider it awaits *)
Awaited == [embed |-> "embedding", extract |-> "extraction"]

Goto(c, step) == pc' = [pc EXCEPT ![c] = step]

-----------------------------------------------------------------------------
(* The constructors refuse to go without an API key. *)

ConstructEmbedding ==
    /\ task["embedding"] = "loading"
    /\ \E end \in {"ready", "refused"} : task' = [task EXCEPT !["embedding"] = end]
    /\ UNCHANGED <<pc, vectors, stored>>

ConstructExtraction ==
    /\ task["extraction"] = "loading"
    /\ \E end \in {"ready", "refused"} : task' = [task EXCEPT !["extraction"] = end]
    /\ UNCHANGED <<pc, vectors, stored>>

(* The await of the task: its provider, its EmbeddingError or              *)
(* ExtractionError, or its CancelledError, which no handler catches.       *)
AwaitProvider(c, step, call, degraded) ==
    /\ pc[c] = step
    /\ \/ task[Awaited[step]] = "ready" /\ Goto(c, call)
       \/ task[Awaited[step]] = "refused" /\ Goto(c, degraded)
       \/ task[Awaited[step]] = "cancelled" /\ Goto(c, "lost")
    /\ UNCHANGED <<task, vectors, stored>>

-----------------------------------------------------------------------------
(* ingest_transcript *)

BeginIngest(c) ==
    /\ pc[c] = "new"
    /\ Goto(c, "embed")
    /\ UNCHANGED <<task, vectors, stored>>

(* embed_or_none: a failure leaves the memory without a vector. *)
Embed(c) ==
    /\ pc[c] = "embedding"
    /\ Goto(c, "create")
    /\ vectors' \in {vectors, vectors \cup {c}}
    /\ UNCHANGED <<task, stored>>

CreateMemory(c) ==
    /\ pc[c] = "create"
    /\ \/ stored' = stored \cup {c} /\ Goto(c, "extract")
       \/ Goto(c, "failed") /\ UNCHANGED stored
    /\ UNCHANGED <<task, vectors>>

(* A request that fails, or an answer that is no extraction, degrades. *)
Extract(c) ==
    /\ pc[c] = "extracting"
    /\ Goto(c, "apply") \/ Goto(c, "done")
    /\ UNCHANGED <<task, vectors, stored>>

ApplyExtraction(c) ==
    /\ pc[c] = "apply"
    /\ Goto(c, "done") \/ Goto(c, "failed")
    /\ UNCHANGED <<task, vectors, stored>>

(* The caller cancels, and with the call what it awaits. *)
Cancel(c) ==
    /\ pc[c] \in {"embed", "embedding", "create", "extract", "extracting", "apply"}
    /\ Goto(c, "cancelled")
    /\ task' = [p \in Providers |->
                  IF task[p] = "loading" /\ pc[c] \in {s \in DOMAIN Awaited : Awaited[s] = p}
                  THEN "cancelled" ELSE task[p]]
    /\ UNCHANGED <<vectors, stored>>

-----------------------------------------------------------------------------

Init ==
    /\ task = [p \in Providers |-> "loading"]
    /\ pc = [c \in Calls |-> "new"]
    /\ vectors = {} /\ stored = {}

CallStep(c) ==
    \/ BeginIngest(c) \/ Embed(c) \/ CreateMemory(c) \/ Extract(c) \/ ApplyExtraction(c)
    \/ AwaitProvider(c, "embed", "embedding", "create")
    \/ AwaitProvider(c, "extract", "extracting", "done")

Next ==
    \/ ConstructEmbedding \/ ConstructExtraction
    \/ \E c \in Calls : CallStep(c) \/ Cancel(c)

Spec == Init /\ [][Next]_vars

-----------------------------------------------------------------------------

(* Whatever the providers do, a call that was not cancelled and whose      *)
(* storage did not fail has stored its memory (embedding/protocols.py:     *)
(* "the write it feeds into must still succeed").  False: a caller that    *)
(* gives up while the embedding provider is being constructed cancels its  *)
(* construction, and no later call of the process gets past its embedding. *)
UncancelledStored ==
    \A c \in Calls : pc[c] \in {"lost", "done"} => c \in stored

=============================================================================
