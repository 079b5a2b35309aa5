----------------------------- MODULE ToolServer ------------------------------
(***************************************************************************)
(* The tool server behind its HTTP transport: the way of a call through    *)
(* token verification (identity/verifier.py), the guard (guarded and       *)
(* authorize_memory of integration/mcp/server.py, identity/ratelimit.py),  *)
(* the tool, the audit entry after it and the consolidation it may start,  *)
(* while identities are created, rotated and revoked (identity/cli.py),    *)
(* tokens expire and the server restarts.                                  *)
(*                                                                         *)
(* An action is what one call does between two awaits.  What the tools do  *)
(* to the stores is the subject of other modules: here a tool applies its  *)
(* change, finds nothing to change, or fails.  Over stdio there is one     *)
(* caller, the local process, whom the guard lets through.  ruminate       *)
(* writes its audit entries itself, see RelationStore.                     *)
(***************************************************************************)
EXTENDS IdentityTable, TokenBucket, FiniteSets

CONSTANTS
    Names,        \* of identities
    Tokens, Namespaces, Calls, MemoryIds,
    Profiles,     \* what identities are created with: namespaces, scope, lifetime
    Offered,      \* call |-> tools it may name
    Stored,       \* memories from before the server was shared
    Null,
    MaxTime, MaxCommands, MaxFaults   \* bounds

Memories == [ns : Namespaces, forgotten : BOOLEAN]

ASSUME ServerAssumption ==
    /\ \A p \in Profiles :
          /\ p.namespaces \subseteq Namespaces
          /\ p.scope \in {"read", "readwrite"}
          /\ p.lifetime \in Nat \cup {Never}
    /\ Offered \in [Calls -> SUBSET (ReadTools \cup WriteTools)]
    /\ Stored \in [DOMAIN Stored -> Memories] /\ DOMAIN Stored \subseteq MemoryIds
    /\ MaxTime \in Nat /\ MaxCommands \in Nat /\ MaxFaults \in Nat
    /\ Null \notin Names \cup Tokens \cup MemoryIds \cup Namespaces
    /\ Never \notin Nat

VARIABLES
    identities,  \* the table
    issued,      \* tokens generated so far
    now,
    buckets,     \* identity |-> token bucket, in the memory of the process
    pc,          \* call |-> new, lookup, expiry, guard, owner, body, audit, done
    call,        \* call |-> what it asks, its claims and its answer
    memories,    \* memory id |-> its namespace, and whether it was forgotten
    audit,       \* entries
    tasks,       \* background consolidations: the calls that started them
    effects,     \* history: what the tools did to the stores for calls
    window,      \* history: admissions of one identity since one of them
    commands, faults   \* of the operator; of storage and of the process

tables == <<identities, issued, memories, audit, effects>>
process == <<buckets, tasks, window>>
vars == <<identities, issued, now, buckets, pc, call, memories, audit, tasks, effects, window,
          commands, faults>>

-----------------------------------------------------------------------------
(* identity/cli.py, and the clock *)

Command ==
    /\ commands < MaxCommands
    /\ commands' = commands + 1
    /\ UNCHANGED <<now, process, pc, call, memories, audit, effects, faults>>

(* generate_token never gives a token twice. *)
CreateIdentity(name) ==
    /\ name \notin DOMAIN identities   \* IdentityExistsError
    /\ \E p \in Profiles, token \in Tokens \ issued :
          /\ identities' = Created(identities, name,
                [token |-> token, namespaces |-> p.namespaces, scope |-> p.scope,
                 expires |-> IF p.lifetime = Never THEN Never ELSE now + p.lifetime,
                 revoked |-> FALSE])
          /\ issued' = issued \cup {token}
    /\ Command

RevokeIdentity(name) ==
    /\ name \in DOMAIN identities
    /\ identities' = Revoked(identities, name)
    /\ UNCHANGED issued
    /\ Command

RotateIdentity(name) ==
    /\ name \in DOMAIN identities /\ ~identities[name].revoked
    /\ \E token \in Tokens \ issued :
          /\ identities' = Rotated(identities, name, token)
          /\ issued' = issued \cup {token}
    /\ Command

Tick ==
    /\ now < MaxTime
    /\ now' = now + 1
    /\ UNCHANGED <<tables, process, pc, call, commands, faults>>

-----------------------------------------------------------------------------
(* Calls *)

NoCall == [token |-> Null, tool |-> Null, ns |-> Null, memory |-> Null, claims |-> Null,
           answer |-> Null, stale |-> FALSE]

(* History: the token is the one of an identity that may use it now. *)
Valid(token) ==
    \E n \in DOMAIN identities :
        LET row == identities[n]
        IN  row.token = token /\ ~row.revoked /\ (row.expires = Never \/ now < row.expires)

Request(token, tool, ns, m) ==
    [token |-> token, tool |-> tool, ns |-> ns, memory |-> m, claims |-> Null, answer |-> Null,
     stale |-> ~Valid(token)]

ById(tool) == tool \in {"update", "forget"}

(* A request arrives.  The ids it can name are those the server gave out,  *)
(* or none that exists.                                                    *)
Arrive(c) ==
    /\ pc[c] = "new"
    /\ \E token \in issued, tool \in Offered[c] :
       \E ns \in IF ById(tool) THEN {Null} ELSE Namespaces,
          m \in IF ById(tool) THEN DOMAIN memories \cup {Null} ELSE {Null} :
          call' = [call EXCEPT ![c] = Request(token, tool, ns, m)]
    /\ pc' = [pc EXCEPT ![c] = "lookup"]
    /\ UNCHANGED <<tables, now, process, commands, faults>>

(* The server forgets the call. *)
Answer(c, answer) ==
    /\ pc' = [pc EXCEPT ![c] = "done"]
    /\ call' = [call EXCEPT ![c] = [NoCall EXCEPT !.answer = answer]]

(* verify_token reads the row, and when it has it the clock. *)
Lookup(c) ==
    /\ pc[c] = "lookup"
    /\ LET found == HoldersOf(identities, call[c].token)
       IN  \/ /\ found = {}
              /\ Answer(c, "unauthenticated")
           \/ /\ pc' = [pc EXCEPT ![c] = "expiry"]
              /\ \E n \in found :
                    call' = [call EXCEPT ![c].claims =
                               [name |-> n, namespaces |-> identities[n].namespaces,
                                scope |-> identities[n].scope, expires |-> identities[n].expires]]
    /\ UNCHANGED <<tables, now, process, commands, faults>>

CheckExpiry(c) ==
    /\ pc[c] = "expiry"
    /\ IF IsExpired(call[c].claims, now)
       THEN Answer(c, "unauthenticated")
       ELSE pc' = [pc EXCEPT ![c] = "guard"] /\ UNCHANGED call
    /\ UNCHANGED <<tables, now, process, commands, faults>>

(* The history window counts what is admitted; it may start with any      *)
(* admission.                                                              *)
Windows(name) ==
    IF window = Null THEN {Null, [name |-> name, since |-> now, admitted |-> 1]}
    ELSE IF window.name = name THEN {[window EXCEPT !.admitted = @ + 1]} ELSE {window}

BucketOf(name) == IF name \in DOMAIN buckets THEN buckets[name] ELSE FullBucket(now)

WithBucket(name, bucket) ==
    [n \in DOMAIN buckets \cup {name} |-> IF n = name THEN bucket ELSE buckets[n]]

(* guarded, up to its first await: scope, then rate, then namespace. A     *)
(* call that is refused for its namespace has spent its token.             *)
DenyScope(c) ==
    /\ pc[c] = "guard"
    /\ ~ScopeAllows(call[c].claims.scope, call[c].tool)
    /\ Answer(c, "forbidden")
    /\ UNCHANGED <<tables, now, process, commands, faults>>

Limit(c) ==
    LET name == call[c].claims.name
        bucket == BucketOf(name)
    IN  /\ pc[c] = "guard"
        /\ ScopeAllows(call[c].claims.scope, call[c].tool)
        /\ buckets' = WithBucket(name, Spent(bucket, now))
        /\ \/ /\ ~Admits(bucket, now)
              /\ Answer(c, "too_many")
              /\ UNCHANGED window
           \/ /\ Admits(bucket, now)
              /\ window' \in Windows(name)
              /\ IF ById(call[c].tool)
                 THEN pc' = [pc EXCEPT ![c] = "owner"] /\ UNCHANGED call
                 ELSE IF OwnsNamespace(call[c].claims, call[c].ns)
                 THEN pc' = [pc EXCEPT ![c] = "body"] /\ UNCHANGED call
                 ELSE Answer(c, "forbidden")
        /\ UNCHANGED <<tables, now, tasks, commands, faults>>

(* authorize_memory: what is not there is left to the tool to report; a    *)
(* forgotten memory has its namespace still.                               *)
AuthorizeMemory(c) ==
    LET m == call[c].memory
    IN  /\ pc[c] = "owner"
        /\ IF m \in DOMAIN memories /\ ~OwnsNamespace(call[c].claims, memories[m].ns)
           THEN Answer(c, "not_found")
           ELSE pc' = [pc EXCEPT ![c] = "body"] /\ UNCHANGED call
        /\ UNCHANGED <<tables, now, process, commands, faults>>

-----------------------------------------------------------------------------
(* Tools *)

Runs(c, tool) == pc[c] = "body" /\ call[c].tool = tool

Changed(c, ns) ==
    effects' = effects \cup {[by |-> c, tool |-> call[c].tool, ns |-> ns,
                              claims |-> call[c].claims, stale |-> call[c].stale]}

(* The audit entry is a transaction of its own. *)
GoToAudit(c, ns) ==
    /\ pc' = [pc EXCEPT ![c] = "audit"]
    /\ call' = [call EXCEPT ![c].ns = ns]
    /\ UNCHANGED <<identities, issued, now, process, audit, commands, faults>>

(* The change is committed. *)
Apply(c, ns) == Changed(c, ns) /\ GoToAudit(c, ns)

(* What was asked for is so already: nothing changes, but it is audited.   *)
Repeat(c, ns) == UNCHANGED <<memories, effects>> /\ GoToAudit(c, ns)

Finish(c, answer) ==
    /\ Answer(c, answer)
    /\ UNCHANGED <<tables, now, process, commands, faults>>

(* The arguments are not those of the tool's schema. *)
Reject(c) ==
    /\ pc[c] = "body"
    /\ Finish(c, "unprocessable")

(* The tools that only look: what they find is no matter here. *)
Recall(c) == Runs(c, "recall") /\ Finish(c, "ok")

Search(c) == Runs(c, "search") /\ Finish(c, "ok")

Related(c) == Runs(c, "related") /\ Finish(c, "ok")

FindSkill(c) == Runs(c, "find_skill") /\ Finish(c, "ok")

GetSkill(c) == Runs(c, "get_skill") /\ Finish(c, "ok")

VerifyAudit(c) == Runs(c, "verify_audit") /\ Finish(c, "ok")

StoreMemory(ns) ==
    \E m \in MemoryIds \ DOMAIN memories :
        memories' = [x \in DOMAIN memories \cup {m} |->
                        IF x = m THEN [ns |-> ns, forgotten |-> FALSE] ELSE memories[x]]

(* A memory of the namespace, live or not. *)
Holds(ns, forgotten) == [ns |-> ns, forgotten |-> forgotten] \in {memories[m] : m \in DOMAIN memories}

(* A new memory, or the one of the namespace that has the idempotency key; *)
(* StorageError when that was forgotten.                                   *)
Remember(c) ==
    LET ns == call[c].ns
    IN  /\ Runs(c, "remember")
        /\ \/ StoreMemory(ns) /\ Apply(c, ns)
           \/ Holds(ns, FALSE) /\ Repeat(c, ns)
           \/ Holds(ns, TRUE) /\ Finish(c, "error")

IngestSession(c) ==
    /\ Runs(c, "ingest_session")
    /\ StoreMemory(call[c].ns)
    /\ Apply(c, call[c].ns)

(* NotFoundError for a memory that is not there or was forgotten. *)
Update(c) ==
    LET m == call[c].memory
    IN  /\ Runs(c, "update")
        /\ IF m \in DOMAIN memories /\ ~memories[m].forgotten
           THEN Apply(c, memories[m].ns) /\ UNCHANGED memories
           ELSE Finish(c, "not_found")

(* Forgetting twice is no error. *)
Forget(c) ==
    LET m == call[c].memory
    IN  /\ Runs(c, "forget")
        /\ IF m \notin DOMAIN memories THEN Finish(c, "not_found")
           ELSE IF memories[m].forgotten THEN Repeat(c, memories[m].ns)
           ELSE /\ memories' = [memories EXCEPT ![m].forgotten = TRUE]
                /\ Apply(c, memories[m].ns)

(* A pass ran, or its trigger did not hold. *)
Consolidate(c) ==
    /\ Runs(c, "consolidate")
    /\ \/ Apply(c, call[c].ns) /\ UNCHANGED memories
       \/ Finish(c, "ok")

(* A contest of the namespace was resolved, or none; what a pass does that *)
(* resolves several is the matter of RelationStore.                        *)
Ruminate(c) ==
    /\ Runs(c, "ruminate")
    /\ \/ Apply(c, call[c].ns) /\ UNCHANGED memories
       \/ Finish(c, "ok")

(* The relation is one of the namespace, or none. *)
Feedback(c) ==
    /\ Runs(c, "feedback")
    /\ \/ Apply(c, call[c].ns) /\ UNCHANGED memories
       \/ Finish(c, "not_found")

(* The namespace has a skill of the name, or none. *)
ReportSkillOutcome(c) ==
    /\ Runs(c, "report_skill_outcome")
    /\ \/ Apply(c, call[c].ns) /\ UNCHANGED memories
       \/ Finish(c, "ok")

(* ingest_transcript and a pass are several transactions: they fail after  *)
(* the memory was stored, or some clusters were distilled.                 *)
BreakOff(c) ==
    /\ faults < MaxFaults
    /\ faults' = faults + 1
    /\ \/ Runs(c, "ingest_session") /\ StoreMemory(call[c].ns)
       \/ Runs(c, "consolidate") /\ UNCHANGED memories
    /\ Changed(c, call[c].ns)
    /\ Answer(c, "error")
    /\ UNCHANGED <<identities, issued, now, process, audit, commands>>

(* Mutant: the task is started before the call has its answer. *)
AuditLater(c) ==
    /\ pc[c] = "audit" /\ call[c].tool = "ingest_session"
    /\ tasks' = tasks \cup {[by |-> c, ns |-> call[c].ns]}
    /\ UNCHANGED <<tables, now, buckets, pc, call, window, commands, faults>>

(* audit_record; ingest_session then starts a consolidation it does not    *)
(* wait for.                                                               *)
AuditRecord(c) ==
    /\ pc[c] = "audit"
    /\ audit' = audit \cup {[by |-> c, actor |-> call[c].claims.name, action |-> call[c].tool,
                             ns |-> call[c].ns]}
    /\ tasks' = IF call[c].tool = "ingest_session"
                THEN tasks \cup {[by |-> c, ns |-> call[c].ns]} ELSE tasks
    /\ Answer(c, "ok")
    /\ UNCHANGED <<identities, issued, now, buckets, memories, effects, window, commands, faults>>

(* Mutant: a failed append is only logged. *)
FailQuietly(c) ==
    /\ faults < MaxFaults
    /\ faults' = faults + 1
    /\ pc[c] \in {"lookup", "owner", "body", "audit"}
    /\ Answer(c, IF pc[c] = "audit" THEN "ok" ELSE "error")
    /\ UNCHANGED <<tables, now, process, commands>>

(* A storage call fails: a ToolError, also when only the audit append did. *)
Fail(c) ==
    /\ faults < MaxFaults
    /\ faults' = faults + 1
    /\ pc[c] \in {"lookup", "owner", "body", "audit"}
    /\ Answer(c, "error")
    /\ UNCHANGED <<tables, now, process, commands>>

(* _maybe_consolidate: a pass runs, or its trigger does not hold, or it    *)
(* fails; no one hears of it, nor does the audit log.                      *)
BackgroundConsolidation(task) ==
    /\ tasks' = tasks \ {task}
    /\ UNCHANGED <<tables, now, buckets, pc, call, window, commands, faults>>

(* The process ends and is started again: connections, tasks and buckets   *)
(* are lost.                                                               *)
Restart ==
    /\ faults < MaxFaults
    /\ faults' = faults + 1
    /\ LET open == {c \in Calls : pc[c] \notin {"new", "done"}}
       IN  /\ pc' = [c \in Calls |-> IF c \in open THEN "done" ELSE pc[c]]
           /\ call' = [c \in Calls |->
                         IF c \in open THEN [NoCall EXCEPT !.answer = "lost"] ELSE call[c]]
    /\ buckets' = [n \in {} |-> Null]
    /\ tasks' = {}
    /\ window' = Null
    /\ UNCHANGED <<tables, now, commands>>

-----------------------------------------------------------------------------

Init ==
    /\ identities = [n \in {} |-> Null] /\ issued = {}
    /\ now = 0
    /\ buckets = [n \in {} |-> Null]
    /\ pc = [c \in Calls |-> "new"]
    /\ call = [c \in Calls |-> NoCall]
    /\ memories = Stored
    /\ audit = {} /\ tasks = {} /\ effects = {}
    /\ window = Null
    /\ commands = 0 /\ faults = 0

Tool(c) ==
    \/ Reject(c)
    \/ Recall(c) \/ Search(c) \/ Related(c) \/ FindSkill(c) \/ GetSkill(c) \/ VerifyAudit(c)
    \/ Remember(c) \/ IngestSession(c) \/ Update(c) \/ Forget(c) \/ Consolidate(c)
    \/ Ruminate(c) \/ Feedback(c) \/ ReportSkillOutcome(c) \/ BreakOff(c)

CallStep(c) ==
    \/ Lookup(c) \/ CheckExpiry(c) \/ DenyScope(c) \/ Limit(c) \/ AuthorizeMemory(c)
    \/ Tool(c) \/ AuditRecord(c)

Next ==
    \/ \E n \in Names : CreateIdentity(n) \/ RevokeIdentity(n) \/ RotateIdentity(n)
    \/ \E c \in Calls : Arrive(c) \/ CallStep(c) \/ Fail(c)
    \/ \E task \in tasks : BackgroundConsolidation(task)
    \/ Tick \/ Restart

Spec == Init /\ [][Next]_vars

-----------------------------------------------------------------------------
(* Properties *)

(* What verify_token hands to the guard. *)
Claims == [name : Names, namespaces : SUBSET Namespaces, scope : {"read", "readwrite"},
           expires : Nat \cup {Never}]

(* Type invariant; a call past the verifier has its claims, a bucket never *)
(* holds more than it can (TokenBucketLimiter), and a consolidation starts *)
(* in the background only after its call was answered.                     *)
TypeOK ==
    /\ now \in 0 .. MaxTime
    /\ \A n \in DOMAIN buckets : buckets[n].tokens \in 0 .. Capacity /\ buckets[n].at <= now
    /\ pc \in [Calls -> {"new", "lookup", "expiry", "guard", "owner", "body", "audit", "done"}]
    /\ \A c \in Calls :
          pc[c] \in {"expiry", "guard", "owner", "body", "audit"} => call[c].claims \in Claims
    /\ \A e \in effects : e.ns \in Namespaces
    /\ \A task \in tasks : pc[task.by] = "done"

(* Once a token was revoked, rotated away or has expired, no call that     *)
(* arrives with it changes anything or spends the identity's rate          *)
(* (verifier.py: "takes effect on its very next call").                    *)
DeadTokensRefused ==
    /\ \A c \in Calls : call[c].stale => pc[c] \notin {"guard", "owner", "body", "audit"}
    /\ \A e \in effects : ~e.stale

(* Whatever changed, changed in a namespace of the identity that asked for *)
(* it, which may write, be the namespace named by the call or only found   *)
(* through a memory's id (guarded, authorize_memory).                      *)
EffectsAuthorized ==
    \A e \in effects : e.ns \in e.claims.namespaces /\ e.claims.scope = "readwrite"

(* audit entry of an effect *)
Audited(e) == \E a \in audit : a.by = e.by /\ a.action = e.tool /\ a.ns = e.ns

(* A change a caller asked for is audited, or its entry is being written,  *)
(* or the caller was not told of success (audit_record, ADR 0025).  An     *)
(* entry tells of a change that was made, but for two tools, which audit   *)
(* being asked: remember when its key was used already, and forget of a    *)
(* memory that was forgotten already.                                      *)
EffectsAudited ==
    /\ \A e \in effects :
          \/ Audited(e)
          \/ pc[e.by] = "audit"
          \/ call[e.by].answer \in {"error", "lost"}
    /\ \A a \in audit :
          a.action \in {"remember", "forget"}
            \/ \E e \in effects : e.by = a.by /\ e.tool = a.action /\ e.ns = a.ns

(* From any moment on, an identity is admitted no more often than a full   *)
(* bucket and the time since allow (TokenBucketLimiter).                   *)
RateBounded ==
    window # Null => window.admitted * Unit <= Capacity + Rate * (now - window.since)

=============================================================================
