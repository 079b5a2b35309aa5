-------------------------- MODULE ToolServer_proofs --------------------------
(***************************************************************************)
(* Proofs about the tool server, for any number of identities, calls,      *)
(* commands and faults, any rate and burst, and any time: types, what dead *)
(* tokens can do, that changes are authorized and audited, and the rate.   *)
(***************************************************************************)
EXTENDS ToolServer, TLAPS

Tools == ReadTools \cup WriteTools

Rows == [token : Tokens, namespaces : SUBSET Namespaces, scope : {"read", "readwrite"},
         expires : Nat \cup {Never}, revoked : BOOLEAN]

Requests == [token : Tokens \cup {Null}, tool : Tools \cup {Null}, ns : Namespaces \cup {Null},
             memory : MemoryIds \cup {Null}, claims : Claims \cup {Null},
             answer : {Null, "unauthenticated", "forbidden", "too_many", "not_found",
                       "unprocessable", "ok", "error", "lost"},
             stale : BOOLEAN]

Effects == [by : Calls, tool : Tools, ns : Namespaces, claims : Claims, stale : BOOLEAN]

(* The types of all variables; a request has a tool and claims when the    *)
(* step it is at uses them.                                                *)
TypesKept ==
    /\ now \in 0 .. MaxTime
    /\ identities \in [DOMAIN identities -> Rows] /\ DOMAIN identities \subseteq Names
    /\ issued \subseteq Tokens
    /\ memories \in [DOMAIN memories -> Memories] /\ DOMAIN memories \subseteq MemoryIds
    /\ pc \in [Calls -> {"new", "lookup", "expiry", "guard", "owner", "body", "audit", "done"}]
    /\ call \in [Calls -> Requests]
    /\ effects \subseteq Effects
    /\ \A task \in tasks : task.by \in Calls /\ pc[task.by] = "done"

Working == {"expiry", "guard", "owner", "body", "audit"}

RequestsReady ==
    \A c \in Calls :
        /\ pc[c] \in Working \cup {"lookup"} => call[c].tool \in Tools /\ call[c].token \in issued
        /\ pc[c] \in Working => call[c].claims \in Claims
        /\ pc[c] = "owner" => ById(call[c].tool)
        /\ pc[c] \in {"body", "audit"} /\ ~ById(call[c].tool) => call[c].ns \in Namespaces

IInv == TypesKept /\ RequestsReady

BucketsFull ==
    /\ buckets \in [DOMAIN buckets -> [tokens : 0 .. Capacity, at : 0 .. now]]

(* The window's admissions and what is left in the bucket were once in a   *)
(* full bucket or were added since.                                        *)
WindowPaid ==
    window # Null =>
        /\ window \in [name : Names, since : Nat, admitted : Nat]
        /\ window.name \in DOMAIN buckets
        /\ window.since <= buckets[window.name].at
        /\ window.admitted * Unit + buckets[window.name].tokens
              <= Capacity + Rate * (buckets[window.name].at - window.since)

(* Tokens that are of use. *)
Live == {token \in Tokens : Valid(token)}

(* A dead token is found no more, or with claims that have expired; its    *)
(* call never gets past the verifier.                                      *)
DeadTokensKnown ==
    \A c \in Calls : call[c].stale =>
        /\ pc[c] = "lookup" => call[c].token \notin Live
        /\ pc[c] = "expiry" => IsExpired(call[c].claims, now)
        /\ pc[c] \notin {"guard", "owner", "body", "audit"}

(* What the guard has established for a call that is past it. *)
GuardHeld ==
    \A c \in Calls :
        /\ pc[c] \in {"owner", "body"} => ScopeAllows(call[c].claims.scope, call[c].tool)
        /\ call[c].memory \in DOMAIN memories \cup {Null}
        /\ pc[c] = "body" => IF ById(call[c].tool)
                             THEN call[c].memory # Null =>
                                     memories[call[c].memory].ns \in call[c].claims.namespaces
                             ELSE call[c].ns \in call[c].claims.namespaces

(* A change is its call's only one, and the entry that is next is its; but *)
(* for the two tools that audit being asked, there is such a change.       *)
EffectsFollowed ==
    /\ \A e \in effects :
          /\ pc[e.by] \in {"audit", "done"}
          /\ pc[e.by] = "audit" => e.tool = call[e.by].tool /\ e.ns = call[e.by].ns
    /\ \A c \in Calls : pc[c] = "audit" /\ call[c].tool \notin {"remember", "forget"} =>
          \E e \in effects : e.by = c /\ e.tool = call[c].tool /\ e.ns = call[c].ns

-----------------------------------------------------------------------------
(* Types *)

(* Nothing has a step yet. *)
LEMMA TypesAtFirst == Init => IInv
BY ServerAssumption
   DEF Init, IInv, TypesKept, RequestsReady, Working, Requests, NoCall, Tools

(* An answered call asks for nothing more; the others are as they were.    *)
LEMMA AnswerTyped ==
  ASSUME IInv, NEW c \in Calls,
         NEW answer \in {"unauthenticated", "forbidden", "too_many", "not_found",
                         "unprocessable", "ok", "error", "lost"},
         Answer(c, answer),
         UNCHANGED <<identities, issued, now>>,
         memories' \in [DOMAIN memories' -> Memories] /\ DOMAIN memories' \subseteq MemoryIds,
         effects' \subseteq Effects,
         \A task \in tasks' : task \in tasks \/ task.by = c
  PROVE  IInv'
<1>1. call' \in [Calls -> Requests]
  BY DEF Answer, IInv, TypesKept, Requests, NoCall
<1>2. pc' = [pc EXCEPT ![c] = "done"]
  BY DEF Answer
<1>3. \A d \in Calls \ {c} : pc'[d] = pc[d] /\ call'[d] = call[d]
  BY DEF Answer, IInv, TypesKept
<1>4. pc'[c] = "done" /\ pc' \in [Calls -> {"new", "lookup", "expiry", "guard", "owner", "body",
                                            "audit", "done"}]
  BY <1>2 DEF IInv, TypesKept
<1>5. TypesKept'
  <2>1. \A task \in tasks' : task.by \in Calls /\ pc'[task.by] = "done"
    BY <1>3, <1>4 DEF IInv, TypesKept
  <2> QED
    BY <1>1, <1>4, <2>1 DEF IInv, TypesKept
<1>6. RequestsReady'
  BY <1>3, <1>4 DEF IInv, RequestsReady, Working, ById
<1> QED
  BY <1>5, <1>6 DEF IInv

(* A call that goes on keeps its request, or gets a typed one that fits    *)
(* the step it goes to.                                                    *)
LEMMA StepTyped ==
  ASSUME IInv, NEW c \in Calls, NEW step \in Working \cup {"lookup"},
         NEW request \in Requests,
         pc' = [pc EXCEPT ![c] = step], call' = [call EXCEPT ![c] = request],
         request.tool \in Tools, request.token \in issued,
         step \in Working => request.claims \in Claims,
         step = "owner" => ById(request.tool),
         step \in {"body", "audit"} /\ ~ById(request.tool) => request.ns \in Namespaces,
         pc[c] # "done",
         UNCHANGED <<identities, issued, now, tasks>>,
         memories' \in [DOMAIN memories' -> Memories] /\ DOMAIN memories' \subseteq MemoryIds,
         effects' \subseteq Effects
  PROVE  IInv'
<1>1. \A d \in Calls \ {c} : pc'[d] = pc[d] /\ call'[d] = call[d]
  BY DEF IInv, TypesKept
<1>2. pc'[c] = step /\ call'[c] = request
  BY DEF IInv, TypesKept
<1>3. pc' \in [Calls -> {"new", "lookup", "expiry", "guard", "owner", "body", "audit", "done"}]
  BY DEF IInv, TypesKept, Working
<1>4. call' \in [Calls -> Requests]
  BY DEF IInv, TypesKept
<1>5. TypesKept'
  BY <1>1, <1>3, <1>4 DEF IInv, TypesKept
<1>6. RequestsReady'
  BY <1>1, <1>2 DEF IInv, RequestsReady, Working
<1> QED
  BY <1>5, <1>6 DEF IInv

LEMMA CommandsTyped ==
  ASSUME IInv, NEW name \in Names,
         CreateIdentity(name) \/ RevokeIdentity(name) \/ RotateIdentity(name)
  PROVE  IInv'
<1>1. /\ UNCHANGED <<now, process, pc, call, memories, audit, effects, faults>>
      /\ issued \subseteq issued' /\ issued' \subseteq Tokens
  BY DEF CreateIdentity, RevokeIdentity, RotateIdentity, Command, IInv, TypesKept
<1>2. identities' \in [DOMAIN identities' -> Rows] /\ DOMAIN identities' \subseteq Names
  <2>1. CASE CreateIdentity(name)
    <3>1. PICK p \in Profiles, token \in Tokens :
             identities' = Created(identities, name,
                [token |-> token, namespaces |-> p.namespaces, scope |-> p.scope,
                 expires |-> IF p.lifetime = Never THEN Never ELSE now + p.lifetime,
                 revoked |-> FALSE])
      BY <2>1 DEF CreateIdentity
    <3>2. (IF p.lifetime = Never THEN Never ELSE now + p.lifetime) \in Nat \cup {Never}
      BY ServerAssumption DEF IInv, TypesKept
    <3>3. [token |-> token, namespaces |-> p.namespaces, scope |-> p.scope,
           expires |-> IF p.lifetime = Never THEN Never ELSE now + p.lifetime,
           revoked |-> FALSE] \in Rows
      BY <3>2, ServerAssumption DEF Rows
    <3> QED
      BY <3>1, <3>3 DEF Created, IInv, TypesKept
  <2>2. CASE RevokeIdentity(name)
    BY <2>2, ZenonT(60) DEF RevokeIdentity, Revoked, IInv, TypesKept, Rows
  <2>3. CASE RotateIdentity(name)
    BY <2>3 DEF RotateIdentity, Rotated, IInv, TypesKept, Rows
  <2> QED
    BY <2>1, <2>2, <2>3
<1>3. TypesKept'
  BY <1>1, <1>2 DEF IInv, TypesKept, process
<1>4. RequestsReady'
  BY <1>1 DEF IInv, RequestsReady
<1> QED
  BY <1>3, <1>4 DEF IInv

(* The way to the tool. *)
LEMMA GuardTyped ==
  ASSUME IInv, NEW c \in Calls,
         Arrive(c) \/ Lookup(c) \/ CheckExpiry(c) \/ DenyScope(c) \/ Limit(c) \/ AuthorizeMemory(c)
  PROVE  IInv'
<1> USE DEF tables, process
<1>1. CASE Arrive(c)
  <2>1. PICK token \in issued, tool \in Offered[c] :
           \E ns \in IF ById(tool) THEN {Null} ELSE Namespaces,
              m \in IF ById(tool) THEN DOMAIN memories \cup {Null} ELSE {Null} :
           call' = [call EXCEPT ![c] = Request(token, tool, ns, m)]
    BY <1>1 DEF Arrive
  <2>2. PICK ns \in Namespaces \cup {Null}, m \in DOMAIN memories \cup {Null} :
           call' = [call EXCEPT ![c] = Request(token, tool, ns, m)]
    BY <2>1
  <2>3. tool \in Tools /\ token \in Tokens /\ m \in MemoryIds \cup {Null}
    BY ServerAssumption DEF Tools, IInv, TypesKept
  <2>4. Request(token, tool, ns, m) \in Requests
        /\ Request(token, tool, ns, m).tool = tool /\ Request(token, tool, ns, m).token = token
    BY <2>3 DEF Request, Requests, Valid
  <2>5. pc' = [pc EXCEPT ![c] = "lookup"] /\ pc[c] = "new" /\ UNCHANGED <<tables, now, tasks>>
    BY <1>1 DEF Arrive
  <2> QED
    BY <2>2, <2>3, <2>4, <2>5, StepTyped DEF Working, IInv, TypesKept
<1>2. CASE Lookup(c)
  <2>1. CASE Answer(c, "unauthenticated")
    BY <1>2, <2>1, AnswerTyped DEF Lookup, IInv, TypesKept
  <2>2. CASE pc' = [pc EXCEPT ![c] = "expiry"]
             /\ \E n \in HoldersOf(identities, call[c].token) :
                   call' = [call EXCEPT ![c].claims =
                               [name |-> n, namespaces |-> identities[n].namespaces,
                                scope |-> identities[n].scope, expires |-> identities[n].expires]]
    <3>1. PICK n \in DOMAIN identities :
                   call' = [call EXCEPT ![c].claims =
                               [name |-> n, namespaces |-> identities[n].namespaces,
                                scope |-> identities[n].scope, expires |-> identities[n].expires]]
      BY <2>2 DEF HoldersOf
    <3> DEFINE claims == [name |-> n, namespaces |-> identities[n].namespaces,
                          scope |-> identities[n].scope, expires |-> identities[n].expires]
               request == [call[c] EXCEPT !.claims = claims]
    <3>2. claims \in Claims
      BY DEF Claims, IInv, TypesKept, Rows
    <3>3. call' = [call EXCEPT ![c] = request]
      BY <3>1
    <3> HIDE DEF claims
    <3>4. request \in Requests /\ request.claims \in Claims
          /\ request.tool = call[c].tool /\ request.token = call[c].token
      BY <3>2 DEF IInv, TypesKept, Requests
    <3>5. call[c].tool \in Tools /\ call[c].token \in issued
      BY <1>2 DEF Lookup, IInv, RequestsReady
    <3> HIDE DEF request
    <3> QED
      BY <1>2, <2>2, <3>3, <3>4, <3>5, StepTyped DEF Lookup, Working, IInv, TypesKept
  <2> QED
    BY <1>2, <2>1, <2>2 DEF Lookup
<1> DEFINE Goes(step) == pc' = [pc EXCEPT ![c] = step] /\ UNCHANGED call
<1>3. ASSUME NEW step \in {"guard", "owner", "body"}, Goes(step),
             pc[c] \in Working, step = "owner" => ById(call[c].tool),
             step = "body" /\ ~ById(call[c].tool) => call[c].ns \in Namespaces,
             UNCHANGED <<tables, now, tasks>>
      PROVE  IInv'
  <2>1. call' = [call EXCEPT ![c] = call[c]] /\ call[c] \in Requests
    BY <1>3 DEF IInv, TypesKept
  <2>2. call[c].tool \in Tools /\ call[c].token \in issued /\ call[c].claims \in Claims
    BY <1>3 DEF IInv, RequestsReady
  <2> QED
    BY <1>3, <2>1, <2>2, StepTyped DEF Working, IInv, TypesKept
<1>4. CASE CheckExpiry(c)
  BY <1>3, <1>4, AnswerTyped DEF CheckExpiry, Working, IInv, TypesKept
<1>5. CASE DenyScope(c)
  BY <1>5, AnswerTyped DEF DenyScope, IInv, TypesKept
<1>6. CASE Limit(c)
  <2>1. call[c].claims \in Claims
    BY <1>6 DEF Limit, IInv, RequestsReady, Working
  <2>2. OwnsNamespace(call[c].claims, call[c].ns) => call[c].ns \in Namespaces
    BY <2>1 DEF OwnsNamespace, Claims
  <2>3. UNCHANGED <<tables, now, tasks>> /\ pc[c] \in Working
    BY <1>6 DEF Limit, Working
  <2>4. \/ Answer(c, "too_many") \/ Answer(c, "forbidden")
        \/ ById(call[c].tool) /\ Goes("owner")
        \/ OwnsNamespace(call[c].claims, call[c].ns) /\ Goes("body")
    BY <1>6 DEF Limit
  <2>5. CASE Answer(c, "too_many") \/ Answer(c, "forbidden")
    BY <2>3, <2>5, AnswerTyped DEF IInv, TypesKept
  <2> QED
    BY <1>3, <2>2, <2>3, <2>4, <2>5
<1>7. CASE AuthorizeMemory(c)
  <2>1. CASE Answer(c, "not_found")
    BY <1>7, <2>1, AnswerTyped DEF AuthorizeMemory, IInv, TypesKept
  <2>2. CASE Goes("body")
    <3>1. pc[c] = "owner" /\ UNCHANGED <<tables, now, tasks>>
      BY <1>7 DEF AuthorizeMemory
    <3>2. ById(call[c].tool)
      BY <3>1 DEF IInv, RequestsReady
    <3> QED
      BY <1>3, <2>2, <3>1, <3>2 DEF Working
  <2> QED
    BY <1>7, <2>1, <2>2 DEF AuthorizeMemory
<1> QED
  BY <1>1, <1>2, <1>4, <1>5, <1>6, <1>7

LEMMA ChangedTyped ==
  ASSUME IInv, NEW c \in Calls, pc[c] = "body", NEW ns \in Namespaces, Changed(c, ns)
  PROVE  effects' \subseteq Effects
<1> DEFINE e == [by |-> c, tool |-> call[c].tool, ns |-> ns, claims |-> call[c].claims,
                 stale |-> call[c].stale]
<1>1. call[c].tool \in Tools /\ call[c].claims \in Claims /\ call[c].stale \in BOOLEAN
  BY DEF IInv, TypesKept, RequestsReady, Requests, Working
<1>2. e \in Effects
  BY <1>1 DEF Effects
<1> QED
  BY <1>2 DEF Changed, IInv, TypesKept

LEMMA StoreTyped ==
  ASSUME IInv, NEW ns \in Namespaces, StoreMemory(ns)
  PROVE  memories' \in [DOMAIN memories' -> Memories] /\ DOMAIN memories' \subseteq MemoryIds
BY DEF StoreMemory, IInv, TypesKept, Memories

LEMMA GoToAuditTyped ==
  ASSUME IInv, NEW c \in Calls, pc[c] = "body", NEW ns \in Namespaces, GoToAudit(c, ns),
         effects' \subseteq Effects,
         memories' \in [DOMAIN memories' -> Memories] /\ DOMAIN memories' \subseteq MemoryIds
  PROVE  IInv'
<1> DEFINE request == [call[c] EXCEPT !.ns = ns]
<1>2. call[c].tool \in Tools /\ call[c].claims \in Claims /\ call[c].token \in issued
      /\ call[c] \in Requests
  BY DEF IInv, TypesKept, RequestsReady, Working
<1>3. /\ request \in Requests /\ request.tool \in Tools /\ request.token \in issued
      /\ request.claims \in Claims /\ request.ns \in Namespaces
  BY <1>2 DEF Requests
<1>4. pc' = [pc EXCEPT ![c] = "audit"] /\ call' = [call EXCEPT ![c] = request]
      /\ UNCHANGED <<identities, issued, now, tasks>>
  BY DEF GoToAudit, process
<1> HIDE DEF request
<1> QED
  BY <1>3, <1>4, StepTyped DEF Working

(* An effect is recorded, or what was asked for is so already.             *)
LEMMA ApplyTyped ==
  ASSUME IInv, NEW c \in Calls, pc[c] = "body", NEW ns \in Namespaces,
         \/ /\ Apply(c, ns)
            /\ memories' \in [DOMAIN memories' -> Memories] /\ DOMAIN memories' \subseteq MemoryIds
         \/ Repeat(c, ns)
  PROVE  IInv'
<1>1. CASE Apply(c, ns)
  BY <1>1, ChangedTyped, GoToAuditTyped DEF Apply, Repeat, IInv, TypesKept
<1>2. CASE Repeat(c, ns)
  BY <1>2, GoToAuditTyped DEF Repeat, IInv, TypesKept
<1> QED
  BY <1>1, <1>2

LEMMA FinishTyped ==
  ASSUME IInv, NEW c \in Calls, NEW answer \in {"ok", "not_found", "unprocessable", "error"},
         Finish(c, answer)
  PROVE  IInv'
BY AnswerTyped DEF Finish, tables, process, IInv, TypesKept

(* Tools that name a namespace, and the two that name a memory. *)
LEMMA ToolsTyped ==
  ASSUME IInv, NEW c \in Calls, Tool(c)
  PROVE  IInv'
<1>0. pc[c] = "body"
  BY DEF Tool, Reject, Recall, Search, Related, FindSkill, GetSkill, VerifyAudit, Remember,
         IngestSession, Update, Forget, Consolidate, Ruminate, Feedback, ReportSkillOutcome,
         BreakOff, Runs
<1>1. ~ById(call[c].tool) => call[c].ns \in Namespaces
  BY <1>0 DEF IInv, RequestsReady
<1>2. UNCHANGED memories =>
        memories' \in [DOMAIN memories' -> Memories] /\ DOMAIN memories' \subseteq MemoryIds
  BY DEF IInv, TypesKept
<1>3. \A m \in DOMAIN memories : memories[m].ns \in Namespaces
  BY DEF IInv, TypesKept, Memories
<1>4. CASE \/ Reject(c) \/ Recall(c) \/ Search(c) \/ Related(c) \/ FindSkill(c) \/ GetSkill(c)
           \/ VerifyAudit(c)
  BY <1>4, FinishTyped
     DEF Reject, Recall, Search, Related, FindSkill, GetSkill, VerifyAudit
<1>5. CASE Remember(c)
  BY <1>0, <1>1, <1>5, StoreTyped, FinishTyped, ApplyTyped DEF Remember, Runs, ById
<1>6. CASE IngestSession(c)
  BY <1>0, <1>1, <1>6, StoreTyped, ApplyTyped DEF IngestSession, Runs, ById
<1>7. CASE Update(c)
  BY <1>0, <1>2, <1>3, <1>7, FinishTyped, ApplyTyped DEF Update
<1>8. CASE Forget(c)
  <2> DEFINE m == call[c].memory
  <2>1. CASE memories' = [memories EXCEPT ![m].forgotten = TRUE] /\ Apply(c, memories[m].ns)
             /\ m \in DOMAIN memories
    <3>1. memories' \in [DOMAIN memories' -> Memories] /\ DOMAIN memories' \subseteq MemoryIds
      BY <2>1 DEF IInv, TypesKept, Memories
    <3> QED
      BY <1>0, <1>3, <2>1, <3>1, ApplyTyped
  <2>2. CASE Finish(c, "not_found")
    BY <2>2, FinishTyped
  <2>3. CASE m \in DOMAIN memories /\ Repeat(c, memories[m].ns)
    BY <1>0, <1>3, <2>3, ApplyTyped
  <2> QED
    BY <1>8, <2>1, <2>2, <2>3 DEF Forget
<1>9. CASE Consolidate(c)
  BY <1>0, <1>1, <1>2, <1>9, FinishTyped, ApplyTyped DEF Consolidate, Runs, ById
<1>10. CASE Feedback(c)
  BY <1>0, <1>1, <1>2, <1>10, FinishTyped, ApplyTyped DEF Feedback, Runs, ById
<1>11. CASE ReportSkillOutcome(c)
  BY <1>0, <1>1, <1>2, <1>11, FinishTyped, ApplyTyped DEF ReportSkillOutcome, Runs, ById
<1>12. CASE BreakOff(c)
  <2>1. call[c].ns \in Namespaces
    BY <1>1, <1>12 DEF BreakOff, Runs, ById
  <2>2. memories' \in [DOMAIN memories' -> Memories] /\ DOMAIN memories' \subseteq MemoryIds
    BY <1>2, <1>12, <2>1, StoreTyped DEF BreakOff
  <2>3. effects' \subseteq Effects
    BY <1>0, <1>12, <2>1, ChangedTyped DEF BreakOff
  <2> QED
    BY <1>12, <2>2, <2>3, AnswerTyped DEF BreakOff, process
<1>13. CASE Ruminate(c)
  BY <1>0, <1>1, <1>2, <1>13, FinishTyped, ApplyTyped DEF Ruminate, Runs, ById
<1> QED
  BY <1>4, <1>5, <1>6, <1>7, <1>8, <1>9, <1>10, <1>11, <1>12, <1>13 DEF Tool

LEMMA RestTyped ==
  ASSUME IInv, NEW c \in Calls, AuditRecord(c) \/ Fail(c)
  PROVE  IInv'
BY AnswerTyped DEF AuditRecord, Fail, tables, process, IInv, TypesKept

(* The process starts anew with no call under way. *)
LEMMA RestartTyped ==
  ASSUME IInv, Restart
  PROVE  IInv'
<1>1. /\ UNCHANGED <<identities, issued, now, memories, effects>> /\ tasks' = {}
      /\ pc' = [d \in Calls |-> IF pc[d] \notin {"new", "done"} THEN "done" ELSE pc[d]]
      /\ call' = [d \in Calls |-> IF pc[d] \notin {"new", "done"}
                                  THEN [NoCall EXCEPT !.answer = "lost"] ELSE call[d]]
  BY DEF Restart, tables
<1>2. pc' \in [Calls -> {"new", "lookup", "expiry", "guard", "owner", "body", "audit", "done"}]
      /\ \A d \in Calls : pc'[d] \in {"new", "done"}
  BY <1>1 DEF IInv, TypesKept
<1>3. [NoCall EXCEPT !.answer = "lost"] \in Requests
  BY DEF NoCall, Requests
<1>4. call' \in [Calls -> Requests]
  BY <1>1, <1>3 DEF IInv, TypesKept
<1>5. TypesKept'
  BY <1>1, <1>2, <1>4 DEF IInv, TypesKept
<1>6. RequestsReady'
  BY <1>2 DEF RequestsReady, Working
<1> QED
  BY <1>5, <1>6 DEF IInv

LEMMA TypesStay == IInv /\ [Next]_vars => IInv'
<1> SUFFICES ASSUME IInv, [Next]_vars PROVE IInv'
  OBVIOUS
<1>1. CASE \E n \in Names : CreateIdentity(n) \/ RevokeIdentity(n) \/ RotateIdentity(n)
  BY <1>1, CommandsTyped
<1>2. CASE \E c \in Calls : Arrive(c) \/ CallStep(c) \/ Fail(c)
  BY <1>2, GuardTyped, ToolsTyped, RestTyped DEF CallStep
<1>3. CASE Tick
  BY <1>3, ServerAssumption DEF Tick, tables, process, IInv, TypesKept, RequestsReady
<1>4. CASE \E task \in tasks : BackgroundConsolidation(task)
  BY <1>4 DEF BackgroundConsolidation, tables, IInv, TypesKept, RequestsReady
<1>5. CASE Restart
  BY <1>5, RestartTyped
<1>6. CASE UNCHANGED vars
  BY <1>6 DEF vars, IInv, TypesKept, RequestsReady, Valid
<1> QED
  BY <1>1, <1>2, <1>3, <1>4, <1>5, <1>6 DEF Next

-----------------------------------------------------------------------------
(* The rate *)

LEMMA CapacityNat == Capacity \in Nat /\ Unit \in Nat /\ Rate \in Nat
BY BucketAssumption DEF Capacity

LEMMA Product == \A a, b \in Nat : a * b \in Nat
OBVIOUS

(* A refill adds what the time since the last one gives, at most, and      *)
(* never overfills.                                                        *)
LEMMA RefillBounded ==
  ASSUME NEW bucket \in [tokens : 0 .. Capacity, at : Nat], NEW t \in Nat, bucket.at <= t
  PROVE  /\ Refilled(bucket, t) \in 0 .. Capacity
         /\ Refilled(bucket, t) <= bucket.tokens + Rate * (t - bucket.at)
<1>1. Rate * (t - bucket.at) \in Nat
  BY Product, CapacityNat
<1>2. (IF t > bucket.at THEN t - bucket.at ELSE 0) = t - bucket.at
  OBVIOUS
<1>3. Refilled(bucket, t) = IF bucket.tokens + Rate * (t - bucket.at) < Capacity
                            THEN bucket.tokens + Rate * (t - bucket.at) ELSE Capacity
  BY <1>2 DEF Refilled
<1> QED
  BY <1>1, <1>3, CapacityNat

(* What is spent was there. *)
LEMMA SpentBounded ==
  ASSUME NEW bucket \in [tokens : 0 .. Capacity, at : Nat], NEW t \in Nat, bucket.at <= t
  PROVE  /\ Spent(bucket, t) \in [tokens : 0 .. Capacity, at : Nat]
         /\ Spent(bucket, t).at = t
         /\ Spent(bucket, t).tokens =
               Refilled(bucket, t) - (IF Admits(bucket, t) THEN Unit ELSE 0)
BY RefillBounded, CapacityNat DEF Spent, Admits

(* Only the guard spends, and only a restart forgets. *)
LEMMA BucketSteps ==
  ASSUME [Next]_vars
  PROVE  \/ \E c \in Calls : Limit(c)
         \/ Restart
         \/ UNCHANGED <<buckets, window>> /\ (now' = now + 1 \/ UNCHANGED now)
<1> USE DEF tables, process
<1>1. CASE \E n \in Names : CreateIdentity(n) \/ RevokeIdentity(n) \/ RotateIdentity(n)
  BY <1>1 DEF CreateIdentity, RevokeIdentity, RotateIdentity, Command
<1>2. ASSUME NEW c \in Calls, Arrive(c) \/ CallStep(c) \/ Fail(c)
      PROVE  Limit(c) \/ UNCHANGED <<buckets, window, now>>
  <2>1. CASE Tool(c)
    BY <2>1 DEF Tool, Reject, Recall, Search, Related, FindSkill, GetSkill, VerifyAudit, Remember,
         IngestSession, Update, Forget, Consolidate, Ruminate, Feedback, ReportSkillOutcome,
         BreakOff, Finish, Apply, Repeat, GoToAudit
  <2> QED
    BY <1>2, <2>1 DEF Arrive, CallStep, Lookup, CheckExpiry, DenyScope, AuthorizeMemory,
                      AuditRecord, Fail
<1>3. CASE (\E task \in tasks : BackgroundConsolidation(task)) \/ Tick
  BY <1>3 DEF BackgroundConsolidation, Tick
<1> QED
  BY <1>1, <1>2, <1>3 DEF Next, vars

LimitInv == BucketsFull /\ WindowPaid

LEMMA LimitKept ==
  ASSUME IInv, LimitInv, NEW c \in Calls, Limit(c)
  PROVE  LimitInv'
<1> DEFINE name == call[c].claims.name
           bucket == BucketOf(name)
<1>1. now \in Nat /\ now' = now /\ name \in Names
  BY DEF Limit, IInv, TypesKept, RequestsReady, Working, Claims
<1>2. bucket \in [tokens : 0 .. Capacity, at : Nat] /\ bucket.at <= now
  BY <1>1, CapacityNat DEF BucketOf, FullBucket, LimitInv, BucketsFull
<1>3. buckets' = WithBucket(name, Spent(bucket, now))
  BY DEF Limit
<1> HIDE DEF bucket
<1>4. /\ Spent(bucket, now) \in [tokens : 0 .. Capacity, at : 0 .. now]
      /\ Spent(bucket, now).at = now
  BY <1>1, <1>2, SpentBounded
<1>5. BucketsFull'
  <2> HIDE DEF name
  <2> QED
    BY <1>1, <1>3, <1>4 DEF WithBucket, LimitInv, BucketsFull
<1>6. /\ name \in DOMAIN buckets' /\ buckets'[name] = Spent(bucket, now)
      /\ \A n \in DOMAIN buckets : n # name => n \in DOMAIN buckets' /\ buckets'[n] = buckets[n]
  <2> HIDE DEF name
  <2> QED
    BY <1>3 DEF WithBucket
<1>7. CASE window' = [name |-> name, since |-> now, admitted |-> 1] /\ Admits(bucket, now)
  <2>1. Spent(bucket, now).tokens + Unit <= Capacity
    BY <1>1, <1>2, <1>7, SpentBounded, RefillBounded, CapacityNat
  <2>2. 1 * Unit = Unit /\ Rate * (now - now) = 0
    BY <1>1, CapacityNat
  <2>3. window'.name = name /\ window'.since = now /\ window'.admitted = 1
        /\ window' \in [name : Names, since : Nat, admitted : Nat]
    BY <1>1, <1>7
  <2>4. Spent(bucket, now).tokens \in Nat
    BY <1>4, CapacityNat
  <2>5. WindowPaid'
    <3> HIDE DEF name
    <3> QED
      BY <1>1, <1>4, <1>6, <2>1, <2>2, <2>3, <2>4, CapacityNat DEF WindowPaid
  <2> QED
    BY <1>5, <2>5 DEF LimitInv
<1>8. CASE window # Null /\ window.name = name
           /\ window' = IF Admits(bucket, now) THEN [window EXCEPT !.admitted = @ + 1] ELSE window
  <2>1. /\ window \in [name : Names, since : Nat, admitted : Nat]
        /\ name \in DOMAIN buckets /\ bucket = buckets[name]
        /\ window.since <= bucket.at
        /\ window.admitted * Unit + bucket.tokens <= Capacity + Rate * (bucket.at - window.since)
    BY <1>8 DEF LimitInv, WindowPaid, BucketOf, bucket
  <2>2. Refilled(bucket, now) <= bucket.tokens + Rate * (now - bucket.at)
        /\ Refilled(bucket, now) \in Nat
    BY <1>1, <1>2, RefillBounded, CapacityNat
  <2>3. Rate * (bucket.at - window.since) + Rate * (now - bucket.at) = Rate * (now - window.since)
        /\ Rate * (bucket.at - window.since) \in Nat /\ Rate * (now - bucket.at) \in Nat
    BY <1>1, <1>2, <2>1, Product, CapacityNat
  <2>4. window.admitted * Unit \in Nat /\ (window.admitted + 1) * Unit = window.admitted * Unit + Unit
    BY <2>1, Product, CapacityNat
  <2>5. window.admitted * Unit + Refilled(bucket, now) <= Capacity + Rate * (now - window.since)
    BY <1>2, <2>1, <2>2, <2>3, <2>4, CapacityNat
  <2>6. window'.name = name /\ window'.since = window.since
        /\ window'.admitted = (IF Admits(bucket, now) THEN window.admitted + 1
                               ELSE window.admitted)
        /\ window' \in [name : Names, since : Nat, admitted : Nat]
    BY <1>8, <2>1
  <2>7. window'.admitted * Unit + Spent(bucket, now).tokens
           = window.admitted * Unit + Refilled(bucket, now)
    BY <1>1, <1>2, <2>2, <2>4, <2>6, SpentBounded, CapacityNat
  <2>8. window.since <= now
    BY <1>1, <1>2, <2>1
  <2>9. WindowPaid'
    <3> HIDE DEF name
    <3> QED
      BY <1>1, <1>4, <1>6, <2>5, <2>6, <2>7, <2>8 DEF WindowPaid
  <2> QED
    BY <1>5, <2>9 DEF LimitInv
<1>9. CASE window' = window /\ (window = Null \/ window.name # name)
  <2>1. WindowPaid'
    <3> HIDE DEF name
    <3> QED
      BY <1>6, <1>9 DEF LimitInv, WindowPaid
  <2> QED
    BY <1>5, <2>1 DEF LimitInv
<1>10. CASE window' = Null
  BY <1>5, <1>10 DEF LimitInv, WindowPaid
<1>11. \/ ~Admits(bucket, now) /\ window' = window
       \/ Admits(bucket, now) /\ window' \in Windows(name)
  BY DEF Limit, bucket
<1> QED
  BY <1>7, <1>8, <1>9, <1>10, <1>11 DEF Windows

LEMMA LimitStays == IInv /\ LimitInv /\ [Next]_vars => LimitInv'
<1> SUFFICES ASSUME IInv, LimitInv, [Next]_vars PROVE LimitInv'
  OBVIOUS
<1>1. CASE \E c \in Calls : Limit(c)
  BY <1>1, LimitKept
<1>2. CASE Restart
  BY <1>2 DEF Restart, LimitInv, BucketsFull, WindowPaid
<1>3. CASE UNCHANGED <<buckets, window>> /\ (now' = now + 1 \/ UNCHANGED now)
  <2>1. now \in Nat /\ now' \in Nat /\ now <= now'
    BY <1>3 DEF IInv, TypesKept
  <2>2. BucketsFull'
    BY <1>3, <2>1 DEF LimitInv, BucketsFull
  <2> QED
    BY <1>3, <2>2 DEF LimitInv, WindowPaid
<1> QED
  BY <1>1, <1>2, <1>3, BucketSteps

(* What was paid bounds what was admitted. *)
LEMMA PaidIsBounded ==
  ASSUME IInv, LimitInv
  PROVE  RateBounded
<1> SUFFICES ASSUME window # Null
             PROVE  window.admitted * Unit <= Capacity + Rate * (now - window.since)
  BY DEF RateBounded
<1> DEFINE bucket == buckets[window.name]
<1>1. /\ window \in [name : Names, since : Nat, admitted : Nat] /\ now \in Nat
      /\ bucket \in [tokens : 0 .. Capacity, at : 0 .. now]
      /\ window.since <= bucket.at
      /\ window.admitted * Unit + bucket.tokens <= Capacity + Rate * (bucket.at - window.since)
  BY DEF IInv, TypesKept, LimitInv, BucketsFull, WindowPaid
<1> HIDE DEF bucket
<1>2. Rate * (bucket.at - window.since) + Rate * (now - bucket.at) = Rate * (now - window.since)
      /\ Rate * (bucket.at - window.since) \in Nat /\ Rate * (now - bucket.at) \in Nat
  BY <1>1, Product, CapacityNat
<1>3. window.admitted * Unit \in Nat
  BY <1>1, Product, CapacityNat
<1> QED
  BY <1>1, <1>2, <1>3, CapacityNat

(* Every reachable state of the server is well typed, for any number of    *)
(* identities, calls, commands and faults.                                 *)
THEOREM TypeCorrect == Spec => []TypeOK
<1>1. Init => IInv /\ LimitInv
  BY TypesAtFirst DEF Init, LimitInv, BucketsFull, WindowPaid
<1>2. IInv /\ LimitInv /\ [Next]_vars => IInv' /\ LimitInv'
  BY TypesStay, LimitStays
<1>3. IInv /\ LimitInv => TypeOK
  BY DEF IInv, TypesKept, RequestsReady, Working, LimitInv, BucketsFull, TypeOK, Effects
<1> QED
  BY <1>1, <1>2, <1>3, PTL DEF Spec

(* No identity is admitted more often than a full bucket and the time      *)
(* allow, from any of its admissions on (TokenBucketLimiter), whatever     *)
(* rate and burst are configured.                                          *)
THEOREM RateIsBounded == Spec => []RateBounded
<1>1. Init => IInv /\ LimitInv
  BY TypesAtFirst DEF Init, LimitInv, BucketsFull, WindowPaid
<1>2. IInv /\ LimitInv /\ [Next]_vars => IInv' /\ LimitInv'
  BY TypesStay, LimitStays
<1> QED
  BY <1>1, <1>2, PaidIsBounded, PTL DEF Spec

-----------------------------------------------------------------------------
(* What a step does to the call that takes it, and what it leaves alone *)

(* Steps that answer a call or move it on past the guard. *)
PastVerifier(c) ==
    DenyScope(c) \/ Limit(c) \/ AuthorizeMemory(c) \/ Tool(c) \/ AuditRecord(c) \/ Fail(c)

(* An answered call has lost its request. *)
LEMMA AnswerShape ==
  ASSUME IInv, NEW c \in Calls, NEW answer, Answer(c, answer)
  PROVE  /\ pc'[c] = "done" /\ call'[c].answer = answer /\ ~call'[c].stale
         /\ call'[c].memory = Null
         /\ \A d \in Calls \ {c} : pc'[d] = pc[d] /\ call'[d] = call[d]
BY DEF Answer, NoCall, IInv, TypesKept

LEMMA GoToAuditShape ==
  ASSUME IInv, NEW c \in Calls, NEW ns, GoToAudit(c, ns)
  PROVE  /\ pc'[c] = "audit" /\ call'[c].stale = call[c].stale
         /\ call'[c].memory = call[c].memory
         /\ call'[c].tool = call[c].tool /\ call'[c].ns = ns
         /\ \A d \in Calls \ {c} : pc'[d] = pc[d] /\ call'[d] = call[d]
         /\ UNCHANGED <<identities, issued, now, audit>>
BY DEF GoToAudit, process, IInv, TypesKept, Requests

(* A tool changes nothing and is done; or it is one that writes, and       *)
(* changes the namespace it was called with or that of its memory; or it   *)
(* only goes to its audit entry.                                           *)
LEMMA ToolShape ==
  ASSUME IInv, NEW c \in Calls, Tool(c)
  PROVE  /\ pc[c] = "body" /\ UNCHANGED <<identities, issued, now, audit>>
         /\ \/ UNCHANGED effects
               /\ \E answer \in {"ok", "not_found", "unprocessable", "error"} : Answer(c, answer)
            \/ \E ns :
                  /\ call[c].tool \in WriteTools
                  /\ IF ById(call[c].tool)
                     THEN call[c].memory \in DOMAIN memories /\ ns = memories[call[c].memory].ns
                     ELSE ns = call[c].ns
                  /\ Changed(c, ns)
                  /\ GoToAudit(c, ns) \/ Answer(c, "error")
            \/ /\ UNCHANGED effects /\ call[c].tool \in {"remember", "forget"}
               /\ \E ns : GoToAudit(c, ns)
<1> USE DEF tables, process
<1>1. ASSUME NEW answer \in {"ok", "not_found", "unprocessable", "error"}, Finish(c, answer)
      PROVE  Answer(c, answer) /\ UNCHANGED <<identities, issued, now, audit, effects>>
  BY <1>1 DEF Finish
<1>2. ASSUME NEW ns, Apply(c, ns)
      PROVE  Changed(c, ns) /\ GoToAudit(c, ns) /\ UNCHANGED <<identities, issued, now, audit>>
  BY <1>2 DEF Apply, GoToAudit
<1>7. ASSUME NEW ns, Repeat(c, ns)
      PROVE  GoToAudit(c, ns) /\ UNCHANGED <<identities, issued, now, audit, effects>>
  BY <1>7 DEF Repeat, GoToAudit
<1>3. CASE \/ Reject(c) \/ Recall(c) \/ Search(c) \/ Related(c) \/ FindSkill(c) \/ GetSkill(c)
           \/ VerifyAudit(c)
  BY <1>1, <1>3 DEF Reject, Recall, Search, Related, FindSkill, GetSkill, VerifyAudit, Runs
<1>4. CASE Update(c) \/ Forget(c)
  <2>1. pc[c] = "body" /\ ById(call[c].tool) /\ call[c].tool \in WriteTools
    BY <1>4 DEF Update, Forget, Runs, ById, WriteTools
  <2>2. \/ Finish(c, "not_found")
        \/ call[c].memory \in DOMAIN memories /\ Apply(c, memories[call[c].memory].ns)
        \/ call[c].tool = "forget" /\ Repeat(c, memories[call[c].memory].ns)
    BY <1>4 DEF Update, Forget, Runs
  <2> QED
    BY <1>1, <1>2, <1>7, <2>1, <2>2
<1>5. CASE \/ Remember(c) \/ IngestSession(c) \/ Consolidate(c) \/ Ruminate(c)
           \/ Feedback(c) \/ ReportSkillOutcome(c)
  <2>1. pc[c] = "body" /\ ~ById(call[c].tool) /\ call[c].tool \in WriteTools
    BY <1>5 DEF Remember, IngestSession, Consolidate, Ruminate, Feedback, ReportSkillOutcome,
                Runs, ById, WriteTools
  <2>2. \/ Finish(c, "not_found") \/ Finish(c, "ok") \/ Finish(c, "error")
        \/ Apply(c, call[c].ns)
        \/ call[c].tool = "remember" /\ Repeat(c, call[c].ns)
    BY <1>5 DEF Remember, IngestSession, Consolidate, Ruminate, Feedback, ReportSkillOutcome, Runs
  <2> QED
    BY <1>1, <1>2, <1>7, <2>1, <2>2
<1>6. CASE BreakOff(c)
  <2>1. pc[c] = "body" /\ ~ById(call[c].tool) /\ call[c].tool \in WriteTools
    BY <1>6 DEF BreakOff, Runs, ById, WriteTools
  <2> QED
    BY <1>6, <2>1 DEF BreakOff
<1> QED
  BY <1>3, <1>4, <1>5, <1>6 DEF Tool

(* Memories are added, and stay in their namespaces. *)
LEMMA MemoriesGrow ==
  ASSUME IInv, [Next]_vars, NEW m \in DOMAIN memories
  PROVE  m \in DOMAIN memories' /\ memories'[m].ns = memories[m].ns
<1> USE DEF tables, process
<1>1. ASSUME NEW ns, StoreMemory(ns)
      PROVE  m \in DOMAIN memories' /\ memories'[m].ns = memories[m].ns
  BY <1>1 DEF StoreMemory
<1>2. CASE \E n \in Names : CreateIdentity(n) \/ RevokeIdentity(n) \/ RotateIdentity(n)
  BY <1>2 DEF CreateIdentity, RevokeIdentity, RotateIdentity, Command
<1>3. ASSUME NEW c \in Calls, Tool(c)
      PROVE  m \in DOMAIN memories' /\ memories'[m].ns = memories[m].ns
  <2>1. CASE Remember(c) \/ IngestSession(c) \/ BreakOff(c)
    BY <1>1, <2>1 DEF Remember, IngestSession, BreakOff, Finish, Repeat
  <2>2. CASE Forget(c)
    BY <2>2 DEF Forget, Finish, Repeat, IInv, TypesKept, Memories
  <2>3. CASE ~(Remember(c) \/ IngestSession(c) \/ BreakOff(c) \/ Forget(c))
    BY <1>3, <2>3 DEF Tool, Reject, Recall, Search, Related, FindSkill, GetSkill, VerifyAudit,
                      Update, Consolidate, Ruminate, Feedback, ReportSkillOutcome, Finish
  <2> QED
    BY <2>1, <2>2, <2>3
<1>4. ASSUME NEW c \in Calls, Arrive(c) \/ CallStep(c) \/ Fail(c)
      PROVE  m \in DOMAIN memories' /\ memories'[m].ns = memories[m].ns
  BY <1>3, <1>4 DEF Arrive, CallStep, Lookup, CheckExpiry, DenyScope, Limit, AuthorizeMemory,
                    AuditRecord, Fail
<1>5. CASE (\E task \in tasks : BackgroundConsolidation(task)) \/ Tick \/ Restart
  BY <1>5 DEF BackgroundConsolidation, Tick, Restart
<1> QED
  BY <1>2, <1>4, <1>5 DEF Next, vars

(* The three ways calls change. *)
LEMMA CallSteps ==
  ASSUME [Next]_vars
  PROVE  \/ UNCHANGED <<pc, call, effects, audit>>
         \/ Restart
         \/ \E c \in Calls : Arrive(c) \/ Lookup(c) \/ CheckExpiry(c) \/ PastVerifier(c)
<1> USE DEF tables, process
<1>1. CASE \E n \in Names : CreateIdentity(n) \/ RevokeIdentity(n) \/ RotateIdentity(n)
  BY <1>1 DEF CreateIdentity, RevokeIdentity, RotateIdentity, Command
<1>2. CASE \E c \in Calls : Arrive(c) \/ CallStep(c) \/ Fail(c)
  BY <1>2 DEF CallStep, PastVerifier
<1>3. CASE (\E task \in tasks : BackgroundConsolidation(task)) \/ Tick
  BY <1>3 DEF BackgroundConsolidation, Tick
<1> QED
  BY <1>1, <1>2, <1>3 DEF Next, vars

(* A step before the tool leaves the stores alone. *)
LEMMA GuardShape ==
  ASSUME IInv, NEW c \in Calls,
         \/ Arrive(c) \/ Lookup(c) \/ CheckExpiry(c) \/ DenyScope(c) \/ Limit(c)
         \/ AuthorizeMemory(c)
  PROVE  /\ pc[c] \notin {"body", "audit", "done"} /\ pc'[c] \notin {"new", "audit"}
         /\ UNCHANGED <<identities, issued, now, memories, effects, audit>>
         /\ \A d \in Calls \ {c} : pc'[d] = pc[d] /\ call'[d] = call[d]
         /\ pc'[c] = "done" => ~call'[c].stale
         /\ ~Arrive(c) => /\ pc[c] # "new"
                          /\ call'[c].memory \in {call[c].memory, Null}
                          /\ pc'[c] # "done" => call'[c].stale = call[c].stale
<1> USE DEF tables, process
<1>1. \/ \E answer : Answer(c, answer)
      \/ /\ pc'[c] \in {"lookup", "expiry", "guard", "owner", "body"}
         /\ \A d \in Calls \ {c} : pc'[d] = pc[d] /\ call'[d] = call[d]
         /\ ~Arrive(c) => call'[c].memory = call[c].memory /\ call'[c].stale = call[c].stale
  <2>1. CASE Arrive(c)
    BY <2>1 DEF Arrive, IInv, TypesKept
  <2>2. CASE Lookup(c)
    BY <2>2 DEF Lookup, IInv, TypesKept, Requests
  <2>3. CASE CheckExpiry(c)
    BY <2>3 DEF CheckExpiry, IInv, TypesKept
  <2>4. CASE DenyScope(c)
    BY <2>4 DEF DenyScope
  <2>5. CASE Limit(c)
    BY <2>5 DEF Limit, IInv, TypesKept
  <2>6. CASE AuthorizeMemory(c)
    BY <2>6 DEF AuthorizeMemory, IInv, TypesKept
  <2> QED
    BY <2>1, <2>2, <2>3, <2>4, <2>5, <2>6
<1>2. pc[c] \notin {"body", "audit", "done"} /\ (~Arrive(c) => pc[c] # "new")
      /\ UNCHANGED <<identities, issued, now, memories, effects, audit>>
  BY DEF Arrive, Lookup, CheckExpiry, DenyScope, Limit, AuthorizeMemory
<1> QED
  BY <1>1, <1>2, AnswerShape

-----------------------------------------------------------------------------
(* Dead tokens *)

DeadInv == DeadTokensKnown /\ \A e \in effects : ~e.stale

(* A token that no identity may use is never of use again. *)
LEMMA StaysDead ==
  ASSUME IInv, [Next]_vars, NEW token \in issued, token \notin Live
  PROVE  token \notin Live'
<1> USE DEF tables, process
<1>1. now \in Nat /\ now' \in Nat /\ now <= now'
  <2>1. UNCHANGED now \/ now' = now + 1
    BY BucketSteps DEF Restart, Limit
  <2> QED
    BY <2>1 DEF IInv, TypesKept
<1>2. ASSUME NEW n \in DOMAIN identities', identities'[n].token = token, ~identities'[n].revoked
      PROVE  /\ n \in DOMAIN identities /\ identities[n].token = token
             /\ ~identities[n].revoked /\ identities[n].expires = identities'[n].expires
  <2>1. CASE \E name \in Names : CreateIdentity(name)
    BY <1>2, <2>1 DEF CreateIdentity, Created, IInv, TypesKept
  <2>2. CASE \E name \in Names : RevokeIdentity(name)
    BY <1>2, <2>2 DEF RevokeIdentity, Revoked, IInv, TypesKept, Rows
  <2>3. CASE \E name \in Names : RotateIdentity(name)
    BY <1>2, <2>3 DEF RotateIdentity, Rotated, IInv, TypesKept, Rows
  <2>4. CASE UNCHANGED identities
    BY <1>2, <2>4
  <2>5. \/ \E name \in Names : \/ CreateIdentity(name) \/ RevokeIdentity(name)
                              \/ RotateIdentity(name)
        \/ UNCHANGED identities
    <3>1. ASSUME NEW c \in Calls, Arrive(c) \/ CallStep(c) \/ Fail(c) PROVE UNCHANGED identities
      BY <3>1, GuardShape, ToolShape DEF CallStep, AuditRecord, Fail
    <3> QED
      BY <3>1 DEF Next, BackgroundConsolidation, Tick, Restart, vars
  <2> QED
    BY <2>1, <2>2, <2>3, <2>4, <2>5
<1>3. ASSUME NEW n \in DOMAIN identities, identities[n].expires # Never, now >= identities[n].expires
      PROVE  now' >= identities[n].expires
  BY <1>1, <1>3 DEF IInv, TypesKept, Rows
<1>4. ASSUME NEW n \in DOMAIN identities
      PROVE  identities[n].expires = Never \/ identities[n].expires \in Nat
  BY DEF IInv, TypesKept, Rows
<1>5. ASSUME NEW n \in DOMAIN identities', identities'[n].token = token, ~identities'[n].revoked,
             identities'[n].expires = Never \/ now' < identities'[n].expires
      PROVE  FALSE
  <2>1. /\ n \in DOMAIN identities /\ identities[n].token = token /\ ~identities[n].revoked
        /\ identities[n].expires = identities'[n].expires
    BY <1>2, <1>5
  <2>2. identities[n].expires = Never \/ now < identities[n].expires
    BY <1>1, <1>4, <1>5, <2>1
  <2> QED
    BY <2>1, <2>2 DEF Live, Valid, IInv, TypesKept
<1> QED
  BY <1>5 DEF Live, Valid

LEMMA DeadStays == IInv /\ DeadInv /\ [Next]_vars => DeadInv'
<1> SUFFICES ASSUME IInv, DeadInv, [Next]_vars PROVE DeadInv'
  OBVIOUS
<1> USE DEF tables, process
<1> DEFINE Known(d) == call'[d].stale =>
                           /\ pc'[d] = "lookup" => call'[d].token \notin Live'
                           /\ pc'[d] = "expiry" => IsExpired(call'[d].claims, now')
                           /\ pc'[d] \notin {"guard", "owner", "body", "audit"}
<1>1. ASSUME NEW d \in Calls, pc'[d] = pc[d], call'[d] = call[d], call'[d].stale
      PROVE  Known(d)
  <2>1. CASE pc[d] = "lookup"
    <3>1. call[d].token \in issued /\ call[d].token \notin Live
      BY <1>1, <2>1 DEF IInv, RequestsReady, DeadInv, DeadTokensKnown
    <3>2. \A token \in issued : token \notin Live => token \notin Live'
      BY StaysDead
    <3> QED
      BY <1>1, <2>1, <3>1, <3>2
  <2>2. CASE pc[d] = "expiry"
    <3>1. now \in Nat /\ now' \in Nat /\ now <= now'
      <4>1. UNCHANGED now \/ now' = now + 1
        BY BucketSteps DEF Restart, Limit
      <4> QED
        BY <4>1 DEF IInv, TypesKept
    <3>2. IsExpired(call[d].claims, now) /\ call[d].claims \in Claims
      BY <1>1, <2>2 DEF DeadInv, DeadTokensKnown, IInv, RequestsReady, Working
    <3>3. call[d].claims.expires \in Nat /\ now >= call[d].claims.expires
      BY <3>2 DEF IsExpired, Claims
    <3>4. now' >= call[d].claims.expires
      BY <3>1, <3>3
    <3> QED
      BY <1>1, <2>2, <3>2, <3>4 DEF IsExpired
  <2> QED
    BY <1>1, <2>1, <2>2 DEF DeadInv, DeadTokensKnown
<1>2. ASSUME \A d \in Calls : Known(d), \A e \in effects' : ~e.stale
      PROVE  DeadInv'
  BY <1>2 DEF DeadInv, DeadTokensKnown
<1>3. CASE UNCHANGED <<pc, call, effects, audit>>
  BY <1>1, <1>2, <1>3 DEF DeadInv
<1>4. CASE Restart
  <2>1. ASSUME NEW d \in Calls PROVE Known(d)
    BY <1>1, <1>4 DEF Restart, NoCall
  <2> QED
    BY <1>2, <1>4, <2>1 DEF Restart, DeadInv
<1>5. ASSUME NEW c \in Calls,
             \A d \in Calls \ {c} : pc'[d] = pc[d] /\ call'[d] = call[d],
             Known(c), \A e \in effects' : ~e.stale
      PROVE  DeadInv'
  BY <1>1, <1>2, <1>5
<1>6. \A e \in effects : ~e.stale
  BY DEF DeadInv
<1>7. ASSUME NEW c \in Calls, Arrive(c) PROVE DeadInv'
  <2>1. PICK token \in issued, tool \in Offered[c] :
           \E ns \in IF ById(tool) THEN {Null} ELSE Namespaces,
              m \in IF ById(tool) THEN DOMAIN memories \cup {Null} ELSE {Null} :
           call' = [call EXCEPT ![c] = Request(token, tool, ns, m)]
    BY <1>7 DEF Arrive
  <2>2. call'[c].token = token /\ (call'[c].stale => token \notin Live)
    <3>1. PICK ns \in Namespaces \cup {Null}, m \in DOMAIN memories \cup {Null} :
             call' = [call EXCEPT ![c] = Request(token, tool, ns, m)]
      BY <2>1
    <3>2. Request(token, tool, ns, m).token = token
          /\ Request(token, tool, ns, m).stale = ~Valid(token)
      BY DEF Request, Valid
    <3>3. call'[c] = Request(token, tool, ns, m)
      BY <3>1 DEF IInv, TypesKept
    <3> QED
      BY <3>2, <3>3 DEF Live
  <2>3. pc'[c] = "lookup" /\ UNCHANGED <<identities, now>>
    BY <1>7 DEF Arrive, IInv, TypesKept
  <2>4. Live' = Live
    BY <2>3 DEF Live, Valid
  <2>5. Known(c)
    BY <2>2, <2>3, <2>4
  <2> QED
    BY <1>5, <1>6, <1>7, <2>5, GuardShape
<1>8. ASSUME NEW c \in Calls, Lookup(c) PROVE DeadInv'
  <2>1. CASE Answer(c, "unauthenticated")
    BY <1>5, <1>6, <1>8, <2>1, GuardShape, AnswerShape
  <2>2. CASE /\ pc' = [pc EXCEPT ![c] = "expiry"]
             /\ \E n \in HoldersOf(identities, call[c].token) :
                   call' = [call EXCEPT ![c].claims =
                               [name |-> n, namespaces |-> identities[n].namespaces,
                                scope |-> identities[n].scope, expires |-> identities[n].expires]]
    <3>1. PICK n \in HoldersOf(identities, call[c].token) :
                   call' = [call EXCEPT ![c].claims =
                               [name |-> n, namespaces |-> identities[n].namespaces,
                                scope |-> identities[n].scope, expires |-> identities[n].expires]]
      BY <2>2
    <3>2. /\ pc'[c] = "expiry" /\ pc[c] = "lookup" /\ UNCHANGED <<now, effects>>
          /\ call'[c].claims.expires = identities[n].expires /\ call'[c].stale = call[c].stale
      BY <1>8, <2>2, <3>1 DEF Lookup, IInv, TypesKept, Requests
    <3>3. call[c].stale => identities[n].expires # Never /\ ~(now < identities[n].expires)
      BY <3>2 DEF DeadInv, DeadTokensKnown, Live, Valid, HoldersOf, IInv, TypesKept, Rows
    <3>4. identities[n].expires \in Nat \cup {Never} /\ now \in Nat
      BY DEF HoldersOf, IInv, TypesKept, Rows
    <3>5. call'[c].stale => IsExpired(call'[c].claims, now')
      BY <3>2, <3>3, <3>4 DEF IsExpired
    <3> QED
      BY <1>5, <1>6, <1>8, <3>2, <3>5, GuardShape
  <2> QED
    BY <1>8, <2>1, <2>2 DEF Lookup
<1>9. ASSUME NEW c \in Calls, CheckExpiry(c) PROVE DeadInv'
  <2>1. /\ pc[c] = "expiry" /\ UNCHANGED <<now, effects>>
        /\ IF IsExpired(call[c].claims, now) THEN Answer(c, "unauthenticated")
           ELSE pc'[c] = "guard" /\ UNCHANGED call
    BY <1>9 DEF CheckExpiry, IInv, TypesKept
  <2>2. Known(c)
    BY <2>1, AnswerShape DEF DeadInv, DeadTokensKnown
  <2> QED
    BY <1>5, <1>6, <1>9, <2>1, <2>2, GuardShape
<1>10. ASSUME NEW c \in Calls, PastVerifier(c), ~Fail(c) PROVE DeadInv'
  <2>1. pc[c] \in {"guard", "owner", "body", "audit"}
    BY <1>10, ToolShape DEF PastVerifier, DenyScope, Limit, AuthorizeMemory, AuditRecord
  <2>2. ~call[c].stale
    BY <2>1 DEF DeadInv, DeadTokensKnown
  <2>3. CASE DenyScope(c) \/ Limit(c) \/ AuthorizeMemory(c)
    <3>1. ~call'[c].stale /\ UNCHANGED effects
      BY <2>2, <2>3, GuardShape DEF Arrive, DenyScope, Limit, AuthorizeMemory
    <3> QED
      BY <1>5, <1>6, <2>3, <3>1, GuardShape
  <2>4. CASE Tool(c)
    <3>1. CASE UNCHANGED effects /\ \E answer : Answer(c, answer)
      BY <1>5, <1>6, <3>1, AnswerShape
    <3>2. CASE \E ns : Changed(c, ns) /\ (GoToAudit(c, ns) \/ Answer(c, "error"))
      <4>1. PICK ns : Changed(c, ns) /\ (GoToAudit(c, ns) \/ Answer(c, "error"))
        BY <3>2
      <4>2. \A e \in effects' : ~e.stale
        BY <1>6, <2>2, <4>1 DEF Changed
      <4>3. /\ ~call'[c].stale
            /\ \A d \in Calls \ {c} : pc'[d] = pc[d] /\ call'[d] = call[d]
        BY <2>2, <4>1, AnswerShape, GoToAuditShape
      <4> QED
        BY <1>5, <4>2, <4>3
    <3>3. CASE UNCHANGED effects /\ \E ns : GoToAudit(c, ns)
      BY <1>5, <1>6, <2>2, <3>3, GoToAuditShape
    <3> QED
      BY <2>4, <3>1, <3>2, <3>3, ToolShape
  <2>5. CASE AuditRecord(c)
    BY <1>5, <1>6, <2>5, AnswerShape DEF AuditRecord
  <2> QED
    BY <1>10, <2>3, <2>4, <2>5 DEF PastVerifier
<1>11. ASSUME NEW c \in Calls, Fail(c) PROVE DeadInv'
  BY <1>5, <1>6, <1>11, AnswerShape DEF Fail
<1> QED
  BY <1>3, <1>4, <1>7, <1>8, <1>9, <1>10, <1>11, CallSteps

(* A call that arrives with a token that was revoked, rotated away or has  *)
(* expired never passes the verifier, and changes nothing (verifier.py).   *)
THEOREM DeadTokensAreRefused == Spec => []DeadTokensRefused
<1>1. Init => IInv /\ DeadInv
  BY TypesAtFirst DEF Init, DeadInv, DeadTokensKnown, NoCall
<1>2. IInv /\ DeadInv /\ [Next]_vars => IInv' /\ DeadInv'
  BY TypesStay, DeadStays
<1>3. DeadInv => DeadTokensRefused
  BY DEF DeadInv, DeadTokensKnown, DeadTokensRefused
<1> QED
  BY <1>1, <1>2, <1>3, PTL DEF Spec

-----------------------------------------------------------------------------
(* Authorization *)

GuardInv == GuardHeld /\ EffectsAuthorized

(* The tool that writes was let through for the namespace it writes. *)
LEMMA ChangeAuthorized ==
  ASSUME IInv, GuardInv, NEW c \in Calls, Tool(c)
  PROVE  EffectsAuthorized'
<1>1. CASE UNCHANGED effects
  BY <1>1 DEF GuardInv, EffectsAuthorized
<1>2. CASE \E ns :
              /\ call[c].tool \in WriteTools
              /\ IF ById(call[c].tool)
                 THEN call[c].memory \in DOMAIN memories /\ ns = memories[call[c].memory].ns
                 ELSE ns = call[c].ns
              /\ Changed(c, ns)
  <2>1. PICK ns :
              /\ IF ById(call[c].tool)
                 THEN call[c].memory \in DOMAIN memories /\ ns = memories[call[c].memory].ns
                 ELSE ns = call[c].ns
              /\ Changed(c, ns)
    BY <1>2
  <2>2. pc[c] = "body" /\ call[c].tool \in WriteTools
    BY <1>2, ToolShape
  <2>3. call[c].claims.scope = "readwrite"
    BY <2>2 DEF GuardInv, GuardHeld, ScopeAllows, ReadTools, WriteTools
  <2>4. call[c].memory \in DOMAIN memories => call[c].memory # Null
    BY ServerAssumption DEF IInv, TypesKept
  <2>5. ns \in call[c].claims.namespaces
    BY <2>1, <2>2, <2>4 DEF GuardInv, GuardHeld
  <2> QED
    BY <2>1, <2>3, <2>5 DEF Changed, GuardInv, EffectsAuthorized
<1> QED
  BY <1>1, <1>2, ToolShape

LEMMA GuardStays == IInv /\ GuardInv /\ [Next]_vars => GuardInv'
<1> SUFFICES ASSUME IInv, GuardInv, [Next]_vars PROVE GuardInv'
  OBVIOUS
<1> USE DEF tables, process
<1> DEFINE Held(d) ==
             /\ pc'[d] \in {"owner", "body"} => ScopeAllows(call'[d].claims.scope, call'[d].tool)
             /\ call'[d].memory \in DOMAIN memories' \cup {Null}
             /\ pc'[d] = "body" => IF ById(call'[d].tool)
                                   THEN call'[d].memory # Null =>
                                           memories'[call'[d].memory].ns \in call'[d].claims.namespaces
                                   ELSE call'[d].ns \in call'[d].claims.namespaces
<1>1. ASSUME NEW d \in Calls, pc'[d] = pc[d], call'[d] = call[d] PROVE Held(d)
  <2>1. call[d].memory # Null => /\ call[d].memory \in DOMAIN memories'
                                 /\ memories'[call[d].memory].ns = memories[call[d].memory].ns
    BY MemoriesGrow DEF GuardInv, GuardHeld
  <2> QED
    BY <1>1, <2>1 DEF GuardInv, GuardHeld
<1>2. ASSUME \A d \in Calls : Held(d), EffectsAuthorized' PROVE GuardInv'
  BY <1>2 DEF GuardInv, GuardHeld
<1>3. UNCHANGED effects => EffectsAuthorized'
  BY DEF GuardInv, EffectsAuthorized
<1>4. ASSUME NEW d \in Calls, call'[d].memory = Null, pc'[d] = "done" PROVE Held(d)
  BY <1>4
<1>5. ASSUME NEW c \in Calls,
             \A d \in Calls \ {c} : pc'[d] = pc[d] /\ call'[d] = call[d],
             Held(c), EffectsAuthorized'
      PROVE  GuardInv'
  <2> HIDE DEF Held
  <2>1. \A d \in Calls : Held(d)
    BY <1>1, <1>5
  <2> QED
    BY <1>2, <1>5, <2>1
<1>6. CASE UNCHANGED <<pc, call, effects, audit>>
  <2> HIDE DEF Held
  <2> QED
    BY <1>1, <1>2, <1>3, <1>6
<1>7. CASE Restart
  <2>1. \A d \in Calls : \/ pc'[d] = pc[d] /\ call'[d] = call[d]
                         \/ pc'[d] = "done" /\ call'[d].memory = Null
    BY <1>7 DEF Restart, NoCall
  <2>2. UNCHANGED effects
    BY <1>7 DEF Restart
  <2> HIDE DEF Held
  <2> QED
    BY <1>1, <1>2, <1>3, <1>4, <2>1, <2>2
<1>8. ASSUME NEW c \in Calls, \E answer : Answer(c, answer), EffectsAuthorized' PROVE GuardInv'
  <2> HIDE DEF Held
  <2> QED
    BY <1>4, <1>5, <1>8, AnswerShape
<1>9. ASSUME NEW c \in Calls, Arrive(c) PROVE GuardInv'
  <2>1. PICK token \in issued, tool \in Offered[c], ns \in Namespaces \cup {Null},
             m \in DOMAIN memories \cup {Null} :
           call' = [call EXCEPT ![c] = Request(token, tool, ns, m)]
    BY <1>9 DEF Arrive
  <2>2. pc'[c] = "lookup" /\ UNCHANGED <<memories, effects>>
    BY <1>9 DEF Arrive, IInv, TypesKept
  <2>3. call'[c].memory = m
    BY <2>1 DEF Request, IInv, TypesKept
  <2>4. Held(c)
    BY <2>2, <2>3
  <2> HIDE DEF Held
  <2> QED
    BY <1>3, <1>5, <1>9, <2>2, <2>4, GuardShape
<1>10. ASSUME NEW c \in Calls, Lookup(c) \/ CheckExpiry(c) PROVE GuardInv'
  <2>1. /\ UNCHANGED <<memories, effects>> /\ pc'[c] \notin {"owner", "body"}
        /\ ~Arrive(c)
    BY <1>10, AnswerShape DEF Arrive, Lookup, CheckExpiry, IInv, TypesKept
  <2>2. call'[c].memory \in {call[c].memory, Null}
    BY <1>10, <2>1, GuardShape
  <2>3. Held(c)
    BY <2>1, <2>2 DEF GuardInv, GuardHeld
  <2> HIDE DEF Held
  <2> QED
    BY <1>3, <1>5, <1>10, <2>1, <2>3, GuardShape
<1>11. ASSUME NEW c \in Calls, DenyScope(c) \/ AuditRecord(c) \/ Fail(c) PROVE GuardInv'
  <2>1. (\E answer : Answer(c, answer)) /\ UNCHANGED effects
    BY <1>11 DEF DenyScope, AuditRecord, Fail
  <2> QED
    BY <1>3, <1>8, <2>1
<1>12. ASSUME NEW c \in Calls, Limit(c) PROVE GuardInv'
  <2>1. UNCHANGED <<memories, effects>>
        /\ \/ \E answer : Answer(c, answer)
           \/ /\ UNCHANGED call /\ ScopeAllows(call[c].claims.scope, call[c].tool)
              /\ \/ pc'[c] = "owner"
                 \/ pc'[c] = "body" /\ ~ById(call[c].tool) /\ OwnsNamespace(call[c].claims, call[c].ns)
    BY <1>12 DEF Limit, IInv, TypesKept
  <2>2. CASE UNCHANGED call /\ ~\E answer : Answer(c, answer)
    <3>1. Held(c)
      BY <2>1, <2>2 DEF OwnsNamespace, GuardInv, GuardHeld
    <3> HIDE DEF Held
    <3> QED
      BY <1>3, <1>5, <1>12, <2>1, <3>1, GuardShape
  <2> QED
    BY <1>3, <1>8, <2>1, <2>2
<1>13. ASSUME NEW c \in Calls, AuthorizeMemory(c) PROVE GuardInv'
  <2>1. /\ UNCHANGED <<memories, effects>> /\ pc[c] = "owner"
        /\ \/ Answer(c, "not_found")
           \/ /\ pc'[c] = "body" /\ UNCHANGED call
              /\ call[c].memory \in DOMAIN memories =>
                    OwnsNamespace(call[c].claims, memories[call[c].memory].ns)
    BY <1>13 DEF AuthorizeMemory, IInv, TypesKept
  <2>2. CASE pc'[c] = "body" /\ UNCHANGED call
             /\ (call[c].memory \in DOMAIN memories =>
                    OwnsNamespace(call[c].claims, memories[call[c].memory].ns))
    <3>1. ById(call[c].tool)
      BY <2>1 DEF IInv, RequestsReady
    <3>2. Held(c)
      BY <2>1, <2>2, <3>1 DEF OwnsNamespace, GuardInv, GuardHeld
    <3> HIDE DEF Held
    <3> QED
      BY <1>3, <1>5, <1>13, <2>1, <3>2, GuardShape
  <2> QED
    BY <1>3, <1>8, <2>1, <2>2
<1>14. ASSUME NEW c \in Calls, Tool(c) PROVE GuardInv'
  <2>1. EffectsAuthorized'
    BY <1>14, ChangeAuthorized
  <2>2. (\E answer : Answer(c, answer)) \/ \E ns : GoToAudit(c, ns)
    BY <1>14, ToolShape
  <2>3. CASE \E ns : GoToAudit(c, ns)
    <3>1. /\ pc'[c] = "audit" /\ call'[c].memory = call[c].memory
          /\ \A d \in Calls \ {c} : pc'[d] = pc[d] /\ call'[d] = call[d]
      BY <2>3, GoToAuditShape
    <3>2. call'[c].memory \in DOMAIN memories' \cup {Null}
      BY <3>1, MemoriesGrow DEF GuardInv, GuardHeld
    <3>3. Held(c)
      BY <3>1, <3>2
    <3> HIDE DEF Held
    <3> QED
      BY <1>5, <2>1, <3>1, <3>3
  <2> QED
    BY <1>8, <2>1, <2>2, <2>3
<1> HIDE DEF Held
<1> QED
  BY <1>6, <1>7, <1>9, <1>10, <1>11, <1>12, <1>13, <1>14, CallSteps DEF PastVerifier

(* Every change a call made was made in a namespace of the identity that   *)
(* asked for it, which may write (guarded, authorize_memory): whatever     *)
(* other calls, commands and failures happen in between.                   *)
THEOREM ChangesAreAuthorized == Spec => []EffectsAuthorized
<1>1. Init => IInv /\ GuardInv
  BY TypesAtFirst DEF Init, GuardInv, GuardHeld, EffectsAuthorized, NoCall
<1>2. IInv /\ GuardInv /\ [Next]_vars => IInv' /\ GuardInv'
  BY TypesStay, GuardStays
<1>3. GuardInv => EffectsAuthorized
  BY DEF GuardInv
<1> QED
  BY <1>1, <1>2, <1>3, PTL DEF Spec

-----------------------------------------------------------------------------
(* The audit log *)

AuditInv == EffectsFollowed /\ EffectsAudited

LEMMA AuditStays == IInv /\ AuditInv /\ [Next]_vars => AuditInv'
<1> SUFFICES ASSUME IInv, AuditInv, [Next]_vars PROVE AuditInv'
  OBVIOUS
<1> USE DEF tables, process
<1>0. /\ \A e \in effects : e.by \in Calls /\ pc[e.by] \in {"audit", "done"}
      /\ pc \in [Calls -> {"new", "lookup", "expiry", "guard", "owner", "body", "audit", "done"}]
  BY DEF AuditInv, EffectsFollowed, IInv, TypesKept, Effects
<1>1. CASE UNCHANGED <<pc, call, effects, audit>>
  BY <1>1 DEF AuditInv, EffectsFollowed, EffectsAudited, Audited
<1>2. CASE Restart
  <2>1. /\ UNCHANGED <<effects, audit>>
        /\ \A d \in Calls :
              \/ pc[d] \in {"new", "done"} /\ pc'[d] = pc[d] /\ call'[d] = call[d]
              \/ pc'[d] = "done" /\ call'[d].answer = "lost"
    BY <1>2 DEF Restart, NoCall
  <2> QED
    BY <1>0, <2>1 DEF AuditInv, EffectsFollowed, EffectsAudited, Audited
<1>3. ASSUME NEW c \in Calls, UNCHANGED <<effects, audit>>, pc[c] \notin {"audit", "done"},
             pc'[c] # "audit",
             \A d \in Calls \ {c} : pc'[d] = pc[d] /\ call'[d] = call[d]
      PROVE  AuditInv'
  <2>1. \A e \in effects : e.by # c /\ pc'[e.by] = pc[e.by] /\ call'[e.by] = call[e.by]
    BY <1>0, <1>3
  <2>2. EffectsFollowed'
    BY <1>3, <2>1 DEF AuditInv, EffectsFollowed
  <2>3. EffectsAudited'
    BY <1>3, <2>1 DEF AuditInv, EffectsAudited, Audited
  <2> QED
    BY <2>2, <2>3 DEF AuditInv
<1>4. ASSUME NEW c \in Calls, \/ Arrive(c) \/ Lookup(c) \/ CheckExpiry(c) \/ DenyScope(c)
                              \/ Limit(c) \/ AuthorizeMemory(c)
      PROVE  AuditInv'
  BY <1>3, <1>4, GuardShape
<1>5. ASSUME NEW c \in Calls, Fail(c) PROVE AuditInv'
  <2>1. /\ UNCHANGED <<effects, audit>> /\ pc[c] # "done"
        /\ pc'[c] = "done" /\ call'[c].answer = "error"
        /\ \A d \in Calls \ {c} : pc'[d] = pc[d] /\ call'[d] = call[d]
    BY <1>5, AnswerShape DEF Fail
  <2>2. EffectsFollowed'
    BY <1>0, <2>1 DEF AuditInv, EffectsFollowed
  <2>3. EffectsAudited'
    BY <1>0, <2>1 DEF AuditInv, EffectsAudited, Audited
  <2> QED
    BY <2>2, <2>3 DEF AuditInv
<1>6. ASSUME NEW c \in Calls, AuditRecord(c) PROVE AuditInv'
  <2> DEFINE entry == [by |-> c, actor |-> call[c].claims.name, action |-> call[c].tool,
                       ns |-> call[c].ns]
  <2>1. /\ UNCHANGED effects /\ audit' = audit \cup {entry} /\ pc[c] = "audit"
        /\ pc'[c] = "done"
        /\ \A d \in Calls \ {c} : pc'[d] = pc[d] /\ call'[d] = call[d]
    BY <1>6, AnswerShape DEF AuditRecord
  <2>2. entry.by = c /\ entry.action = call[c].tool /\ entry.ns = call[c].ns
    OBVIOUS
  <2> HIDE DEF entry
  <2>3. \A e \in effects : e.by = c => e.tool = call[c].tool /\ e.ns = call[c].ns
    BY <2>1 DEF AuditInv, EffectsFollowed
  <2>4. \/ call[c].tool \in {"remember", "forget"}
        \/ \E e \in effects : e.by = c /\ e.tool = call[c].tool /\ e.ns = call[c].ns
    BY <2>1 DEF AuditInv, EffectsFollowed
  <2>5. EffectsFollowed'
    BY <1>0, <2>1 DEF AuditInv, EffectsFollowed
  <2>6. EffectsAudited'
    <3>1. ASSUME NEW e \in effects
          PROVE  \/ Audited(e)'
                 \/ pc'[e.by] = "audit"
                 \/ call'[e.by].answer \in {"error", "lost"}
      <4>1. CASE e.by = c
        BY <2>1, <2>2, <2>3, <4>1 DEF Audited
      <4>2. CASE e.by # c
        BY <1>0, <2>1, <4>2 DEF Audited, AuditInv, EffectsAudited
      <4> QED
        BY <4>1, <4>2
    <3>2. \A a \in audit' :
             a.action \in {"remember", "forget"}
               \/ \E e \in effects' : e.by = a.by /\ e.tool = a.action /\ e.ns = a.ns
      BY <2>1, <2>2, <2>4 DEF AuditInv, EffectsAudited
    <3> QED
      BY <2>1, <3>1, <3>2 DEF EffectsAudited
  <2> QED
    BY <2>5, <2>6 DEF AuditInv
<1>7. ASSUME NEW c \in Calls, Tool(c) PROVE AuditInv'
  <2>0. pc[c] = "body" /\ UNCHANGED audit /\ \A e \in effects : e.by # c
    BY <1>0, <1>7, ToolShape
  <2>1. CASE UNCHANGED effects /\ \E answer : Answer(c, answer)
    BY <1>3, <2>0, <2>1, AnswerShape
  <2>2. CASE \E ns : Changed(c, ns) /\ (GoToAudit(c, ns) \/ Answer(c, "error"))
    <3>1. PICK ns : Changed(c, ns) /\ (GoToAudit(c, ns) \/ Answer(c, "error"))
      BY <2>2
    <3> DEFINE new == [by |-> c, tool |-> call[c].tool, ns |-> ns, claims |-> call[c].claims,
                       stale |-> call[c].stale]
    <3>2. effects' = effects \cup {new}
      BY <3>1 DEF Changed
    <3>3. new.by = c /\ new.tool = call[c].tool /\ new.ns = ns
      OBVIOUS
    <3> HIDE DEF new
    <3>4. /\ \A d \in Calls \ {c} : pc'[d] = pc[d] /\ call'[d] = call[d]
          /\ \/ pc'[c] = "audit" /\ call'[c].tool = call[c].tool /\ call'[c].ns = ns
             \/ pc'[c] = "done" /\ call'[c].answer = "error"
      BY <3>1, AnswerShape, GoToAuditShape
    <3>5. \A e \in effects : e.by \in Calls \ {c} /\ pc'[e.by] = pc[e.by] /\ call'[e.by] = call[e.by]
      BY <1>0, <2>0, <3>4
    <3>6. EffectsFollowed'
      BY <3>2, <3>3, <3>4, <3>5 DEF AuditInv, EffectsFollowed
    <3>7. EffectsAudited'
      BY <2>0, <3>2, <3>3, <3>4, <3>5 DEF AuditInv, EffectsAudited, Audited
    <3> QED
      BY <3>6, <3>7 DEF AuditInv
  <2>3. CASE UNCHANGED effects /\ call[c].tool \in {"remember", "forget"}
             /\ \E ns : GoToAudit(c, ns)
    <3>1. /\ \A d \in Calls \ {c} : pc'[d] = pc[d] /\ call'[d] = call[d]
          /\ call'[c].tool = call[c].tool
      BY <2>3, GoToAuditShape
    <3>2. \A e \in effects : e.by \in Calls \ {c} /\ pc'[e.by] = pc[e.by] /\ call'[e.by] = call[e.by]
      BY <1>0, <2>0, <3>1
    <3>3. EffectsFollowed'
      BY <2>3, <3>1, <3>2 DEF AuditInv, EffectsFollowed
    <3>4. EffectsAudited'
      BY <2>0, <2>3, <3>2 DEF AuditInv, EffectsAudited, Audited
    <3> QED
      BY <3>3, <3>4 DEF AuditInv
  <2> QED
    BY <1>7, <2>1, <2>2, <2>3, ToolShape
<1> QED
  BY <1>1, <1>2, <1>4, <1>5, <1>6, <1>7, CallSteps DEF PastVerifier

(* A change is audited, unless its caller was told of a failure or lost    *)
(* its connection; and an entry tells of a change that was made, unless it *)
(* is of remember or forget, which audit being asked (audit_record).       *)
THEOREM ChangesAreAudited == Spec => []EffectsAudited
<1>1. Init => IInv /\ AuditInv
  BY TypesAtFirst DEF Init, AuditInv, EffectsFollowed, EffectsAudited
<1>2. IInv /\ AuditInv /\ [Next]_vars => IInv' /\ AuditInv'
  BY TypesStay, AuditStays
<1>3. AuditInv => EffectsAudited
  BY DEF AuditInv
<1> QED
  BY <1>1, <1>2, <1>3, PTL DEF Spec

=============================================================================
