------------------------------ MODULE MemoryRows ------------------------------
(***************************************************************************)
(* The statements of storage/postgres/repository.py as operators on the    *)
(* table memories: a function from ids to rows.  Rows are never removed.   *)
(*                                                                         *)
(* Abstractions: a content stands for content, confidence and metadata; an *)
(* embedding is present or absent; how well a content answers the query is *)
(* given by the constants Rank and Cosine; updated_at and salience, which  *)
(* no statement reads, are left out.                                       *)
(***************************************************************************)
EXTENDS Integers, FiniteSets, FiniteSetsExt

CONSTANTS
    MemoryIds,
    Scopes,      \* namespaces
    Keys,        \* values of key and of idempotency_key
    Contents,
    Reasons,     \* what a forget leaves on its row: deleted_at with deleted_reason
    Rank,        \* content |-> ts_rank against the query
    Cosine,      \* content |-> cosine similarity with the query
    Null

ASSUME RowAssumption ==
    /\ Rank \in [Contents -> Nat] /\ Cosine \in [Contents -> Nat]
    /\ Null \notin Keys \cup Reasons \cup MemoryIds

NewMemory == [ns : Scopes, key : Keys \cup {Null}, idem : Keys \cup {Null},
              content : Contents, embedded : BOOLEAN]

(* Accesses and consolidated: access_count and whether consolidated_at is  *)
(* set.                                                                    *)
MemoryRecord == [ns : Scopes, key : Keys \cup {Null}, idem : Keys \cup {Null},
                 content : Contents, embedded : BOOLEAN,
                 deleted : BOOLEAN, reason : Reasons \cup {Null},
                 accesses : Nat, consolidated : BOOLEAN]

RowFor(m) ==
    [ns |-> m.ns, key |-> m.key, idem |-> m.idem, content |-> m.content,
     embedded |-> m.embedded, deleted |-> FALSE, reason |-> Null,
     accesses |-> 0, consolidated |-> FALSE]

Live(rows) == {i \in DOMAIN rows : ~rows[i].deleted}

LiveIn(rows, ns) == {i \in Live(rows) : rows[i].ns = ns}

LiveHolders(rows, ns, idem) ==
    {i \in Live(rows) : idem # Null /\ rows[i].ns = ns /\ rows[i].idem = idem}

(* Mutant: no unique index. *)
NoHolders(rows, ns, idem) == {}

(* Rows of ux_memories_namespace_idempotency: forgotten ones included. *)
Holders(rows, ns, idem) ==
    {i \in DOMAIN rows : idem # Null /\ rows[i].ns = ns /\ rows[i].idem = idem}

Inserted(rows, i, m) ==
    [j \in DOMAIN rows \cup {i} |-> IF j = i THEN RowFor(m) ELSE rows[j]]

Changed(rows, ids, Change(_)) ==
    [i \in DOMAIN rows |-> IF i \in ids THEN Change(rows[i]) ELSE rows[i]]

Edited(rows, i, content) ==
    LET Edit(row) == [row EXCEPT !.content = content]
    IN  Changed(rows, {i} \cap Live(rows), Edit)

(* The UPDATE of soft_delete: WHERE id = $1, whatever deleted_at is; it    *)
(* writes both deleted_at and deleted_reason.                              *)
Forgotten(rows, i, reason) ==
    LET Forget(row) == [row EXCEPT !.deleted = TRUE, !.reason = reason]
    IN  Changed(rows, {i}, Forget)

Accessed(rows, ids) ==
    LET Access(row) == [row EXCEPT !.accesses = @ + 1]
    IN  Changed(rows, ids \cap Live(rows), Access)

Unconsolidated(rows, ns) == {i \in LiveIn(rows, ns) : ~rows[i].consolidated}

MarkedConsolidated(rows, ids) ==
    LET Mark(row) == [row EXCEPT !.consolidated = TRUE]
    IN  Changed(rows, ids, Mark)

-----------------------------------------------------------------------------
(* Search *)

(* ORDER BY score DESC LIMIT n: every set of ids a query may return.       *)
Best(ids, Score(_), n) ==
    {hits \in SUBSET ids :
        /\ Cardinality(hits) = Min({n, Cardinality(ids)})
        /\ \A i \in hits, j \in ids \ hits : Score(i) >= Score(j)}

SearchText(rows, ns, n) ==
    LET Score(i) == Rank[rows[i].content]
    IN  Best({i \in LiveIn(rows, ns) : Score(i) > 0}, Score, n)

SearchSemantic(rows, ns, n) ==
    LET Score(i) == Cosine[rows[i].content]
    IN  Best({i \in LiveIn(rows, ns) : rows[i].embedded}, Score, n)

(* Equal weights; a row with no embedding is scored by its text alone. *)
HybridScore(row) == Rank[row.content] + (IF row.embedded THEN Cosine[row.content] ELSE 0)

SearchHybrid(rows, ns, n) ==
    LET Score(i) == HybridScore(rows[i])
    IN  Best({i \in LiveIn(rows, ns) : Score(i) > 0}, Score, n)

(* A query whose embedding failed is searched as text, whatever its mode.  *)
Candidates(rows, ns, mode, embedded, n) ==
    IF mode = "text" \/ ~embedded THEN SearchText(rows, ns, n)
    ELSE IF mode = "semantic" THEN SearchSemantic(rows, ns, n)
    ELSE SearchHybrid(rows, ns, n)

=============================================================================
