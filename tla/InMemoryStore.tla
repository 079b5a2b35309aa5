---------------------------- MODULE InMemoryStore ----------------------------
(***************************************************************************)
(* What a memory repository promises: the dictionary of                    *)
(* storage/fakes/in_memory_repository.py, one atomic step per operation.   *)
(* The unit tests of the tools run against it, so it is also what they     *)
(* assume of Postgres.                                                     *)
(*                                                                         *)
(* The fields of a record are those of a row in MemoryRows.                *)
(***************************************************************************)
EXTENDS Integers

CONSTANTS MemoryIds, Scopes, Keys, Contents, Reasons, Null

VARIABLE records   \* id |-> record

Available(i) == i \in DOMAIN records /\ ~records[i].deleted

Replaced(ids, Change(_)) ==
    records' = [i \in DOMAIN records |->
                    IF i \in ids THEN Change(records[i]) ELSE records[i]]

Init == records = <<>>

(* A key held by a live record answers with that record: nothing changes.  *)
Create(i) ==
    /\ i \notin DOMAIN records
    /\ \E ns \in Scopes, key \in Keys \cup {Null}, idem \in Keys \cup {Null},
          content \in Contents, embedded \in BOOLEAN :
          /\ \A j \in DOMAIN records :
                Available(j) /\ records[j].ns = ns => idem = Null \/ records[j].idem # idem
          /\ records' = [j \in DOMAIN records \cup {i} |->
                IF j = i THEN [ns |-> ns, key |-> key, idem |-> idem, content |-> content,
                               embedded |-> embedded, deleted |-> FALSE, reason |-> Null,
                               accesses |-> 0, consolidated |-> FALSE]
                ELSE records[j]]

Update(i) ==
    /\ Available(i)
    /\ \E content \in Contents :
          LET Edit(r) == [r EXCEPT !.content = content] IN Replaced({i}, Edit)

(* A deleted record answers as it is: nothing changes. *)
SoftDelete(i) ==
    /\ Available(i)
    /\ \E reason \in Reasons :
          LET Delete(r) == [r EXCEPT !.deleted = TRUE, !.reason = reason]
          IN  Replaced({i}, Delete)

RecordAccess(ids) ==
    LET Access(r) == [r EXCEPT !.accesses = @ + 1]
    IN  Replaced({i \in ids : Available(i)}, Access)

MarkConsolidated(ids) ==
    LET Mark(r) == [r EXCEPT !.consolidated = TRUE] IN Replaced(ids, Mark)

Next ==
    \/ \E i \in MemoryIds : Create(i) \/ Update(i) \/ SoftDelete(i)
    \/ \E ids \in SUBSET MemoryIds : RecordAccess(ids) \/ MarkConsolidated(ids)

Spec == Init /\ [][Next]_records

=============================================================================
