---------------------------- MODULE IdentityTable ----------------------------
(***************************************************************************)
(* The identities table and what is decided from a row of it:              *)
(* storage/postgres/identity_repository.py, identity/models.py, scopes.py  *)
(* and authz.py.                                                           *)
(*                                                                         *)
(* A table maps the names created so far to rows; a name is unique and no  *)
(* row is ever deleted, so it stands for the id as well.  Of a token only  *)
(* its digest is stored: tokens are compared, never read back.             *)
(***************************************************************************)
EXTENDS Integers

CONSTANT Never   \* expires_at of a token without expiry

ReadTools == {"recall", "search", "related", "find_skill", "get_skill", "verify_audit"}

WriteTools == {"remember", "update", "forget", "ingest_session", "consolidate", "ruminate",
               "feedback", "report_skill_outcome"}

(* Mutant: a tool that nobody classified is a read. *)
ScopeAllowsUnlisted(scope, tool) ==
    scope = "readwrite" \/ tool \notin {"remember", "update", "forget"}

(* A tool that nobody classified is a write. *)
ScopeAllows(scope, tool) == scope = "readwrite" \/ tool \in ReadTools

OwnsNamespace(claims, ns) == ns \in claims.namespaces

IsExpired(row, now) == row.expires # Never /\ now >= row.expires

(* A table after create, revoke and rotate; the last finds active rows only.*)
Created(table, name, row) == [n \in DOMAIN table \cup {name} |->
                                 IF n = name THEN row ELSE table[n]]

Revoked(table, name) == [table EXCEPT ![name].revoked = TRUE]

Rotated(table, name, token) == [table EXCEPT ![name].token = token]

(* Mutant: a revoked identity is found. *)
HoldersEver(table, token) == {n \in DOMAIN table : table[n].token = token}

(* get_by_token_hash *)
HoldersOf(table, token) == {n \in DOMAIN table : table[n].token = token /\ ~table[n].revoked}

=============================================================================
