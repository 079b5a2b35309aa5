---------------------------- MODULE MCMemoryStore ----------------------------
(* MemoryStore on small instances. *)
EXTENDS MemoryStore

CONSTANTS common, vague, k1, ns1

MCRank == [x \in {common, vague} |-> IF x = common THEN 2 ELSE 0]
MCCosine == [x \in {common, vague} |-> 1]

(* Remembered with and without an idempotency key; the second as if the    *)
(* embedding had failed.                                                   *)
MCRequests ==
    {[ns |-> ns1, key |-> k1, idem |-> k1, content |-> common, embedded |-> TRUE],
     [ns |-> ns1, key |-> k1, idem |-> Null, content |-> common, embedded |-> FALSE]}

=============================================================================
