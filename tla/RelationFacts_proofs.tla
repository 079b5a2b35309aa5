------------------------- MODULE RelationFacts_proofs -------------------------
(***************************************************************************)
(* The facts and the history of RelationStore.  History is never           *)
(* rewritten, verdicts hold when they are committed, and audit entries of  *)
(* resolutions are true, for any number of processes.                      *)
(*                                                                         *)
(* A fact never vanishes from RelationStore as long as one process at a    *)
(* time runs rumination passes: create_relation and the stale decisions of *)
(* that process cannot leave a key without an active relation.             *)
(*                                                                         *)
(* Without the restriction it is false: two passes that decided the same   *)
(* contest differently make each side the successor of the other.          *)
(***************************************************************************)
EXTENDS RelationStore_proofs

(* One process at a time runs passes. *)
SingleRuminator == \A p, q \in Ruminators : p = q

-----------------------------------------------------------------------------
(* The inductive invariant *)

Ended(r) == Used(r) /\ ~Active(r)

(* A superseded relation's successor exists and is about the same key. *)
Links ==
  \A r \in Ids : Ended(r) =>
    /\ relation[r].supersededBy \in Ids
    /\ Used(relation[r].supersededBy)
    /\ relation[relation[r].supersededBy].key = relation[r].key

(* Following successors from S never leaves S, except from the rows of T.  *)
Trapped(S, T) == \A i \in S \ T : Ended(i) /\ relation[i].supersededBy \in S

(* Successors always lead to an active relation. *)
NoTrap == \A S \in SUBSET Ids : S # {} => ~Trapped(S, {})

(* The decisions p has taken and not yet carried out. *)
Pending(p) ==
  todo[p] \cup (IF pc[p] \in {"lockLoser", "resolve"} THEN {request[p]} ELSE {})

(* Carrying a decision out is safe however late: its winner leads to an    *)
(* active relation without passing through its loser.                      *)
SafeDecision(d) ==
  /\ relation[d.winner].key = relation[d.loser].key
  /\ \A S \in SUBSET Ids : d.winner \in S => ~Trapped(S, {d.loser})

PendingSafe ==
  \A p \in Ruminators :
    /\ \A d \in Pending(p) : SafeDecision(d)
    /\ \A d, e \in Pending(p) : relation[d.winner].key = relation[e.winner].key => d = e
    /\ pc[p] \in {"lockLoser", "resolve"} => request[p] \notin todo[p]

(* What a writer found is about its claim's key. *)
ScansOwnKey(p) ==
  /\ pc[p] = "lock" => \A r \in cand[p] : Used(r) /\ relation[r].key = request[p].key
  /\ pc[p] = "decide" => relation[held[p]].key = request[p].key

ScansKey == \A p \in Writers : ScansOwnKey(p)

FactInv == Links /\ NoTrap /\ PendingSafe /\ ScansKey

(* A key whose rows all had ended would be a trap. *)
LEMMA FactInvSuffices == TypeOK /\ Links /\ NoTrap => FactNeverVanishes
<1> SUFFICES ASSUME TypeOK, Links, NoTrap, NEW r \in Ids, Used(r)
             PROVE  \E s \in Ids : Active(s) /\ relation[s].key = relation[r].key
  BY DEF FactNeverVanishes
<1> DEFINE S == {i \in Ids : Used(i) /\ relation[i].key = relation[r].key}
<1>1. S \in SUBSET Ids /\ S # {}
  OBVIOUS
<1>2. PICK i \in S : ~(Ended(i) /\ relation[i].supersededBy \in S)
  BY <1>1 DEF NoTrap, Trapped
<1>3. ~Ended(i)
  BY <1>2 DEF Links
<1>4. QED
  BY <1>3 DEF Ended

-----------------------------------------------------------------------------
(* What a step does to the rows *)

(* The step does not end i, nor give it another successor. *)
Quiet(i) == Ended(i)' => Ended(i) /\ relation'[i].supersededBy = relation[i].supersededBy

KeysKept == \A r \in Ids : Used(r) => Used(r)' /\ relation'[r].key = relation[r].key

(* A new row n takes the place of h. *)
Closes(h, n) ==
  /\ Used(h) /\ ~Used(n)
  /\ Active(n)' /\ relation'[n].key = relation[h].key
  /\ relation'[h].supersededBy = n
  /\ \A i \in Ids \ {h} : Quiet(i)

(* A pass makes w the successor of l. *)
Retires(w, l) ==
  /\ relation'[l].supersededBy = w
  /\ \A i \in Ids \ {l} : Quiet(i)

LEMMA QuietKeepsFacts ==
  ASSUME KeysKept, Links, NoTrap, \A i \in Ids : Quiet(i)
  PROVE  /\ Links' /\ NoTrap'
         /\ \A d \in ExistingPairs : SafeDecision(d) => SafeDecision(d)'
<1>1. ASSUME NEW S \in SUBSET Ids, NEW T, Trapped(S, T)' PROVE Trapped(S, T)
  BY <1>1 DEF Trapped, Quiet
<1>2. Links'
  BY DEF Links, Quiet, KeysKept, Ended
<1>3. NoTrap'
  BY <1>1 DEF NoTrap
<1>4. ASSUME NEW d \in ExistingPairs, SafeDecision(d) PROVE SafeDecision(d)'
  BY <1>1, <1>4 DEF SafeDecision, ExistingPairs, Pairs, KeysKept
<1>5. QED
  BY <1>2, <1>3, <1>4

LEMMA CloseKeepsFacts ==
  ASSUME KeysKept, Links, NoTrap, NEW h \in Ids, NEW n \in Ids, Closes(h, n)
  PROVE  /\ Links' /\ NoTrap'
         /\ \A d \in ExistingPairs : SafeDecision(d) => SafeDecision(d)'
<1>1. ASSUME NEW S \in SUBSET Ids, NEW T, n \notin T, Trapped(S, T)' PROVE Trapped(S, T)
  <2>1. n \notin S
    BY <1>1 DEF Trapped, Closes, Ended
  <2>2. h \notin S \ T
    BY <1>1, <2>1 DEF Trapped, Closes
  <2>3. QED
    BY <1>1, <2>2 DEF Trapped, Closes, Quiet
<1>2. Links'
  <2> SUFFICES ASSUME NEW r \in Ids, Ended(r)'
               PROVE  /\ relation'[r].supersededBy \in Ids
                      /\ relation'[relation'[r].supersededBy] # None
                      /\ relation'[relation'[r].supersededBy].key = relation'[r].key
    BY DEF Links, Used
  <2>1. CASE r = h
    BY <2>1 DEF Closes, KeysKept, Active, Used
  <2>2. CASE r # h
    BY <2>2 DEF Closes, Links, Quiet, KeysKept, Ended, Used
  <2>3. QED
    BY <2>1, <2>2
<1>3. NoTrap'
  BY <1>1 DEF NoTrap
<1>4. ASSUME NEW d \in ExistingPairs, SafeDecision(d) PROVE SafeDecision(d)'
  <2>1. n \notin {d.loser} /\ d.winner \in Ids /\ d.loser \in Ids
    BY DEF ExistingPairs, Pairs, Closes
  <2>2. \A S \in SUBSET Ids : d.winner \in S => ~Trapped(S, {d.loser})'
    BY <1>1, <1>4, <2>1 DEF SafeDecision
  <2>3. QED
    BY <1>4, <2>1, <2>2 DEF SafeDecision, ExistingPairs, KeysKept
<1>5. QED
  BY <1>2, <1>3, <1>4

(* However late a decision is carried out: if it was safe, no key ends,    *)
(* and the decisions about other keys stay safe.                           *)
LEMMA RetireKeepsFacts ==
  ASSUME KeysKept, Links, NoTrap, NEW d \in ExistingPairs, SafeDecision(d),
         Retires(d.winner, d.loser)
  PROVE  /\ Links' /\ NoTrap'
         /\ \A e \in ExistingPairs :
              SafeDecision(e) /\ relation[e.winner].key # relation[d.winner].key
                => SafeDecision(e)'
<1> DEFINE w == d.winner
           l == d.loser
<1>1. /\ w \in Ids /\ l \in Ids /\ w # l
      /\ Used(w) /\ Used(l) /\ relation[w].key = relation[l].key
  BY DEF ExistingPairs, Pairs, SafeDecision
<1>2. ASSUME NEW S \in SUBSET Ids, NEW T, l \notin S \ T, Trapped(S, T)' PROVE Trapped(S, T)
  BY <1>2 DEF Trapped, Retires, Quiet
<1>3. Links'
  <2> SUFFICES ASSUME NEW r \in Ids, Ended(r)'
               PROVE  /\ relation'[r].supersededBy \in Ids
                      /\ relation'[relation'[r].supersededBy] # None
                      /\ relation'[relation'[r].supersededBy].key = relation'[r].key
    BY DEF Links, Used
  <2>1. CASE r = l
    BY <1>1, <2>1 DEF Retires, KeysKept, Used
  <2>2. CASE r # l
    BY <2>2 DEF Retires, Links, Quiet, KeysKept, Ended, Used
  <2>3. QED
    BY <2>1, <2>2
<1>4. ASSUME NEW S \in SUBSET Ids, S # {}, Trapped(S, {})' PROVE FALSE
  <2>1. l \in S
    BY <1>2, <1>4 DEF NoTrap
  <2>2. w \in S
    BY <1>4, <2>1 DEF Trapped, Retires
  <2>3. Trapped(S, {l})'
    BY <1>4 DEF Trapped
  <2>4. Trapped(S, {l})
    BY <1>2, <2>3
  <2>5. QED
    BY <2>2, <2>4 DEF SafeDecision
<1>5. ASSUME NEW e \in ExistingPairs, SafeDecision(e), relation[e.winner].key # relation[w].key
      PROVE  SafeDecision(e)'
  <2>1. /\ e.winner \in Ids /\ e.loser \in Ids /\ Used(e.winner) /\ Used(e.loser)
        /\ relation[e.winner].key = relation[e.loser].key
    BY <1>5 DEF ExistingPairs, Pairs, SafeDecision
  <2>2. ASSUME NEW S \in SUBSET Ids, e.winner \in S, Trapped(S, {e.loser})' PROVE FALSE
    <3> DEFINE K == {i \in S : relation[i].key = relation[e.winner].key}
    <3>1. K \in SUBSET Ids /\ e.winner \in K
      BY <2>2
    <3>2. ASSUME NEW i \in K \ {e.loser} PROVE Ended(i) /\ relation[i].supersededBy \in K
      <4>1. i \in S \ {e.loser} /\ i \in Ids /\ i # l
        BY <1>1, <1>5
      <4>2. Ended(i)' /\ relation'[i].supersededBy \in S
        BY <2>2, <4>1 DEF Trapped
      <4>3. Ended(i) /\ relation[i].supersededBy \in S
        BY <4>1, <4>2 DEF Retires, Quiet
      <4>4. QED
        BY <4>1, <4>3 DEF Links
    <3>3. Trapped(K, {e.loser})
      BY <3>2 DEF Trapped
    <3>4. QED
      BY <1>5, <3>1, <3>3 DEF SafeDecision
  <2>3. QED
    BY <2>1, <2>2 DEF SafeDecision, KeysKept
<1>6. NoTrap'
  BY <1>4 DEF NoTrap
<1>7. QED
  BY <1>3, <1>5, <1>6

LEMMA SameRowsKeepFacts ==
  ASSUME UNCHANGED relation
  PROVE  KeysKept /\ \A i \in Ids : Quiet(i)
BY DEF KeysKept, Quiet, Ended, Used, Active

(* A writer ends no relation but the one a new relation takes over.        *)
LEMMA WritersEndOrClose ==
  ASSUME TypeOK, ReadsStayCurrent, ScansKey, NEW p \in Writers,
         CreateFirst(p) \/ Corroborate(p) \/ Contest(p) \/ Supersede(p) \/ RecordFeedback(p)
  PROVE  /\ KeysKept
         /\ (\A i \in Ids : Quiet(i)) \/ \E h, n \in Ids : Closes(h, n)
<1>1. p \in Procs /\ Remembers(p)
  BY DEF Procs, TypeOK
<1>2. CASE CreateFirst(p)
  <2>1. PICK n \in Ids : ~Used(n) /\ relation' =
          [relation EXCEPT ![n] = NewRow(request[p], stamp[p], FALSE, None)]
    BY <1>2 DEF CreateFirst
  <2>2. /\ relation'[n].validTo = None
        /\ \A i \in Ids \ {n} : relation'[i] = relation[i]
    BY <2>1 DEF NewRow, TypeOK
  <2>3. QED
    BY <2>1, <2>2 DEF KeysKept, Quiet, Ended, Used, Active
<1>3. CASE Corroborate(p) \/ RecordFeedback(p)
  <2>0. pc[p] \in {"decide", "applyFeedback"}
    BY <1>3 DEF Corroborate, RecordFeedback
  <2>1. held[p] \in Ids /\ relation[held[p]] \in Row
    <3>1. held[p] \in Ids /\ relation[held[p]] # None
      BY <1>1, <2>0 DEF Remembers, Used
    <3>2. QED
      BY <3>1 DEF TypeOK
  <2> DEFINE h == held[p]
  <2>2. /\ \A i \in Ids \ {h} : relation'[i] = relation[i]
        /\ relation'[h] \in Row
        /\ relation'[h].key = relation[h].key
        /\ relation'[h].validTo = relation[h].validTo
        /\ relation'[h].supersededBy = relation[h].supersededBy
    <3>1. relation' \in [Ids -> Row \cup {None}] /\ Grows
      BY <1>3, WriteTypes
    <3>2. relation'[h] \in Row
      BY <2>1, <3>1 DEF Grows, Used, TypeOK
    <3>3. relation \in [Ids -> Row \cup {None}]
      BY DEF TypeOK
    <3>4. CASE Corroborate(p)
      <4>1. PICK a, b, d : relation' = [relation EXCEPT ![h].alpha = a, ![h].beta = b,
                                                        ![h].derivation = d]
        BY <3>4 DEF Corroborate
      <4> HIDE DEF h
      <4>2. QED
        BY <2>1, <3>2, <3>3, <4>1 DEF Row, h
    <3>5. CASE RecordFeedback(p)
      <4>1. PICK a, b : relation' = [relation EXCEPT ![h].alpha = a, ![h].beta = b]
        BY <3>5 DEF RecordFeedback
      <4> HIDE DEF h
      <4>2. QED
        BY <2>1, <3>2, <3>3, <4>1 DEF Row, h
    <3>6. QED
      BY <1>3, <3>4, <3>5
  <2>3. relation[h] # None /\ relation'[h] # None
    BY <2>1, <2>2, RowAssumption
  <2> HIDE DEF h
  <2>4. QED
    BY <2>2, <2>3 DEF KeysKept, Quiet, Ended, Used, Active
<1>4. CASE Contest(p)
  <2>1. PICK n \in Ids : ~Used(n) /\ relation' =
          [relation EXCEPT ![n] = NewRow(request[p], stamp[p], TRUE, None),
                           ![held[p]].contested = TRUE]
    BY <1>4 DEF Contest
  <2>2. held[p] \in Ids /\ relation[held[p]] \in Row /\ held[p] # n
    BY <1>1, <1>4, <2>1 DEF Contest, Remembers, TypeOK, Used
  <2> DEFINE h == held[p]
  <2>3. /\ \A i \in Ids \ {n, h} : relation'[i] = relation[i]
        /\ relation'[n].validTo = None
        /\ relation'[h] = [relation[h] EXCEPT !.contested = TRUE]
    BY <2>1, <2>2 DEF NewRow, TypeOK
  <2>4. /\ relation'[h] \in Row
        /\ relation'[h].key = relation[h].key
        /\ relation'[h].validTo = relation[h].validTo
        /\ relation'[h].supersededBy = relation[h].supersededBy
    BY <2>2, <2>3 DEF Row
  <2>5. relation[h] # None /\ relation'[h] # None
    BY <2>2, <2>4, RowAssumption
  <2> HIDE DEF h
  <2>6. QED
    BY <2>1, <2>3, <2>4, <2>5 DEF KeysKept, Quiet, Ended, Used, Active
<1>5. CASE Supersede(p)
  <2>1. PICK n \in Ids : ~Used(n) /\ relation' =
          [relation EXCEPT ![n] = NewRow(request[p], stamp[p], FALSE, held[p]),
                           ![held[p]].validTo = stamp[p],
                           ![held[p]].supersededBy = n]
    BY <1>5 DEF Supersede
  <2>2. /\ held[p] \in Ids /\ relation[held[p]] \in Row /\ held[p] # n
        /\ relation[held[p]].key = request[p].key
        /\ request[p] \in ClaimType /\ stamp[p] \in Instants
    <3>1. pc[p] = "decide" /\ stamp[p] \in Instants
      BY <1>1, <1>5 DEF Supersede, TypeOK
    <3>2. held[p] \in Ids /\ Used(held[p]) /\ request[p] \in ClaimType
      BY <1>1, <3>1 DEF Remembers
    <3>3. relation[held[p]] \in Row /\ held[p] # n
      BY <2>1, <3>2 DEF TypeOK, Used
    <3>4. relation[held[p]].key = request[p].key
      BY <3>1 DEF ScansKey, ScansOwnKey
    <3>5. QED
      BY <3>1, <3>2, <3>3, <3>4
  <2> DEFINE h == held[p]
             row == NewRow(request[p], stamp[p], FALSE, h)
  <2>3. row \in Row /\ row.key = request[p].key /\ row.validTo = None
    BY <2>2, NewRowType DEF NewRow
  <2>4. /\ \A i \in Ids \ {n, h} : relation'[i] = relation[i]
        /\ relation'[n] = row
        /\ relation'[h] = [relation[h] EXCEPT !.validTo = stamp[p], !.supersededBy = n]
    BY <2>1, <2>2 DEF TypeOK
  <2> HIDE DEF h, row
  <2>5. /\ relation'[h] \in Row
        /\ relation'[h].key = relation[h].key
        /\ relation'[h].supersededBy = n
    BY <2>2, <2>4 DEF Row, h
  <2>6. relation[h] # None /\ relation'[h] # None /\ relation'[n] # None
    BY <2>2, <2>3, <2>4, <2>5, RowAssumption DEF h
  <2>7. KeysKept
    BY <2>1, <2>4, <2>5, <2>6 DEF KeysKept, Used
  <2>8. ASSUME NEW i \in Ids \ {h} PROVE Quiet(i)
    BY <2>3, <2>4, <2>6 DEF Quiet, Ended, Used, Active
  <2>9. Closes(h, n)
    BY <2>1, <2>2, <2>3, <2>4, <2>5, <2>6, <2>8 DEF Closes, Used, Active, h
  <2>10. QED
    BY <2>2, <2>7, <2>9 DEF h
<1>6. QED
  BY <1>2, <1>3, <1>4, <1>5

-----------------------------------------------------------------------------
(* The decisions of a pass *)

(* Of two relations at most one outweighs the other. *)
LEMMA OutweighsOneWay ==
  ASSUME NEW x \in Row, NEW y \in Row, NEW rx \in Nat, NEW ry \in Nat,
         Outweighs(x, rx, y, ry), Outweighs(y, ry, x, rx)
  PROVE  FALSE
<1> DEFINE M == Mass(x)
           N == Mass(y)
           slack == MarginNum * Scale * M * N
           fore == x.alpha * rx * N * MarginDen
           hind == y.alpha * ry * M * MarginDen
<1>1. x.alpha \in Nat /\ x.beta \in Nat /\ y.alpha \in Nat /\ y.beta \in Nat
  BY DEF Row
<1>2. M \in Nat /\ N \in Nat
  BY <1>1 DEF Mass
<1>3. MarginNum \in Nat /\ MarginDen \in Nat /\ Scale \in Nat
  BY BeliefAssumption
<1> HIDE DEF M, N
<1>4. fore \in Nat /\ hind \in Nat
  BY <1>1, <1>2, <1>3, Product
<1>5. slack \in Nat /\ MarginNum * Scale * N * M = slack
  <2>1. MarginNum * Scale \in Nat
    BY <1>3, Product
  <2> DEFINE c == MarginNum * Scale
  <2>2. c \in Nat
    BY <2>1
  <2> HIDE DEF c
  <2>3. c * M * N \in Nat /\ c * N * M = c * M * N
    BY <1>2, <2>2, Product
  <2>4. QED
    BY <2>3 DEF c
<1>6. fore > hind + slack /\ hind > fore + slack
  BY <1>5 DEF Outweighs, M, N
<1> HIDE DEF fore, hind, slack
<1>7. QED
  BY <1>4, <1>5, <1>6

LEMMA RetentionIsNat == \A s, t \in Instants : RetentionAt(s, t) \in Nat
<1> SUFFICES ASSUME NEW s \in Instants, NEW t \in Instants PROVE RetentionAt(s, t) \in Nat
  OBVIOUS
<1>1. s \in 0 .. MaxAge /\ t \in 0 .. MaxAge
  BY StoreAssumption
<1>2. MaxAge \in Nat /\ Scale \in Nat /\ Retention \in [0 .. MaxAge -> 0 .. Scale]
  BY BeliefAssumption
<1>3. (IF t < s THEN 0 ELSE t - s) \in 0 .. MaxAge
  BY <1>1, <1>2
<1>4. QED
  BY <1>2, <1>3 DEF RetentionAt

(* When a pass decides, every decision is safe and no key has two.         *)
LEMMA FreshDecisionsSafe ==
  ASSUME TypeOK, NEW now \in Instants, NEW force
  PROVE  /\ \A d \in Decisions(now, force) : SafeDecision(d)
         /\ \A d, e \in Decisions(now, force) :
              relation[d.winner].key = relation[e.winner].key => d = e
<1>1. ASSUME NEW d \in Decisions(now, force)
      PROVE  /\ d \in Pairs
             /\ Active(d.winner) /\ Active(d.loser)
             /\ relation[d.winner] \in Row /\ relation[d.loser] \in Row
             /\ relation[d.winner].key = relation[d.loser].key
             /\ ContestedGroup(relation[d.winner].key) = {d.winner, d.loser}
             /\ Prevails(relation[d.winner], relation[d.loser], now)
  <2>1. PICK k \in Keys :
          /\ ContestedGroup(k) = {d.winner, d.loser}
          /\ Prevails(relation[d.winner], relation[d.loser], now)
    BY DEF Decisions
  <2>2. d \in Pairs /\ d.winner \in Ids /\ d.loser \in Ids
    BY DEF Decisions, Pairs
  <2>3. d.winner \in ContestedGroup(k) /\ d.loser \in ContestedGroup(k)
    BY <2>1
  <2>4. /\ Active(d.winner) /\ Active(d.loser)
        /\ relation[d.winner].key = k /\ relation[d.loser].key = k
    BY <2>3 DEF ContestedGroup
  <2>5. relation[d.winner] \in Row /\ relation[d.loser] \in Row
    BY <2>2, <2>4 DEF Active, Used, TypeOK
  <2>6. QED
    BY <2>1, <2>2, <2>4, <2>5
<1>2. ASSUME NEW d \in Decisions(now, force) PROVE SafeDecision(d)
  BY <1>1 DEF SafeDecision, Trapped, Ended, Pairs
<1>3. ASSUME NEW d \in Decisions(now, force), NEW e \in Decisions(now, force),
             relation[d.winner].key = relation[e.winner].key
      PROVE  d = e
  <2>1. {d.winner, d.loser} = {e.winner, e.loser} /\ d \in Pairs /\ e \in Pairs
    BY <1>1, <1>3
  <2>2. d.winner # d.loser /\ e.winner # e.loser
    BY <2>1 DEF Pairs
  <2>3. CASE d.winner = e.loser /\ d.loser = e.winner
    <3> DEFINE x == relation[d.winner]
               y == relation[d.loser]
    <3>1. x \in Row /\ y \in Row /\ Prevails(x, y, now) /\ Prevails(y, x, now)
      BY <1>1, <2>3
    <3>2. RetentionAt(x.validFrom, now) \in Nat /\ RetentionAt(y.validFrom, now) \in Nat
      BY <3>1, RetentionIsNat DEF Row
    <3>3. QED
      BY <3>1, <3>2, OutweighsOneWay DEF Prevails
  <2>4. CASE d.winner = e.winner /\ d.loser = e.loser
    BY <2>1, <2>4 DEF Pairs
  <2>5. QED
    BY <2>1, <2>2, <2>3, <2>4
<1>4. QED
  BY <1>2, <1>3

-----------------------------------------------------------------------------
(* The invariant *)

LEMMA FactInvInit == Init => FactInv
<1> SUFFICES ASSUME Init PROVE FactInv
  OBVIOUS
<1>1. \A r \in Ids : ~Used(r)
  BY DEF Init, Used
<1>2. Links /\ NoTrap
  BY <1>1 DEF Links, NoTrap, Trapped, Ended
<1>3. PendingSafe
  BY DEF Init, PendingSafe, Pending, Procs
<1>4. ScansKey
  BY DEF Init, ScansKey, ScansOwnKey, Procs
<1>5. QED
  BY <1>2, <1>3, <1>4 DEF FactInv

(* Decisions survive the steps of writers. *)
LEMMA PendingSurvives ==
  ASSUME TypeOK, PendingSafe, KeysKept,
         \A q \in Ruminators : Undisturbed(q),
         \A d \in ExistingPairs : SafeDecision(d) => SafeDecision(d)'
  PROVE  PendingSafe'
<1> SUFFICES ASSUME NEW q \in Ruminators
             PROVE  /\ \A d \in Pending(q)' : SafeDecision(d)'
                    /\ \A d, e \in Pending(q)' :
                         relation'[d.winner].key = relation'[e.winner].key => d = e
                    /\ pc'[q] \in {"lockLoser", "resolve"} => request'[q] \notin todo'[q]
  BY DEF PendingSafe
<1>1. Pending(q)' = Pending(q)
  BY DEF Pending, Undisturbed
<1>2. \A d \in Pending(q) : d \in ExistingPairs
  BY DEF Pending, TypeOK, Remembers, Procs
<1>3. \A d \in Pending(q) : relation'[d.winner].key = relation[d.winner].key
  BY <1>2 DEF ExistingPairs, Pairs, KeysKept
<1>4. pc'[q] \in {"lockLoser", "resolve"} => request'[q] \notin todo'[q]
  BY DEF PendingSafe, Undisturbed
<1>5. QED
  BY <1>1, <1>2, <1>3, <1>4 DEF PendingSafe

(* What a writer found survives the steps of others. *)
LEMMA ScanSurvives ==
  ASSUME TypeOK, KeysKept, NEW q \in Writers, ScansOwnKey(q),
         Undisturbed(q), cand'[q] = cand[q]
  PROVE  ScansOwnKey(q)'
<1>1. /\ cand[q] \in SUBSET Ids
      /\ pc[q] = "decide" => held[q] \in Ids /\ Used(held[q])
  BY DEF TypeOK, Remembers, Procs
<1>2. pc[q] = "lock" => \A r \in cand[q] : Used(r)' /\ relation'[r].key = request[q].key
  BY <1>1 DEF ScansOwnKey, KeysKept
<1>3. pc[q] = "decide" => relation'[held[q]].key = request[q].key
  BY <1>1 DEF ScansOwnKey, KeysKept
<1>4. QED
  BY <1>2, <1>3 DEF ScansOwnKey, Undisturbed

LEMMA WriterKeepsFacts ==
  ASSUME TypeOK, ReadsStayCurrent, FactInv, NEW p \in Writers,
         BeginCreate(p) \/ BeginFeedback(p) \/ WriterStep(p) \/ WriterFails(p)
  PROVE  FactInv'
<1>0. p \in Procs /\ p \notin Ruminators
  BY StoreAssumption DEF Procs
<1>1. /\ KeysKept /\ Links' /\ NoTrap'
      /\ \A d \in ExistingPairs : SafeDecision(d) => SafeDecision(d)'
  <2>1. CASE CreateFirst(p) \/ Corroborate(p) \/ Contest(p) \/ Supersede(p) \/ RecordFeedback(p)
    BY <2>1, WritersEndOrClose, QuietKeepsFacts, CloseKeepsFacts DEF FactInv
  <2>2. CASE \/ BeginCreate(p) \/ ScanActive(p) \/ LockPrevious(p) \/ SkipSuperseded(p)
             \/ BeginFeedback(p) \/ LockFeedback(p) \/ WriterFails(p) \/ DeadlockVictim(p)
    <3>1. UNCHANGED relation
      BY <2>2 DEF BeginCreate, ScanActive, LockPrevious, SkipSuperseded, BeginFeedback,
                  LockFeedback, WriterFails, DeadlockVictim
    <3>2. QED
      BY <3>1, SameRowsKeepFacts, QuietKeepsFacts DEF FactInv
  <2>3. QED
    BY <2>1, <2>2 DEF WriterStep
<1>2. \A q \in Procs \ {p} : Undisturbed(q) /\ cand'[q] = cand[q]
  <2>1. CASE EndTransaction(p)
    BY <1>0, <2>1 DEF EndTransaction, Undisturbed, TypeOK
  <2>2. CASE BeginCreate(p) \/ BeginFeedback(p) \/ ScanActive(p) \/ SkipSuperseded(p)
    BY <1>0, <2>2 DEF BeginCreate, BeginFeedback, ScanActive, SkipSuperseded, Undisturbed, TypeOK
  <2>3. CASE LockPrevious(p) \/ LockFeedback(p)
    BY <1>0, <2>3 DEF LockPrevious, LockFeedback, Undisturbed, TypeOK
  <2>4. QED
    BY <2>1, <2>2, <2>3
       DEF WriterStep, CreateFirst, Corroborate, Contest, Supersede, RecordFeedback,
           WriterFails, DeadlockVictim
<1>3. PendingSafe'
  BY <1>0, <1>1, <1>2, PendingSurvives DEF FactInv, Procs
<1>4. ScansOwnKey(p)'
  <2>1. CASE EndTransaction(p)
    BY <1>0, <2>1 DEF EndTransaction, ScansOwnKey, TypeOK
  <2>2. CASE BeginCreate(p) \/ BeginFeedback(p) \/ LockFeedback(p)
    BY <1>0, <2>2 DEF BeginCreate, BeginFeedback, LockFeedback, ScansOwnKey, TypeOK
  <2>3. CASE ScanActive(p)
    BY <1>0, <2>3 DEF ScanActive, ScansOwnKey, TypeOK, Active, Used
  <2>4. CASE SkipSuperseded(p)
    <3>1. /\ pc[p] = "lock" /\ pc' = pc /\ UNCHANGED <<relation, request>>
          /\ cand'[p] \subseteq cand[p]
      BY <1>0, <2>4 DEF SkipSuperseded, TypeOK
    <3>2. QED
      BY <3>1 DEF ScansOwnKey, FactInv, ScansKey, Used
  <2>5. CASE LockPrevious(p)
    <3>1. /\ pc[p] = "lock" /\ pc'[p] = "decide" /\ UNCHANGED <<relation, request>>
          /\ held'[p] \in cand[p]
      BY <1>0, <2>5 DEF LockPrevious, TypeOK
    <3>2. QED
      BY <3>1 DEF ScansOwnKey, FactInv, ScansKey
  <2>6. QED
    BY <2>1, <2>2, <2>3, <2>4, <2>5
       DEF WriterStep, CreateFirst, Corroborate, Contest, Supersede, RecordFeedback,
           WriterFails, DeadlockVictim
<1>5. ScansKey'
  BY <1>1, <1>2, <1>4, ScanSurvives DEF ScansKey, FactInv, Procs
<1>6. QED
  BY <1>1, <1>3, <1>5 DEF FactInv

LEMMA PassKeepsFacts ==
  ASSUME SingleRuminator, TypeOK, FactInv, NEW p \in Ruminators,
         (\E force \in BOOLEAN : BeginPass(p, force)) \/ PassStep(p) \/ PassFails(p)
  PROVE  FactInv'
<1>0. p \in Procs /\ p \notin Writers /\ Remembers(p)
  BY StoreAssumption DEF Procs, TypeOK
<1>1. \A q \in Writers : Undisturbed(q) /\ cand'[q] = cand[q]
  <2>1. CASE EndPass(p)
    BY <1>0, <2>1 DEF EndPass, Undisturbed, TypeOK, Procs
  <2>2. CASE (\E force \in BOOLEAN : BeginPass(p, force)) \/ ListContested(p) \/ LockWinner(p)
    BY <1>0, <2>2 DEF BeginPass, ListContested, LockWinner, Undisturbed, TypeOK, Procs, locals
  <2>3. CASE LockLoser(p) \/ ResolveContest(p) \/ RecordAudit(p)
    BY <1>0, <2>3 DEF LockLoser, ResolveContest, RecordAudit, Undisturbed, TypeOK, Procs, locals
  <2>4. QED
    BY <1>0, <2>1, <2>2, <2>3 DEF PassStep, FinishPass, PassFails, DeadlockVictim
<1>2. Pending(p) \subseteq ExistingPairs
  BY <1>0 DEF Pending, Remembers
<1>3. ASSUME KeysKept, Links', NoTrap',
             \A d \in Pending(p)' : SafeDecision(d)',
             \A d, e \in Pending(p)' :
               relation'[d.winner].key = relation'[e.winner].key => d = e,
             pc'[p] \in {"lockLoser", "resolve"} => request'[p] \notin todo'[p]
      PROVE  FactInv'
  <2>1. PendingSafe'
    BY <1>3 DEF PendingSafe, SingleRuminator
  <2>2. ScansKey'
    BY <1>1, <1>3, ScanSurvives DEF ScansKey, FactInv
  <2>3. QED
    BY <1>3, <2>1, <2>2 DEF FactInv
<1>4. ASSUME UNCHANGED relation
      PROVE  /\ KeysKept /\ Links' /\ NoTrap'
             /\ \A d \in ExistingPairs : SafeDecision(d) => SafeDecision(d)'
  BY <1>4, SameRowsKeepFacts, QuietKeepsFacts DEF FactInv
<1>5. ASSUME UNCHANGED relation, Pending(p)' \subseteq Pending(p),
             pc'[p] \in {"lockLoser", "resolve"} => request'[p] \notin todo'[p]
      PROVE  FactInv'
  <2>1. \A d \in Pending(p)' : SafeDecision(d)'
    BY <1>2, <1>4, <1>5 DEF FactInv, PendingSafe
  <2>2. \A d, e \in Pending(p)' :
          relation'[d.winner].key = relation'[e.winner].key => d = e
    BY <1>5 DEF FactInv, PendingSafe
  <2>3. QED
    BY <1>3, <1>4, <1>5, <2>1, <2>2
<1>6. CASE \/ \E force \in BOOLEAN : BeginPass(p, force)
           \/ LockLoser(p) \/ RecordAudit(p) \/ EndPass(p)
  <2>1. UNCHANGED relation
    BY <1>6 DEF BeginPass, LockLoser, RecordAudit, EndPass
  <2>2. Pending(p)' \subseteq Pending(p)
    BY <1>0, <1>6 DEF BeginPass, LockLoser, RecordAudit, EndPass, Pending, TypeOK, locals
  <2>3. pc'[p] \in {"lockLoser", "resolve"} => request'[p] \notin todo'[p]
    BY <1>0, <1>6 DEF BeginPass, LockLoser, RecordAudit, EndPass, TypeOK, locals,
                      FactInv, PendingSafe
  <2>4. QED
    BY <1>5, <2>1, <2>2, <2>3
<1>7. CASE LockWinner(p)
  <2>1. PICK d \in todo[p] :
          request' = [request EXCEPT ![p] = d] /\ todo' = [todo EXCEPT ![p] = @ \ {d}]
    BY <1>7 DEF LockWinner
  <2>2. UNCHANGED relation /\ request'[p] = d /\ todo'[p] = todo[p] \ {d}
    BY <1>0, <1>7, <2>1 DEF LockWinner, TypeOK
  <2>3. Pending(p)' \subseteq Pending(p)
    BY <2>1, <2>2 DEF Pending
  <2>4. QED
    BY <1>5, <2>2, <2>3
<1>8. CASE ListContested(p)
  <2>1. PICK force : todo'[p] = Decisions(stamp[p], force)
    BY <1>0, <1>8 DEF ListContested, TypeOK
  <2>2. UNCHANGED relation /\ pc'[p] = "next" /\ stamp[p] \in Instants
    BY <1>0, <1>8 DEF ListContested, TypeOK
  <2>3. Pending(p)' = Decisions(stamp[p], force)
    BY <2>1, <2>2 DEF Pending
  <2>4. \A d \in Decisions(stamp[p], force) : SafeDecision(d) /\ d \in ExistingPairs
    <3>1. \A d \in Decisions(stamp[p], force) : SafeDecision(d)
      BY <2>2, FreshDecisionsSafe
    <3>2. \A d \in Decisions(stamp[p], force) : d \in ExistingPairs
      BY DEF Decisions, ExistingPairs, Pairs, ContestedGroup, Active
    <3>3. QED
      BY <3>1, <3>2
  <2>5. \A d \in Pending(p)' : SafeDecision(d)'
    BY <1>4, <2>2, <2>3, <2>4
  <2>6. \A d, e \in Pending(p)' :
          relation'[d.winner].key = relation'[e.winner].key => d = e
    BY <2>2, <2>3, FreshDecisionsSafe
  <2>7. QED
    BY <1>3, <1>4, <2>2, <2>5, <2>6
<1>9. CASE ResolveContest(p)
  <2> DEFINE d == request[p]
             w == d.winner
             l == d.loser
  <2>1. /\ pc[p] = "resolve" /\ pc'[p] = "audit" /\ todo' = todo
        /\ d \in ExistingPairs /\ d \in Pending(p) /\ SafeDecision(d) /\ d \notin todo[p]
    <3>1. pc[p] = "resolve" /\ pc'[p] = "audit" /\ todo' = todo
      BY <1>0, <1>9 DEF ResolveContest, TypeOK
    <3>2. d \in ExistingPairs /\ d \in Pending(p)
      BY <1>0, <3>1 DEF Remembers, Pending
    <3>3. QED
      BY <3>1, <3>2 DEF FactInv, PendingSafe
  <2>2. Pending(p)' = todo[p]
    BY <2>1 DEF Pending
  <2>3. /\ w \in Ids /\ l \in Ids /\ w # l
        /\ relation[w] \in Row /\ relation[l] \in Row
    <3>1. w \in Ids /\ l \in Ids /\ w # l /\ relation[w] # None /\ relation[l] # None
      BY <2>1 DEF ExistingPairs, Pairs, Used
    <3>2. QED
      BY <3>1 DEF TypeOK
  <2>4. /\ \A i \in Ids \ {w, l} : relation'[i] = relation[i]
        /\ relation'[w] = [relation[w] EXCEPT !.contested = FALSE, !.supersedes = l]
        /\ relation'[l] = [relation[l] EXCEPT !.contested = FALSE, !.validTo = stamp[p],
                                              !.supersededBy = w]
    <3>1. relation' = [relation EXCEPT ![w].contested = FALSE, ![w].supersedes = l,
                                       ![l].contested = FALSE, ![l].validTo = stamp[p],
                                       ![l].supersededBy = w]
      BY <1>9 DEF ResolveContest
    <3>2. DOMAIN relation = Ids
      BY DEF TypeOK
    <3> HIDE DEF w, l, d
    <3>3. QED
      BY <2>3, <3>1, <3>2
  <2> HIDE DEF w, l, d
  <2>5. /\ relation'[w].key = relation[w].key
        /\ relation'[w].validTo = relation[w].validTo
        /\ relation'[w].supersededBy = relation[w].supersededBy
        /\ relation'[l].key = relation[l].key /\ relation'[l].supersededBy = w
    BY <2>3, <2>4 DEF Row
  <2>6. /\ relation[w] # None /\ relation[l] # None
        /\ relation'[w] # None /\ relation'[l] # None
    <3>1. relation[w] # None /\ relation[l] # None
      BY <2>3, RowAssumption
    <3>2. relation'[w] # None /\ relation'[l] # None
      BY <1>0, <1>9, <2>3, <3>1, ResolveTypes DEF Grows, Used
    <3>3. QED
      BY <3>1, <3>2
  <2>7. KeysKept
    BY <2>4, <2>5, <2>6 DEF KeysKept, Used
  <2>8. Retires(w, l)
    BY <2>4, <2>5, <2>6 DEF Retires, Quiet, Ended, Used, Active
  <2>9. /\ Links' /\ NoTrap'
        /\ \A e \in ExistingPairs :
             SafeDecision(e) /\ relation[e.winner].key # relation[w].key => SafeDecision(e)'
    BY <2>1, <2>7, <2>8, RetireKeepsFacts DEF FactInv, w, l
  <2>10. \A e \in todo[p] :
           /\ e \in ExistingPairs /\ SafeDecision(e)
           /\ relation[e.winner].key # relation[w].key
           /\ relation'[e.winner].key = relation[e.winner].key
    <3> SUFFICES ASSUME NEW e \in todo[p]
                 PROVE  /\ e \in ExistingPairs /\ SafeDecision(e)
                        /\ relation[e.winner].key # relation[w].key
                        /\ relation'[e.winner].key = relation[e.winner].key
      OBVIOUS
    <3>1. e \in Pending(p) /\ e # d
      BY <2>1 DEF Pending
    <3>2. e \in ExistingPairs /\ SafeDecision(e)
      BY <1>2, <3>1 DEF FactInv, PendingSafe
    <3>3. relation[e.winner].key # relation[w].key
      BY <2>1, <3>1 DEF FactInv, PendingSafe, w
    <3>4. relation'[e.winner].key = relation[e.winner].key
      BY <2>7, <3>2 DEF ExistingPairs, Pairs, KeysKept
    <3>5. QED
      BY <3>2, <3>3, <3>4
  <2>11. \A e \in Pending(p)' : SafeDecision(e)'
    BY <2>2, <2>9, <2>10
  <2>12. \A e, f \in Pending(p)' :
           relation'[e.winner].key = relation'[f.winner].key => e = f
    BY <2>2, <2>10 DEF FactInv, PendingSafe, Pending
  <2>13. QED
    BY <1>3, <2>1, <2>7, <2>9, <2>11, <2>12
<1>10. QED
  BY <1>0, <1>6, <1>7, <1>8, <1>9 DEF PassStep, FinishPass, PassFails, DeadlockVictim

LEMMA FactInvStep ==
  ASSUME SingleRuminator
  PROVE  TypeOK /\ ReadsStayCurrent /\ FactInv /\ [Next]_vars => FactInv'
<1> SUFFICES ASSUME TypeOK, ReadsStayCurrent, FactInv, [Next]_vars PROVE FactInv'
  OBVIOUS
<1>1. CASE Tick \/ UNCHANGED vars
  <2>1. /\ UNCHANGED <<relation, pc, request, cand, held, seen, todo>>
        /\ \A q \in Procs : Undisturbed(q)
    BY <1>1 DEF Tick, vars, locals, Undisturbed
  <2>2. /\ KeysKept /\ Links' /\ NoTrap'
        /\ \A d \in ExistingPairs : SafeDecision(d) => SafeDecision(d)'
    BY <2>1, SameRowsKeepFacts, QuietKeepsFacts DEF FactInv
  <2>3. QED
    BY <2>1, <2>2, PendingSurvives, ScanSurvives DEF FactInv, ScansKey, Procs
<1>2. QED
  BY <1>1, WriterKeepsFacts, PassKeepsFacts DEF Next

(* With one process running passes at a time, a subject and predicate      *)
(* something was ever learnt about always has an active relation, whatever *)
(* create_relation and record_feedback do between a pass's list_contested  *)
(* and its resolve_contest.                                                *)
THEOREM FactsStay ==
  ASSUME SingleRuminator
  PROVE  Spec => []FactNeverVanishes
<1>1. TypeOK /\ ReadsStayCurrent /\ FactInv /\ [Next]_vars
        => (TypeOK /\ ReadsStayCurrent /\ FactInv)'
  BY TypeStep, ReadsStep, FactInvStep
<1>2. Init => TypeOK /\ ReadsStayCurrent /\ FactInv
  BY TypeInit, ReadsInit, FactInvInit
<1>3. TypeOK /\ ReadsStayCurrent /\ FactInv => FactNeverVanishes
  BY FactInvSuffices DEF FactInv
<1>4. QED
  BY <1>1, <1>2, <1>3, PTL DEF Spec

-----------------------------------------------------------------------------
(* What a step of RelationStore may do to a row, for any number of         *)
(* writers, ruminating processes and rows.                                 *)

(* A row keeps what history is made of. *)
Kept(r) ==
    /\ relation'[r] # None
    /\ relation'[r].key = relation[r].key /\ relation'[r].object = relation[r].object
    /\ relation'[r].validFrom = relation[r].validFrom
    /\ ~Active(r) => relation'[r].validTo # None
    /\ relation'[r].alpha >= relation[r].alpha /\ relation'[r].beta >= relation[r].beta
    /\ relation[r].derivation = "distilled" => relation'[r].derivation = "distilled"

AllKept == \A r \in Ids : Used(r) => Kept(r)

(* The verdict on a claim that was inserted as n and changed r. *)
Verdict(r, n) == relation'[n].contested <=> Outweighs(relation[r], Scale, relation'[n], Scale)

AllVerdicts ==
    \A r, n \in Ids : /\ Used(r) /\ ~Used(n)
                      /\ relation'[n] # None
                      /\ relation'[r] # relation[r]
                      => Verdict(r, n)

(* The loser of a resolution whose audit entry is next is superseded. *)
AuditReady ==
    \A p \in Procs : pc[p] = "audit" => Used(request[p].loser) /\ ~Active(request[p].loser)

AuditInv == AuditedLoserSuperseded /\ AuditReady

-----------------------------------------------------------------------------
(* Changes of one row *)

LEMMA InstantsAreValues == \A now \in Instants : now # None
<1>1. Instants \subseteq Int
  BY StoreAssumption, BeliefAssumption
<1> QED
  BY <1>1, NoneAssumption

LEMMA SameRowKept ==
  ASSUME TypeOK, NEW r \in Ids, Used(r), relation'[r] = relation[r]
  PROVE  Kept(r)
<1>1. relation[r] \in Row
  BY DEF TypeOK, Used
<1> QED
  BY <1>1 DEF Kept, Used, Active, Row

(* Marked, closed or linked to another row, its claim and belief untouched. *)
LEMMA MarkedRowKept ==
  ASSUME TypeOK, NEW r \in Ids, Used(r), relation'[r] # None,
         relation'[r].key = relation[r].key, relation'[r].object = relation[r].object,
         relation'[r].validFrom = relation[r].validFrom,
         relation'[r].alpha = relation[r].alpha, relation'[r].beta = relation[r].beta,
         relation'[r].derivation = relation[r].derivation,
         relation[r].validTo # None => relation'[r].validTo # None
  PROVE  Kept(r)
<1>1. relation[r].alpha \in Nat /\ relation[r].beta \in Nat
  BY DEF TypeOK, Used, Row
<1>2. relation'[r].alpha >= relation[r].alpha /\ relation'[r].beta >= relation[r].beta
  BY <1>1
<1> QED
  BY <1>2 DEF Kept, Active

(* Updated by an event: neither side of the belief shrinks. *)
LEMMA UpdatedRowKept ==
  ASSUME TypeOK, NEW r \in Ids, Used(r), relation'[r] # None,
         NEW belief \in Beliefs, belief.alpha >= relation[r].alpha, belief.beta >= relation[r].beta,
         \/ relation'[r] = [relation[r] EXCEPT !.alpha = belief.alpha, !.beta = belief.beta]
         \/ \E derivation :
               /\ relation[r].derivation = "distilled" => derivation = "distilled"
               /\ relation'[r] = [relation[r] EXCEPT !.alpha = belief.alpha, !.beta = belief.beta,
                                                     !.derivation = derivation]
  PROVE  Kept(r)
<1>1. relation[r] \in Row
  BY DEF TypeOK, Used
<1>2. /\ relation'[r].key = relation[r].key /\ relation'[r].object = relation[r].object
      /\ relation'[r].validFrom = relation[r].validFrom
      /\ relation'[r].validTo = relation[r].validTo
      /\ relation'[r].alpha = belief.alpha /\ relation'[r].beta = belief.beta
  BY <1>1 DEF Row
<1>3. relation[r].derivation = "distilled" => relation'[r].derivation = "distilled"
  BY <1>1 DEF Row
<1> QED
  BY <1>2, <1>3 DEF Kept, Active, Used

-----------------------------------------------------------------------------
(* Steps *)

(* Only the row a writer holds and a row nobody used before change.        *)
LEMMA WriterKeeps ==
  ASSUME TypeOK, ReadsStayCurrent, NEW p \in Writers,
         CreateFirst(p) \/ Corroborate(p) \/ Contest(p) \/ Supersede(p) \/ RecordFeedback(p)
  PROVE  AllKept
<1> DEFINE claim == request[p]
           h == held[p]
<1>1. /\ p \in Procs /\ Remembers(p) /\ relation \in [Ids -> Row \cup {None}]
      /\ \A r \in Ids : Used(r) => relation'[r] # None
  BY WriteTypes DEF Procs, TypeOK, Grows, Used
<1>2. ASSUME NEW r \in Ids, Used(r), relation'[r] = relation[r] PROVE Kept(r)
  BY <1>2, SameRowKept
<1>3. CASE CreateFirst(p)
  <2>1. PICK n \in Ids : ~Used(n) /\ relation' =
          [relation EXCEPT ![n] = NewRow(claim, stamp[p], FALSE, None)]
    BY <1>3 DEF CreateFirst
  <2>2. \A r \in Ids : Used(r) => relation'[r] = relation[r]
    BY <1>1, <2>1
  <2> QED
    BY <1>2, <2>2 DEF AllKept
<1>4. ASSUME h \in Ids, Used(h), Kept(h), NEW n, ~Used(n),
             \A r \in Ids \ {n, h} : relation'[r] = relation[r]
      PROVE  AllKept
  <2> HIDE DEF h
  <2> QED
    BY <1>2, <1>4 DEF AllKept
<1>5. pc[p] \in {"decide", "applyFeedback"} => h \in Ids /\ Used(h) /\ seen[p] = relation[h]
  BY <1>1 DEF Remembers, ReadsStayCurrent
<1>6. CASE Contest(p)
  <2>1. PICK n \in Ids :
          /\ ~Used(n)
          /\ relation' = [relation EXCEPT ![n] = NewRow(claim, stamp[p], TRUE, None),
                                          ![h].contested = TRUE]
    BY <1>6 DEF Contest
  <2>2. h \in Ids /\ Used(h) /\ n # h
    BY <1>5, <1>6, <2>1 DEF Contest
  <2>3. relation[h] \in Row
    BY <1>1, <2>2 DEF Used
  <2> HIDE DEF h, claim
  <2>4. relation'[h] = [relation[h] EXCEPT !.contested = TRUE]
    BY <1>1, <2>1, <2>2
  <2>5. \A r \in Ids \ {n, h} : relation'[r] = relation[r]
    BY <1>1, <2>1, <2>2
  <2>6. Kept(h)
    BY <1>1, <2>2, <2>3, <2>4, MarkedRowKept DEF Row
  <2> QED
    BY <1>4, <2>1, <2>2, <2>5, <2>6
<1>7. CASE Supersede(p)
  <2>1. PICK n \in Ids :
          /\ ~Used(n)
          /\ relation' = [relation EXCEPT ![n] = NewRow(claim, stamp[p], FALSE, h),
                                          ![h].validTo = stamp[p],
                                          ![h].supersededBy = n]
    BY <1>7 DEF Supersede
  <2>2. h \in Ids /\ Used(h) /\ n # h /\ stamp[p] \in Instants
    BY <1>1, <1>5, <1>7, <2>1 DEF Supersede, TypeOK
  <2>3. relation[h] \in Row /\ stamp[p] # None
    BY <1>1, <2>2, InstantsAreValues DEF Used
  <2> HIDE DEF h, claim
  <2>4. relation'[h] = [relation[h] EXCEPT !.validTo = stamp[p], !.supersededBy = n]
    BY <1>1, <2>1, <2>2
  <2>5. \A r \in Ids \ {n, h} : relation'[r] = relation[r]
    BY <1>1, <2>1, <2>2
  <2>6. Kept(h)
    BY <1>1, <2>2, <2>3, <2>4, MarkedRowKept DEF Row
  <2> QED
    BY <1>4, <2>1, <2>2, <2>5, <2>6
<1>8. CASE Corroborate(p)
  <2> DEFINE w == Weight[claim.derivation]
             belief == ApplyEvidence(seen[p], claim.confidence, w, TRUE)
             derivation == UpgradedDerivation(seen[p].derivation, claim.derivation)
  <2>1. /\ h \in Ids /\ Used(h) /\ seen[p] = relation[h] /\ relation[h] \in Row
        /\ claim \in ClaimType
    BY <1>1, <1>5, <1>8 DEF Corroborate, Remembers, Used
  <2>2. w \in Nat /\ claim.confidence \in 0 .. Full
    BY <2>1, BeliefAssumption DEF ClaimType
  <2>3. relation[h].alpha \in Nat /\ relation[h].beta \in Nat
    BY <2>1 DEF Row
  <2>4. /\ belief \in Beliefs
        /\ belief.alpha >= relation[h].alpha /\ belief.beta >= relation[h].beta
    BY <2>1, <2>2, <2>3, EvidenceMass
  <2>5. relation[h].derivation = "distilled" => derivation = "distilled"
    BY <2>1 DEF UpgradedDerivation
  <2>6. relation' = [relation EXCEPT ![h].alpha = belief.alpha, ![h].beta = belief.beta,
                                     ![h].derivation = derivation]
    BY <1>8 DEF Corroborate
  <2> HIDE DEF belief, derivation, w, h, claim
  <2>7. /\ relation'[h] = [relation[h] EXCEPT !.alpha = belief.alpha, !.beta = belief.beta,
                                              !.derivation = derivation]
        /\ \A r \in Ids \ {h} : relation'[r] = relation[r]
    BY <1>1, <2>1, <2>6
  <2>8. Kept(h)
    BY <1>1, <2>1, <2>4, <2>5, <2>7, UpdatedRowKept
  <2> QED
    BY <1>2, <2>7, <2>8 DEF AllKept
<1>9. CASE RecordFeedback(p)
  <2> DEFINE belief == ApplyFeedback(seen[p], request[p].outcome, request[p].confidence)
  <2>1. /\ h \in Ids /\ Used(h) /\ seen[p] = relation[h] /\ relation[h] \in Row
        /\ request[p] \in FeedbackType
    BY <1>1, <1>5, <1>9 DEF RecordFeedback, Remembers, Used
  <2>2. FeedbackWeight \in Nat /\ request[p].confidence \in 0 .. Full
    BY <2>1, BeliefAssumption DEF FeedbackType
  <2>3. relation[h].alpha \in Nat /\ relation[h].beta \in Nat
    BY <2>1 DEF Row
  <2>4. /\ belief \in Beliefs
        /\ belief.alpha >= relation[h].alpha /\ belief.beta >= relation[h].beta
    BY <2>1, <2>2, <2>3, EvidenceMass DEF ApplyFeedback
  <2>5. relation' = [relation EXCEPT ![h].alpha = belief.alpha, ![h].beta = belief.beta]
    BY <1>9 DEF RecordFeedback
  <2> HIDE DEF belief, h
  <2>6. /\ relation'[h] = [relation[h] EXCEPT !.alpha = belief.alpha, !.beta = belief.beta]
        /\ \A r \in Ids \ {h} : relation'[r] = relation[r]
    BY <1>1, <2>1, <2>5
  <2>7. Kept(h)
    BY <1>1, <2>1, <2>4, <2>6, UpdatedRowKept
  <2> QED
    BY <1>2, <2>6, <2>7 DEF AllKept
<1> QED
  BY <1>3, <1>6, <1>7, <1>8, <1>9

(* A resolution marks both rows and closes the loser. *)
LEMMA ResolutionKeeps ==
  ASSUME TypeOK, NEW p \in Ruminators, ResolveContest(p)
  PROVE  /\ AllKept
         /\ relation'[request[p].loser] # None
         /\ relation'[request[p].loser].validTo # None
         /\ \A r \in Ids : ~Used(r) => relation'[r] = None
<1> DEFINE w == request[p].winner
           l == request[p].loser
           now == stamp[p]
<1>1. p \in Procs /\ Remembers(p) /\ relation \in [Ids -> Row \cup {None}] /\ now \in Instants
  BY DEF Procs, TypeOK
<1>2. w \in Ids /\ l \in Ids /\ w # l /\ Used(w) /\ Used(l)
  <2>1. request[p] \in ExistingPairs
    BY <1>1 DEF ResolveContest, Remembers
  <2> QED
    BY <2>1, Zenon DEF ExistingPairs, Pairs
<1>3. relation' = [relation EXCEPT ![w].contested = FALSE,
                                   ![w].supersedes = l,
                                   ![l].contested = FALSE,
                                   ![l].validTo = now,
                                   ![l].supersededBy = w]
  BY DEF ResolveContest
<1>4. \A r \in Ids : Used(r) => relation'[r] # None
  <2>1. Grows
    BY ResolveTypes
  <2> QED
    BY <2>1 DEF Grows, Used
<1>5. now # None
  BY <1>1, InstantsAreValues
<1>6. relation[l] \in Row /\ relation[w] \in Row
  BY <1>1, <1>2 DEF Used
<1> HIDE DEF w, l, now
<1>7. /\ relation'[w] = [relation[w] EXCEPT !.contested = FALSE, !.supersedes = l]
      /\ relation'[l] = [relation[l] EXCEPT !.contested = FALSE, !.validTo = now,
                                            !.supersededBy = w]
      /\ \A r \in Ids \ {w, l} : relation'[r] = relation[r]
  BY <1>1, <1>2, <1>3
<1>8. Kept(w)
  BY <1>2, <1>4, <1>6, <1>7, MarkedRowKept DEF Row
<1>9. relation'[l] # None /\ relation'[l].validTo # None
  BY <1>2, <1>4, <1>5, <1>6, <1>7 DEF Row
<1>10. Kept(l)
  BY <1>2, <1>6, <1>7, <1>9, MarkedRowKept DEF Row
<1>11. AllKept
  BY <1>7, <1>8, <1>10, SameRowKept DEF AllKept
<1>12. \A r \in Ids : ~Used(r) => relation'[r] = None
  BY <1>2, <1>7 DEF Used
<1> QED
  BY <1>9, <1>11, <1>12 DEF l

(* The steps that write claims and feedback. *)
Writes(p) == CreateFirst(p) \/ Corroborate(p) \/ Contest(p) \/ Supersede(p) \/ RecordFeedback(p)

(* A claim's verdict depends on the beliefs of the new row, which are the  *)
(* claim's own, and of the row held, which is still the row that was read. *)
LEMMA WriterVerdicts ==
  ASSUME TypeOK, ReadsStayCurrent, NEW p \in Writers, Writes(p)
  PROVE  AllVerdicts
<1> DEFINE claim == request[p]
           h == held[p]
<1>1. p \in Procs /\ Remembers(p) /\ relation \in [Ids -> Row \cup {None}]
  BY DEF Procs, TypeOK
<1>2. pc[p] \in {"decide", "applyFeedback"} => h \in Ids /\ Used(h) /\ seen[p] = relation[h]
  BY <1>1 DEF Remembers, ReadsStayCurrent
<1>3. ASSUME NEW x \in Ids, \A r \in Ids \ {x} : relation'[r] = relation[r]
      PROVE  AllVerdicts
  BY <1>3 DEF AllVerdicts, Used
<1>4. CASE CreateFirst(p)
  <2>1. PICK x \in Ids :
          relation' = [relation EXCEPT ![x] = NewRow(claim, stamp[p], FALSE, None)]
    BY <1>4 DEF CreateFirst
  <2> QED
    BY <1>1, <1>3, <2>1
<1>5. CASE Corroborate(p) \/ RecordFeedback(p)
  <2>1. h \in Ids /\ \A r \in Ids \ {h} : relation'[r] = relation[r]
    BY <1>1, <1>2, <1>5 DEF Corroborate, RecordFeedback
  <2> HIDE DEF h
  <2> QED
    BY <1>3, <2>1
<1>6. ASSUME h \in Ids, Used(h), seen[p] = relation[h], NEW x \in Ids, ~Used(x),
             relation'[x].contested <=> Outweighs(seen[p], Scale, FreshBelief(claim), Scale),
             relation'[x].alpha = FreshBelief(claim).alpha,
             relation'[x].beta = FreshBelief(claim).beta,
             \A r \in Ids \ {x, h} : relation'[r] = relation[r]
      PROVE  AllVerdicts
  <2> HIDE DEF h, claim
  <2>1. Verdict(h, x)
    BY <1>6 DEF Verdict, Outweighs, Mass
  <2>2. ASSUME NEW r \in Ids, NEW n \in Ids, Used(r), ~Used(n), relation'[n] # None,
               relation'[r] # relation[r]
        PROVE  r = h /\ n = x
    BY <1>6, <2>2 DEF Used
  <2> QED
    BY <2>1, <2>2 DEF AllVerdicts
<1>7. CASE Contest(p)
  <2>1. PICK n \in Ids :
          /\ ~Used(n)
          /\ relation' = [relation EXCEPT ![n] = NewRow(claim, stamp[p], TRUE, None),
                                          ![h].contested = TRUE]
    BY <1>7 DEF Contest
  <2>2. h \in Ids /\ Used(h) /\ n # h /\ seen[p] = relation[h]
    BY <1>2, <1>7, <2>1 DEF Contest
  <2>3. Outweighs(seen[p], Scale, FreshBelief(claim), Scale)
    BY <1>7 DEF Contest, ResolveContradiction
  <2> HIDE DEF h, claim
  <2>4. /\ relation'[n] = NewRow(claim, stamp[p], TRUE, None)
        /\ \A r \in Ids \ {n, h} : relation'[r] = relation[r]
    BY <1>1, <2>1, <2>2
  <2>5. /\ relation'[n].contested = TRUE
        /\ relation'[n].alpha = FreshBelief(claim).alpha
        /\ relation'[n].beta = FreshBelief(claim).beta
    BY <2>4 DEF NewRow
  <2> QED
    BY <1>6, <2>1, <2>2, <2>3, <2>4, <2>5
<1>8. CASE Supersede(p)
  <2>1. PICK n \in Ids :
          /\ ~Used(n)
          /\ relation' = [relation EXCEPT ![n] = NewRow(claim, stamp[p], FALSE, h),
                                          ![h].validTo = stamp[p],
                                          ![h].supersededBy = n]
    BY <1>8 DEF Supersede
  <2>2. h \in Ids /\ Used(h) /\ n # h /\ seen[p] = relation[h]
    BY <1>2, <1>8, <2>1 DEF Supersede
  <2>3. ~Outweighs(seen[p], Scale, FreshBelief(claim), Scale)
    BY <1>8 DEF Supersede, ResolveContradiction
  <2> HIDE DEF h, claim
  <2>4. /\ relation'[n] = NewRow(claim, stamp[p], FALSE, h)
        /\ \A r \in Ids \ {n, h} : relation'[r] = relation[r]
    BY <1>1, <2>1, <2>2
  <2>5. /\ relation'[n].contested = FALSE
        /\ relation'[n].alpha = FreshBelief(claim).alpha
        /\ relation'[n].beta = FreshBelief(claim).beta
    BY <2>4 DEF NewRow
  <2> QED
    BY <1>6, <2>1, <2>2, <2>3, <2>4, <2>5
<1> QED
  BY <1>4, <1>5, <1>7, <1>8 DEF Writes

(* Nothing else writes rows. *)
LEMMA WhoWritesRows ==
  ASSUME [Next]_vars
  PROVE  \/ \E p \in Writers : Writes(p)
         \/ \E p \in Ruminators : ResolveContest(p)
         \/ UNCHANGED relation
<1>1. ASSUME NEW p \in Writers,
             BeginCreate(p) \/ BeginFeedback(p) \/ WriterStep(p) \/ WriterFails(p), ~Writes(p)
      PROVE  UNCHANGED relation
  <2>1. CASE \/ BeginCreate(p) \/ ScanActive(p) \/ LockPrevious(p) \/ SkipSuperseded(p)
             \/ BeginFeedback(p) \/ LockFeedback(p) \/ WriterFails(p) \/ DeadlockVictim(p)
    BY <2>1 DEF BeginCreate, ScanActive, LockPrevious, SkipSuperseded, BeginFeedback,
                LockFeedback, WriterFails, DeadlockVictim
  <2> QED
    BY <1>1, <2>1 DEF WriterStep, Writes
<1>2. ASSUME NEW p \in Ruminators,
             (\E force \in BOOLEAN : BeginPass(p, force)) \/ PassStep(p) \/ PassFails(p),
             ~ResolveContest(p)
      PROVE  UNCHANGED relation
  <2>1. CASE \/ \E force \in BOOLEAN : BeginPass(p, force)
             \/ ListContested(p) \/ LockWinner(p) \/ LockLoser(p) \/ RecordAudit(p)
             \/ FinishPass(p) \/ PassFails(p) \/ DeadlockVictim(p)
    BY <2>1 DEF BeginPass, ListContested, LockWinner, LockLoser, RecordAudit, FinishPass,
                PassFails, EndPass, DeadlockVictim, WriterFails
  <2> QED
    BY <1>2, <2>1 DEF PassStep
<1>3. CASE Tick \/ UNCHANGED vars
  BY <1>3 DEF Tick, vars
<1> QED
  BY <1>1, <1>2, <1>3 DEF Next

LEMMA RowsStep ==
  ASSUME TypeOK, ReadsStayCurrent, [Next]_vars
  PROVE  AllKept /\ AllVerdicts
<1>1. ASSUME NEW p \in Writers, Writes(p) PROVE AllKept /\ AllVerdicts
  BY <1>1, WriterKeeps, WriterVerdicts DEF Writes
<1>2. ASSUME NEW p \in Ruminators, ResolveContest(p) PROVE AllKept /\ AllVerdicts
  BY <1>2, ResolutionKeeps DEF AllVerdicts
<1>3. CASE UNCHANGED relation
  BY <1>3, SameRowKept DEF AllKept, AllVerdicts, Used
<1> QED
  BY <1>1, <1>2, <1>3, WhoWritesRows

-----------------------------------------------------------------------------
(* Audit entries of resolutions *)

(* A pass is at the point of an audit entry only after the resolution it   *)
(* is about, and an entry is what such a pass remembers.                   *)
LEMMA WhoWritesEntries ==
  ASSUME TypeOK, [Next]_vars
  PROVE  /\ \A q \in Procs : pc'[q] = "audit" =>
               /\ request'[q] = request[q]
               /\ pc[q] = "audit" \/ (q \in Ruminators /\ ResolveContest(q))
         /\ \A d \in audited' : d \in audited \/ \E q \in Procs : pc[q] = "audit" /\ d = request[q]
<1>1. ASSUME NEW p \in Writers,
             BeginCreate(p) \/ BeginFeedback(p) \/ WriterStep(p) \/ WriterFails(p)
      PROVE  /\ audited' = audited /\ pc'[p] # "audit"
             /\ \A q \in Procs \ {p} : pc'[q] = pc[q] /\ request'[q] = request[q]
  <2>0. p \in Procs /\ p \notin Ruminators
    BY StoreAssumption DEF Procs
  <2>1. CASE BeginCreate(p) \/ BeginFeedback(p)
    BY <2>0, <2>1 DEF BeginCreate, BeginFeedback, TypeOK
  <2>2. CASE ScanActive(p) \/ LockPrevious(p) \/ LockFeedback(p)
    BY <2>0, <2>2 DEF ScanActive, LockPrevious, LockFeedback, TypeOK
  <2>3. CASE SkipSuperseded(p)
    BY <2>0, <2>3 DEF SkipSuperseded, TypeOK
  <2>4. CASE Writes(p) \/ WriterFails(p) \/ DeadlockVictim(p)
    <3>1. EndTransaction(p)
      BY <2>4 DEF Writes, CreateFirst, Corroborate, Contest, Supersede, RecordFeedback,
                  WriterFails, DeadlockVictim
    <3> QED
      BY <2>0, <3>1 DEF EndTransaction, TypeOK
  <2> QED
    BY <1>1, <2>1, <2>2, <2>3, <2>4 DEF WriterStep, Writes
<1>2. ASSUME NEW p \in Ruminators,
             (\E force \in BOOLEAN : BeginPass(p, force)) \/ PassStep(p) \/ PassFails(p)
      PROVE  /\ \A q \in Procs \ {p} : pc'[q] = pc[q] /\ request'[q] = request[q]
             /\ pc'[p] = "audit" => ResolveContest(p) /\ request'[p] = request[p]
             /\ \/ audited' = audited
                \/ pc[p] = "audit" /\ audited' = audited \cup {request[p]}
  <2>0. p \in Procs
    BY DEF Procs
  <2>1. CASE \E force \in BOOLEAN : BeginPass(p, force)
    BY <2>0, <2>1 DEF BeginPass, TypeOK
  <2>2. CASE ListContested(p) \/ LockWinner(p) \/ LockLoser(p)
    BY <2>0, <2>2 DEF ListContested, LockWinner, LockLoser, TypeOK, locals
  <2>3. CASE ResolveContest(p)
    BY <2>0, <2>3 DEF ResolveContest, TypeOK, locals
  <2>4. CASE RecordAudit(p)
    BY <2>0, <2>4 DEF RecordAudit, TypeOK
  <2>5. CASE FinishPass(p) \/ PassFails(p) \/ DeadlockVictim(p)
    <3>1. EndPass(p)
      BY <2>5, StoreAssumption DEF FinishPass, PassFails, DeadlockVictim
    <3> QED
      BY <2>0, <3>1 DEF EndPass, TypeOK
  <2> QED
    BY <1>2, <2>1, <2>2, <2>3, <2>4, <2>5 DEF PassStep
<1>3. CASE Tick \/ UNCHANGED vars
  BY <1>3 DEF Tick, vars, locals
<1>4. ASSUME NEW p \in Writers,
             BeginCreate(p) \/ BeginFeedback(p) \/ WriterStep(p) \/ WriterFails(p)
      PROVE  /\ audited' = audited
             /\ \A q \in Procs : pc'[q] = "audit" => pc[q] = "audit" /\ request'[q] = request[q]
  BY <1>1, <1>4
<1>5. ASSUME NEW p \in Ruminators,
             (\E force \in BOOLEAN : BeginPass(p, force)) \/ PassStep(p) \/ PassFails(p)
      PROVE  /\ \A q \in Procs : pc'[q] = "audit" =>
                   /\ request'[q] = request[q]
                   /\ pc[q] = "audit" \/ (q \in Ruminators /\ ResolveContest(q))
             /\ \A d \in audited' : d \in audited \/ \E q \in Procs : pc[q] = "audit" /\ d = request[q]
  BY <1>2, <1>5 DEF Procs
<1> QED
  BY <1>3, <1>4, <1>5 DEF Next

(* A superseded row stays superseded. *)
LEMMA StaysSuperseded ==
  ASSUME AllKept, NEW r \in Ids, Used(r), ~Active(r)
  PROVE  relation'[r] # None /\ relation'[r].validTo # None
BY DEF AllKept, Kept

LEMMA AuditStep ==
  TypeOK /\ ReadsStayCurrent /\ AuditInv /\ [Next]_vars => AuditInv'
<1> SUFFICES ASSUME TypeOK, ReadsStayCurrent, AuditInv, [Next]_vars
             PROVE  AuditInv'
  OBVIOUS
<1>1. AllKept
  BY RowsStep
<1>2. \A q \in Procs : pc[q] = "audit" =>
        request[q].loser \in Ids /\ Used(request[q].loser) /\ ~Active(request[q].loser)
  BY DEF AuditInv, AuditReady, TypeOK, Remembers, ExistingPairs, Pairs
<1>3. ASSUME NEW q \in Procs, pc'[q] = "audit"
      PROVE  /\ request'[q] = request[q]
             /\ relation'[request[q].loser] # None
             /\ relation'[request[q].loser].validTo # None
  <2>1. request'[q] = request[q]
    BY <1>3, WhoWritesEntries
  <2>2. CASE pc[q] = "audit"
    BY <1>1, <1>2, <2>1, <2>2, StaysSuperseded
  <2>3. CASE q \in Ruminators /\ ResolveContest(q)
    BY <2>1, <2>3, ResolutionKeeps
  <2> QED
    BY <1>3, <2>2, <2>3, WhoWritesEntries
<1>4. AuditReady'
  BY <1>3 DEF AuditReady, Used, Active
<1>5. ASSUME NEW d \in audited'
      PROVE  relation'[d.loser] # None /\ relation'[d.loser].validTo # None
  <2>1. d.loser \in Ids /\ Used(d.loser) /\ ~Active(d.loser)
    <3>1. CASE d \in audited
      BY <3>1 DEF AuditInv, AuditedLoserSuperseded, TypeOK, Pairs
    <3>2. CASE \E q \in Procs : pc[q] = "audit" /\ d = request[q]
      BY <1>2, <3>2
    <3> QED
      BY <1>5, <3>1, <3>2, WhoWritesEntries
  <2> QED
    BY <1>1, <2>1, StaysSuperseded
<1>6. AuditedLoserSuperseded'
  BY <1>5 DEF AuditedLoserSuperseded, Used, Active
<1> QED
  BY <1>4, <1>6 DEF AuditInv

LEMMA AuditInit == Init => AuditInv
BY DEF Init, AuditInv, AuditedLoserSuperseded, AuditReady

-----------------------------------------------------------------------------
(* Theorems *)

(* The graph never forgets, whatever writers and passes do at once: no row *)
(* disappears, changes its claim, comes back once superseded, loses        *)
(* evidence or stops being distilled.                                      *)
THEOREM GraphNeverForgets == Spec => HistoryKept
<1>1. TypeOK /\ ReadsStayCurrent /\ [Next]_vars =>
        [\A r \in Ids : Used(r) =>
          /\ relation'[r] # None
          /\ relation'[r].key = relation[r].key /\ relation'[r].object = relation[r].object
          /\ relation'[r].validFrom = relation[r].validFrom
          /\ ~Active(r) => relation'[r].validTo # None
          /\ relation'[r].alpha >= relation[r].alpha /\ relation'[r].beta >= relation[r].beta
          /\ relation[r].derivation = "distilled" => relation'[r].derivation = "distilled"]_vars
  BY RowsStep DEF AllKept, Kept
<1> QED
  BY <1>1, TypeInit, TypeStep, ReadsInit, ReadsStep, PTL DEF Spec, HistoryKept

(* create_relation's verdict on a claim holds of the rows its transaction  *)
(* commits, because the row it compared the claim with was locked.         *)
THEOREM VerdictsHoldAtCommit == Spec => VerdictStillHolds
<1>1. TypeOK /\ ReadsStayCurrent /\ [Next]_vars =>
        [\A r, n \in Ids :
          /\ Used(r) /\ ~Used(n)
          /\ relation'[n] # None
          /\ relation'[r] # relation[r]
          => (relation'[n].contested <=> Outweighs(relation[r], Scale, relation'[n], Scale))]_vars
  BY RowsStep DEF AllVerdicts, Verdict
<1> QED
  BY <1>1, TypeInit, TypeStep, ReadsInit, ReadsStep, PTL DEF Spec, VerdictStillHolds

(* An audit entry of a resolution is always true: its loser is superseded, *)
(* although the entry is written by a later transaction.                   *)
THEOREM AuditedResolutionsHappened == Spec => []AuditedLoserSuperseded
<1>1. AuditInv => AuditedLoserSuperseded
  BY DEF AuditInv
<1> QED
  BY <1>1, TypeInit, TypeStep, ReadsInit, ReadsStep, AuditInit, AuditStep, PTL DEF Spec

=============================================================================
