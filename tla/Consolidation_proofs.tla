------------------------- MODULE Consolidation_proofs -------------------------
(***************************************************************************)
(* Consolidation, for any number of passes, episodes, runs and failures:   *)
(* no episode is marked before a pass was done with all that its batch had *)
(* to give (NothingSkipped, from MarkInv), clusters are the components of  *)
(* the similarity graph (ComponentsFound), and no evidence is counted      *)
(* twice by passes in a row, nor a run's record wrong (CountedOnce,        *)
(* RecordsTrue, from MarkInv and WorkInv).                                 *)
(***************************************************************************)
EXTENDS Consolidation, FiniteSetTheorems, TLAPS

UnderWay(p) == pc[p] \notin {"idle", "start"}

(* What p has listed, and what of it p has still to deal with. *)
Dealing(p) ==
    /\ pc[p] = "list" => log[run[p]].batch = {}
    /\ pc[p] \in Steps \ {"idle", "start", "list", "complete"} => log[run[p]].batch = batch[p]
    /\ pc[p] \in {"facts", "link_fact"} =>
          FactItems(batch[p]) \subseteq todo[p] \cup log[run[p]].dealt
    /\ pc[p] \in {"procedures", "link_procedure"} =>
          /\ FactItems(batch[p]) \subseteq log[run[p]].dealt
          /\ ProcedureItems(batch[p]) \subseteq todo[p] \cup log[run[p]].dealt

IsSequence(s) == \E n \in Nat : s = [i \in 1 .. n |-> s[i]]

IsEntry(x) == x = [batch |-> x.batch, seen |-> x.seen, dealt |-> x.dealt]

(* Processes under way have run records of their own. *)
RecordsHeld ==
    /\ IsSequence(log) /\ IsSequence(runs) /\ Len(log) = Len(runs)
    /\ \A r \in DOMAIN log : IsEntry(log[r])
    /\ pc \in [Passes -> Steps]
    /\ DOMAIN run = Passes /\ DOMAIN batch = Passes /\ DOMAIN todo = Passes
    /\ DOMAIN state = Episodes
    /\ \A p \in Passes : UnderWay(p) => run[p] \in DOMAIN log
    /\ \A p, q \in Passes : UnderWay(p) /\ UnderWay(q) /\ run[p] = run[q] => p = q

MarkInv ==
    /\ RecordsHeld
    /\ \A p \in Passes : Dealing(p)
    /\ MarkedWhenDealtWith

-----------------------------------------------------------------------------
(* Sequences *)

LEMMA SequenceFacts ==
  ASSUME NEW s, IsSequence(s)
  PROVE  /\ Len(s) \in Nat /\ DOMAIN s = 1 .. Len(s)
         /\ s = <<>> => Len(s) = 0
<1>1. PICK n \in Nat : s = [i \in 1 .. n |-> s[i]]
  BY DEF IsSequence
<1> DEFINE S == {s[i] : i \in 1 .. n}
<1>2. s \in [1 .. n -> S]
  BY <1>1
<1>3. s \in Seq(S)
  BY <1>2
<1> QED
  BY <1>2, <1>3

LEMMA SequenceAppend ==
  ASSUME NEW s, IsSequence(s), NEW x
  PROVE  /\ IsSequence(Append(s, x))
         /\ Len(Append(s, x)) = Len(s) + 1
         /\ DOMAIN Append(s, x) = DOMAIN s \cup {Len(s) + 1}
         /\ Append(s, x)[Len(s) + 1] = x
         /\ \A i \in DOMAIN s : Append(s, x)[i] = s[i]
<1>1. PICK n \in Nat : s = [i \in 1 .. n |-> s[i]]
  BY DEF IsSequence
<1> DEFINE S == {s[i] : i \in 1 .. n} \cup {x}
           t == Append(s, x)
<1>2. s \in [1 .. n -> S]
  BY <1>1
<1>3. s \in Seq(S) /\ x \in S
  BY <1>2
<1>4. Len(s) = n /\ DOMAIN s = 1 .. n
  BY <1>2, <1>3
<1> HIDE DEF S
<1>5. t \in Seq(S) /\ Len(t) = n + 1 /\ t[n + 1] = x /\ \A i \in 1 .. n : t[i] = s[i]
  BY <1>3, <1>4
<1>6. DOMAIN t = 1 .. (n + 1) /\ n + 1 \in Nat /\ DOMAIN t = DOMAIN s \cup {Len(s) + 1}
  BY <1>4, <1>5
<1> HIDE DEF t
<1>7. t \in [1 .. (n + 1) -> S]
  BY <1>5, <1>6
<1>8. IsSequence(t)
  BY <1>6, <1>7 DEF IsSequence
<1> QED
  BY <1>4, <1>5, <1>6, <1>8 DEF t

LEMMA SequenceUpdate ==
  ASSUME NEW s, IsSequence(s), NEW r, NEW x, NEW t, t = [s EXCEPT ![r] = x]
  PROVE  IsSequence(t) /\ DOMAIN t = DOMAIN s /\ Len(t) = Len(s)
<1>1. PICK n \in Nat : s = [i \in 1 .. n |-> s[i]]
  BY DEF IsSequence
<1>2. DOMAIN s = 1 .. n /\ DOMAIN t = 1 .. n /\ t = [i \in 1 .. n |-> t[i]]
  BY <1>1
<1>3. IsSequence(t)
  BY <1>2 DEF IsSequence
<1>4. Len(t) = n /\ Len(s) = n
  BY <1>2, <1>3, SequenceFacts
<1> QED
  BY <1>2, <1>3, <1>4

-----------------------------------------------------------------------------
(* Steps of one pass *)

(* What any step of p leaves of the others, and of what runs have done.    *)
Onward(p) ==
    /\ UNCHANGED similar
    /\ IsSequence(log') /\ IsSequence(runs') /\ Len(log') = Len(runs')
    /\ \A r \in DOMAIN log' : IsEntry(log'[r])
    /\ pc' \in [Passes -> Steps]
    /\ DOMAIN run' = Passes /\ DOMAIN batch' = Passes /\ DOMAIN todo' = Passes
    /\ \A q \in Passes \ {p} : /\ pc'[q] = pc[q] /\ run'[q] = run[q]
                               /\ batch'[q] = batch[q] /\ todo'[q] = todo[q]
    /\ \A r \in DOMAIN log :
          /\ r \in DOMAIN log'
          /\ \/ log'[r].batch = log[r].batch /\ log[r].dealt \subseteq log'[r].dealt
             \/ log[r].batch = {}
          /\ log'[r] = log[r] \/ (UnderWay(p) /\ r = run[p])

(* What it leaves of p. *)
Ready(p) ==
    /\ pc'[p] \notin {"idle", "start"} =>
          \/ run'[p] = Len(log) + 1 /\ run'[p] \in DOMAIN log'
          \/ UnderWay(p) /\ run'[p] = run[p]
    /\ Dealing(p)'

(* The items of a batch never change. *)
LEMMA SameItems ==
  ASSUME UNCHANGED similar
  PROVE  /\ \A S : FactItems(S)' = FactItems(S)
         /\ \A q : FactItems(batch[q])' = FactItems(batch'[q])
         /\ \A r : FactItems(log[r].batch)' = FactItems(log'[r].batch)
BY DEF FactItems, SimilarPairs

(* Who deals with a batch still does after another's step. *)
LEMMA OthersDeal ==
  ASSUME MarkInv, NEW p \in Passes, Onward(p), NEW q \in Passes \ {p}
  PROVE  Dealing(q)'
<1>1. /\ pc'[q] = pc[q] /\ run'[q] = run[q] /\ batch'[q] = batch[q] /\ todo'[q] = todo[q]
      /\ pc[q] \in Steps /\ Dealing(q)
      /\ FactItems(batch[q])' = FactItems(batch[q]) /\ ProcedureItems(batch[q])' = ProcedureItems(batch[q])
  BY SameItems DEF Onward, MarkInv, RecordsHeld
<1>2. CASE ~UnderWay(q)
  BY <1>1, <1>2 DEF Dealing, UnderWay
<1>3. CASE UnderWay(q)
  <2>1. run[q] \in DOMAIN log /\ ~(UnderWay(p) /\ run[q] = run[p])
    BY <1>3 DEF MarkInv, RecordsHeld
  <2>2. log'[run[q]] = log[run[q]]
    BY <2>1 DEF Onward
  <2> QED
    BY <1>1, <2>2 DEF Dealing
<1> QED
  BY <1>2, <1>3

(* A step that marks nothing leaves the marks justified. *)
LEMMA MarksStay ==
  ASSUME MarkInv, NEW p \in Passes, Onward(p), NEW e \in Episodes, state[e] = "consolidated"
  PROVE  \E r \in DOMAIN log' :
            /\ e \in log'[r].batch
            /\ (FactItems(log[r].batch) \cup ProcedureItems(log[r].batch))' \subseteq log'[r].dealt
<1>1. PICK r \in DOMAIN log :
         /\ e \in log[r].batch
         /\ FactItems(log[r].batch) \cup ProcedureItems(log[r].batch) \subseteq log[r].dealt
  BY DEF MarkInv, MarkedWhenDealtWith
<1>2. r \in DOMAIN log' /\ log'[r].batch = log[r].batch /\ log[r].dealt \subseteq log'[r].dealt
  BY <1>1 DEF Onward
<1>3. /\ FactItems(log[r].batch)' = FactItems(log[r].batch)
      /\ ProcedureItems(log[r].batch)' = ProcedureItems(log[r].batch)
  BY <1>2, SameItems DEF Onward
<1> QED
  BY <1>1, <1>2, <1>3

(* A step of p that keeps the others on their way and leaves p ready       *)
(* preserves the invariant, if what it marks is justified.                 *)
LEMMA StepOfOne ==
  ASSUME MarkInv, NEW p \in Passes, Onward(p), Ready(p), DOMAIN state' = Episodes,
         \A e \in Episodes : state'[e] = "consolidated" =>
            \/ state[e] = "consolidated"
            \/ \E r \in DOMAIN log' :
                  /\ e \in log'[r].batch
                  /\ (FactItems(log[r].batch) \cup ProcedureItems(log[r].batch))' \subseteq log'[r].dealt
  PROVE  MarkInv'
<1>1. Len(log) \in Nat /\ DOMAIN log = 1 .. Len(log)
  BY SequenceFacts DEF MarkInv, RecordsHeld
<1>2. \A q \in Passes : UnderWay(q)' => run'[q] \in DOMAIN log'
  BY <1>1 DEF MarkInv, RecordsHeld, Onward, Ready, UnderWay
<1>3. ASSUME NEW q \in Passes \ {p}, UnderWay(q)', UnderWay(p)' PROVE run'[q] # run'[p]
  <2>1. UnderWay(q) /\ run'[q] = run[q] /\ run[q] \in 1 .. Len(log)
    BY <1>1, <1>3 DEF MarkInv, RecordsHeld, Onward, UnderWay
  <2>2. CASE run'[p] = Len(log) + 1
    BY <1>1, <2>1, <2>2
  <2>3. CASE UnderWay(p) /\ run'[p] = run[p]
    BY <2>1, <2>3 DEF MarkInv, RecordsHeld
  <2> QED
    BY <1>3, <2>2, <2>3 DEF Ready, UnderWay
<1>4. \A q, o \in Passes \ {p} : UnderWay(q)' /\ UnderWay(o)' /\ run'[q] = run'[o] => q = o
  BY DEF MarkInv, RecordsHeld, Onward, UnderWay
<1>5. RecordsHeld'
  <2>1. \A q, o \in Passes : UnderWay(q)' /\ UnderWay(o)' /\ run'[q] = run'[o] => q = o
    BY <1>3, <1>4
  <2> QED
    BY <1>2, <2>1 DEF RecordsHeld, Onward
<1>6. \A q \in Passes : Dealing(q)'
  BY OthersDeal DEF Ready
<1>7. MarkedWhenDealtWith'
  BY MarksStay DEF MarkedWhenDealtWith
<1> QED
  BY <1>5, <1>6, <1>7 DEF MarkInv

(* The steps that leave the log and the records alone. *)
LEMMA QuietStep ==
  ASSUME MarkInv, NEW p \in Passes, UNCHANGED <<similar, log>>,
         runs' = runs \/ \E x : runs' = [runs EXCEPT ![run[p]] = x],
         NEW step \in Steps, pc' = [pc EXCEPT ![p] = step],
         DOMAIN run' = Passes, DOMAIN batch' = Passes, DOMAIN todo' = Passes,
         \A q \in Passes \ {p} :
            run'[q] = run[q] /\ batch'[q] = batch[q] /\ todo'[q] = todo[q]
  PROVE  Onward(p)
<1>1. IsSequence(runs') /\ Len(runs') = Len(runs)
  <2>1. IsSequence(runs)
    BY DEF MarkInv, RecordsHeld
  <2>2. CASE runs' = runs
    BY <2>1, <2>2
  <2>3. ASSUME NEW x, runs' = [runs EXCEPT ![run[p]] = x]
        PROVE  IsSequence(runs') /\ Len(runs') = Len(runs)
    <3> DEFINE t == [runs EXCEPT ![run[p]] = x]
    <3>1. IsSequence(t) /\ Len(t) = Len(runs)
      BY <2>1, SequenceUpdate
    <3> QED
      BY <2>3, <3>1
  <2> QED
    BY <2>2, <2>3
<1> QED
  BY <1>1 DEF Onward, MarkInv, RecordsHeld

LEMMA EntryUpdate ==
  ASSUME NEW x, IsEntry(x), NEW dealt
  PROVE  /\ IsEntry([x EXCEPT !.dealt = dealt])
         /\ [x EXCEPT !.dealt = dealt].batch = x.batch
         /\ [x EXCEPT !.dealt = dealt].dealt = dealt
<1>1. PICK b, n, d : x = [batch |-> b, seen |-> n, dealt |-> d]
  BY DEF IsEntry
<1>2. [x EXCEPT !.dealt = dealt] = [batch |-> b, seen |-> n, dealt |-> dealt]
  BY <1>1
<1> QED
  BY <1>1, <1>2 DEF IsEntry

(* The steps that deal with items: they are dealt with, and no longer to   *)
(* be.                                                                     *)
LEMMA DealingStep ==
  ASSUME MarkInv, NEW p \in Passes, UnderWay(p), UNCHANGED <<similar, runs, run, batch>>,
         NEW items, Deal(p, items), NEW step \in Steps, pc' = [pc EXCEPT ![p] = step]
  PROVE  /\ Onward(p)
         /\ todo'[p] = todo[p] \ items
         /\ log'[run[p]].batch = log[run[p]].batch
         /\ log'[run[p]].dealt = log[run[p]].dealt \cup items
<1> DEFINE entry == [log[run[p]] EXCEPT !.dealt = log[run[p]].dealt \cup items]
           t == [log EXCEPT ![run[p]] = entry]
<1>1. /\ IsSequence(log) /\ run[p] \in DOMAIN log /\ IsEntry(log[run[p]])
      /\ DOMAIN todo = Passes
  BY DEF MarkInv, RecordsHeld
<1>2. log' = t /\ todo' = [todo EXCEPT ![p] = todo[p] \ items]
  BY <1>1 DEF Deal
<1>3. /\ IsEntry(entry) /\ entry.batch = log[run[p]].batch
      /\ entry.dealt = log[run[p]].dealt \cup items
  BY <1>1, EntryUpdate
<1> HIDE DEF entry
<1>4. IsSequence(t) /\ DOMAIN t = DOMAIN log /\ Len(t) = Len(log)
  BY <1>1, SequenceUpdate
<1>5. t[run[p]] = entry /\ \A r \in DOMAIN log \ {run[p]} : t[r] = log[r]
  BY <1>1, SequenceFacts
<1> HIDE DEF t
<1>6. Onward(p)
  BY <1>1, <1>2, <1>3, <1>4, <1>5 DEF Onward, MarkInv, RecordsHeld
<1> QED
  BY <1>1, <1>2, <1>3, <1>5, <1>6

LEMMA SameMarks ==
  ASSUME MarkInv, NEW p \in Passes, Onward(p), Ready(p), UNCHANGED state
  PROVE  MarkInv'
<1>1. DOMAIN state = Episodes
  BY DEF MarkInv, RecordsHeld
<1> QED
  BY <1>1, StepOfOne

LEMMA PassKeeps ==
  ASSUME MarkInv, NEW p \in Passes,
         \/ Check(p) \/ ForceRun(p) \/ PassStep(p) \/ PassFails(p)
         \/ \E item \in todo[p] : SkipItem(p, item)
  PROVE  MarkInv'
<1> USE DEF Goto
<1>0. /\ RecordsHeld /\ Dealing(p) /\ pc[p] \in Steps
      /\ pc \in [Passes -> Steps]
      /\ DOMAIN run = Passes /\ DOMAIN batch = Passes /\ DOMAIN todo = Passes
  BY DEF MarkInv, RecordsHeld
<1>1. CASE Check(p) \/ ForceRun(p)
  <2>1. /\ pc[p] = "idle" /\ pc' = [pc EXCEPT ![p] = "start"] /\ "start" \in Steps
        /\ UNCHANGED <<similar, log, run, runs, batch, todo, state>>
    BY <1>1 DEF Check, MayStart, ForceRun, store, Steps
  <2>2. Onward(p)
    BY <1>0, <2>1, QuietStep
  <2>3. Ready(p)
    BY <1>0, <2>1 DEF Ready, Dealing
  <2> QED
    BY <2>1, <2>2, <2>3, SameMarks
<1>2. CASE StartRun(p)
  <2> DEFINE row == [done |-> FALSE, processed |-> 0, tally |-> NoTally]
             entry == [batch |-> {}, seen |-> {}, dealt |-> {}]
             n == Len(log) + 1
  <2>1. /\ pc[p] = "start" /\ pc' = [pc EXCEPT ![p] = "list"]
        /\ runs' = Append(runs, row) /\ log' = Append(log, entry)
        /\ run' = [run EXCEPT ![p] = n]
        /\ UNCHANGED <<similar, batch, todo, state>>
    BY <1>0, <1>2 DEF StartRun, store, RecordsHeld
  <2>2. IsSequence(log) /\ IsSequence(runs) /\ Len(log) = Len(runs)
    BY <1>0 DEF RecordsHeld
  <2>3. IsEntry(entry) /\ entry.batch = {}
    BY DEF IsEntry
  <2> HIDE DEF row, entry
  <2>4. IsSequence(runs') /\ Len(runs') = Len(runs) + 1
    BY <2>1, <2>2, SequenceAppend
  <2>5. /\ IsSequence(log') /\ Len(log') = Len(log) + 1
        /\ DOMAIN log' = DOMAIN log \cup {n}
        /\ log'[n] = entry /\ \A r \in DOMAIN log : log'[r] = log[r]
    BY <2>1, <2>2, SequenceAppend
  <2>6. \A r \in DOMAIN log' : IsEntry(log'[r])
    BY <1>0, <2>3, <2>5 DEF RecordsHeld
  <2>7. Onward(p)
    BY <1>0, <2>1, <2>2, <2>4, <2>5, <2>6 DEF Onward, Steps
  <2>8. run'[p] = n /\ pc'[p] = "list" /\ log'[run'[p]].batch = {}
    BY <1>0, <2>1, <2>3, <2>5
  <2>9. Ready(p)
    BY <2>5, <2>8 DEF Ready, Dealing, Steps
  <2> QED
    BY <2>1, <2>7, <2>9, SameMarks
<1>3. CASE ListBatch(p)
  <2> DEFINE listed == Oldest(Unconsolidated, BatchSize)
             entry == [batch |-> listed, seen |-> {r \in DOMAIN runs : runs[r].done}, dealt |-> {}]
             t == [log EXCEPT ![run[p]] = entry]
             step == IF listed = {} THEN "complete" ELSE "facts"
  <2>1. /\ pc[p] = "list" /\ pc' = [pc EXCEPT ![p] = step]
        /\ batch' = [batch EXCEPT ![p] = listed]
        /\ todo' = [todo EXCEPT ![p] = FactItems(listed)]
        /\ log' = t
        /\ UNCHANGED <<similar, runs, run, state>>
    BY <1>3 DEF ListBatch, store
  <2>2. /\ IsSequence(log) /\ IsSequence(runs) /\ Len(log) = Len(runs)
        /\ run[p] \in DOMAIN log /\ log[run[p]].batch = {} /\ UnderWay(p)
    BY <1>0, <2>1 DEF RecordsHeld, Dealing, UnderWay
  <2>3. IsEntry(entry) /\ entry.batch = listed /\ entry.dealt = {} /\ step \in {"complete", "facts"}
    BY DEF IsEntry
  <2> HIDE DEF entry, listed, step
  <2>4. IsSequence(t) /\ DOMAIN t = DOMAIN log /\ Len(t) = Len(log)
    BY <2>2, SequenceUpdate, ZenonT(60)
  <2>5. t[run[p]] = entry /\ \A r \in DOMAIN log \ {run[p]} : t[r] = log[r]
    BY <2>2, SequenceFacts
  <2> HIDE DEF t
  <2>6. \A r \in DOMAIN t : IsEntry(t[r])
    BY <1>0, <2>3, <2>4, <2>5 DEF RecordsHeld
  <2>7. Onward(p)
    <3>1. pc' \in [Passes -> Steps]
      BY <1>0, <2>1, <2>3 DEF Steps
    <3> QED
      BY <1>0, <2>1, <2>2, <2>4, <2>5, <2>6, <3>1 DEF Onward
  <2>8. /\ pc'[p] = step /\ run'[p] = run[p] /\ batch'[p] = listed
        /\ todo'[p] = FactItems(listed) /\ log'[run'[p]] = entry
    BY <1>0, <2>1, <2>5
  <2>9. FactItems(batch[p])' = FactItems(listed)
    BY <2>1, <2>8, SameItems
  <2>10. Ready(p)
    BY <2>2, <2>3, <2>8, <2>9 DEF Ready, Dealing, Steps
  <2> QED
    BY <2>1, <2>7, <2>10, SameMarks
<1>4. ASSUME NEW item, Distil(p, item) PROVE MarkInv'
  <2> DEFINE step == IF pc[p] = "facts" THEN "link_fact" ELSE "link_procedure"
  <2>1. /\ pc[p] \in {"facts", "procedures"} /\ pc' = [pc EXCEPT ![p] = step] /\ step \in Steps
        /\ UNCHANGED <<similar, log, run, runs, batch, todo, state>>
    BY <1>4 DEF Distil, Steps
  <2>2. Onward(p)
    BY <1>0, <2>1, QuietStep
  <2>3. pc'[p] = step /\ FactItems(batch[p])' = FactItems(batch[p])
    BY <1>0, <2>1, SameItems
  <2>4. Ready(p)
    BY <1>0, <2>1, <2>3 DEF Ready, Dealing, UnderWay, Steps
  <2> QED
    BY <2>1, <2>2, <2>4, SameMarks
<1>5. ASSUME UnderWay(p), UNCHANGED <<similar, runs, run, batch, state>>, NEW items, Deal(p, items),
             NEW step \in Steps, pc' = [pc EXCEPT ![p] = step],
             \/ pc[p] \in {"facts", "link_fact"} /\ step \in {"facts", "link_fact"}
             \/ /\ pc[p] \in {"procedures", "link_procedure"}
                /\ step \in {"procedures", "link_procedure"}
      PROVE  MarkInv'
  <2>1. /\ Onward(p)
        /\ todo'[p] = todo[p] \ items
        /\ log'[run[p]].batch = log[run[p]].batch
        /\ log'[run[p]].dealt = log[run[p]].dealt \cup items
    BY <1>5, DealingStep
  <2>2. pc'[p] = step /\ FactItems(batch[p])' = FactItems(batch[p])
    BY <1>0, <1>5, SameItems
  <2>3. Ready(p)
    BY <1>0, <1>5, <2>1, <2>2 DEF Ready, Dealing, Steps
  <2> QED
    BY <1>5, <2>1, <2>3, SameMarks
<1>6. ASSUME NEW item, SkipItem(p, item) PROVE MarkInv'
  <2>1. /\ pc[p] \in {"facts", "procedures"} /\ pc' = [pc EXCEPT ![p] = pc[p]] /\ pc[p] \in Steps
        /\ Deal(p, {item}) /\ UNCHANGED <<similar, runs, run, batch, state>> /\ UnderWay(p)
    BY <1>0, <1>6 DEF SkipItem, store, Steps, UnderWay
  <2> QED
    BY <1>5, <2>1
<1>7. CASE LinkSource(p)
  <2>1. /\ pc[p] \in {"link_fact", "link_procedure"} /\ UnderWay(p)
        /\ UNCHANGED <<similar, runs, run, batch, state>>
    BY <1>7 DEF LinkSource, UnderWay
  <2>2. CASE LastLink(p)
    <3> DEFINE items == {[kind |-> product[p].kind, traces |-> product[p].traces]}
               step == IF pc[p] = "link_fact" THEN "facts" ELSE "procedures"
    <3>1. Deal(p, items) /\ pc' = [pc EXCEPT ![p] = step] /\ step \in Steps
      BY <1>7, <2>2 DEF LinkSource, Steps
    <3> HIDE DEF items
    <3> QED
      BY <1>5, <2>1, <3>1
  <2>3. CASE ~LastLink(p)
    <3>1. UNCHANGED <<todo, log, pc>> /\ pc' = [pc EXCEPT ![p] = pc[p]]
      BY <1>0, <1>7, <2>3 DEF LinkSource
    <3>2. Onward(p)
      BY <1>0, <2>1, <3>1, QuietStep
    <3>3. FactItems(batch[p])' = FactItems(batch[p])
      BY <2>1, SameItems
    <3>4. Ready(p)
      BY <1>0, <2>1, <3>1, <3>3 DEF Ready, Dealing, Steps
    <3> QED
      BY <2>1, <3>2, <3>4, SameMarks
  <2> QED
    BY <2>2, <2>3
<1>8. CASE BeginProcedures(p)
  <2>1. /\ pc[p] = "facts" /\ todo[p] = {} /\ UnderWay(p)
        /\ pc' = [pc EXCEPT ![p] = "procedures"] /\ "procedures" \in Steps
        /\ UNCHANGED <<similar, runs, run, batch, state>>
    BY <1>8 DEF BeginProcedures, store, UnderWay, Steps
  <2>2. /\ pc'[p] = "procedures" /\ FactItems(batch[p])' = FactItems(batch[p])
        /\ ProcedureItems(batch[p])' = ProcedureItems(batch[p])
        /\ FactItems(batch[p]) \subseteq log[run[p]].dealt
    BY <1>0, <2>1, SameItems DEF Dealing
  <2>3. CASE todo' = [todo EXCEPT ![p] = ProcedureItems(batch[p])] /\ UNCHANGED log
    <3>1. Onward(p)
      BY <1>0, <2>1, <2>3, QuietStep
    <3>2. Ready(p)
      BY <1>0, <2>1, <2>2, <2>3 DEF Ready, Dealing, Steps
    <3> QED
      BY <2>1, <3>1, <3>2, SameMarks
  <2>4. CASE Deal(p, ProcedureItems(batch[p]))
    <3>1. /\ Onward(p)
          /\ log'[run[p]].batch = log[run[p]].batch
          /\ log'[run[p]].dealt = log[run[p]].dealt \cup ProcedureItems(batch[p])
      BY <2>1, <2>4, DealingStep
    <3>2. Ready(p)
      BY <1>0, <2>1, <2>2, <3>1 DEF Ready, Dealing, Steps
    <3> QED
      BY <2>1, <3>1, <3>2, SameMarks
  <2> QED
    BY <1>8, <2>3, <2>4 DEF BeginProcedures
<1>9. CASE MarkBatch(p)
  <2>1. /\ pc[p] = "procedures" /\ todo[p] = {} /\ UnderWay(p)
        /\ pc' = [pc EXCEPT ![p] = "complete"] /\ "complete" \in Steps
        /\ state' = Marked(batch[p])
        /\ UNCHANGED <<similar, log, runs, run, batch, todo>>
    BY <1>9 DEF MarkBatch, UnderWay, Steps
  <2>2. Onward(p)
    BY <1>0, <2>1, QuietStep
  <2>3. Ready(p)
    BY <1>0, <2>1 DEF Ready, Dealing, Steps
  <2>4. /\ run[p] \in DOMAIN log /\ log[run[p]].batch = batch[p]
        /\ FactItems(batch[p]) \cup ProcedureItems(batch[p]) \subseteq log[run[p]].dealt
    BY <1>0, <2>1 DEF RecordsHeld, Dealing, Steps
  <2>5. (FactItems(log[run[p]].batch))' = FactItems(batch[p])
    BY <2>1, <2>4, SameItems
  <2>6. (ProcedureItems(log[run[p]].batch))' = ProcedureItems(batch[p])
    BY <2>1, <2>4
  <2>7. ASSUME NEW e \in Episodes, state'[e] = "consolidated"
        PROVE  \/ state[e] = "consolidated"
               \/ \E r \in DOMAIN log' :
                     /\ e \in log'[r].batch
                     /\ (FactItems(log[r].batch) \cup ProcedureItems(log[r].batch))' \subseteq log'[r].dealt
    <3>1. CASE e \in batch[p]
      BY <2>1, <2>4, <2>5, <2>6, <3>1
    <3>2. CASE e \notin batch[p]
      BY <2>1, <2>7, <3>2 DEF Marked
    <3> QED
      BY <3>1, <3>2
  <2>8. DOMAIN state' = Episodes
    BY <2>1 DEF Marked
  <2> QED
    BY <2>2, <2>3, <2>7, <2>8, StepOfOne
<1>10. CASE CompleteRun(p) \/ PassFails(p)
  <2>1. /\ pc' = [pc EXCEPT ![p] = "idle"] /\ "idle" \in Steps
        /\ run' = [run EXCEPT ![p] = 0]
        /\ batch' = [batch EXCEPT ![p] = {}] /\ todo' = [todo EXCEPT ![p] = {}]
        /\ UNCHANGED <<similar, log, state>>
        /\ runs' = runs \/ \E x : runs' = [runs EXCEPT ![run[p]] = x]
    BY <1>10 DEF CompleteRun, PassFails, End, store, Steps
  <2>2. Onward(p)
    BY <1>0, <2>1, QuietStep
  <2>3. Ready(p)
    BY <1>0, <2>1 DEF Ready, Dealing, Steps
  <2> QED
    BY <2>1, <2>2, <2>3, SameMarks
<1> QED
  BY <1>1, <1>2, <1>3, <1>4, <1>6, <1>7, <1>8, <1>9, <1>10 DEF PassStep

LEMMA MarkInit == Init => MarkInv
<1> SUFFICES ASSUME Init PROVE MarkInv
  OBVIOUS
<1>1. IsSequence(<<>>) /\ Len(<<>>) = 0 /\ DOMAIN <<>> = {}
  BY DEF IsSequence
<1>2. RecordsHeld
  BY <1>1 DEF Init, RecordsHeld, Steps, UnderWay
<1>3. \A p \in Passes : Dealing(p)
  BY DEF Init, Dealing
<1>4. MarkedWhenDealtWith
  BY DEF Init, MarkedWhenDealtWith
<1> QED
  BY <1>2, <1>3, <1>4 DEF MarkInv

LEMMA MarkStep == MarkInv /\ [Next]_vars => MarkInv'
<1> SUFFICES ASSUME MarkInv, [Next]_vars PROVE MarkInv'
  OBVIOUS
<1>1. ASSUME UNCHANGED <<similar, log, runs, pc, run, batch, todo>>, DOMAIN state' = Episodes,
             \A e \in Episodes : state'[e] = "consolidated" => state[e] = "consolidated"
      PROVE  MarkInv'
  <2>1. /\ \A q : FactItems(batch[q])' = FactItems(batch[q])
        /\ \A r : FactItems(log[r].batch)' = FactItems(log[r].batch)
    BY <1>1, SameItems
  <2>2. RecordsHeld'
    BY <1>1 DEF MarkInv, RecordsHeld, UnderWay
  <2>3. \A p \in Passes : Dealing(p)'
    BY <1>1, <2>1 DEF MarkInv, Dealing
  <2>4. MarkedWhenDealtWith'
    BY <1>1, <2>1 DEF MarkInv, MarkedWhenDealtWith
  <2> QED
    BY <2>2, <2>3, <2>4 DEF MarkInv
<1>2. CASE Remember \/ Forget \/ WindowElapses \/ UNCHANGED vars
  BY <1>1, <1>2 DEF Remember, Forget, WindowElapses, store, vars, working, MarkInv, RecordsHeld
<1> QED
  BY <1>2, PassKeeps DEF Next

(* An episode is marked consolidated only when a pass that listed it has   *)
(* dealt with every fact, skill and lesson of its batch, whatever other    *)
(* passes, forgets and failures come in between.                           *)
THEOREM NothingSkipped == Spec => []MarkedWhenDealtWith
<1>1. MarkInv => MarkedWhenDealtWith
  BY DEF MarkInv
<1> QED
  BY <1>1, MarkInit, MarkStep, PTL DEF Spec

-----------------------------------------------------------------------------
(* Functions defined by removing the elements of a set one by one *)

(* A set of naturals that holds 0 and, with a number, the next one, holds  *)
(* all of them.                                                            *)
LEMMA AllNaturals ==
  ASSUME NEW T \in SUBSET Nat, 0 \in T, \A n \in T : n + 1 \in T
  PROVE  T = Nat
<1> SUFFICES ASSUME Nat \ T # {} PROVE FALSE
  OBVIOUS
<1> DEFINE Less == {z \in Nat \X Nat : z[1] < z[2]}
<1>1. IsWellFoundedOn(Less, Nat)
  BY NatLessThanWellFounded DEF OpToRel
<1>2. PICK x \in Nat \ T : \A y \in Nat \ T : <<y, x>> \notin Less
  <2> HIDE DEF Less
  <2>1. Nat \ T \subseteq Nat
    OBVIOUS
  <2> QED
    BY <1>1, <2>1, WFMin
<1>3. x # 0 /\ x - 1 \in Nat
  OBVIOUS
<1>4. x - 1 \in T
  <2>1. <<x - 1, x>> \in Less
    BY <1>3
  <2> HIDE DEF Less
  <2> QED
    BY <1>2, <1>3, <2>1
<1>5. (x - 1) + 1 \in T /\ (x - 1) + 1 = x
  BY <1>3, <1>4
<1> QED
  BY <1>5

Chosen(s) == CHOOSE x \in s : TRUE

LEMMA ChosenFrom == \A s : s # {} => Chosen(s) \in s
BY DEF Chosen

(* h is defined by removing the elements of a set one by one. *)
Recursive(h, S, base, next) ==
  \A s \in SUBSET S : h[s] = IF s = {} THEN base ELSE next[<<Chosen(s), h[s \ {Chosen(s)}]>>]

(* g unites clusters pair by pair. *)
Unites(g, items, pairs) ==
  \A s \in SUBSET pairs :
     g[s] = IF s = {} THEN Singletons(items) ELSE Union(Chosen(s), g[s \ {Chosen(s)}])

(* A function on the subsets of a finite set can be defined by removing    *)
(* elements one by one.                                                    *)
LEMMA RecursionOnSubsets ==
  ASSUME NEW S, IsFiniteSet(S), NEW V, NEW base \in V, NEW next \in [S \X V -> V]
  PROVE  \E h \in [SUBSET S -> V] : Recursive(h, S, base, next)
<1> DEFINE Level(n) == {s \in SUBSET S : Cardinality(s) <= n}
           Solves(h, n) == \A s \in Level(n) :
              h[s] = IF s = {} THEN base ELSE next[<<Chosen(s), h[s \ {Chosen(s)}]>>]
           Solved == {n \in Nat : \E h \in [Level(n) -> V] : Solves(h, n)}
<1>1. \A s \in SUBSET S : Cardinality(s) \in Nat /\ (Cardinality(s) = 0 => s = {})
  BY FS_Subset, FS_CardinalityType, FS_EmptySet
<1>2. \A s \in SUBSET S : s # {} =>
         /\ Chosen(s) \in S /\ s \ {Chosen(s)} \in SUBSET S
         /\ Cardinality(s \ {Chosen(s)}) = Cardinality(s) - 1
  BY ChosenFrom, FS_Subset, FS_RemoveElement
<1>3. 0 \in Solved
  <2> DEFINE h == [s \in Level(0) |-> base]
  <2>1. \A s \in Level(0) : s = {}
    BY <1>1
  <2>2. h \in [Level(0) -> V] /\ Solves(h, 0)
    BY <2>1
  <2> QED
    BY <2>2
<1>4. ASSUME NEW n \in Solved PROVE n + 1 \in Solved
  <2>1. PICK g \in [Level(n) -> V] : Solves(g, n)
    OBVIOUS
  <2> DEFINE h == [s \in Level(n + 1) |->
                     IF s = {} THEN base ELSE next[<<Chosen(s), g[s \ {Chosen(s)}]>>]]
  <2>2. \A s \in Level(n + 1) : s # {} => s \ {Chosen(s)} \in Level(n)
    BY <1>1, <1>2
  <2>3. \A s \in Level(n) : s \in Level(n + 1) /\ h[s] = g[s]
    BY <1>1, <2>1
  <2>4. h \in [Level(n + 1) -> V]
    BY <1>2, <2>2
  <2>5. Solves(h, n + 1)
    BY <2>2, <2>3
  <2> HIDE DEF Level, Solves, h
  <2> QED
    BY <2>4, <2>5
<1>5. Solved = Nat
  <2> HIDE DEF Solved
  <2>1. Solved \in SUBSET Nat
    BY DEF Solved
  <2> QED
    BY <1>3, <1>4, <2>1, AllNaturals
<1>6. Level(Cardinality(S)) = SUBSET S /\ Cardinality(S) \in Nat
  BY <1>1, FS_Subset
<1>7. PICK h \in [Level(Cardinality(S)) -> V] : Solves(h, Cardinality(S))
  <2> HIDE DEF Level, Solves
  <2> QED
    BY <1>5, <1>6
<1> QED
  BY <1>6, <1>7 DEF Recursive

(* The union of the clusters of a set of pairs, pair by pair. *)
LEMMA ClusteringUnfolds ==
  ASSUME NEW items, NEW pairs, IsFiniteSet(pairs)
  PROVE  \E g : ClusterBySimilarity(items, pairs) = g[pairs] /\ Unites(g, items, pairs)
<1> DEFINE V == SUBSET SUBSET items
           Step(g, s) == IF s = {} THEN Singletons(items)
                         ELSE Union(CHOOSE x \in s : TRUE, g[s \ {CHOOSE x \in s : TRUE}])
           next == [z \in pairs \X V |-> Union(z[1], z[2])]
           iter == CHOOSE g : g = [s \in SUBSET pairs |-> Step(g, s)]
<1>1. Singletons(items) \in V /\ next \in [pairs \X V -> V]
  BY DEF Singletons, Union
<1> DEFINE base == Singletons(items)
<1> HIDE DEF V, next, base
<1>2. PICK h \in [SUBSET pairs -> V] : Recursive(h, pairs, base, next)
  BY <1>1, RecursionOnSubsets DEF base
<1>3. ASSUME NEW s \in SUBSET pairs PROVE h[s] = Step(h, s)
  <2>1. CASE s = {}
    BY <1>2, <2>1 DEF base, Recursive
  <2>2. CASE s # {}
    <3>1. Chosen(s) \in pairs /\ s \ {Chosen(s)} \in SUBSET pairs
      BY <2>2, ChosenFrom
    <3>2. h[s \ {Chosen(s)}] \in V
      BY <3>1
    <3>3. next[<<Chosen(s), h[s \ {Chosen(s)}]>>] = Union(Chosen(s), h[s \ {Chosen(s)}])
      BY <3>1, <3>2 DEF next
    <3>4. h[s] = Union(Chosen(s), h[s \ {Chosen(s)}])
      BY <1>2, <2>2, <3>3 DEF Recursive
    <3> QED
      BY <2>2, <3>4 DEF Chosen
  <2> QED
    BY <2>1, <2>2
<1>4. h = [s \in SUBSET pairs |-> Step(h, s)]
  BY <1>3
<1>5. \E g : g = [s \in SUBSET pairs |-> Step(g, s)]
  BY <1>4
<1>6. iter = [s \in SUBSET pairs |-> Step(iter, s)]
  <2> HIDE DEF Step
  <2> QED BY <1>5
<1>7. ClusterBySimilarity(items, pairs) = iter[pairs]
  BY DEF ClusterBySimilarity, FoldSet, MapThenFoldSet
<1>8. \A s \in SUBSET pairs : iter[s] = Step(iter, s)
  <2> HIDE DEF Step, iter
  <2> QED BY <1>6
<1> HIDE DEF iter
<1> QED
  BY <1>7, <1>8 DEF Chosen, Unites

(* What holds of the singletons, and after each pair, holds of the         *)
(* clusters.                                                               *)
LEMMA ClusterInduction ==
  ASSUME NEW items, NEW pairs, IsFiniteSet(pairs), NEW Good,
         Singletons(items) \in Good[{}],
         \A s \in SUBSET pairs : \A pair \in pairs : \A clusters \in Good[s] :
            Union(pair, clusters) \in Good[s \cup {pair}]
  PROVE  ClusterBySimilarity(items, pairs) \in Good[pairs]
<1>1. PICK g : ClusterBySimilarity(items, pairs) = g[pairs] /\ Unites(g, items, pairs)
  BY ClusteringUnfolds
<1> DEFINE Holds == {n \in Nat : \A s \in SUBSET pairs : Cardinality(s) = n => g[s] \in Good[s]}
<1>2. \A s \in SUBSET pairs : Cardinality(s) \in Nat /\ (Cardinality(s) = 0 => s = {})
  BY FS_Subset, FS_CardinalityType, FS_EmptySet
<1>3. 0 \in Holds
  BY <1>1, <1>2 DEF Unites
<1>4. ASSUME NEW n \in Holds PROVE n + 1 \in Holds
  <2> SUFFICES ASSUME NEW s \in SUBSET pairs, Cardinality(s) = n + 1 PROVE g[s] \in Good[s]
    OBVIOUS
  <2> DEFINE x == Chosen(s)
             t == s \ {x}
  <2>1. s # {} /\ IsFiniteSet(s)
    BY FS_Subset, FS_EmptySet
  <2>2. x \in s
    BY <2>1, ChosenFrom
  <2> HIDE DEF x
  <2>3. Cardinality(t) = n /\ t \in SUBSET pairs /\ s = t \cup {x}
    <3>1. Cardinality(t) = Cardinality(s) - 1
      BY <2>1, <2>2, FS_RemoveElement
    <3> QED
      BY <2>2, <3>1
  <2>4. g[t] \in Good[t]
    BY <2>3
  <2>5. g[s] = Union(x, g[t])
    BY <1>1, <2>1 DEF x, Unites
  <2> HIDE DEF t
  <2> QED
    BY <2>2, <2>3, <2>4, <2>5
<1>5. Holds = Nat
  <2> HIDE DEF Holds
  <2>1. Holds \in SUBSET Nat
    BY DEF Holds
  <2> QED
    BY <1>3, <1>4, <2>1, AllNaturals
<1> QED
  BY <1>1, <1>2, <1>5

-----------------------------------------------------------------------------
(* Clusters and components *)

(* P is a partition of the items into smallest closed sets. *)
Separates(P, items) ==
    /\ P \subseteq SUBSET items /\ {} \notin P
    /\ \A x \in items : \E C \in P : x \in C
    /\ \A C, D \in P : C \cap D # {} => C = D

SmallestClosed(C, items, pairs) ==
    /\ Closed(C, items, pairs)
    /\ \A D \in (SUBSET C) \ {{}} : Closed(D, items, pairs) => D = C

IsClustering(P, items, pairs) ==
    Separates(P, items) /\ \A C \in P : SmallestClosed(C, items, pairs)

LEMMA ClusteringIsComponents ==
  ASSUME NEW items, NEW pairs, NEW P, IsClustering(P, items, pairs)
  PROVE  P = Components(items, pairs)
<1>1. ASSUME NEW C \in P PROVE C \in Components(items, pairs)
  <2>1. C \in (SUBSET items) \ {{}} /\ SmallestClosed(C, items, pairs)
    BY DEF IsClustering, Separates
  <2> QED
    BY <2>1 DEF SmallestClosed, Components
<1>2. ASSUME NEW D \in Components(items, pairs) PROVE D \in P
  <2>1. D \in SUBSET items /\ D # {} /\ SmallestClosed(D, items, pairs)
    BY DEF Components, SmallestClosed
  <2>2. PICK C \in P : C \cap D # {}
    BY <2>1 DEF IsClustering, Separates
  <2>3. SmallestClosed(C, items, pairs)
    BY DEF IsClustering
  <2>4. Closed(C \cap D, items, pairs)
    BY <2>1, <2>3 DEF SmallestClosed, Closed
  <2>5. C \cap D = C /\ C \cap D = D
    BY <2>1, <2>2, <2>3, <2>4 DEF SmallestClosed
  <2> QED
    BY <2>5
<1> QED
  BY <1>1, <1>2

(* A set that is closed under more pairs is closed under fewer. *)
LEMMA ClosedUnderFewer ==
  ASSUME NEW items, NEW s, NEW t, s \subseteq t, NEW D, Closed(D, items, t)
  PROVE  Closed(D, items, s)
BY DEF Closed

(* One union makes the clusters of one pair more. *)
LEMMA UnionKeepsClustering ==
  ASSUME NEW items, NEW pairs, NEW a \in items, NEW b \in items,
         NEW P, IsClustering(P, items, pairs)
  PROVE  IsClustering(Union({a, b}, P), items, pairs \cup {{a, b}})
<1> DEFINE pair == {a, b}
           Met == {C \in P : C \cap pair # {}}
           M == UNION Met
           Apart == {C \in P : C \cap pair = {}}
           more == pairs \cup {pair}
<1>1. Union(pair, P) = Apart \cup {M}
  BY DEF Union
<1>2. /\ Separates(P, items)
      /\ \A C \in P : SmallestClosed(C, items, pairs)
  BY DEF IsClustering
<1>3. PICK A \in P : a \in A
  BY <1>2 DEF Separates
<1>4. PICK B \in P : b \in B
  BY <1>2 DEF Separates
<1>5. M = A \cup B
  <2>1. A \in Met /\ B \in Met
    BY <1>3, <1>4
  <2>2. \A C \in Met : C = A \/ C = B
    BY <1>2, <1>3, <1>4 DEF Separates
  <2> QED
    BY <2>1, <2>2
<1>6. \A C \in Apart : a \notin C /\ b \notin C /\ C \cap M = {}
  BY <1>2, <1>3, <1>4, <1>5 DEF Separates
<1>7. \A C \in P \ Apart : C = A \/ C = B
  BY <1>2, <1>3, <1>4 DEF Separates
<1> HIDE DEF M, Apart, Met
<1>8. Apart \subseteq P /\ M \in SUBSET items
  BY <1>2, <1>5 DEF Apart, Separates
<1>9. Separates(Apart \cup {M}, items)
  <2>1. \A x \in items : \E C \in Apart \cup {M} : x \in C
    BY <1>2, <1>5, <1>7 DEF Separates
  <2>2. \A C, D \in Apart \cup {M} : C \cap D # {} => C = D
    BY <1>2, <1>6, <1>8 DEF Separates
  <2>3. {} \notin Apart \cup {M} /\ Apart \cup {M} \subseteq SUBSET items
    BY <1>2, <1>3, <1>5, <1>8 DEF Separates
  <2> QED
    BY <2>1, <2>2, <2>3 DEF Separates
<1>10. ASSUME NEW C \in Apart PROVE SmallestClosed(C, items, more)
  <2>1. SmallestClosed(C, items, pairs) /\ C \in SUBSET items
    BY <1>2, <1>8 DEF Separates
  <2>2. Closed(C, items, more)
    BY <1>6, <2>1 DEF Closed, SmallestClosed
  <2>3. \A D \in (SUBSET C) \ {{}} : Closed(D, items, more) => D = C
    BY <2>1, ClosedUnderFewer DEF SmallestClosed
  <2> QED
    BY <2>2, <2>3 DEF SmallestClosed
<1>11. SmallestClosed(M, items, more)
  <2>1. SmallestClosed(A, items, pairs) /\ SmallestClosed(B, items, pairs)
    BY <1>2
  <2>2. Closed(M, items, more)
    <3> SUFFICES ASSUME NEW x \in M, NEW y \in items, {x, y} \in more PROVE y \in M
      BY DEF Closed
    <3>1. CASE {x, y} \in pairs
      BY <1>5, <2>1, <3>1 DEF SmallestClosed, Closed
    <3>2. CASE {x, y} = pair
      <4>1. y = a \/ y = b
        BY <3>2
      <4> QED
        BY <1>3, <1>4, <1>5, <4>1
    <3> QED
      BY <3>1, <3>2
  <2>3. ASSUME NEW D \in (SUBSET M) \ {{}}, Closed(D, items, more) PROVE D = M
    <3>1. Closed(D, items, pairs)
      BY <2>3, ClosedUnderFewer
    <3>2. \A C \in {A, B} : C \cap D # {} => C \subseteq D
      <4> SUFFICES ASSUME NEW C \in {A, B}, C \cap D # {} PROVE C \subseteq D
        OBVIOUS
      <4>1. SmallestClosed(C, items, pairs)
        BY <2>1
      <4>2. Closed(C \cap D, items, pairs)
        BY <3>1, <4>1 DEF SmallestClosed, Closed
      <4> QED
        BY <4>1, <4>2 DEF SmallestClosed
    <3>3. a \in D => b \in D
      BY <2>3 DEF Closed
    <3>4. b \in D => a \in D
      <4>1. {b, a} = {a, b}
        OBVIOUS
      <4> QED
        BY <2>3, <4>1 DEF Closed
    <3>5. A \cap D # {} \/ B \cap D # {}
      BY <1>5
    <3>6. A \subseteq D /\ B \subseteq D
      <4>1. CASE A \cap D # {}
        <5>1. A \subseteq D /\ b \in D
          BY <1>3, <3>2, <3>3, <4>1
        <5> QED
          BY <1>4, <3>2, <5>1
      <4>2. CASE B \cap D # {}
        <5>1. B \subseteq D /\ a \in D
          BY <1>4, <3>2, <3>4, <4>2
        <5> QED
          BY <1>3, <3>2, <5>1
      <4> QED
        BY <3>5, <4>1, <4>2
    <3> QED
      BY <1>5, <3>6
  <2> QED
    BY <2>2, <2>3 DEF SmallestClosed
<1>12. IsClustering(Apart \cup {M}, items, more)
  BY <1>9, <1>10, <1>11 DEF IsClustering
<1> QED
  BY <1>1, <1>12

LEMMA SingletonsCluster ==
  ASSUME NEW items
  PROVE  IsClustering(Singletons(items), items, {}) /\ Singletons(items) \in SUBSET SUBSET items
<1>1. Separates(Singletons(items), items)
  BY DEF Separates, Singletons
<1>2. \A C \in Singletons(items) : Closed(C, items, {})
  BY DEF Closed
<1>3. ASSUME NEW x \in items, NEW D \in (SUBSET {x}) \ {{}} PROVE D = {x}
  OBVIOUS
<1>4. \A C \in Singletons(items) : SmallestClosed(C, items, {})
  BY <1>2, <1>3 DEF SmallestClosed, Singletons
<1> QED
  BY <1>1, <1>4 DEF IsClustering, Singletons

(* Whatever the order of the pairs. *)
LEMMA ClustersOfPairs ==
  ASSUME NEW items, NEW pairs, IsFiniteSet(pairs),
         \A pair \in pairs : \E a, b \in items : pair = {a, b}
  PROVE  ClusterBySimilarity(items, pairs) = Components(items, pairs)
<1> DEFINE Good == [s \in SUBSET pairs |-> {P \in SUBSET SUBSET items : IsClustering(P, items, s)}]
<1>1. Singletons(items) \in Good[{}]
  BY SingletonsCluster
<1>2. ASSUME NEW s \in SUBSET pairs, NEW pair \in pairs, NEW clusters \in Good[s]
      PROVE  Union(pair, clusters) \in Good[s \cup {pair}]
  <2>1. PICK a, b \in items : pair = {a, b}
    OBVIOUS
  <2>2. IsClustering(clusters, items, s)
    OBVIOUS
  <2>3. IsClustering(Union(pair, clusters), items, s \cup {pair})
    BY <2>1, <2>2, UnionKeepsClustering
  <2>4. Union(pair, clusters) \in SUBSET SUBSET items
    BY <2>3 DEF IsClustering, Separates
  <2> QED
    BY <2>3, <2>4
<1>3. ClusterBySimilarity(items, pairs) \in Good[pairs]
  <2> HIDE DEF Good
  <2> QED
    BY <1>1, <1>2, ClusterInduction
<1> QED
  BY <1>3, ClusteringIsComponents

(* Clusters are made of what is clustered. *)
LEMMA ClustersWithin ==
  ASSUME NEW items, NEW pairs, IsFiniteSet(pairs)
  PROVE  ClusterBySimilarity(items, pairs) \subseteq SUBSET items
<1> DEFINE Good == [s \in SUBSET pairs |-> SUBSET SUBSET items]
<1>1. Singletons(items) \in Good[{}]
  BY DEF Singletons
<1>2. \A s \in SUBSET pairs : \A pair \in pairs : \A clusters \in Good[s] :
         Union(pair, clusters) \in Good[s \cup {pair}]
  BY DEF Union
<1>3. ClusterBySimilarity(items, pairs) \in Good[pairs]
  <2> HIDE DEF Good
  <2> QED
    BY <1>1, <1>2, ClusterInduction
<1> QED
  BY <1>3

-----------------------------------------------------------------------------
(* What a batch gives, and what a pass makes of it *)

ProductKinds == {"fact", "skill", "lesson"}

Item(S) == [kind : ProductKinds, traces : SUBSET SUBSET S]

RowsOf(r) == {row \in products : row.run = r}

LinksOf(r) == {l \in links : l[1].run = r}

Linked(row, r) == \A e \in Sources(row) : <<row, e>> \in LinksOf(r)

RowFor(p, item) == [run |-> run[p], kind |-> item.kind, traces |-> item.traces]

(* The rows of a pass that its tally counts: all but the one at hand. *)
Made(p) == RowsOf(run[p]) \ {product[p]}

(* A pass under way made no row twice, has counted and linked every row    *)
(* but the one at hand, and completes only when its batch is marked.       *)
WorkOf(p) ==
    /\ ~runs[run[p]].done
    /\ pc[p] = "list" => RowsOf(run[p]) = {}
    /\ pc[p] # "list" => log[run[p]].batch = batch[p]
    /\ pc[p] \in {"facts", "link_fact"} =>
          /\ \A row \in RowsOf(run[p]) : row.kind = "fact"
          /\ \A item \in todo[p] : item.kind = "fact"
    /\ \A item \in todo[p] :
          /\ UNION item.traces # {}
          /\ RowFor(p, item) \in RowsOf(run[p]) => product[p] = RowFor(p, item)
    /\ product[p] # Null =>
          /\ product[p] \in RowsOf(run[p])
          /\ ~Linked(product[p], run[p])
    /\ \A row \in Made(p) : Linked(row, run[p])
    /\ \A kind \in ProductKinds :
          tally[p][kind] = Cardinality({row \in Made(p) : row.kind = kind})
    /\ pc[p] = "complete" => \A e \in batch[p] : state[e] = "consolidated"

PassInv(p) ==
    /\ batch[p] \in SUBSET Episodes
    /\ todo[p] \subseteq Item(batch[p])
    /\ product[p] # Null <=> pc[p] \in {"link_fact", "link_procedure"}
    /\ tally[p] \in [ProductKinds -> Nat]
    /\ UnderWay(p) => WorkOf(p)
    /\ ~UnderWay(p) => tally[p] = NoTally /\ todo[p] = {}

(* A run drew on nothing a completed run had listed, and the record of a   *)
(* completed run is true.                                                  *)
RunInv(r) ==
    /\ log[r].batch \in SUBSET Episodes
    /\ \A row \in RowsOf(r) : row \in Row /\ Sources(row) \subseteq log[r].batch
    /\ \A s \in log[r].seen :
          s \in DOMAIN runs /\ runs[s].done /\ log[s].batch \cap log[r].batch = {}
    /\ runs[r].done =>
          /\ \A e \in log[r].batch : state[e] = "consolidated"
          /\ \A kind \in ProductKinds :
                runs[r].tally[kind] = Cardinality({row \in RowsOf(r) : row.kind = kind})
          /\ runs[r].processed = Cardinality(log[r].batch)
          /\ \A row \in RowsOf(r) : Linked(row, r)

StoreInv ==
    /\ state \in [Episodes -> {"absent", "fresh", "consolidated"}]
    /\ forgotten \subseteq {e \in Episodes : state[e] # "absent"}
    /\ similar \in SimilarityGraphs
    /\ IsFiniteSet(products) /\ \A row \in products : row.run \in DOMAIN runs
    /\ \A l \in links : l[1] \in products /\ l[2] \in Sources(l[1])
    /\ DOMAIN product = Passes /\ DOMAIN tally = Passes

WorkInv ==
    /\ StoreInv
    /\ \A p \in Passes : PassInv(p)
    /\ \A r \in DOMAIN runs : RunInv(r)

-----------------------------------------------------------------------------
(* Batches give well-formed items *)

LEMMA NotEmpty ==
  ASSUME NEW S, NEW n \in Nat \ {0}, Cardinality(S) >= n
  PROVE  S # {}
BY FS_EmptySet

LEMMA SimilarPairsFinite ==
  ASSUME similar \in SimilarityGraphs, NEW items \in SUBSET Episodes
  PROVE  /\ IsFiniteSet(SimilarPairs(items))
         /\ \A pair \in SimilarPairs(items) : \E a, b \in items : pair = {a, b}
<1>1. IsFiniteSet(Episodes)
  BY ConsolidationAssumption
<1>2. SimilarPairs(items) \in SUBSET SUBSET Episodes
  BY DEF SimilarPairs
<1>3. IsFiniteSet(SUBSET Episodes)
  BY <1>1, FS_SUBSET
<1>4. IsFiniteSet(SimilarPairs(items))
  BY <1>2, <1>3, FS_Subset
<1>5. ASSUME NEW pair \in SimilarPairs(items) PROVE \E a, b \in items : pair = {a, b}
  <2>1. pair \subseteq items /\ Cardinality(pair) = 2 /\ pair \in SUBSET Episodes
    BY ConsolidationAssumption DEF SimilarPairs
  <2>2. IsFiniteSet(pair)
    BY <1>1, <2>1, FS_Subset
  <2>3. PICK a \in pair : TRUE
    BY <2>1, FS_EmptySet
  <2>4. IsFiniteSet(pair \ {a}) /\ Cardinality(pair \ {a}) = 1
    BY <2>1, <2>2, <2>3, FS_RemoveElement
  <2>5. PICK b : pair \ {a} = {b}
    BY <2>4, FS_Singleton
  <2>6. pair = {a, b}
    BY <2>3, <2>5
  <2> QED
    BY <2>1, <2>6
<1> QED
  BY <1>4, <1>5

LEMMA TracePairsFinite ==
  ASSUME NEW sessions \in SUBSET Sessions
  PROVE  IsFiniteSet(TracePairs(sessions))
<1> DEFINE All == {Session[e] : e \in Episodes}
           f == [e \in Episodes |-> Session[e]]
<1>1. f \in Surjection(Episodes, All)
  BY DEF Surjection
<1>2. IsFiniteSet(All)
  <2> HIDE DEF All, f
  <2> QED
    BY <1>1, ConsolidationAssumption, FS_Surjection
<1>3. IsFiniteSet(SUBSET All)
  <2> HIDE DEF All
  <2> QED
    BY <1>2, FS_SUBSET
<1>4. TracePairs(sessions) \in SUBSET SUBSET All
  BY DEF TracePairs, Sessions
<1> QED
  BY <1>3, <1>4, FS_Subset

LEMMA FactsOfBatch ==
  ASSUME similar \in SimilarityGraphs, NEW S \in SUBSET Episodes
  PROVE  \A item \in FactItems(S) :
            item \in Item(S) /\ item.kind = "fact" /\ UNION item.traces # {}
<1>1. ClusterBySimilarity(S, SimilarPairs(S)) \subseteq SUBSET S
  BY SimilarPairsFinite, ClustersWithin
<1> SUFFICES ASSUME NEW C \in ClusterBySimilarity(S, SimilarPairs(S)),
                    Cardinality(C) >= MinClusterSize,
                    NEW item, item = [kind |-> "fact", traces |-> {C}]
             PROVE  item \in Item(S) /\ item.kind = "fact" /\ UNION item.traces # {}
  BY DEF FactItems
<1>2. C # {}
  BY NotEmpty, ConsolidationAssumption
<1> QED
  BY <1>1, <1>2 DEF Item, ProductKinds

LEMMA ProceduresOfBatch ==
  ASSUME NEW S \in SUBSET Episodes
  PROVE  \A item \in ProcedureItems(S) :
            item \in Item(S) /\ item.kind # "fact" /\ UNION item.traces # {}
<1>1. \A s, outcome : Trace(S, s, outcome) \in SUBSET S
  BY DEF Trace
<1>2. \A t : IsTrace(t) => t # {}
  BY NotEmpty, ConsolidationAssumption DEF IsTrace
<1>3. ASSUME NEW item \in LessonItems(S)
      PROVE  item \in Item(S) /\ item.kind # "fact" /\ UNION item.traces # {}
  <2>1. PICK s : /\ IsTrace(Trace(S, s, "failure"))
                 /\ item = [kind |-> "lesson", traces |-> {Trace(S, s, "failure")}]
    BY DEF LessonItems
  <2>2. Trace(S, s, "failure") \in SUBSET S /\ Trace(S, s, "failure") # {}
    BY <1>1, <1>2, <2>1
  <2> QED
    BY <2>1, <2>2 DEF Item, ProductKinds
<1>4. ASSUME NEW item \in SkillItems(S)
      PROVE  item \in Item(S) /\ item.kind # "fact" /\ UNION item.traces # {}
  <2> DEFINE learnt == {s \in Sessions : IsTrace(Trace(S, s, "success"))}
  <2>1. ClusterBySimilarity(learnt, TracePairs(learnt)) \subseteq SUBSET learnt
    BY TracePairsFinite, ClustersWithin
  <2>2. PICK C \in ClusterBySimilarity(learnt, TracePairs(learnt)) :
           /\ Cardinality(C) >= MinRecurrence
           /\ item = [kind |-> "skill", traces |-> {TraceOf(S, s) : s \in C}]
    BY DEF SkillItems
  <2>3. PICK s \in C : s \in learnt
    BY <2>1, <2>2, NotEmpty, ConsolidationAssumption
  <2>4. \A x \in C : TraceOf(S, x) \in SUBSET S
    BY <1>1 DEF TraceOf
  <2>5. TraceOf(S, s) # {}
    BY <1>2, <2>3 DEF TraceOf
  <2> QED
    BY <2>2, <2>3, <2>4, <2>5 DEF Item, ProductKinds
<1> QED
  BY <1>3, <1>4 DEF ProcedureItems

-----------------------------------------------------------------------------
(* What a step of one pass leaves alone *)

SameRun(r) ==
    /\ RowsOf(r)' = RowsOf(r) /\ LinksOf(r)' = LinksOf(r)
    /\ runs'[r] = runs[r]
    /\ log'[r].batch = log[r].batch /\ log'[r].seen = log[r].seen

Untouched(p) ==
    /\ \A q \in Passes \ {p} :
          /\ pc'[q] = pc[q] /\ run'[q] = run[q] /\ batch'[q] = batch[q]
          /\ todo'[q] = todo[q] /\ product'[q] = product[q] /\ tally'[q] = tally[q]
    /\ \A r \in DOMAIN runs : (UnderWay(p) => r # run[p]) => SameRun(r)
    /\ \A e \in Episodes : state[e] = "consolidated" => state'[e] = "consolidated"

LEMMA Domains ==
  ASSUME RecordsHeld
  PROVE  /\ DOMAIN runs = 1 .. Len(runs) /\ DOMAIN log = DOMAIN runs /\ Len(runs) \in Nat
         /\ pc \in [Passes -> Steps]
         /\ DOMAIN run = Passes /\ DOMAIN batch = Passes /\ DOMAIN todo = Passes
         /\ \A p \in Passes : UnderWay(p) => run[p] \in DOMAIN runs /\ run[p] \in Nat
<1>1. IsSequence(runs) /\ IsSequence(log) /\ Len(log) = Len(runs)
  BY DEF RecordsHeld
<1>2. DOMAIN runs = 1 .. Len(runs) /\ DOMAIN log = 1 .. Len(log) /\ Len(runs) \in Nat
  BY <1>1, SequenceFacts
<1> QED
  BY <1>1, <1>2 DEF RecordsHeld

(* The others go on as before. *)
LEMMA OthersWork ==
  ASSUME RecordsHeld, WorkInv, NEW p \in Passes, Untouched(p), NEW q \in Passes \ {p}
  PROVE  PassInv(q)'
<1>1. /\ pc'[q] = pc[q] /\ run'[q] = run[q] /\ batch'[q] = batch[q]
      /\ todo'[q] = todo[q] /\ product'[q] = product[q] /\ tally'[q] = tally[q]
      /\ PassInv(q)
  BY DEF Untouched, WorkInv
<1>2. UnderWay(q)' = UnderWay(q)
  BY <1>1 DEF UnderWay
<1>3. ASSUME UnderWay(q) PROVE WorkOf(q)'
  <2> DEFINE r == run[q]
  <2>1. r \in DOMAIN runs /\ (UnderWay(p) => r # run[p])
    BY <1>3, Domains DEF RecordsHeld
  <2>2. SameRun(r)
    BY <2>1 DEF Untouched
  <2>3. WorkOf(q)
    BY <1>1, <1>3 DEF PassInv
  <2>4. RowsOf(run[q])' = RowsOf(r) /\ LinksOf(run[q])' = LinksOf(r)
    BY <1>1, <2>2 DEF SameRun, RowsOf, LinksOf
  <2>5. runs'[run'[q]] = runs[r] /\ log'[run'[q]].batch = log[r].batch
    BY <1>1, <2>2 DEF SameRun
  <2>6. Made(q)' = Made(q)
    BY <1>1, <2>4 DEF Made
  <2>7. \A row : Linked(row, run[q])' = Linked(row, r)
    BY <2>4 DEF Linked, Sources
  <2>8. \A item : RowFor(q, item)' = RowFor(q, item)
    BY <1>1 DEF RowFor
  <2>9. /\ ~runs'[run'[q]].done
        /\ pc'[q] = "list" => RowsOf(run[q])' = {}
        /\ pc'[q] # "list" => log'[run'[q]].batch = batch'[q]
    BY <1>1, <2>3, <2>4, <2>5 DEF WorkOf
  <2>10. pc'[q] \in {"facts", "link_fact"} =>
           /\ \A row \in RowsOf(run[q])' : row.kind = "fact"
           /\ \A item \in todo'[q] : item.kind = "fact"
    BY <1>1, <2>3, <2>4 DEF WorkOf
  <2>11. \A item \in todo'[q] :
           /\ UNION item.traces # {}
           /\ RowFor(q, item)' \in RowsOf(run[q])' => product'[q] = RowFor(q, item)'
    BY <1>1, <2>3, <2>4, <2>8 DEF WorkOf
  <2>12. product'[q] # Null =>
           /\ product'[q] \in RowsOf(run[q])'
           /\ ~Linked(product[q], run[q])'
    <3>1. Linked(product[q], run[q])' = Linked(product[q], r)
      BY <1>1, <2>4 DEF Linked, Sources
    <3> QED
      BY <1>1, <2>3, <2>4, <3>1 DEF WorkOf
  <2>13. \A row \in Made(q)' : Linked(row, run[q])'
    BY <2>3, <2>6, <2>7 DEF WorkOf
  <2>14. \A kind \in ProductKinds :
           tally'[q][kind] = Cardinality({row \in Made(q)' : row.kind = kind})
    BY <1>1, <2>3, <2>6 DEF WorkOf
  <2>15. pc'[q] = "complete" => \A e \in batch'[q] : state'[e] = "consolidated"
    BY <1>1, <2>3 DEF WorkOf, PassInv, Untouched
  <2> QED
    BY <2>9, <2>10, <2>11, <2>12, <2>13, <2>14, <2>15 DEF WorkOf
<1> QED
  BY <1>1, <1>2, <1>3 DEF PassInv

(* The records of other runs stay true. *)
LEMMA RunsStay ==
  ASSUME RecordsHeld, WorkInv, NEW p \in Passes, Untouched(p), DOMAIN runs \subseteq DOMAIN runs',
         NEW r \in DOMAIN runs, UnderWay(p) => r # run[p]
  PROVE  RunInv(r)'
<1>1. RunInv(r) /\ SameRun(r)
  BY DEF Untouched, WorkInv
<1>2. UnderWay(p) => ~runs[run[p]].done
  BY DEF WorkInv, PassInv, WorkOf
<1>3. \A s \in log[r].seen : s \in DOMAIN runs /\ SameRun(s)
  BY <1>1, <1>2 DEF RunInv, Untouched
<1>4. \A row : Linked(row, r)' = Linked(row, r)
  BY <1>1 DEF SameRun, Linked, Sources
<1>5. \A s \in log'[r].seen :
         s \in DOMAIN runs' /\ runs'[s].done /\ log'[s].batch \cap log'[r].batch = {}
  BY <1>1, <1>3 DEF RunInv, SameRun
<1>6. \A row \in RowsOf(r)' : row \in Row /\ Sources(row) \subseteq log'[r].batch
  BY <1>1 DEF RunInv, SameRun
<1>7. runs'[r].done =>
        /\ \A e \in log'[r].batch : state'[e] = "consolidated"
        /\ \A kind \in ProductKinds :
              runs'[r].tally[kind] = Cardinality({row \in RowsOf(r)' : row.kind = kind})
        /\ runs'[r].processed = Cardinality(log'[r].batch)
        /\ \A row \in RowsOf(r)' : Linked(row, r)'
  BY <1>1, <1>4 DEF RunInv, SameRun, Untouched
<1> QED
  BY <1>1, <1>5, <1>6, <1>7 DEF RunInv, SameRun, Sources

LEMMA StepOfPass ==
  ASSUME RecordsHeld, WorkInv, NEW p \in Passes, Untouched(p), StoreInv', PassInv(p)',
         DOMAIN runs \subseteq DOMAIN runs',
         \A r \in DOMAIN runs' : (r \in DOMAIN runs => UnderWay(p) /\ r = run[p]) => RunInv(r)'
  PROVE  WorkInv'
<1>1. \A q \in Passes : PassInv(q)'
  BY OthersWork
<1>2. \A r \in DOMAIN runs' : RunInv(r)'
  BY RunsStay
<1> QED
  BY <1>1, <1>2 DEF WorkInv

-----------------------------------------------------------------------------
(* The steps *)

LEMMA SameRows ==
  ASSUME UNCHANGED <<products, links>>
  PROVE  \A r : /\ RowsOf(r)' = RowsOf(r) /\ LinksOf(r)' = LinksOf(r)
                /\ \A row : Linked(row, r)' = Linked(row, r)
BY DEF RowsOf, LinksOf, Linked, Sources

(* The record of p's run stays good when p leaves rows and records alone.  *)
LEMMA OwnRunStays ==
  ASSUME RecordsHeld, WorkInv, NEW p \in Passes, NEW r, UnderWay(p), r = run[p], Untouched(p),
         UNCHANGED <<products, links, runs>>,
         log'[r].batch = log[r].batch, log'[r].seen = log[r].seen
  PROVE  RunInv(r)'
<1>1. RunInv(r) /\ ~runs[r].done /\ r \in DOMAIN runs
  BY Domains DEF WorkInv, PassInv, WorkOf
<1>2. RowsOf(r)' = RowsOf(r)
  BY SameRows
<1>3. \A s \in log[r].seen : s # r /\ s \in DOMAIN runs
  BY <1>1 DEF RunInv
<1>4. \A s \in log[r].seen : SameRun(s)
  BY <1>3 DEF Untouched
<1>5. \A s \in log'[r].seen :
         s \in DOMAIN runs' /\ runs'[s].done /\ log'[s].batch \cap log'[r].batch = {}
  BY <1>1, <1>3, <1>4 DEF RunInv, SameRun
<1>6. log'[r].batch \in SUBSET Episodes /\ ~runs'[r].done
  BY <1>1 DEF RunInv
<1>7. \A row \in RowsOf(r)' : row \in Row /\ Sources(row) \subseteq log'[r].batch
  BY <1>1, <1>2 DEF RunInv
<1> QED
  BY <1>5, <1>6, <1>7 DEF RunInv, Sources

(* What makes the work of p good after a step, with its run and the row at *)
(* hand named.                                                             *)
Holds(p, r, x) == run'[p] = r /\ product'[p] = x

WorkNext(p, r, x) ==
    /\ ~runs'[r].done
    /\ pc'[p] = "list" => RowsOf(r)' = {}
    /\ pc'[p] # "list" => log'[r].batch = batch'[p]
    /\ pc'[p] \in {"facts", "link_fact"} =>
          /\ \A row \in RowsOf(r)' : row.kind = "fact"
          /\ \A item \in todo'[p] : item.kind = "fact"
    /\ \A item \in todo'[p] :
          /\ UNION item.traces # {}
          /\ [run |-> r, kind |-> item.kind, traces |-> item.traces] \in RowsOf(r)' =>
                x = [run |-> r, kind |-> item.kind, traces |-> item.traces]
    /\ x # Null => x \in RowsOf(r)' /\ ~Linked(x, r)'
    /\ \A row \in RowsOf(r)' \ {x} : Linked(row, r)'
    /\ \A kind \in ProductKinds :
          tally'[p][kind] = Cardinality({row \in RowsOf(r)' \ {x} : row.kind = kind})
    /\ pc'[p] = "complete" => \A e \in batch'[p] : state'[e] = "consolidated"

LEMMA WorkGoesOn ==
  ASSUME NEW p, NEW r, NEW x, Holds(p, r, x), WorkNext(p, r, x)
  PROVE  WorkOf(p)'
<1>0. run'[p] = r /\ product'[p] = x
  BY DEF Holds
<1>1. RowsOf(run[p])' = RowsOf(r)' /\ LinksOf(run[p])' = LinksOf(r)'
  BY <1>0 DEF RowsOf, LinksOf
<1>2. Made(p)' = RowsOf(r)' \ {x}
  BY <1>0, <1>1 DEF Made
<1>3. \A row : Linked(row, run[p])' = Linked(row, r)'
  BY <1>1 DEF Linked, Sources
<1>4. Linked(product[p], run[p])' = Linked(x, r)'
  BY <1>0, <1>1 DEF Linked, Sources
<1>5. \A item : RowFor(p, item)' = [run |-> r, kind |-> item.kind, traces |-> item.traces]
  BY <1>0 DEF RowFor
<1> QED
  BY <1>0, <1>1, <1>2, <1>3, <1>4, <1>5 DEF WorkOf, WorkNext

LEMMA IdleStep ==
  ASSUME RecordsHeld, WorkInv, NEW p \in Passes, Check(p) \/ ForceRun(p)
  PROVE  WorkInv'
<1>1. /\ pc[p] = "idle" /\ pc' = [pc EXCEPT ![p] = "start"]
      /\ UNCHANGED <<store, runs, run, batch, todo, product, tally, log>>
  BY DEF Check, MayStart, ForceRun, Goto
<1>2. ~UnderWay(p) /\ pc'[p] = "start" /\ ~UnderWay(p)' /\ \A q \in Passes \ {p} : pc'[q] = pc[q]
  BY <1>1, Domains DEF UnderWay
<1>3. \A r : SameRun(r)
  BY <1>1, SameRows DEF SameRun, store
<1>4. Untouched(p)
  BY <1>1, <1>2, <1>3 DEF Untouched, store
<1>5. StoreInv'
  BY <1>1 DEF WorkInv, StoreInv, store, Sources
<1>6. PassInv(p)'
  BY <1>1, <1>2 DEF WorkInv, PassInv, UnderWay
<1> QED
  BY <1>1, <1>2, <1>4, <1>5, <1>6, StepOfPass

LEMMA StartStep ==
  ASSUME RecordsHeld, WorkInv, NEW p \in Passes, StartRun(p)
  PROVE  WorkInv'
<1> DEFINE row == [done |-> FALSE, processed |-> 0, tally |-> NoTally]
           entry == [batch |-> {}, seen |-> {}, dealt |-> {}]
<1>0. PICK n : n = Len(runs) + 1
  OBVIOUS
<1>1. /\ pc[p] = "start" /\ pc' = [pc EXCEPT ![p] = "list"]
      /\ runs' = Append(runs, row) /\ log' = Append(log, entry)
      /\ run' = [run EXCEPT ![p] = n]
      /\ UNCHANGED <<store, batch, todo, product, tally>>
  BY <1>0 DEF StartRun, Goto
<1>2. IsSequence(log) /\ IsSequence(runs) /\ Len(log) = Len(runs)
  BY DEF RecordsHeld
<1>3. ~row.done /\ entry.batch = {} /\ entry.seen = {}
  OBVIOUS
<1> HIDE DEF row, entry
<1>4. DOMAIN runs' = DOMAIN runs \cup {n} /\ runs'[n] = row /\ \A r \in DOMAIN runs : runs'[r] = runs[r]
  BY <1>0, <1>1, <1>2, SequenceAppend
<1>5. log'[n] = entry /\ \A r \in DOMAIN log : log'[r] = log[r]
  BY <1>0, <1>1, <1>2, SequenceAppend
<1>6. n \notin DOMAIN runs /\ n \in DOMAIN runs'
  BY <1>0, <1>4, Domains
<1>7. /\ ~UnderWay(p) /\ pc'[p] = "list" /\ run'[p] = n
      /\ \A q \in Passes \ {p} : pc'[q] = pc[q] /\ run'[q] = run[q]
  BY <1>1, Domains DEF UnderWay
<1>8. UNCHANGED <<products, links, state>>
  BY <1>1 DEF store
<1>9. \A r \in DOMAIN runs : SameRun(r)
  BY <1>4, <1>5, <1>8, SameRows, Domains DEF SameRun
<1>10. Untouched(p)
  BY <1>1, <1>7, <1>8, <1>9 DEF Untouched
<1>11. StoreInv'
  BY <1>1, <1>4 DEF WorkInv, StoreInv, store, Sources
<1>12. RowsOf(n)' = {}
  <2>1. \A x \in products : x.run \in DOMAIN runs
    BY DEF WorkInv, StoreInv
  <2> QED
    BY <1>6, <1>8, <2>1 DEF RowsOf
<1>13. RunInv(n)'
  <2>1. log'[n].batch = {} /\ log'[n].seen = {} /\ ~runs'[n].done
    BY <1>3, <1>4, <1>5
  <2> QED
    BY <1>12, <2>1 DEF RunInv
<1>14. PassInv(p)'
  <2>1. PassInv(p) /\ product[p] = Null /\ tally[p] = NoTally
    BY <1>1, <1>7 DEF WorkInv, PassInv
  <2>2. \A kind \in ProductKinds : 
            tally'[p][kind] = Cardinality({x \in RowsOf(n)' \ {Null} : x.kind = kind})
    <3>1. \A kind \in ProductKinds : {x \in RowsOf(n)' \ {Null} : x.kind = kind} = {}
      BY <1>12
    <3>2. \A kind \in ProductKinds : NoTally[kind] = 0
      BY DEF NoTally, ProductKinds
    <3> QED
      BY <1>1, <2>1, <3>1, <3>2, FS_EmptySet
  <2>3. RowsOf(n)' \ {Null} = {}
    BY <1>12
  <2>4. todo'[p] = {} /\ product'[p] = Null
    BY <1>1, <1>7, <2>1 DEF PassInv
  <2>5. WorkOf(p)'
    <3>1. ~runs'[n].done
      BY <1>3, <1>4
    <3>2. Holds(p, n, Null) /\ WorkNext(p, n, Null)
      BY <1>7, <1>12, <2>2, <2>3, <2>4, <3>1 DEF Holds, WorkNext
    <3> QED
      BY <3>2, WorkGoesOn
  <2> QED
    BY <1>1, <1>7, <2>1, <2>5 DEF PassInv, UnderWay
<1>15. \A r \in DOMAIN runs' : (r \in DOMAIN runs => UnderWay(p) /\ r = run[p]) => RunInv(r)'
  BY <1>4, <1>7, <1>13
<1> QED
  BY <1>4, <1>10, <1>11, <1>14, <1>15, StepOfPass

(* Deal changes of the log only what has been dealt with. *)
LEMMA DealKeepsRuns ==
  ASSUME RecordsHeld, NEW p \in Passes, UnderWay(p), NEW items, Deal(p, items)
  PROVE  /\ todo'[p] = todo[p] \ items /\ \A q \in Passes \ {p} : todo'[q] = todo[q]
         /\ DOMAIN log' = DOMAIN log
         /\ \A r \in DOMAIN log : log'[r].batch = log[r].batch /\ log'[r].seen = log[r].seen
<1> DEFINE entry == [log[run[p]] EXCEPT !.dealt = log[run[p]].dealt \cup items]
           t == [log EXCEPT ![run[p]] = entry]
<1>1. run[p] \in DOMAIN log /\ IsEntry(log[run[p]]) /\ DOMAIN todo = Passes
  BY DEF RecordsHeld
<1>2. log' = t /\ todo' = [todo EXCEPT ![p] = todo[p] \ items]
  BY <1>1 DEF Deal
<1>3. entry.batch = log[run[p]].batch /\ entry.seen = log[run[p]].seen
  BY <1>1 DEF IsEntry
<1> HIDE DEF entry
<1> QED
  BY <1>1, <1>2, <1>3

(* A step that makes no row and no link. *)
LEMMA QuietStore ==
  ASSUME RecordsHeld, WorkInv, UNCHANGED <<forgotten, similar, products, links>>,
         DOMAIN runs' = DOMAIN runs, DOMAIN product' = Passes, DOMAIN tally' = Passes,
         state' \in [Episodes -> {"absent", "fresh", "consolidated"}],
         \A e \in Episodes : state[e] # "absent" => state'[e] # "absent"
  PROVE  StoreInv'
BY DEF WorkInv, StoreInv, Sources

LEMMA ListStep ==
  ASSUME RecordsHeld, WorkInv, NEW p \in Passes, ListBatch(p)
  PROVE  WorkInv'
<1>0. PICK r, listed, entry :
         /\ r = run[p] /\ listed = Oldest(Unconsolidated, BatchSize)
         /\ entry = [batch |-> listed, seen |-> {s \in DOMAIN runs : runs[s].done}, dealt |-> {}]
  OBVIOUS
<1>1. /\ pc[p] = "list" /\ log' = [log EXCEPT ![r] = entry]
      /\ pc' = [pc EXCEPT ![p] = IF listed = {} THEN "complete" ELSE "facts"]
      /\ batch' = [batch EXCEPT ![p] = listed]
      /\ todo' = [todo EXCEPT ![p] = FactItems(listed)]
      /\ UNCHANGED <<store, runs, run, product, tally>>
  BY <1>0 DEF ListBatch, Goto
<1>2. listed \in SUBSET Episodes /\ \A e \in listed : state[e] = "fresh"
  BY <1>0 DEF Oldest, Unconsolidated
<1>3. UnderWay(p) /\ r \in DOMAIN runs /\ r \in DOMAIN log /\ DOMAIN log = DOMAIN runs
  BY <1>0, <1>1, Domains DEF UnderWay
<1>4. PassInv(p) /\ WorkOf(p) /\ RunInv(r) /\ product[p] = Null
  BY <1>1, <1>3 DEF WorkInv, PassInv
<1>5. UNCHANGED <<products, links, state, runs>>
  BY <1>1 DEF store
<1>6. RowsOf(r)' = {} /\ RowsOf(r) = {} /\ ~runs'[r].done
  BY <1>0, <1>1, <1>4, <1>5, SameRows DEF WorkOf
<1>7. \A s \in DOMAIN runs : s # r => log'[s] = log[s] /\ SameRun(s)
  BY <1>1, <1>3, <1>5, SameRows DEF SameRun
<1>8. /\ pc'[p] = IF listed = {} THEN "complete" ELSE "facts"
      /\ batch'[p] = listed /\ todo'[p] = FactItems(listed) /\ log'[r] = entry
      /\ run'[p] = r /\ product'[p] = Null /\ tally'[p] = tally[p]
  BY <1>0, <1>1, <1>3, <1>4, Domains
<1>9. Untouched(p)
  <2>1. \A q \in Passes \ {p} :
          /\ pc'[q] = pc[q] /\ run'[q] = run[q] /\ batch'[q] = batch[q]
          /\ todo'[q] = todo[q] /\ product'[q] = product[q] /\ tally'[q] = tally[q]
    BY <1>1, Domains
  <2> QED
    BY <2>1, <1>0, <1>3, <1>5, <1>7 DEF Untouched
<1>10. StoreInv'
  BY <1>1, <1>5, QuietStore DEF WorkInv, StoreInv, store
<1>11. \A s \in entry.seen :
          s \in DOMAIN runs' /\ runs'[s].done /\ log'[s].batch \cap log'[r].batch = {}
  <2> SUFFICES ASSUME NEW s \in DOMAIN runs, runs[s].done
               PROVE  log'[s].batch \cap listed = {}
    BY <1>0, <1>5, <1>8
  <2>1. s # r
    BY <1>5, <1>6
  <2>2. RunInv(s)
    BY DEF WorkInv
  <2> QED
    BY <1>2, <1>7, <2>1, <2>2 DEF RunInv
<1>12. RunInv(r)'
  <2>1. log'[r].batch = listed /\ log'[r].seen = entry.seen
    BY <1>0, <1>8
  <2> QED
    BY <1>2, <1>6, <1>11, <2>1 DEF RunInv
<1>13. FactItems(listed) \subseteq Item(listed) /\ \A item \in FactItems(listed) :
          item.kind = "fact" /\ UNION item.traces # {}
  BY <1>2, FactsOfBatch DEF WorkInv, StoreInv
<1>14. WorkNext(p, r, Null)
  <2>1. \A kind \in ProductKinds :
          tally'[p][kind] = Cardinality({row \in RowsOf(r)' \ {Null} : row.kind = kind})
    <3>1. Made(p) = RowsOf(r)' \ {Null}
      BY <1>0, <1>4, <1>6 DEF Made
    <3> QED
      BY <1>4, <1>8, <3>1 DEF WorkOf
  <2>2. log'[r].batch = listed
    BY <1>0, <1>8
  <2> QED
    BY <1>6, <1>8, <1>13, <2>1, <2>2 DEF WorkNext
<1>15. WorkOf(p)'
  BY <1>8, <1>14, WorkGoesOn DEF Holds
<1>16. PassInv(p)'
  <2>1. Item(batch[p])' = Item(listed)
    BY <1>8 DEF Item
  <2> QED
    BY <1>2, <1>4, <1>8, <1>13, <1>15, <2>1 DEF PassInv, UnderWay
<1> QED
  BY <1>0, <1>3, <1>5, <1>9, <1>10, <1>12, <1>16, StepOfPass

Apart(p) ==
    \A q \in Passes \ {p} :
       /\ pc'[q] = pc[q] /\ run'[q] = run[q] /\ batch'[q] = batch[q]
       /\ todo'[q] = todo[q] /\ product'[q] = product[q] /\ tally'[q] = tally[q]

RecordsStay ==
    /\ UNCHANGED runs /\ DOMAIN log' = DOMAIN log
    /\ \A r \in DOMAIN log : log'[r].batch = log[r].batch /\ log'[r].seen = log[r].seen

(* A pass between two items, that takes its next ones or marks its batch.  *)
LEMMA BetweenItems ==
  ASSUME RecordsHeld, WorkInv, NEW p \in Passes, pc[p] \in {"facts", "procedures"},
         Apart(p), RecordsStay, StoreInv',
         UNCHANGED <<products, links, run, batch, product, tally>>,
         \A e \in Episodes : state[e] = "consolidated" => state'[e] = "consolidated",
         pc'[p] \in {"facts", "procedures", "complete"},
         pc'[p] = "facts" => pc[p] = "facts" /\ todo'[p] \subseteq todo[p],
         \A item \in todo'[p] :
            item \in Item(batch[p]) /\ UNION item.traces # {} /\ RowFor(p, item) \notin RowsOf(run[p]),
         pc'[p] = "complete" => \A e \in batch[p] : state'[e] = "consolidated"
  PROVE  WorkInv'
<1>0. PICK r : r = run[p]
  OBVIOUS
<1>1. UnderWay(p) /\ r \in DOMAIN runs /\ DOMAIN log = DOMAIN runs /\ UnderWay(p)'
  BY <1>0, Domains DEF UnderWay
<1>2. PassInv(p) /\ WorkOf(p) /\ RunInv(r) /\ product[p] = Null
  BY <1>1 DEF WorkInv, PassInv
<1>3. \A s : RowsOf(s)' = RowsOf(s) /\ LinksOf(s)' = LinksOf(s) /\ \A row : Linked(row, s)' = Linked(row, s)
  BY SameRows
<1>4. Untouched(p)
  BY <1>1, <1>3 DEF Untouched, Apart, SameRun, RecordsStay
<1>5. RunInv(r)'
  BY <1>0, <1>1, <1>4, OwnRunStays DEF RecordsStay
<1>6. Holds(p, r, Null)
  BY <1>0, <1>2 DEF Holds
<1>7. WorkNext(p, r, Null)
  <2>1. Made(p) = RowsOf(r)' \ {Null}
    BY <1>0, <1>2, <1>3 DEF Made
  <2>2. \A row \in RowsOf(r)' \ {Null} : Linked(row, r)'
    BY <1>0, <1>2, <1>3, <2>1 DEF WorkOf
  <2>3. \A kind \in ProductKinds :
          tally'[p][kind] = Cardinality({row \in RowsOf(r)' \ {Null} : row.kind = kind})
    BY <1>2, <2>1 DEF WorkOf
  <2>4. \A item \in todo'[p] :
          /\ UNION item.traces # {}
          /\ [run |-> r, kind |-> item.kind, traces |-> item.traces] \notin RowsOf(r)'
    BY <1>0, <1>3 DEF RowFor
  <2>5. ~runs'[r].done /\ log'[r].batch = batch'[p]
    BY <1>0, <1>1, <1>2 DEF WorkOf, RecordsStay
  <2>6. pc'[p] = "facts" =>
          /\ \A row \in RowsOf(r)' : row.kind = "fact"
          /\ \A item \in todo'[p] : item.kind = "fact"
    BY <1>0, <1>2, <1>3 DEF WorkOf
  <2> QED
    BY <2>2, <2>3, <2>4, <2>5, <2>6 DEF WorkNext
<1>8. WorkOf(p)'
  BY <1>6, <1>7, WorkGoesOn
<1>9. PassInv(p)'
  <2>1. Item(batch[p])' = Item(batch[p])
    BY DEF Item
  <2> QED
    BY <1>1, <1>2, <1>8, <2>1 DEF PassInv, UnderWay
<1> QED
  BY <1>0, <1>1, <1>4, <1>5, <1>9, StepOfPass DEF RecordsStay

LEMMA RowForItem ==
  ASSUME RecordsHeld, WorkInv, NEW p \in Passes, UnderWay(p), NEW item \in Item(batch[p])
  PROVE  RowFor(p, item) \in Row
<1>1. run[p] \in Nat /\ batch[p] \in SUBSET Episodes
  BY Domains DEF WorkInv, PassInv
<1> QED
  BY <1>1 DEF RowFor, Row, Item, ProductKinds

LEMMA SkipStep ==
  ASSUME RecordsHeld, WorkInv, NEW p \in Passes, NEW item, SkipItem(p, item)
  PROVE  WorkInv'
<1>1. /\ pc[p] \in {"facts", "procedures"} /\ Deal(p, {item})
      /\ UNCHANGED <<store, runs, pc, run, batch, product, tally>>
  BY DEF SkipItem
<1>2. UnderWay(p)
  BY <1>1 DEF UnderWay
<1>3. /\ todo'[p] = todo[p] \ {item} /\ \A q \in Passes \ {p} : todo'[q] = todo[q]
      /\ DOMAIN log' = DOMAIN log
      /\ \A r \in DOMAIN log : log'[r].batch = log[r].batch /\ log'[r].seen = log[r].seen
  BY <1>1, <1>2, DealKeepsRuns
<1>4. Apart(p) /\ RecordsStay
  BY <1>1, <1>3 DEF Apart, RecordsStay
<1>5. StoreInv'
  BY <1>1, QuietStore DEF store, WorkInv, StoreInv
<1>6. PassInv(p) /\ WorkOf(p) /\ product[p] = Null
  BY <1>1, <1>2 DEF WorkInv, PassInv
<1>7. ASSUME NEW x \in todo[p]
      PROVE  x \in Item(batch[p]) /\ UNION x.traces # {} /\ RowFor(p, x) \notin RowsOf(run[p])
  <2>1. x \in Item(batch[p]) /\ UNION x.traces # {}
    BY <1>6 DEF PassInv, WorkOf
  <2>2. RowFor(p, x) # Null
    BY <1>2, <2>1, RowForItem, RowAssumption
  <2> QED
    BY <1>6, <2>1, <2>2 DEF WorkOf
<1> QED
  BY <1>1, <1>3, <1>4, <1>5, <1>7, BetweenItems DEF store

LEMMA ProceduresStep ==
  ASSUME RecordsHeld, WorkInv, NEW p \in Passes, BeginProcedures(p)
  PROVE  WorkInv'
<1>1. /\ pc[p] = "facts" /\ todo[p] = {} /\ pc' = [pc EXCEPT ![p] = "procedures"]
      /\ UNCHANGED <<store, runs, run, batch, product, tally>>
  BY DEF BeginProcedures, Goto
<1>2. UnderWay(p) /\ pc'[p] = "procedures" /\ \A q \in Passes \ {p} : pc'[q] = pc[q]
  BY <1>1, Domains DEF UnderWay
<1>3. PassInv(p) /\ WorkOf(p)
  BY <1>2 DEF WorkInv, PassInv
<1>4. /\ todo'[p] \subseteq ProcedureItems(batch[p]) /\ \A q \in Passes \ {p} : todo'[q] = todo[q]
      /\ DOMAIN log' = DOMAIN log
      /\ \A r \in DOMAIN log : log'[r].batch = log[r].batch /\ log'[r].seen = log[r].seen
  <2>1. CASE todo' = [todo EXCEPT ![p] = ProcedureItems(batch[p])] /\ UNCHANGED log
    BY <2>1, Domains
  <2>2. CASE Deal(p, ProcedureItems(batch[p]))
    BY <1>1, <1>2, <2>2, DealKeepsRuns
  <2> QED
    BY <2>1, <2>2 DEF BeginProcedures
<1>5. Apart(p) /\ RecordsStay
  BY <1>1, <1>2, <1>4 DEF Apart, RecordsStay
<1>6. StoreInv'
  BY <1>1, QuietStore DEF store, WorkInv, StoreInv
<1>7. ASSUME NEW x \in todo'[p]
      PROVE  x \in Item(batch[p]) /\ UNION x.traces # {} /\ RowFor(p, x) \notin RowsOf(run[p])
  <2>1. x \in Item(batch[p]) /\ UNION x.traces # {} /\ x.kind # "fact"
    BY <1>3, <1>4, ProceduresOfBatch DEF PassInv
  <2>2. RowFor(p, x).kind # "fact"
    BY <2>1 DEF RowFor
  <2> QED
    BY <1>1, <1>3, <2>1, <2>2 DEF WorkOf
<1> QED
  BY <1>1, <1>2, <1>5, <1>6, <1>7, BetweenItems DEF store

LEMMA MarkedStep ==
  ASSUME RecordsHeld, WorkInv, NEW p \in Passes, MarkBatch(p)
  PROVE  WorkInv'
<1>1. /\ pc[p] = "procedures" /\ todo[p] = {} /\ pc' = [pc EXCEPT ![p] = "complete"]
      /\ state' = Marked(batch[p])
      /\ UNCHANGED <<forgotten, similar, products, links, runs, run, batch, todo, product, tally, log>>
  BY DEF MarkBatch, Goto
<1>2. pc'[p] = "complete" /\ \A q \in Passes \ {p} : pc'[q] = pc[q]
  BY <1>1, Domains
<1>3. Apart(p) /\ RecordsStay
  BY <1>1, <1>2 DEF Apart, RecordsStay
<1>4. /\ state' \in [Episodes -> {"absent", "fresh", "consolidated"}]
      /\ \A e \in Episodes : state[e] = "consolidated" => state'[e] = "consolidated"
      /\ \A e \in Episodes : state[e] # "absent" => state'[e] # "absent"
      /\ \A e \in batch[p] : state'[e] = "consolidated"
  <2>1. state \in [Episodes -> {"absent", "fresh", "consolidated"}] /\ batch[p] \in SUBSET Episodes
    BY DEF WorkInv, StoreInv, PassInv
  <2> QED
    BY <1>1, <2>1 DEF Marked
<1>5. StoreInv'
  BY <1>1, <1>4, QuietStore DEF WorkInv, StoreInv
<1> QED
  BY <1>1, <1>2, <1>3, <1>4, <1>5, BetweenItems

LEMMA DistilStep ==
  ASSUME RecordsHeld, WorkInv, NEW p \in Passes, NEW item \in todo[p], Distil(p, item)
  PROVE  WorkInv'
<1>0. PICK r, row : r = run[p] /\ row = [run |-> r, kind |-> item.kind, traces |-> item.traces]
  OBVIOUS
<1>1. /\ pc[p] \in {"facts", "procedures"}
      /\ products' = products \cup {row} /\ product' = [product EXCEPT ![p] = row]
      /\ pc' = [pc EXCEPT ![p] = IF pc[p] = "facts" THEN "link_fact" ELSE "link_procedure"]
      /\ UNCHANGED <<state, forgotten, similar, links, runs, run, batch, todo, tally, log>>
  BY <1>0 DEF Distil, Goto
<1>2. UnderWay(p) /\ r \in DOMAIN runs /\ DOMAIN log = DOMAIN runs
  BY <1>0, <1>1, Domains DEF UnderWay
<1>3. PassInv(p) /\ WorkOf(p) /\ RunInv(r) /\ product[p] = Null
  BY <1>1, <1>2 DEF WorkInv, PassInv
<1>4. item \in Item(batch[p]) /\ UNION item.traces # {} /\ batch[p] = log[r].batch
  BY <1>0, <1>1, <1>3 DEF PassInv, WorkOf
<1>5. row \in Row /\ row # Null /\ row = RowFor(p, item)
  BY <1>0, <1>2, <1>4, RowForItem, RowAssumption DEF RowFor
<1>6. row \notin RowsOf(r) /\ row.run = r /\ row.kind = item.kind /\ row.traces = item.traces
  BY <1>0, <1>3, <1>5 DEF WorkOf
<1>7. RowsOf(r)' = RowsOf(r) \cup {row} /\ \A s : s # r => RowsOf(s)' = RowsOf(s)
  BY <1>1, <1>6 DEF RowsOf
<1>8. \A s : LinksOf(s)' = LinksOf(s) /\ \A x : Linked(x, s)' = Linked(x, s)
  BY <1>1 DEF LinksOf, Linked, Sources
<1>9. Made(p) = RowsOf(r) /\ RowsOf(r)' \ {row} = RowsOf(r)
  <2>1. Null \notin RowsOf(r)
    BY <1>3, RowAssumption DEF RunInv
  <2> QED
    BY <1>0, <1>3, <1>6, <1>7, <2>1 DEF Made
<1>10. ~Linked(row, r)'
  <2>1. PICK e : e \in Sources(row)
    BY <1>4, <1>6 DEF Sources
  <2>2. <<row, e>> \notin links
    <3>1. row \notin products
      BY <1>6 DEF RowsOf
    <3> QED
      BY <3>1 DEF WorkInv, StoreInv
  <2> QED
    BY <1>8, <2>1, <2>2 DEF Linked, LinksOf
<1>11. /\ pc'[p] = IF pc[p] = "facts" THEN "link_fact" ELSE "link_procedure"
       /\ product'[p] = row /\ run'[p] = r /\ batch'[p] = batch[p]
       /\ todo'[p] = todo[p] /\ tally'[p] = tally[p]
  BY <1>0, <1>1, Domains DEF WorkInv, StoreInv
<1>12. Untouched(p)
  <2>1. \A q \in Passes \ {p} :
          /\ pc'[q] = pc[q] /\ run'[q] = run[q] /\ batch'[q] = batch[q]
          /\ todo'[q] = todo[q] /\ product'[q] = product[q] /\ tally'[q] = tally[q]
    BY <1>1, Domains
  <2>2. \A s \in DOMAIN runs : s # r => SameRun(s)
    BY <1>1, <1>7, <1>8 DEF SameRun
  <2> QED
    BY <1>0, <1>1, <1>2, <2>1, <2>2 DEF Untouched
<1>13. StoreInv'
  <2>1. IsFiniteSet(products)
    BY DEF WorkInv, StoreInv
  <2>2. IsFiniteSet(products')
    BY <1>1, <2>1, FS_AddElement
  <2> QED
    BY <1>1, <1>2, <1>6, <2>2 DEF WorkInv, StoreInv, Sources
<1>14. RunInv(r)'
  <2>1. Sources(row) \subseteq log[r].batch
    BY <1>4, <1>6 DEF Sources, Item
  <2>2. \A x \in RowsOf(r)' : x \in Row /\ Sources(x) \subseteq log'[r].batch
    BY <1>1, <1>3, <1>5, <1>7, <2>1 DEF RunInv
  <2>3. ~runs'[r].done /\ log'[r].batch \in SUBSET Episodes
    BY <1>0, <1>1, <1>3 DEF WorkOf, RunInv
  <2>4. \A s \in log'[r].seen :
          s \in DOMAIN runs' /\ runs'[s].done /\ log'[s].batch \cap log'[r].batch = {}
    BY <1>1, <1>3 DEF RunInv
  <2> QED
    BY <2>2, <2>3, <2>4 DEF RunInv, Sources
<1>15. WorkNext(p, r, row)
  <2>1. \A x \in RowsOf(r)' \ {row} : Linked(x, r)'
    BY <1>0, <1>3, <1>8, <1>9 DEF WorkOf
  <2>2. \A kind \in ProductKinds :
          tally'[p][kind] = Cardinality({x \in RowsOf(r)' \ {row} : x.kind = kind})
    BY <1>3, <1>9, <1>11 DEF WorkOf
  <2>3. \A x \in todo'[p] :
          /\ UNION x.traces # {}
          /\ [run |-> r, kind |-> x.kind, traces |-> x.traces] \in RowsOf(r)' =>
                row = [run |-> r, kind |-> x.kind, traces |-> x.traces]
    <3>1. \A x \in todo[p] : UNION x.traces # {} /\ RowFor(p, x) \notin RowsOf(r)
      <4> SUFFICES ASSUME NEW x \in todo[p]
                   PROVE  UNION x.traces # {} /\ RowFor(p, x) \notin RowsOf(r)
        OBVIOUS
      <4>1. RowFor(p, x) # Null
        BY <1>2, <1>3, RowForItem, RowAssumption DEF PassInv
      <4> QED
        BY <1>0, <1>3, <4>1 DEF WorkOf
    <3> QED
      BY <1>0, <1>7, <1>11, <3>1 DEF RowFor
  <2>4. ~runs'[r].done /\ log'[r].batch = batch'[p]
    BY <1>0, <1>1, <1>3, <1>4 DEF WorkOf
  <2>5. pc'[p] = "link_fact" =>
          (\A x \in RowsOf(r)' : x.kind = "fact") /\ \A x \in todo'[p] : x.kind = "fact"
    BY <1>0, <1>1, <1>3, <1>6, <1>7, <1>11 DEF WorkOf
  <2> QED
    BY <1>1, <1>7, <1>10, <1>11, <2>1, <2>2, <2>3, <2>4, <2>5 DEF WorkNext
<1>16. WorkOf(p)'
  BY <1>11, <1>15, WorkGoesOn DEF Holds
<1>17. PassInv(p)'
  <2>1. Item(batch[p])' = Item(batch[p])
    BY <1>11 DEF Item
  <2> QED
    BY <1>1, <1>3, <1>5, <1>11, <1>16, <2>1 DEF PassInv, UnderWay
<1> QED
  BY <1>0, <1>1, <1>2, <1>12, <1>13, <1>14, <1>17, StepOfPass

LEMMA MinOf ==
  ASSUME NEW T \in SUBSET Nat, T # {}
  PROVE  Min(T) \in T
<1> DEFINE Less == {z \in Nat \X Nat : z[1] < z[2]}
<1>1. IsWellFoundedOn(Less, Nat)
  BY NatLessThanWellFounded DEF OpToRel
<1>2. PICK x \in T : \A y \in T : <<y, x>> \notin Less
  <2> HIDE DEF Less
  <2> QED
    BY <1>1, WFMin
<1>3. ASSUME NEW y \in T PROVE x <= y
  <2>1. <<y, x>> \notin Less
    <3> HIDE DEF Less
    <3> QED
      BY <1>2
  <2>2. x \in Nat /\ y \in Nat
    OBVIOUS
  <2>3. ~(y < x)
    BY <2>1, <2>2
  <2> QED
    BY <2>2, <2>3
<1> HIDE DEF Less
<1> QED
  BY <1>2, <1>3 DEF Min

(* What every link of p adds: one source of the row at hand. *)
LEMMA OneLink ==
  ASSUME RecordsHeld, WorkInv, NEW p \in Passes, LinkSource(p), NEW r, r = run[p],
         NEW x, x = product[p]
  PROVE  /\ UnderWay(p) /\ r \in DOMAIN runs /\ WorkOf(p) /\ RunInv(r) /\ PassInv(p)
         /\ x # Null /\ x \in RowsOf(r) /\ x \in Row
         /\ \A s : RowsOf(s)' = RowsOf(s)
         /\ \E e \in Unlinked(p) :
               /\ links' = links \cup {<<x, e>>}
               /\ LinksOf(r)' = LinksOf(r) \cup {<<x, e>>}
               /\ \A s : s # r => LinksOf(s)' = LinksOf(s)
               /\ \A row \in RowsOf(r) : row # x => (Linked(row, r)' <=> Linked(row, r))
               /\ Linked(x, r)' <=> Unlinked(p) = {e}
<1>1. /\ pc[p] \in {"link_fact", "link_procedure"}
      /\ links' = links \cup {<<x, Min(Unlinked(p))>>}
      /\ UNCHANGED products
  BY DEF LinkSource
<1>2. UnderWay(p) /\ r \in DOMAIN runs
  BY <1>1, Domains DEF UnderWay
<1>3. PassInv(p) /\ WorkOf(p) /\ RunInv(r) /\ x # Null
  BY <1>1, <1>2 DEF WorkInv, PassInv
<1>4. x \in RowsOf(r) /\ x \in Row /\ ~Linked(x, r) /\ x.run = r
  BY <1>3 DEF WorkOf, RunInv, RowsOf
<1>5. Sources(x) \in SUBSET Nat
  BY <1>3, <1>4, ConsolidationAssumption DEF RunInv
<1>6. \A e : <<x, e>> \in links <=> <<x, e>> \in LinksOf(r)
  BY <1>4 DEF LinksOf
<1>7. Unlinked(p) \in SUBSET Nat /\ Unlinked(p) # {}
  BY <1>4, <1>5, <1>6 DEF Unlinked, Linked
<1>8. PICK e \in Unlinked(p) : e = Min(Unlinked(p))
  BY <1>7, MinOf
<1>9. links' = links \cup {<<x, e>>}
  BY <1>1, <1>8
<1>10. LinksOf(r)' = LinksOf(r) \cup {<<x, e>>} /\ \A s : s # r => LinksOf(s)' = LinksOf(s)
  BY <1>4, <1>9 DEF LinksOf
<1>11. \A row \in RowsOf(r) : row # x => (Linked(row, r)' <=> Linked(row, r))
  BY <1>10 DEF Linked, Sources
<1>12. Linked(x, r)' <=> Unlinked(p) = {e}
  BY <1>6, <1>8, <1>10 DEF Linked, Sources, Unlinked
<1>13. \A s : RowsOf(s)' = RowsOf(s)
  BY <1>1 DEF RowsOf
<1> QED
  BY <1>2, <1>3, <1>4, <1>9, <1>10, <1>11, <1>12, <1>13

(* The records after a link. *)
LEMMA LinkKeepsRuns ==
  ASSUME RecordsHeld, WorkInv, NEW p \in Passes, LinkSource(p), NEW r, r = run[p],
         Apart(p), RecordsStay
  PROVE  Untouched(p) /\ StoreInv' /\ RunInv(r)'
<1>1. PICK x : x = product[p]
  OBVIOUS
<1>2. /\ UnderWay(p) /\ r \in DOMAIN runs /\ WorkOf(p) /\ RunInv(r) /\ PassInv(p)
      /\ x # Null /\ x \in RowsOf(r) /\ x \in Row /\ \A s : RowsOf(s)' = RowsOf(s)
  BY <1>1, OneLink
<1>3. PICK e \in Unlinked(p) :
         links' = links \cup {<<x, e>>} /\ \A s : s # r => LinksOf(s)' = LinksOf(s)
  BY <1>1, OneLink
<1>4. UNCHANGED <<state, forgotten, similar, products, runs, run, batch>>
  BY DEF LinkSource
<1>5. DOMAIN log = DOMAIN runs
  BY Domains
<1>6. Untouched(p)
  BY <1>2, <1>3, <1>4, <1>5 DEF Untouched, Apart, RecordsStay, SameRun
<1>7. StoreInv'
  <2>1. x \in products /\ e \in Sources(x)
    BY <1>1, <1>2 DEF Unlinked, RowsOf
  <2>2. \A l \in links' : l[1] \in products' /\ l[2] \in Sources(l[1])
    BY <1>3, <1>4, <2>1 DEF WorkInv, StoreInv
  <2>3. DOMAIN product' = Passes /\ DOMAIN tally' = Passes
    BY DEF LinkSource, TallyItem, WorkInv, StoreInv
  <2> QED
    BY <1>4, <2>2, <2>3 DEF WorkInv, StoreInv, Sources
<1>8. RunInv(r)'
  <2>1. \A s \in log[r].seen : s # r /\ s \in DOMAIN runs
    BY <1>2 DEF RunInv, WorkOf
  <2>2. \A s \in log'[r].seen :
          s \in DOMAIN runs' /\ runs'[s].done /\ log'[s].batch \cap log'[r].batch = {}
    BY <1>2, <1>4, <1>5, <2>1 DEF RunInv, RecordsStay
  <2>3. ~runs'[r].done /\ log'[r].batch = log[r].batch
    BY <1>2, <1>4, <1>5 DEF WorkOf, RecordsStay
  <2>4. \A row \in RowsOf(r)' : row \in Row /\ Sources(row) \subseteq log'[r].batch
    BY <1>2, <2>3 DEF RunInv
  <2> QED
    BY <1>2, <2>2, <2>3, <2>4 DEF RunInv, Sources
<1> QED
  BY <1>6, <1>7, <1>8

(* A link that is not the last one of its row. *)
LEMMA LinkOneStep ==
  ASSUME RecordsHeld, WorkInv, NEW p \in Passes, LinkSource(p), ~LastLink(p)
  PROVE  WorkInv'
<1>0. PICK r, x : r = run[p] /\ x = product[p]
  OBVIOUS
<1>1. UNCHANGED <<todo, log, tally, product, pc, runs, run, batch, state>>
  BY DEF LinkSource
<1>2. Apart(p) /\ RecordsStay
  BY <1>1 DEF Apart, RecordsStay
<1>3. Untouched(p) /\ StoreInv' /\ RunInv(r)'
  BY <1>0, <1>2, LinkKeepsRuns
<1>4. /\ UnderWay(p) /\ r \in DOMAIN runs /\ WorkOf(p) /\ PassInv(p)
      /\ x # Null /\ x \in RowsOf(r) /\ \A s : RowsOf(s)' = RowsOf(s)
  BY <1>0, OneLink
<1>5. PICK e \in Unlinked(p) :
         /\ \A row \in RowsOf(r) : row # x => (Linked(row, r)' <=> Linked(row, r))
         /\ Linked(x, r)' <=> Unlinked(p) = {e}
  BY <1>0, OneLink
<1>6. Unlinked(p) # {e}
  BY FS_Singleton DEF LastLink
<1>7. /\ pc'[p] = pc[p] /\ batch'[p] = batch[p] /\ todo'[p] = todo[p] /\ tally'[p] = tally[p]
      /\ product'[p] = x /\ run'[p] = r
  BY <1>0, <1>1
<1>8. WorkNext(p, r, x)
  <2>1. Made(p) = RowsOf(r)' \ {x}
    BY <1>0, <1>4 DEF Made
  <2>2. \A row \in RowsOf(r)' \ {x} : Linked(row, r)'
    BY <1>0, <1>4, <1>5, <2>1 DEF WorkOf
  <2>3. \A kind \in ProductKinds :
          tally'[p][kind] = Cardinality({row \in RowsOf(r)' \ {x} : row.kind = kind})
    BY <1>4, <1>7, <2>1 DEF WorkOf
  <2>4. \A item \in todo'[p] :
          /\ UNION item.traces # {}
          /\ [run |-> r, kind |-> item.kind, traces |-> item.traces] \in RowsOf(r)' =>
                x = [run |-> r, kind |-> item.kind, traces |-> item.traces]
    BY <1>0, <1>4, <1>7 DEF WorkOf, RowFor
  <2>5. ~runs'[r].done /\ pc[p] # "list" /\ pc[p] # "complete" /\ log'[r].batch = batch'[p]
    BY <1>0, <1>1, <1>4 DEF WorkOf, LinkSource
  <2>6. pc'[p] \in {"facts", "link_fact"} =>
          /\ \A row \in RowsOf(r)' : row.kind = "fact"
          /\ \A item \in todo'[p] : item.kind = "fact"
    BY <1>0, <1>1, <1>4 DEF WorkOf
  <2> QED
    BY <1>4, <1>5, <1>6, <1>7, <2>2, <2>3, <2>4, <2>5, <2>6 DEF WorkNext
<1>9. WorkOf(p)'
  BY <1>7, <1>8, WorkGoesOn DEF Holds
<1>10. PassInv(p)'
  <2>1. Item(batch[p])' = Item(batch[p])
    BY <1>7 DEF Item
  <2> QED
    BY <1>0, <1>4, <1>7, <1>9, <2>1 DEF PassInv, UnderWay
<1> QED
  BY <1>0, <1>1, <1>3, <1>4, <1>10, StepOfPass

(* The last link: the item is dealt with and counted. *)
LEMMA LinkLastStep ==
  ASSUME RecordsHeld, WorkInv, NEW p \in Passes, LinkSource(p), LastLink(p)
  PROVE  WorkInv'
<1>0. PICK r, x, item : r = run[p] /\ x = product[p] /\ item = [kind |-> x.kind, traces |-> x.traces]
  OBVIOUS
<1>1. /\ pc[p] \in {"link_fact", "link_procedure"}
      /\ Deal(p, {item})
      /\ tally' = [tally EXCEPT ![p] = [tally[p] EXCEPT ![x.kind] = tally[p][x.kind] + 1]]
      /\ product' = [product EXCEPT ![p] = Null]
      /\ pc' = [pc EXCEPT ![p] = IF pc[p] = "link_fact" THEN "facts" ELSE "procedures"]
      /\ UNCHANGED <<runs, run, batch, state>>
  BY <1>0 DEF LinkSource, TallyItem, Goto
<1>2. /\ UnderWay(p) /\ r \in DOMAIN runs /\ WorkOf(p) /\ PassInv(p) /\ RunInv(r)
      /\ x # Null /\ x \in RowsOf(r) /\ x \in Row /\ \A s : RowsOf(s)' = RowsOf(s)
  BY <1>0, OneLink
<1>3. PICK e \in Unlinked(p) :
         /\ \A row \in RowsOf(r) : row # x => (Linked(row, r)' <=> Linked(row, r))
         /\ Linked(x, r)' <=> Unlinked(p) = {e}
  BY <1>0, OneLink
<1>4. /\ todo'[p] = todo[p] \ {item} /\ \A q \in Passes \ {p} : todo'[q] = todo[q]
      /\ DOMAIN log' = DOMAIN log
      /\ \A s \in DOMAIN log : log'[s].batch = log[s].batch /\ log'[s].seen = log[s].seen
  BY <1>1, <1>2, DealKeepsRuns
<1>5. Apart(p) /\ RecordsStay
  BY <1>1, <1>4, Domains DEF Apart, RecordsStay, WorkInv, StoreInv
<1>6. Untouched(p) /\ StoreInv' /\ RunInv(r)'
  BY <1>0, <1>5, LinkKeepsRuns
<1>7. Linked(x, r)'
  <2>1. Unlinked(p) = {e}
    <3>1. Sources(x) \in SUBSET Episodes
      BY <1>2 DEF RunInv
    <3>2. IsFiniteSet(Unlinked(p))
      BY <1>0, <3>1, ConsolidationAssumption, FS_Subset DEF Unlinked
    <3>3. IsFiniteSet(Unlinked(p) \ {e}) /\ Cardinality(Unlinked(p) \ {e}) = Cardinality(Unlinked(p)) - 1
      BY <3>2, FS_RemoveElement
    <3>4. Cardinality(Unlinked(p) \ {e}) = 0
      BY <3>2, <3>3, FS_CardinalityType DEF LastLink
    <3>5. Unlinked(p) \ {e} = {}
      BY <3>3, <3>4, FS_EmptySet
    <3> QED
      BY <3>5
  <2> QED
    BY <1>3, <2>1
<1>8. /\ pc'[p] = IF pc[p] = "link_fact" THEN "facts" ELSE "procedures"
      /\ product'[p] = Null /\ run'[p] = r /\ batch'[p] = batch[p]
      /\ tally'[p] = [tally[p] EXCEPT ![x.kind] = tally[p][x.kind] + 1]
  BY <1>0, <1>1, Domains DEF WorkInv, StoreInv
<1>9. Null \notin RowsOf(r) /\ RowsOf(r)' \ {Null} = Made(p) \cup {x} /\ x \notin Made(p)
  <2>1. Null \notin RowsOf(r)
    BY <1>2, RowAssumption DEF RunInv
  <2> QED
    BY <1>0, <1>2, <2>1 DEF Made
<1>10. tally'[p] \in [ProductKinds -> Nat] /\ \A kind \in ProductKinds :
          tally'[p][kind] = Cardinality({row \in RowsOf(r)' \ {Null} : row.kind = kind})
  <2>1. tally[p] \in [ProductKinds -> Nat] /\ x.kind \in ProductKinds
    BY <1>2 DEF PassInv, Row, ProductKinds
  <2>2. \A kind \in ProductKinds : tally[p][kind] = Cardinality({row \in Made(p) : row.kind = kind})
    BY <1>2 DEF WorkOf
  <2>3. ASSUME NEW kind \in ProductKinds
        PROVE  tally'[p][kind] = Cardinality({row \in RowsOf(r)' \ {Null} : row.kind = kind})
    <3> DEFINE Counted == {row \in Made(p) : row.kind = kind}
    <3>1. IsFiniteSet(Counted)
      <4>1. Counted \subseteq products
        BY DEF Made, RowsOf
      <4> QED
        BY <4>1, FS_Subset DEF WorkInv, StoreInv
    <3>2. CASE kind = x.kind
      <4>1. {row \in RowsOf(r)' \ {Null} : row.kind = kind} = Counted \cup {x} /\ x \notin Counted
        BY <1>9, <3>2
      <4>2. tally'[p][kind] = tally[p][kind] + 1
        BY <1>8, <2>1, <3>2
      <4>3. tally[p][kind] = Cardinality(Counted)
        BY <2>2
      <4> HIDE DEF Counted
      <4>4. Cardinality(Counted \cup {x}) = Cardinality(Counted) + 1
        BY <3>1, <4>1, FS_AddElement
      <4> QED
        BY <4>1, <4>2, <4>3, <4>4
    <3>3. CASE kind # x.kind
      <4>1. {row \in RowsOf(r)' \ {Null} : row.kind = kind} = Counted
        BY <1>9, <3>3
      <4>2. tally'[p][kind] = tally[p][kind]
        BY <1>8, <2>1, <3>3
      <4> QED
        BY <2>2, <4>1, <4>2
    <3> QED
      BY <3>2, <3>3
  <2>4. tally'[p] \in [ProductKinds -> Nat]
    BY <1>8, <2>1
  <2> QED
    BY <2>3, <2>4
<1>11. WorkNext(p, r, Null)
  <2>1. \A row \in RowsOf(r)' \ {Null} : Linked(row, r)'
    <3>1. \A row \in Made(p) : Linked(row, r)'
      BY <1>0, <1>2, <1>3 DEF WorkOf, Made
    <3> QED
      BY <1>7, <1>9, <3>1
  <2>2. \A y \in todo'[p] :
          /\ UNION y.traces # {}
          /\ [run |-> r, kind |-> y.kind, traces |-> y.traces] \notin RowsOf(r)'
    <3> SUFFICES ASSUME NEW y \in todo[p], y # item
                 PROVE  /\ UNION y.traces # {}
                        /\ [run |-> r, kind |-> y.kind, traces |-> y.traces] \notin RowsOf(r)
      BY <1>2, <1>4
    <3>1. y \in Item(batch[p])
      BY <1>2 DEF PassInv
    <3>2. y = [kind |-> y.kind, traces |-> y.traces]
      BY <3>1 DEF Item
    <3>3. RowFor(p, y) # x
      BY <1>0, <3>2 DEF RowFor
    <3> QED
      BY <1>0, <1>2, <3>3 DEF WorkOf, RowFor
  <2>3. ~runs'[r].done /\ log'[r].batch = batch'[p]
    BY <1>0, <1>1, <1>2, <1>8, <1>5, Domains DEF WorkOf, RecordsStay
  <2>4. pc'[p] = "facts" =>
          /\ \A row \in RowsOf(r)' : row.kind = "fact"
          /\ \A y \in todo'[p] : y.kind = "fact"
    BY <1>0, <1>1, <1>2, <1>4, <1>8 DEF WorkOf
  <2> QED
    BY <1>1, <1>8, <1>10, <2>1, <2>2, <2>3, <2>4 DEF WorkNext
<1>12. WorkOf(p)'
  BY <1>8, <1>11, WorkGoesOn DEF Holds
<1>13. PassInv(p)'
  <2>1. Item(batch[p])' = Item(batch[p])
    BY <1>8 DEF Item
  <2> QED
    BY <1>1, <1>2, <1>4, <1>8, <1>10, <1>12, <2>1 DEF PassInv, UnderWay
<1> QED
  BY <1>0, <1>1, <1>2, <1>6, <1>13, StepOfPass

(* A pass that ends, complete or not. *)
LEMMA EndOfPass ==
  ASSUME RecordsHeld, WorkInv, NEW p \in Passes, End(p), UNCHANGED <<store, log>>,
         DOMAIN runs' = DOMAIN runs
  PROVE  Apart(p) /\ PassInv(p)' /\ StoreInv'
<1>1. /\ pc' = [pc EXCEPT ![p] = "idle"] /\ run' = [run EXCEPT ![p] = 0]
      /\ batch' = [batch EXCEPT ![p] = {}] /\ todo' = [todo EXCEPT ![p] = {}]
      /\ product' = [product EXCEPT ![p] = Null] /\ tally' = [tally EXCEPT ![p] = NoTally]
  BY DEF End, Goto
<1>2. DOMAIN product = Passes /\ DOMAIN tally = Passes
  BY DEF WorkInv, StoreInv
<1>3. Apart(p)
  BY <1>1, <1>2, Domains DEF Apart
<1>4. StoreInv'
  BY <1>1, <1>2, QuietStore DEF store, WorkInv, StoreInv
<1>5. /\ pc'[p] = "idle" /\ batch'[p] = {} /\ todo'[p] = {} /\ product'[p] = Null
      /\ tally'[p] = NoTally
  BY <1>1, <1>2, Domains
<1>6. NoTally \in [ProductKinds -> Nat]
  BY DEF NoTally, ProductKinds
<1>7. PassInv(p)'
  BY <1>5, <1>6 DEF PassInv, UnderWay
<1> QED
  BY <1>3, <1>4, <1>7

LEMMA FailStep ==
  ASSUME RecordsHeld, WorkInv, NEW p \in Passes, PassFails(p)
  PROVE  WorkInv'
<1>1. End(p) /\ UNCHANGED <<store, runs, log>>
  BY DEF PassFails
<1>2. Apart(p) /\ PassInv(p)' /\ StoreInv'
  BY <1>1, EndOfPass
<1>3. Untouched(p)
  BY <1>1, <1>2, SameRows DEF Untouched, Apart, SameRun, store
<1>4. ASSUME NEW r \in DOMAIN runs', r \in DOMAIN runs => UnderWay(p) /\ r = run[p]
      PROVE  RunInv(r)'
  BY <1>1, <1>3, <1>4, OwnRunStays DEF store
<1> QED
  BY <1>1, <1>2, <1>3, <1>4, StepOfPass

LEMMA CompleteStep ==
  ASSUME RecordsHeld, WorkInv, NEW p \in Passes, CompleteRun(p)
  PROVE  WorkInv'
<1>0. PICK r, row :
         r = run[p] /\ row = [done |-> TRUE, processed |-> Cardinality(batch[p]), tally |-> tally[p]]
  OBVIOUS
<1>1. /\ pc[p] = "complete" /\ runs' = [runs EXCEPT ![r] = row]
      /\ End(p) /\ UNCHANGED <<store, log>>
  BY <1>0 DEF CompleteRun
<1>2. UnderWay(p) /\ r \in DOMAIN runs
  BY <1>0, <1>1, Domains DEF UnderWay
<1>3. PassInv(p) /\ WorkOf(p) /\ RunInv(r) /\ product[p] = Null
  BY <1>1, <1>2 DEF WorkInv, PassInv
<1>4. DOMAIN runs' = DOMAIN runs /\ runs'[r] = row /\ \A s \in DOMAIN runs : s # r => runs'[s] = runs[s]
  BY <1>1, <1>2
<1>5. Apart(p) /\ PassInv(p)' /\ StoreInv'
  BY <1>1, <1>4, EndOfPass
<1>6. \A s : RowsOf(s)' = RowsOf(s) /\ LinksOf(s)' = LinksOf(s) /\ \A x : Linked(x, s)' = Linked(x, s)
  BY <1>1, SameRows DEF store
<1>7. Untouched(p)
  BY <1>0, <1>1, <1>2, <1>4, <1>5, <1>6 DEF Untouched, Apart, SameRun, store
<1>8. RunInv(r)'
  <2>1. Made(p) = RowsOf(r)
    <3>1. Null \notin RowsOf(r)
      BY <1>3, RowAssumption DEF RunInv
    <3> QED
      BY <1>0, <1>3, <3>1 DEF Made
  <2>2. log[r].batch = batch[p] /\ \A e \in batch[p] : state[e] = "consolidated"
    BY <1>0, <1>1, <1>3 DEF WorkOf
  <2>3. \A kind \in ProductKinds : row.tally[kind] = Cardinality({x \in RowsOf(r) : x.kind = kind})
    BY <1>0, <1>3, <2>1 DEF WorkOf
  <2>4. \A x \in RowsOf(r) : Linked(x, r)
    BY <1>0, <1>3, <2>1 DEF WorkOf
  <2>5. \A s \in log[r].seen : s # r /\ s \in DOMAIN runs
    BY <1>0, <1>3 DEF RunInv, WorkOf
  <2>6. \A s \in log'[r].seen :
          s \in DOMAIN runs' /\ runs'[s].done /\ log'[s].batch \cap log'[r].batch = {}
    BY <1>1, <1>3, <1>4, <2>5 DEF RunInv
  <2>7. \A x \in RowsOf(r)' : x \in Row /\ Sources(x) \subseteq log'[r].batch
    BY <1>1, <1>3, <1>6 DEF RunInv
  <2>8. /\ \A e \in log'[r].batch : state'[e] = "consolidated"
        /\ \A kind \in ProductKinds :
              runs'[r].tally[kind] = Cardinality({x \in RowsOf(r)' : x.kind = kind})
        /\ runs'[r].processed = Cardinality(log'[r].batch)
        /\ \A x \in RowsOf(r)' : Linked(x, r)'
    BY <1>0, <1>1, <1>4, <1>6, <2>2, <2>3, <2>4 DEF store
  <2>9. log'[r].batch \in SUBSET Episodes
    BY <1>1, <1>3 DEF RunInv
  <2> QED
    BY <2>6, <2>7, <2>8, <2>9 DEF RunInv, Sources
<1> QED
  BY <1>0, <1>2, <1>4, <1>5, <1>7, <1>8, StepOfPass

(* Steps of no pass. *)
LEMMA StillStep ==
  ASSUME WorkInv, StoreInv',
         UNCHANGED <<products, links, runs, pc, run, batch, todo, product, tally, log>>,
         \A e \in Episodes : state[e] = "consolidated" => state'[e] = "consolidated"
  PROVE  WorkInv'
<1>1. \A s : RowsOf(s)' = RowsOf(s) /\ LinksOf(s)' = LinksOf(s) /\ \A x : Linked(x, s)' = Linked(x, s)
  BY SameRows
<1>2. ASSUME NEW r \in DOMAIN runs PROVE RunInv(r)'
  <2>1. RunInv(r)
    BY DEF WorkInv
  <2> QED
    BY <1>1, <2>1 DEF RunInv, Sources
<1>3. ASSUME NEW p \in Passes PROVE PassInv(p)'
  <2>1. PassInv(p) /\ UnderWay(p)' = UnderWay(p) /\ Item(batch[p])' = Item(batch[p])
    BY DEF WorkInv, UnderWay, Item
  <2>2. ASSUME UnderWay(p) PROVE WorkOf(p)'
    <3>0. PICK r, x : r = run[p] /\ x = product[p]
      OBVIOUS
    <3>1. WorkOf(p) /\ batch[p] \in SUBSET Episodes
      BY <2>1, <2>2 DEF PassInv
    <3>2. Made(p) = RowsOf(r)' \ {x}
      BY <1>1, <3>0 DEF Made
    <3>3. \A item \in todo[p] :
            /\ UNION item.traces # {}
            /\ [run |-> r, kind |-> item.kind, traces |-> item.traces] \in RowsOf(r)' =>
                  x = [run |-> r, kind |-> item.kind, traces |-> item.traces]
      BY <1>1, <3>0, <3>1 DEF WorkOf, RowFor
    <3>4. /\ \A row \in RowsOf(r)' \ {x} : Linked(row, r)'
          /\ \A kind \in ProductKinds :
                tally[p][kind] = Cardinality({row \in RowsOf(r)' \ {x} : row.kind = kind})
      BY <1>1, <3>0, <3>1, <3>2 DEF WorkOf
    <3>5. WorkNext(p, r, x)
      BY <1>1, <3>0, <3>1, <3>3, <3>4 DEF WorkOf, WorkNext
    <3> QED
      BY <3>0, <3>5, WorkGoesOn DEF Holds
  <2> QED
    BY <2>1, <2>2 DEF PassInv
<1> QED
  BY <1>2, <1>3 DEF WorkInv

LEMMA EnvironmentStep ==
  ASSUME RecordsHeld, WorkInv, Remember \/ Forget \/ WindowElapses \/ UNCHANGED vars
  PROVE  WorkInv'
<1>1. CASE Remember
  <2>1. PICK e \in Episodes : state[e] = "absent" /\ state' = [state EXCEPT ![e] = "fresh"]
    BY <1>1 DEF Remember
  <2>2. UNCHANGED <<forgotten, similar, runs, products, links, pc, run, batch, todo, product, tally, log>>
    BY <1>1 DEF Remember
  <2>3. state \in [Episodes -> {"absent", "fresh", "consolidated"}] /\ e \in Episodes
    BY ConsolidationAssumption DEF WorkInv, StoreInv
  <2>4. /\ state' \in [Episodes -> {"absent", "fresh", "consolidated"}]
        /\ \A x \in Episodes : state[x] # "absent" => state'[x] # "absent"
        /\ \A x \in Episodes : state[x] = "consolidated" => state'[x] = "consolidated"
    BY <2>1, <2>3
  <2>5. StoreInv'
    BY <2>2, <2>4, QuietStore DEF WorkInv, StoreInv
  <2> QED
    BY <2>2, <2>4, <2>5, StillStep
<1>2. CASE Forget
  <2>1. PICK e \in Episodes : state[e] # "absent" /\ forgotten' = forgotten \cup {e}
    BY <1>2 DEF Forget
  <2>2. UNCHANGED <<state, similar, runs, products, links, pc, run, batch, todo, product, tally, log>>
    BY <1>2 DEF Forget
  <2>3. StoreInv'
    <3>1. e \in Episodes
      BY ConsolidationAssumption
    <3>2. forgotten' \subseteq {x \in Episodes : state'[x] # "absent"}
      BY <2>1, <2>2, <3>1 DEF WorkInv, StoreInv
    <3> QED
      BY <2>2, <3>2 DEF WorkInv, StoreInv, Sources
  <2> QED
    BY <2>2, <2>3, StillStep
<1>3. CASE WindowElapses \/ UNCHANGED vars
  <2>1. UNCHANGED <<store, runs, pc, run, batch, todo, product, tally, log>>
    BY <1>3 DEF WindowElapses, vars, working, store
  <2>2. StoreInv'
    BY <2>1, QuietStore DEF WorkInv, StoreInv, store
  <2> QED
    BY <2>1, <2>2, StillStep DEF store
<1> QED
  BY <1>1, <1>2, <1>3

LEMMA WorkInit == Init => WorkInv
<1> SUFFICES ASSUME Init PROVE WorkInv
  OBVIOUS
<1>1. StoreInv
  BY FS_EmptySet DEF Init, StoreInv
<1>2. NoTally \in [ProductKinds -> Nat]
  BY DEF NoTally, ProductKinds
<1>3. \A p \in Passes : PassInv(p)
  BY <1>2 DEF Init, PassInv, UnderWay
<1>4. DOMAIN runs = {}
  BY DEF Init
<1> QED
  BY <1>1, <1>3, <1>4 DEF WorkInv

LEMMA WorkStep == MarkInv /\ WorkInv /\ [Next]_vars => WorkInv'
<1> SUFFICES ASSUME MarkInv, WorkInv, [Next]_vars PROVE WorkInv'
  OBVIOUS
<1>1. RecordsHeld
  BY DEF MarkInv
<1>2. CASE Remember \/ Forget \/ WindowElapses \/ UNCHANGED vars
  BY <1>1, <1>2, EnvironmentStep
<1>3. ASSUME NEW p \in Passes, Check(p) \/ ForceRun(p) PROVE WorkInv'
  BY <1>1, <1>3, IdleStep
<1>4. ASSUME NEW p \in Passes, PassFails(p) PROVE WorkInv'
  BY <1>1, <1>4, FailStep
<1>5. ASSUME NEW p \in Passes, NEW item \in todo[p], SkipItem(p, item) PROVE WorkInv'
  BY <1>1, <1>5, SkipStep
<1>6. ASSUME NEW p \in Passes, PassStep(p) PROVE WorkInv'
  <2>2. CASE StartRun(p)
    BY <1>1, <2>2, StartStep
  <2>3. CASE ListBatch(p)
    BY <1>1, <2>3, ListStep
  <2>4. CASE \E item \in todo[p] : Distil(p, item)
    BY <1>1, <2>4, DistilStep
  <2>5. CASE LinkSource(p)
    BY <1>1, <2>5, LinkOneStep, LinkLastStep
  <2>6. CASE BeginProcedures(p)
    BY <1>1, <2>6, ProceduresStep
  <2>7. CASE MarkBatch(p)
    BY <1>1, <2>7, MarkedStep
  <2>8. CASE CompleteRun(p)
    BY <1>1, <2>8, CompleteStep
  <2> QED
    BY <1>6, <2>2, <2>3, <2>4, <2>5, <2>6, <2>7, <2>8 DEF PassStep
<1> QED
  BY <1>2, <1>3, <1>4, <1>5, <1>6 DEF Next

LEMMA WorkAlways == Spec => [](MarkInv /\ WorkInv)
<1>1. Init => MarkInv /\ WorkInv
  BY MarkInit, WorkInit
<1>2. (MarkInv /\ WorkInv) /\ [Next]_vars => (MarkInv /\ WorkInv)'
  BY MarkStep, WorkStep
<1> QED
  BY <1>1, <1>2, PTL DEF Spec

(* The type invariant: a pass under way has a run record that is not       *)
(* complete, works on what it listed and links rows that exist.            *)
THEOREM TypeCorrect == Spec => []TypeOK
<1>1. MarkInv /\ WorkInv => TypeOK
  <2> SUFFICES ASSUME MarkInv, WorkInv PROVE TypeOK
    OBVIOUS
  <2>1. RecordsHeld
    BY DEF MarkInv
  <2>2. DOMAIN log = DOMAIN runs /\ pc \in [Passes -> Steps]
    BY <2>1, Domains
  <2>3. ASSUME NEW p \in Passes
        PROVE  /\ pc[p] \in Steps \ {"idle", "start"} =>
                     run[p] \in DOMAIN runs /\ ~runs[run[p]].done
               /\ batch[p] \subseteq Episodes
               /\ \A item \in todo[p] : UNION item.traces \subseteq batch[p]
               /\ pc[p] \in {"link_fact", "link_procedure"} <=> product[p] # Null
    <3>1. PassInv(p)
      BY DEF WorkInv
    <3>2. UnderWay(p) => run[p] \in DOMAIN runs /\ ~runs[run[p]].done
      BY <2>1, <3>1, Domains DEF PassInv, WorkOf
    <3>3. \A item \in todo[p] : UNION item.traces \subseteq batch[p]
      BY <3>1 DEF PassInv, Item
    <3> QED
      BY <3>1, <3>2, <3>3 DEF PassInv, UnderWay
  <2> QED
    BY <2>2, <2>3 DEF TypeOK, WorkInv, StoreInv
<1> QED
  BY <1>1, WorkAlways, PTL

(* Union-find over any similarity graph, in whatever order its pairs come, *)
(* gives the connected components of any batch (cluster_by_similarity).    *)
THEOREM ComponentsFound == Spec => []ClustersAreComponents
<1>1. WorkInv => ClustersAreComponents
  <2> SUFFICES ASSUME WorkInv, NEW items \in SUBSET Episodes
               PROVE  ClusterBySimilarity(items, SimilarPairs(items)) = Components(items, similar)
    BY DEF ClustersAreComponents
  <2>1. similar \in SimilarityGraphs
    BY DEF WorkInv, StoreInv
  <2>2. ClusterBySimilarity(items, SimilarPairs(items)) = Components(items, SimilarPairs(items))
    BY <2>1, SimilarPairsFinite, ClustersOfPairs
  <2>3. \A C \in SUBSET items : Closed(C, items, SimilarPairs(items)) <=> Closed(C, items, similar)
    BY DEF Closed, SimilarPairs
  <2>4. Components(items, SimilarPairs(items)) = Components(items, similar)
    BY <2>3 DEF Components
  <2> QED
    BY <2>2, <2>4
<1> QED
  BY <1>1, WorkAlways, PTL

(* A pass that lists after another has completed draws on none of its      *)
(* episodes (mark_consolidated comes before complete_run).                 *)
THEOREM CountedOnce == Spec => []EvidenceCountedOnce
<1>1. WorkInv => EvidenceCountedOnce
  <2> SUFFICES ASSUME WorkInv, NEW f \in products, NEW g \in products, f.run \in log[g.run].seen
               PROVE  Sources(f) \cap Sources(g) = {}
    BY DEF EvidenceCountedOnce
  <2>1. f.run \in DOMAIN runs /\ g.run \in DOMAIN runs
    BY DEF WorkInv, StoreInv
  <2>2. RunInv(f.run) /\ RunInv(g.run)
    BY <2>1 DEF WorkInv
  <2>3. Sources(f) \subseteq log[f.run].batch /\ Sources(g) \subseteq log[g.run].batch
    BY <2>2 DEF RunInv, RowsOf
  <2>4. log[f.run].batch \cap log[g.run].batch = {}
    BY <2>2 DEF RunInv
  <2> QED
    BY <2>3, <2>4
<1> QED
  BY <1>1, WorkAlways, PTL

(* The record of a completed run counts the rows the run made, and all of  *)
(* them are linked to all of their sources (complete_run).                 *)
THEOREM RecordsTrue == Spec => []RunsTellTheTruth
<1>1. WorkInv => RunsTellTheTruth
  <2> SUFFICES ASSUME WorkInv, NEW r \in DOMAIN runs, runs[r].done
               PROVE  LET made == {row \in products : row.run = r}
                      IN  /\ \A kind \in {"fact", "skill", "lesson"} :
                                runs[r].tally[kind] = Cardinality({row \in made : row.kind = kind})
                          /\ runs[r].processed = Cardinality(log[r].batch)
                          /\ \A row \in made : \A e \in Sources(row) : <<row, e>> \in links
    BY DEF RunsTellTheTruth
  <2>1. /\ \A kind \in ProductKinds :
              runs[r].tally[kind] = Cardinality({row \in RowsOf(r) : row.kind = kind})
        /\ runs[r].processed = Cardinality(log[r].batch)
        /\ \A row \in RowsOf(r) : Linked(row, r)
    BY DEF WorkInv, RunInv
  <2>2. \A row \in RowsOf(r) : \A e \in Sources(row) : <<row, e>> \in links
    BY <2>1 DEF Linked, LinksOf
  <2> QED
    BY <2>1, <2>2 DEF RowsOf, ProductKinds
<1> QED
  BY <1>1, WorkAlways, PTL

=============================================================================
