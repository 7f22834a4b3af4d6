---------------------------- MODULE ExecutionProofs ----------------------------
(* Proofs about Execution, for any requests, databases, configurations and     *)
(* kinds of requests: transactions of the engine end with their request, the   *)
(* hook sees what they commit, and a caller's transaction stays the caller's.  *)
EXTENDS Execution, FiniteSetTheorems, TLAPS

-----------------------------------------------------------------------------
(* The inductive invariant.                                                *)

Active == {"run", "again", "hook", "commit"}

\* A leg that works belongs to a request that runs, and has begun no transaction
\* before it is past "begin"; a request answered "ok" had only legs that ended so.
LegsOK ==
  \A l \in Legs :
    /\ leg[l].pc \in Active \cup {"begin"} => Running(l[1]) /\ l[2] \in kind[l[1]].dbs
    /\ leg[l].pc # "idle" => answer[l[1]] # "none"
    /\ leg[l].pc \in {"idle", "begin"} => ~leg[l].own
    /\ answer[l[1]] = "ok" /\ l[2] \in kind[l[1]].dbs => leg[l].pc = "ok"

\* A config is used by one request at a time.
OneAtATime ==
  \A r, q \in Reqs : Running(r) /\ Running(q) /\ Config[r] = Config[q] => r = q

\* A leg that began a transaction works in it, and ends it.
OwnOK ==
  \A l \in Legs :
    /\ leg[l].own /\ leg[l].pc \in Active =>
         TxOf(l) = l /\ Audits(l[1]) /\ txn[l].state \in {"open", "aborted"}
    /\ leg[l].own /\ leg[l].pc = "ok" => txn[l].state = "committed"
    /\ txn[l].state = "open" => leg[l].own /\ leg[l].pc \in Active
    /\ ~leg[l].own => txn[l] = [state |-> "none", wrote |-> 0, shown |-> 0]

\* What a config that had t left in it, or was made from one: t was begun by the
\* one leg of an earlier request with that config.
LeftIn(t, c) == t \in Legs => leg[t].own /\ ~Multi(t[1]) /\ Config[t[1]] = c
RefsOK ==
  /\ \A c \in Configs : LeftIn(rcTx[c], c)
  /\ \A l \in Legs : (legTx[l] = l /\ leg[l].own) \/ LeftIn(legTx[l], Config[l[1]])

\* Who works in a transaction that it did not begin works in a caller's.
OthersOK ==
  \A l \in Legs : leg[l].pc \in {"again", "hook", "commit"} /\ ~leg[l].own => TxOf(l) \notin Legs

\* What was changed in a transaction, seen in its result and shown.
ShownOK ==
  \A l \in Legs : leg[l].own =>
    /\ leg[l].pc = "run" => txn[l].wrote = 0 /\ txn[l].shown = 0
    /\ ~kind[l[1]].get =>
         /\ leg[l].pc # "again"
         /\ leg[l].pc = "hook" => txn[l].wrote = leg[l].seen /\ txn[l].shown = 0
         /\ leg[l].pc = "commit" \/ txn[l].state = "committed" => txn[l].shown = txn[l].wrote

IInv == TypeOK /\ LegsOK /\ OneAtATime /\ OwnOK /\ RefsOK /\ OthersOK /\ ShownOK

-----------------------------------------------------------------------------
(* Lemmas.                                                                 *)

\* Legs tag transactions; the caller's have a tag of their own.
LEMMA Tags ==
  /\ \A l \in Legs : l \in Txs /\ l[1] \in Reqs /\ l[2] \in DBs /\ l = <<l[1], l[2]>> /\ l # NoTx
  /\ \A r \in Reqs : <<r, Caller>> \in Txs /\ <<r, Caller>> \notin Legs
  /\ NoTx \notin Txs
  BY ExecutionAssumption DEF Legs, Txs

LEMMA TxOfType ==
  ASSUME TypeOK, NEW l \in Legs
  PROVE  TxOf(l) \in Txs \cup {NoTx} /\ Config[l[1]] \in Configs
  BY Tags, ExecutionAssumption DEF TypeOK, TxOf

\* A request that is not spread over several databases has one leg.
LEMMA OneLeg ==
  ASSUME TypeOK, NEW r \in Reqs, ~Multi(r), NEW d \in kind[r].dbs, NEW e \in kind[r].dbs
  PROVE  d = e
<1> DEFINE S == kind[r].dbs
<1>1. S \subseteq DBs /\ S # {}
  BY DEF TypeOK, Kind
<1>2. IsFiniteSet(S)
  BY <1>1, ExecutionAssumption, FS_Subset
<1>3. Cardinality(S) \in Nat /\ Cardinality(S) # 0
  BY <1>1, <1>2, FS_CardinalityType, FS_EmptySet
<1>4. Cardinality(S) = 1
  BY <1>3 DEF Multi
<1> QED
  BY <1>2, <1>4, FS_Singleton

\* Nobody else works in a transaction that its leg has open.
LEMMA Alone ==
  ASSUME IInv, NEW l \in Legs, NEW m \in Legs, m # l, leg[m].pc \in Active \cup {"begin"}, TxOf(m) = l
  PROVE  txn[l].state # "open"
<1> SUFFICES ASSUME txn[l].state = "open" PROVE FALSE
  OBVIOUS
<1> USE DEF IInv
<1>1. leg[l].own /\ leg[l].pc \in Active /\ Running(l[1]) /\ Running(m[1])
      /\ l[2] \in kind[l[1]].dbs /\ m[2] \in kind[m[1]].dbs
  BY DEF OwnOK, LegsOK
<1>2. ~leg[m].own
  BY DEF OwnOK, LegsOK, Active
<1>3. ~Multi(l[1]) /\ Config[l[1]] = Config[m[1]]
  BY <1>2, TxOfType DEF TxOf, RefsOK, LeftIn
<1>4. l[1] = m[1]
  BY <1>1, <1>3, Tags DEF OneAtATime
<1> QED
  BY <1>1, <1>3, <1>4, OneLeg, Tags

\* Nothing is open or begun at first.
LEMMA InitHolds == Init => IInv
<1> SUFFICES ASSUME Init PROVE IInv
  OBVIOUS
<1>1. TypeOK
  BY Tags DEF Init, TypeOK, Leg, Txn, PCs
<1>2. LegsOK /\ OneAtATime
  BY Tags DEF Init, LegsOK, OneAtATime, Running, Active
<1>3. OwnOK /\ RefsOK /\ OthersOK /\ ShownOK
  BY Tags DEF Init, OwnOK, RefsOK, LeftIn, OthersOK, ShownOK
<1> QED
  BY <1>1, <1>2, <1>3 DEF IInv

-----------------------------------------------------------------------------
(* Steps of a leg that leave the configs alone.                            *)

LegStep(l) ==
  /\ UNCHANGED <<hook, kind, rcTx, legTx, cancelled, answer>>
  /\ leg' \in [Legs -> Leg] /\ \A m \in Legs \ {l} : leg'[m] = leg[m]
  /\ leg'[l].own = leg[l].own
  /\ txn' \in [Txs -> Txn] /\ \A t \in Legs \ {l} : txn'[t] = txn[t]
  /\ applied' \in [Legs -> Nat]

\* Such a step keeps the invariant if what it says of the leg holds.
LEMMA StepKeeps ==
  ASSUME IInv, NEW l \in Legs, LegStep(l),
         leg[l].pc \in Active \cup {"begin"}, leg'[l].pc \in Active \cup Ended,
         leg'[l].pc = "ok" => ~leg[l].own,
         leg[l].own /\ leg'[l].pc \in Active => txn'[l].state \in {"open", "aborted"},
         txn'[l].state = "open" => leg[l].own /\ leg'[l].pc \in Active,
         ~leg[l].own => txn'[l] = txn[l],
         leg'[l].pc \in {"again", "hook", "commit"} /\ ~leg[l].own => TxOf(l) \notin Legs,
         leg[l].own =>
           /\ leg'[l].pc # "run"
           /\ ~kind[l[1]].get =>
                /\ leg'[l].pc # "again"
                /\ leg'[l].pc = "hook" => txn'[l].wrote = leg'[l].seen /\ txn'[l].shown = 0
                /\ leg'[l].pc = "commit" \/ txn'[l].state = "committed" => txn'[l].shown = txn'[l].wrote
  PROVE  IInv'
<1> USE DEF IInv
<1>1. TypeOK'
  BY DEF TypeOK, LegStep
<1>2. LegsOK'
  BY DEF LegsOK, LegStep, Running, Active, Ended
<1>3. OneAtATime'
  BY DEF OneAtATime, LegStep, Running
<1>4. \A m \in Legs : TxOf(m)' = TxOf(m) /\ Audits(m[1])' = Audits(m[1])
  BY DEF LegStep, TxOf, Multi, Audits
<1>5. OwnOK'
  <2>1. leg[l].own => TxOf(l) = l /\ Audits(l[1])
    BY DEF OwnOK, LegsOK, Active
  <2> QED
    BY <1>4, <2>1 DEF OwnOK, LegStep
<1>6. RefsOK'
  BY DEF RefsOK, LeftIn, LegStep, Multi
<1>7. OthersOK'
  BY <1>4 DEF OthersOK, LegStep
<1>8. ShownOK'
  BY DEF ShownOK, LegStep
<1> QED
  BY <1>1, <1>2, <1>3, <1>5, <1>6, <1>7, <1>8

\* An error return ends the leg's own transaction, whatever its statement did.
LEMMA FailKeeps ==
  ASSUME IInv, NEW l \in Legs, NEW txs \in [Txs -> Txn], FailWith(l, txs),
         leg[l].pc \in Active \cup {"begin"},
         \A t \in Legs \ {l} : txs[t] = txn[t],
         ~leg[l].own => txs[l] = txn[l],
         leg[l].own /\ ~kind[l[1]].get /\ txs[l].state = "committed" => txs[l].shown = txs[l].wrote
  PROVE  IInv'
<1>1. leg[l].own => TxOf(l) = l
  BY DEF IInv, OwnOK, LegsOK, Active
<1>2. l \in Txs /\ txs[l] \in Txn
  BY Tags
<1>3. txn' \in [Txs -> Txn] /\ (\A t \in Legs \ {l} : txn'[t] = txn[t]) /\ (~leg[l].own => txn'[l] = txn[l])
  BY <1>1, <1>2, Tags DEF FailWith, Txn
<1>4. leg[l].own => txn'[l].state # "open" /\ (txn'[l].state = "committed" => txn'[l] = txs[l])
  BY <1>1, <1>2 DEF FailWith, Txn
<1>5. leg' \in [Legs -> Leg] /\ leg'[l].pc = "err" /\ leg'[l].own = leg[l].own
      /\ \A m \in Legs \ {l} : leg'[m] = leg[m]
  BY DEF FailWith, Goto, IInv, TypeOK, Leg, PCs
<1>6. LegStep(l)
  BY <1>3, <1>5 DEF FailWith, LegStep, IInv, TypeOK
<1>7. ~leg[l].own => txn'[l].state # "open"
  BY <1>3 DEF IInv, OwnOK
<1> QED
  BY <1>3, <1>4, <1>5, <1>6, <1>7, StepKeeps DEF Active, Ended

\* A leg that only goes on: it takes a connection, has nothing to show, or has
\* nothing to commit.
LEMMA GotoKeeps ==
  ASSUME IInv, NEW l \in Legs, Connect(l) \/ SkipHook(l) \/ Finish(l)
  PROVE  IInv'
<1> DEFINE pc == leg'[l].pc
<1>0. ASSUME NEW to \in PCs, Goto(l, to)
      PROVE  /\ leg' \in [Legs -> Leg] /\ \A m \in Legs \ {l} : leg'[m] = leg[m]
             /\ leg'[l].own = leg[l].own /\ leg'[l].seen = leg[l].seen /\ leg'[l].pc = to
  BY <1>0 DEF Goto, IInv, TypeOK, Leg
<1>1. /\ UNCHANGED <<hook, kind, rcTx, legTx, txn, applied, cancelled, answer>>
      /\ leg' \in [Legs -> Leg] /\ \A m \in Legs \ {l} : leg'[m] = leg[m]
      /\ leg'[l].own = leg[l].own /\ leg'[l].seen = leg[l].seen
      /\ \/ leg[l].pc = "begin" /\ pc = "run"
         \/ leg[l].pc = "hook" /\ pc = "commit" /\ ~NeedsHook(l)
         \/ leg[l].pc = "commit" /\ pc = "ok" /\ ~leg[l].own
  <2>0. "run" \in PCs /\ "commit" \in PCs /\ "ok" \in PCs
    BY DEF PCs
  <2>1. CASE Connect(l)
    <3>1. Goto(l, "run")
      BY <2>1 DEF Connect
    <3> QED
      BY <2>0, <2>1, <3>1, <1>0 DEF Connect
  <2>2. CASE SkipHook(l)
    <3>1. Goto(l, "commit")
      BY <2>2 DEF SkipHook
    <3> QED
      BY <2>0, <2>2, <3>1, <1>0 DEF SkipHook
  <2>3. CASE Finish(l)
    <3>1. Goto(l, "ok")
      BY <2>3 DEF Finish
    <3> QED
      BY <2>0, <2>3, <3>1, <1>0 DEF Finish
  <2> QED
    BY <2>1, <2>2, <2>3
<1>2. LegStep(l)
  BY <1>1 DEF LegStep, IInv, TypeOK
<1>3. leg[l].pc = "begin" => ~leg[l].own /\ txn[l].state # "open"
  BY DEF IInv, LegsOK, OwnOK
<1>4. leg[l].own /\ leg[l].pc = "hook" /\ ~NeedsHook(l) => leg[l].seen = 0
  BY DEF NeedsHook, IInv, OwnOK, TypeOK, Leg, Active
<1>5. leg[l].own /\ leg[l].pc = "hook" => txn[l].state \in {"open", "aborted"}
  BY DEF IInv, OwnOK, Active
<1> QED
  BY <1>1, <1>2, <1>3, <1>4, <1>5, StepKeeps DEF Active, Ended, IInv, OwnOK, OthersOK, ShownOK

\* The statement, once or again, in a transaction.
LEMMA RunKeeps ==
  ASSUME IInv, NEW l \in Legs, RunInTx(l) \/ RunAgainInTx(l)
  PROVE  IInv'
<1> DEFINE t == TxOf(l)
<1> USE DEF IInv
<1>1. /\ UNCHANGED <<hook, kind, rcTx, legTx, applied, cancelled, answer>>
      /\ leg[l].pc \in {"run", "again"} /\ t # NoTx /\ txn[t].state = "open"
  BY DEF RunInTx, RunAgainInTx
<1>2. t \in Txs /\ txn[t] \in Txn
  BY <1>1, TxOfType DEF TypeOK
<1>3. PICK n \in 0..1 :
        /\ txn' = [txn EXCEPT ![t].wrote = IF n = 1 THEN 1 ELSE @]
        /\ leg[l].pc = "run" => leg'[l].seen = IF Audits(l[1]) THEN n ELSE 0
        /\ leg' \in [Legs -> Leg] /\ \A m \in Legs \ {l} : leg'[m] = leg[m]
        /\ leg'[l].own = leg[l].own
        /\ leg'[l].pc \in {"again", "hook"}
        /\ leg'[l].pc = "again" => kind[l[1]].get
        /\ leg[l].pc = "again" => leg'[l].pc = "hook"
  <2>1. CASE RunInTx(l)
    <3>1. PICK n \in Changes(l[1]), rows \in BOOLEAN, empty \in BOOLEAN :
            /\ txn' = [txn EXCEPT ![t].wrote = IF n = 1 THEN 1 ELSE @]
            /\ leg' = [leg EXCEPT ![l].pc = AfterRun(l, n, empty),
                                  ![l].captured = Audits(l[1]) /\ rows,
                                  ![l].seen = IF Audits(l[1]) THEN n ELSE 0]
      BY <2>1 DEF RunInTx
    <3>2. n \in 0..1
      BY DEF Changes
    <3> DEFINE pc == AfterRun(l, n, empty)
               captured == Audits(l[1]) /\ rows
               seen == IF Audits(l[1]) THEN n ELSE 0
    <3>3. pc \in {"again", "hook"} /\ pc \in PCs /\ (pc = "again" => kind[l[1]].get)
      BY DEF AfterRun, PCs
    <3>4. captured \in BOOLEAN /\ seen \in 0..1
      BY <3>2 DEF Audits
    <3>5. leg[l].pc = "run"
      BY <2>1 DEF RunInTx
    <3>6. leg' = [leg EXCEPT ![l].pc = pc, ![l].captured = captured, ![l].seen = seen]
      BY <3>1
    <3> HIDE DEF pc, captured
    <3>7. leg[l] \in Leg /\ leg \in [Legs -> Leg]
      BY DEF TypeOK
    <3>8. (\A m \in Legs \ {l} : leg'[m] = leg[m]) /\ DOMAIN leg' = Legs /\ leg' = [m \in Legs |-> leg'[m]]
          /\ leg'[l] = [leg[l] EXCEPT !.pc = pc, !.captured = captured, !.seen = seen]
      <4> HIDE DEF seen, Leg
      <4> QED
        BY <3>6, <3>7
    <3>9. leg'[l] \in Leg /\ leg'[l].own = leg[l].own /\ leg'[l].pc = pc /\ leg'[l].seen = seen
      <4> HIDE DEF seen
      <4> QED
        BY <3>3, <3>4, <3>7, <3>8 DEF Leg
    <3>10. leg' \in [Legs -> Leg]
      <4> HIDE DEF seen
      <4> QED
        BY <3>7, <3>8, <3>9
    <3> QED
      BY <3>1, <3>2, <3>3, <3>5, <3>8, <3>9, <3>10
  <2>2. CASE RunAgainInTx(l)
    BY <2>2 DEF RunAgainInTx, Goto, TypeOK, Leg, PCs
  <2> QED
    BY <2>1, <2>2
<1>4. \A m \in Legs \ {l} : m # t
  BY <1>1, Alone DEF Active
<1>5. /\ txn' \in [Txs -> Txn] /\ \A m \in Legs \ {l} : txn'[m] = txn[m]
      /\ txn'[l].state = txn[l].state /\ txn'[l].shown = txn[l].shown
      /\ t # l => txn'[l] = txn[l]
  BY <1>2, <1>3, <1>4, Tags DEF TypeOK, Txn
<1>6. leg[l].own => t = l /\ Audits(l[1])
  BY <1>1 DEF OwnOK, Active
<1>7. t = l => leg[l].own
  BY <1>1 DEF OwnOK
<1>8. leg[l].own => txn'[l].wrote = IF n = 1 THEN 1 ELSE txn[l].wrote
  BY <1>2, <1>3, <1>6 DEF TypeOK, Txn
<1>9. t \in Legs => leg[l].own
  BY <1>4, <1>7
<1>10. LegStep(l)
  BY <1>1, <1>3, <1>5 DEF LegStep, TypeOK
<1>11. leg[l].own => leg[l].pc \in Active /\ txn[l].state \in {"open", "aborted"}
  BY <1>1 DEF OwnOK, Active
<1>12. leg[l].own /\ ~kind[l[1]].get => txn'[l].wrote = leg'[l].seen /\ txn'[l].shown = 0
  BY <1>1, <1>3, <1>5, <1>6, <1>8 DEF ShownOK
<1> QED
  BY <1>1, <1>3, <1>5, <1>7, <1>9, <1>10, <1>11, <1>12, StepKeeps DEF Active, Ended, OwnOK

\* The statement outside of any transaction.
LEMMA TryKeeps ==
  ASSUME IInv, NEW l \in Legs, TryOutsideTx(l)
  PROVE  IInv'
<1>1. /\ UNCHANGED <<hook, kind, rcTx, legTx, txn, cancelled, answer>>
      /\ leg[l].pc \in {"run", "again"} /\ TxOf(l) = NoTx
  BY DEF TryOutsideTx
<1>2. ~leg[l].own /\ txn[l].state # "open"
  BY <1>1, Tags DEF IInv, OwnOK, Active
<1>3. PICK n \in Changes(l[1]), ok \in BOOLEAN, pc \in {"run", "again", "hook", "err"} :
        /\ applied' = [applied EXCEPT ![l] = @ + n]
        /\ leg' = [leg EXCEPT ![l].pc = pc, ![l].tries = IF ok THEN 0 ELSE @ + 1]
  BY <1>1 DEF TryOutsideTx, AfterRun
<1>4. applied' \in [Legs -> Nat]
  BY <1>3 DEF Changes, IInv, TypeOK
<1>5. leg[l] \in Leg /\ leg \in [Legs -> Leg]
  BY DEF IInv, TypeOK
<1>6. leg'[l] = [leg[l] EXCEPT !.pc = pc, !.tries = IF ok THEN 0 ELSE @ + 1]
      /\ (\A m \in Legs \ {l} : leg'[m] = leg[m]) /\ leg' = [m \in Legs |-> leg'[m]]
  BY <1>3, <1>5
<1> DEFINE k == IF ok THEN 0 ELSE leg[l].tries + 1
<1>7. k \in Nat /\ pc \in PCs
  BY <1>5 DEF Leg, PCs
<1>8. leg'[l] = [leg[l] EXCEPT !.pc = pc, !.tries = k]
  BY <1>5, <1>6 DEF Leg
<1> HIDE DEF k
<1>9. leg'[l] \in Leg /\ leg'[l].own = leg[l].own /\ leg'[l].pc = pc
  BY <1>5, <1>7, <1>8 DEF Leg
<1>10. leg' \in [Legs -> Leg]
  BY <1>5, <1>6, <1>9
<1>11. LegStep(l)
  BY <1>1, <1>4, <1>6, <1>9, <1>10 DEF LegStep, IInv, TypeOK
<1> QED
  BY <1>1, <1>2, <1>11, <1>9, Tags, StepKeeps DEF Active, Ended

\* The ways to fail.
LEMMA FailsKeep ==
  ASSUME IInv, NEW l \in Legs, Refuse(l) \/ RunFails(l) \/ GiveUp(l) \/ NotCaptured(l) \/ CommitFails(l)
  PROVE  IInv'
<1> USE DEF IInv
<1>1. leg[l].pc \in Active \cup {"begin"}
  BY DEF Refuse, RunFails, GiveUp, NotCaptured, CommitFails, Active
<1>2. txn \in [Txs -> Txn]
  BY DEF TypeOK
<1>3. leg[l].own => TxOf(l) = l /\ txn[l].state \in {"open", "aborted"}
  BY <1>1 DEF OwnOK, LegsOK, Active
<1>4. CASE FailWith(l, txn)
  BY <1>1, <1>2, <1>3, <1>4, FailKeeps
<1>5. CASE RunFails(l)
  <2> DEFINE t == TxOf(l)
  <2>1. t \in Txs /\ txn[t] \in Txn /\ leg[l].pc \in Active
    BY <1>5, TxOfType DEF RunFails, TypeOK, Active
  <2>2. PICK n \in IF txn[t].state = "open" THEN Changes(l[1]) ELSE {0} :
          FailWith(l, [txn EXCEPT ![t].wrote = IF n = 1 THEN 1 ELSE @])
    BY <1>5 DEF RunFails
  <2> DEFINE txs == [txn EXCEPT ![t].wrote = IF n = 1 THEN 1 ELSE @]
  <2>3. txs \in [Txs -> Txn] /\ \A m \in Txs : txs[m].state = txn[m].state
    BY <1>2, <2>1 DEF Txn
  <2>4. \A m \in Txs : m # t \/ txn[t].state # "open" => txs[m] = txn[m]
    BY <1>2, <2>1, <2>2 DEF Txn
  <2>5. \A m \in Legs \ {l} : txs[m] = txn[m]
    BY <1>1, <2>4, Alone, Tags
  <2>6. ~leg[l].own => txs[l] = txn[l]
    BY <2>4, Tags DEF OwnOK
  <2> HIDE DEF txs
  <2> QED
    BY <1>1, <1>3, <2>2, <2>3, <2>5, <2>6, Tags, FailKeeps DEF txs
<1>6. CASE CommitFails(l) /\ ~FailWith(l, txn)
  <2>1. leg[l].pc = "commit" /\ leg[l].own /\ FailWith(l, [txn EXCEPT ![TxOf(l)].state = "committed"])
    BY <1>6 DEF CommitFails, Fail
  <2> DEFINE txs == [txn EXCEPT ![l].state = "committed"]
  <2>2. FailWith(l, txs) /\ txs \in [Txs -> Txn] /\ \A m \in Legs \ {l} : txs[m] = txn[m]
    BY <1>2, <1>3, <2>1, Tags DEF Txn
  <2>3. txs[l].shown = txn[l].shown /\ txs[l].wrote = txn[l].wrote
    BY <1>2, Tags DEF Txn
  <2> HIDE DEF txs
  <2> QED
    BY <1>1, <2>1, <2>2, <2>3, FailKeeps DEF ShownOK
<1> QED
  BY <1>4, <1>5, <1>6 DEF Refuse, GiveUp, NotCaptured, Fail

\* The hook is shown what its transaction changed.
LEMMA HookKeeps ==
  ASSUME IInv, NEW l \in Legs, CallHook(l)
  PROVE  IInv'
<1> DEFINE t == TxOf(l)
           txs == [txn EXCEPT ![t].shown = leg[l].seen]
<1> USE DEF IInv
<1>1. /\ leg[l].pc = "hook" /\ leg[l].pc \in Active
      /\ \/ /\ txn' = txs /\ Goto(l, "commit")
            /\ UNCHANGED <<hook, kind, rcTx, legTx, applied, cancelled, answer>>
         \/ FailWith(l, txs)
  BY DEF CallHook, Active
<1>2. txn \in [Txs -> Txn] /\ leg[l].seen \in 0..1
  BY DEF TypeOK, Leg
<1>3. leg[l].own => t = l /\ txn[l].state \in {"open", "aborted"}
  BY <1>1 DEF OwnOK, Active
<1>4. ~leg[l].own => t \notin Legs
  BY <1>1 DEF OthersOK
<1>5. /\ txs \in [Txs -> Txn] /\ \A m \in Legs \ {l} : txs[m] = txn[m]
      /\ ~leg[l].own => txs[l] = txn[l]
      /\ leg[l].own => txs[l].shown = leg[l].seen /\ txs[l].wrote = txn[l].wrote /\ txs[l].state = txn[l].state
  BY <1>2, <1>3, <1>4, Tags DEF Txn
<1>6. leg[l].own /\ ~kind[l[1]].get => txn[l].wrote = leg[l].seen
  BY <1>1 DEF ShownOK
<1> HIDE DEF txs
<1>7. CASE FailWith(l, txs)
  BY <1>1, <1>5, <1>6, <1>7, FailKeeps
<1>8. CASE txn' = txs /\ Goto(l, "commit") /\ UNCHANGED <<hook, kind, rcTx, legTx, applied, cancelled, answer>>
  <2>1. leg' \in [Legs -> Leg] /\ leg'[l].pc = "commit" /\ leg'[l].own = leg[l].own
        /\ \A m \in Legs \ {l} : leg'[m] = leg[m]
    BY <1>8 DEF Goto, TypeOK, Leg, PCs
  <2>2. LegStep(l)
    BY <1>5, <1>8, <2>1 DEF LegStep, TypeOK
  <2>3. txn'[l].state = "open" => leg[l].own
    BY <1>5, <1>8 DEF OwnOK
  <2> QED
    BY <1>1, <1>3, <1>4, <1>5, <1>6, <1>8, <2>1, <2>2, <2>3, StepKeeps DEF Active, Ended
<1> QED
  BY <1>1, <1>7, <1>8

-----------------------------------------------------------------------------
(* Steps that begin or commit a transaction, and the request's own.        *)

\* Nobody else at work uses the config that a leg's transaction is stored in.
LEMMA OthersTx ==
  ASSUME IInv, NEW l \in Legs, NEW m \in Legs, m # l, NEW t, SetTx(l, t), kind' = kind,
         leg[l].pc \in Active \cup {"begin"}, leg[m].pc \in Active \cup {"begin"}
  PROVE  TxOf(m)' = TxOf(m)
<1> USE DEF IInv
<1>1. Running(l[1]) /\ Running(m[1]) /\ l[2] \in kind[l[1]].dbs /\ m[2] \in kind[m[1]].dbs
  BY DEF LegsOK
<1>2. Multi(m[1])' = Multi(m[1])
  BY DEF Multi
<1>3. CASE Multi(m[1])
  BY <1>2, <1>3 DEF SetTx, TxOf, TypeOK
<1>4. CASE ~Multi(m[1]) /\ (Multi(l[1]) \/ Config[m[1]] # Config[l[1]])
  <2>1. Config[m[1]] \in Configs /\ Config[l[1]] \in Configs /\ DOMAIN rcTx = Configs
    BY TxOfType DEF TypeOK
  <2>2. rcTx'[Config[m[1]]] = rcTx[Config[m[1]]]
    BY <1>4, <2>1 DEF SetTx
  <2> QED
    BY <1>2, <1>4, <2>2 DEF TxOf
<1>5. CASE ~Multi(m[1]) /\ ~Multi(l[1]) /\ Config[m[1]] = Config[l[1]]
  <2>1. l[1] = m[1]
    BY <1>1, <1>5, Tags DEF OneAtATime
  <2> QED
    BY <1>1, <1>5, <2>1, OneLeg, Tags
<1> QED
  BY <1>3, <1>4, <1>5

\* The config names the new transaction, or none.
LEMMA SetTxType ==
  ASSUME TypeOK, NEW l \in Legs, NEW t \in Txs \cup {NoTx}, SetTx(l, t), kind' = kind
  PROVE  /\ rcTx' \in [Configs -> Txs \cup {NoTx}] /\ legTx' \in [Legs -> Txs \cup {NoTx}]
         /\ TxOf(l)' = t
         /\ \A c \in Configs : rcTx'[c] = rcTx[c] \/ (rcTx'[c] = t /\ ~Multi(l[1]) /\ c = Config[l[1]])
         /\ \A m \in Legs : legTx'[m] = legTx[m] \/ (legTx'[m] = t /\ m = l)
<1>1. Multi(l[1])' = Multi(l[1]) /\ Config[l[1]] \in Configs
  BY TxOfType DEF Multi
<1> QED
  BY <1>1 DEF SetTx, TypeOK, TxOf

LEMMA BeginKeeps ==
  ASSUME IInv, NEW l \in Legs, BeginTx(l)
  PROVE  IInv'
<1> USE DEF IInv
<1>1. /\ leg[l].pc = "begin" /\ Audits(l[1]) /\ SetTx(l, l)
      /\ txn' = [txn EXCEPT ![l].state = "open"]
      /\ leg' = [leg EXCEPT ![l].pc = "run", ![l].own = TRUE]
      /\ UNCHANGED <<hook, kind, applied, cancelled, answer>>
  BY DEF BeginTx
<1>2. l \in Txs /\ leg \in [Legs -> Leg] /\ txn \in [Txs -> Txn] /\ leg[l] \in Leg /\ txn[l] \in Txn
  BY Tags DEF TypeOK
<1>3. /\ ~leg[l].own /\ Running(l[1]) /\ l[2] \in kind[l[1]].dbs
      /\ txn[l] = [state |-> "none", wrote |-> 0, shown |-> 0]
  BY <1>1 DEF LegsOK, OwnOK
<1>4. leg' \in [Legs -> Leg] /\ (\A m \in Legs \ {l} : leg'[m] = leg[m])
      /\ leg'[l].pc = "run" /\ leg'[l].own
  BY <1>1, <1>2 DEF Leg, PCs
<1>5. txn' \in [Txs -> Txn] /\ (\A t \in Txs \ {l} : txn'[t] = txn[t])
      /\ txn'[l].state = "open" /\ txn'[l].wrote = 0 /\ txn'[l].shown = 0
  BY <1>1, <1>2, <1>3 DEF Txn
<1>6. TypeOK'
  BY <1>1, <1>2, <1>4, <1>5, SetTxType DEF TypeOK
<1>7. LegsOK'
  BY <1>1, <1>3, <1>4 DEF LegsOK, Running, Active
<1>8. OneAtATime'
  BY <1>1 DEF OneAtATime, Running
<1>9. \A m \in Legs \ {l} : leg[m].pc \in Active => TxOf(m)' = TxOf(m)
  BY <1>1, OthersTx DEF Active
<1>10. TxOf(l)' = l /\ \A m \in Legs : Audits(m[1])' = Audits(m[1])
  BY <1>1, <1>2, SetTxType DEF Audits
<1>11. OwnOK'
  <2> SUFFICES ASSUME NEW m \in Legs PROVE OwnOK!(m)'
    BY DEF OwnOK
  <2>1. CASE m = l
    BY <1>1, <1>4, <1>5, <1>10, <2>1 DEF Active
  <2>2. CASE m # l
    BY <1>4, <1>5, <1>9, <1>10, <2>2, Tags DEF OwnOK
  <2> QED
    BY <2>1, <2>2
<1>12. RefsOK'
  <2>1. \A c, t : LeftIn(t, c) => LeftIn(t, c)'
    BY <1>1, <1>4 DEF LeftIn, Multi
  <2>2. ~Multi(l[1]) => LeftIn(l, Config[l[1]])'
    BY <1>1, <1>4 DEF LeftIn, Multi
  <2>3. \A m \in Legs : leg[m].own => leg'[m].own
    BY <1>4
  <2>4. (\A c \in Configs : LeftIn(rcTx[c], c)) /\ \A m \in Legs : (legTx[m] = m /\ leg[m].own) \/ LeftIn(legTx[m], Config[m[1]])
    BY DEF RefsOK
  <2>5. /\ \A c \in Configs : rcTx'[c] = rcTx[c] \/ (rcTx'[c] = l /\ ~Multi(l[1]) /\ c = Config[l[1]])
        /\ \A m \in Legs : legTx'[m] = legTx[m] \/ (legTx'[m] = l /\ m = l)
    BY <1>1, <1>2, SetTxType
  <2>6. \A c \in Configs : LeftIn(rcTx[c], c)' \/ (rcTx'[c] = l /\ ~Multi(l[1]) /\ c = Config[l[1]])
    BY <1>1, <1>4, <2>4, <2>5 DEF LeftIn, Multi
  <2>7. \A c \in Configs : LeftIn(rcTx[c], c)'
    BY <1>1, <1>4, <2>6 DEF LeftIn, Multi
  <2>8. \A m \in Legs : (legTx'[m] = m /\ leg'[m].own) \/ LeftIn(legTx[m], Config[m[1]])'
    BY <1>1, <1>4, <2>4, <2>5 DEF LeftIn, Multi
  <2> QED
    BY <2>7, <2>8 DEF RefsOK
<1>13. OthersOK'
  BY <1>4, <1>9 DEF OthersOK, Active
<1>14. ShownOK'
  BY <1>1, <1>4, <1>5, Tags DEF ShownOK
<1> QED
  BY <1>6, <1>7, <1>8, <1>11, <1>12, <1>13, <1>14

LEMMA CommitKeeps ==
  ASSUME IInv, NEW l \in Legs, Commit(l)
  PROVE  IInv'
<1> USE DEF IInv
<1>1. /\ leg[l].pc = "commit" /\ leg[l].own /\ SetTx(l, NoTx)
      /\ txn' = [txn EXCEPT ![TxOf(l)].state = "committed"]
      /\ leg' = [leg EXCEPT ![l].pc = "ok"]
      /\ UNCHANGED <<hook, kind, applied, cancelled, answer>>
  BY DEF Commit, Goto
<1>2. l \in Txs /\ leg \in [Legs -> Leg] /\ txn \in [Txs -> Txn] /\ leg[l] \in Leg /\ txn[l] \in Txn
  BY Tags DEF TypeOK
<1>3. TxOf(l) = l /\ Running(l[1])
  BY <1>1 DEF OwnOK, LegsOK, Active
<1>4. leg' \in [Legs -> Leg] /\ (\A m \in Legs \ {l} : leg'[m] = leg[m])
      /\ leg'[l].pc = "ok" /\ leg'[l].own
  BY <1>1, <1>2 DEF Leg, PCs
<1>5. txn' \in [Txs -> Txn] /\ (\A t \in Txs \ {l} : txn'[t] = txn[t])
      /\ txn'[l].state = "committed" /\ txn'[l].wrote = txn[l].wrote /\ txn'[l].shown = txn[l].shown
  BY <1>1, <1>2, <1>3 DEF Txn
<1>6. TypeOK'
  BY <1>1, <1>2, <1>4, <1>5, SetTxType DEF TypeOK
<1>7. LegsOK'
  BY <1>1, <1>3, <1>4 DEF LegsOK, Running, Active
<1>8. OneAtATime'
  BY <1>1 DEF OneAtATime, Running
<1>9. \A m \in Legs \ {l} : leg[m].pc \in Active => TxOf(m)' = TxOf(m)
  BY <1>1, OthersTx DEF Active
<1>10. \A m \in Legs : Audits(m[1])' = Audits(m[1])
  BY <1>1 DEF Audits
<1>11. OwnOK'
  <2> SUFFICES ASSUME NEW m \in Legs PROVE OwnOK!(m)'
    BY DEF OwnOK
  <2>1. CASE m = l
    BY <1>1, <1>4, <1>5, <1>10, <2>1 DEF Active
  <2>2. CASE m # l
    BY <1>4, <1>5, <1>9, <1>10, <2>2, Tags DEF OwnOK
  <2> QED
    BY <2>1, <2>2
<1>12. RefsOK'
  <2>1. /\ \A c \in Configs : rcTx'[c] = rcTx[c] \/ rcTx'[c] \notin Legs
        /\ \A m \in Legs : legTx'[m] = legTx[m] \/ legTx'[m] \notin Legs
    BY <1>1, SetTxType, Tags
  <2>2. \A m \in Legs : leg'[m].own = leg[m].own
    BY <1>1, <1>4
  <2> QED
    BY <1>1, <2>1, <2>2 DEF RefsOK, LeftIn, Multi
<1>13. OthersOK'
  BY <1>4, <1>9 DEF OthersOK, Active
<1>14. ShownOK'
  <2> SUFFICES ASSUME NEW m \in Legs PROVE ShownOK!(m)'
    BY DEF ShownOK
  <2>1. CASE m = l
    BY <1>1, <1>4, <1>5, <2>1 DEF ShownOK
  <2>2. CASE m # l
    <3>1. leg'[m] = leg[m] /\ txn'[m] = txn[m] /\ kind' = kind
      BY <1>1, <1>4, <1>5, <2>2, Tags
    <3> QED
      BY <3>1 DEF ShownOK
  <2> QED
    BY <2>1, <2>2
<1> QED
  BY <1>6, <1>7, <1>8, <1>11, <1>12, <1>13, <1>14

\* The database ends a transaction whose request is cancelled, a caller its own.
LEMMA EndKeeps ==
  ASSUME IInv, (\E l \in Legs : CancelAborts(l)) \/ (\E r \in Reqs : CallerEnds(r))
  PROVE  IInv'
<1> USE DEF IInv
<1>1. PICK t \in Txs, s \in {"committed", "aborted"} :
        /\ txn' = [txn EXCEPT ![t].state = s]
        /\ t \in Legs => txn[t].state = "open" /\ s = "aborted"
        /\ UNCHANGED <<hook, kind, rcTx, legTx, leg, applied, cancelled, answer>>
  BY Tags DEF CancelAborts, CallerEnds
<1>2. /\ txn' \in [Txs -> Txn]
      /\ \A l \in Legs : \/ txn'[l] = txn[l]
                          \/ /\ txn[l].state = "open" /\ txn'[l].state = "aborted"
                             /\ txn'[l].wrote = txn[l].wrote /\ txn'[l].shown = txn[l].shown
  BY <1>1, Tags DEF TypeOK, Txn
<1>3. \A m \in Legs : TxOf(m)' = TxOf(m) /\ Audits(m[1])' = Audits(m[1])
  BY <1>1 DEF TxOf, Multi, Audits
<1>4. TypeOK'
  BY <1>1, <1>2 DEF TypeOK
<1>5. LegsOK' /\ OneAtATime' /\ RefsOK'
  BY <1>1 DEF LegsOK, OneAtATime, RefsOK, LeftIn, Running, Multi
<1>6. OwnOK'
  <2> SUFFICES ASSUME NEW m \in Legs PROVE OwnOK!(m)'
    BY DEF OwnOK
  <2> QED
    BY <1>1, <1>2, <1>3 DEF OwnOK, Active
<1>7. OthersOK'
  BY <1>1, <1>3 DEF OthersOK
<1>8. ShownOK'
  BY <1>1, <1>2 DEF ShownOK, OwnOK, Active
<1> QED
  BY <1>4, <1>5, <1>6, <1>7, <1>8

\* Answers and cancellations concern a request whose legs have ended, or no leg.
LEMMA AnswerKeeps ==
  ASSUME IInv, NEW r \in Reqs, Answer(r) \/ Cancel(r)
  PROVE  IInv'
<1> USE DEF IInv
<1>1. UNCHANGED <<hook, kind, rcTx, legTx, leg, txn, applied>> /\ Running(r)
  BY DEF Answer, Cancel
<1>2. TypeOK'
  BY DEF Answer, Cancel, TypeOK
<1>3. /\ \A m \in Legs : leg[m].pc \in Active \cup {"begin"} => Running(m[1])'
      /\ \A q \in Reqs : Running(q)' => Running(q)
      /\ \A q \in Reqs : answer[q] # "none" => answer'[q] # "none"
      /\ \A m \in Legs : answer'[m[1]] = "ok" /\ m[2] \in kind[m[1]].dbs => leg[m].pc = "ok"
  <2>1. CASE Cancel(r)
    BY <2>1 DEF Cancel, Running, LegsOK
  <2>2. CASE Answer(r)
    <3>1. PICK a \in {"ok", "error"} :
            /\ answer' = [answer EXCEPT ![r] = a]
            /\ a = "ok" => \A l \in LegsOf(r) : leg[l].pc = "ok"
      BY <2>2 DEF Answer
    <3>2. answer \in [Reqs -> {"none", "waiting", "ok", "error"}]
      BY DEF TypeOK
    <3>3. \A m \in Legs : m[1] = r /\ m[2] \in kind[m[1]].dbs => m \in LegsOf(r) /\ leg[m].pc \in Ended
      BY <2>2, Tags DEF Answer, LegsOf
    <3> QED
      BY <3>1, <3>2, <3>3, Tags DEF LegsOK, Running, Ended, Active
  <2> QED
    BY <2>1, <2>2
<1>4. LegsOK'
  BY <1>1, <1>3, Tags DEF LegsOK
<1>5. OneAtATime'
  BY <1>3 DEF OneAtATime
<1>6. \A m \in Legs : TxOf(m)' = TxOf(m) /\ Audits(m[1])' = Audits(m[1])
  BY <1>1 DEF TxOf, Multi, Audits
<1>7. OwnOK' /\ OthersOK'
  BY <1>1, <1>6 DEF OwnOK, OthersOK
<1>8. RefsOK' /\ ShownOK'
  BY <1>1 DEF RefsOK, LeftIn, Multi, ShownOK
<1> QED
  BY <1>2, <1>4, <1>5, <1>7, <1>8

\* A request is issued with a config that no running request has.
LEMMA IssueKeeps ==
  ASSUME IInv, NEW r \in Reqs, Issue(r)
  PROVE  IInv'
<1> DEFINE tx == IF kind[r].tx THEN <<r, Caller>> ELSE rcTx[Config[r]]
<1> USE DEF IInv
<1>1. /\ answer[r] = "none" /\ \A q \in Reqs : Config[q] = Config[r] => ~Running(q)
      /\ rcTx' = [rcTx EXCEPT ![Config[r]] = tx]
      /\ txn' = IF kind[r].tx THEN [txn EXCEPT ![tx].state = "open"] ELSE txn
      /\ UNCHANGED <<hook, kind, applied, cancelled>>
  BY DEF Issue
<1>2. Config[r] \in Configs /\ tx \in Txs \cup {NoTx} /\ LeftIn(tx, Config[r])
  BY Tags, ExecutionAssumption DEF TypeOK, RefsOK, LeftIn
<1>3. txn' \in [Txs -> Txn] /\ \A m \in Legs : txn'[m] = txn[m]
  BY <1>1, Tags DEF TypeOK, Txn
<1> HIDE DEF tx
<1>4. \A m \in Legs : m[1] = r => leg[m].pc = "idle" /\ ~leg[m].own
  BY <1>1 DEF LegsOK
<1>5. /\ leg' \in [Legs -> Leg] /\ legTx' \in [Legs -> Txs \cup {NoTx}]
      /\ answer' \in [Reqs -> {"none", "waiting", "ok", "error"}]
      /\ \A q \in Reqs \ {r} : answer'[q] = answer[q]
      /\ answer'[r] \in {"waiting", "error"}
      /\ \A m \in Legs : leg'[m].own = leg[m].own
      /\ \A m \in Legs : m[1] # r => leg'[m] = leg[m] /\ legTx'[m] = legTx[m]
      /\ \A m \in Legs : m[1] = r => \/ leg'[m].pc = "idle"
                                     \/ leg'[m].pc = "begin" /\ answer'[r] = "waiting" /\ m[2] \in kind[r].dbs
      /\ \A m \in Legs : legTx'[m] = legTx[m] \/ legTx'[m] = tx
  <2>1. \/ answer' = [answer EXCEPT ![r] = "error"] /\ UNCHANGED <<leg, legTx>>
        \/ /\ answer' = [answer EXCEPT ![r] = "waiting"]
           /\ leg' = [l \in Legs |-> IF l \in LegsOf(r)
                            THEN [leg[l] EXCEPT !.pc = "begin"] ELSE leg[l]]
           /\ legTx' = [l \in Legs |-> IF l \in LegsOf(r) /\ Multi(r) THEN tx ELSE legTx[l]]
    BY DEF Issue, tx
  <2>2. \A m \in LegsOf(r) : m[1] = r /\ m[2] \in kind[r].dbs
    BY DEF LegsOf
  <2>3. \A m \in Legs : LET n == [leg[m] EXCEPT !.pc = "begin"] IN
          n \in Leg /\ n.pc = "begin" /\ n.own = leg[m].own
    BY DEF TypeOK, Leg, PCs
  <2>4. CASE answer' = [answer EXCEPT ![r] = "error"] /\ UNCHANGED <<leg, legTx>>
    BY <1>4, <2>4 DEF TypeOK
  <2>5. CASE /\ answer' = [answer EXCEPT ![r] = "waiting"]
             /\ leg' = [l \in Legs |-> IF l \in LegsOf(r)
                              THEN [leg[l] EXCEPT !.pc = "begin"] ELSE leg[l]]
             /\ legTx' = [l \in Legs |-> IF l \in LegsOf(r) /\ Multi(r) THEN tx ELSE legTx[l]]
    <3>1. leg' \in [Legs -> Leg] /\ legTx' \in [Legs -> Txs \cup {NoTx}]
      BY <1>2, <2>3, <2>5 DEF TypeOK
    <3>2. \A m \in Legs : /\ leg'[m].own = leg[m].own
                          /\ m[1] # r => leg'[m] = leg[m] /\ legTx'[m] = legTx[m]
                          /\ legTx'[m] = legTx[m] \/ legTx'[m] = tx
      BY <2>2, <2>3, <2>5
    <3>3. \A m \in Legs : m[1] = r => leg'[m].pc = "idle" \/ (leg'[m].pc = "begin" /\ m[2] \in kind[r].dbs)
      BY <1>4, <2>2, <2>3, <2>5
    <3> QED
      BY <2>5, <3>1, <3>2, <3>3 DEF TypeOK
  <2> QED
    BY <2>1, <2>4, <2>5
<1>6. TypeOK'
  BY <1>1, <1>2, <1>3, <1>5 DEF TypeOK
<1>7. LegsOK'
  <2> SUFFICES ASSUME NEW m \in Legs PROVE LegsOK!(m)'
    BY DEF LegsOK
  <2>1. CASE m[1] = r
    BY <1>1, <1>4, <1>5, <2>1 DEF Running, Active
  <2>2. CASE m[1] # r
    BY <1>1, <1>5, <2>2, Tags DEF LegsOK, Running
  <2> QED
    BY <2>1, <2>2
<1>8. OneAtATime'
  BY <1>1, <1>5 DEF OneAtATime, Running
<1>9. \A m \in Legs : leg'[m].pc \in Active =>
        leg'[m] = leg[m] /\ TxOf(m)' = TxOf(m) /\ Audits(m[1])' = Audits(m[1])
  <2> SUFFICES ASSUME NEW m \in Legs, leg'[m].pc \in Active
               PROVE  leg'[m] = leg[m] /\ TxOf(m)' = TxOf(m) /\ Audits(m[1])' = Audits(m[1])
    OBVIOUS
  <2>1. m[1] # r /\ leg'[m] = leg[m] /\ legTx'[m] = legTx[m]
    BY <1>5 DEF Active
  <2>2. Config[m[1]] # Config[r] /\ Config[m[1]] \in Configs
    BY <1>1, <2>1, Tags, TxOfType DEF LegsOK
  <2> QED
    BY <1>1, <2>1, <2>2 DEF TxOf, Multi, Audits, TypeOK
<1>10. OwnOK'
  <2> SUFFICES ASSUME NEW m \in Legs PROVE OwnOK!(m)'
    BY DEF OwnOK
  <2>1. CASE m[1] = r
    BY <1>3, <1>4, <1>5, <2>1 DEF OwnOK, Active
  <2>2. CASE m[1] # r
    BY <1>3, <1>5, <1>9, <2>2 DEF OwnOK
  <2> QED
    BY <2>1, <2>2
<1>11. RefsOK'
  <2>1. \A t, c : LeftIn(t, c) => LeftIn(t, c)'
    BY <1>1, <1>5 DEF LeftIn, Multi
  <2>2. \A c \in Configs : rcTx'[c] = rcTx[c] \/ (rcTx'[c] = tx /\ c = Config[r])
    BY <1>1 DEF TypeOK
  <2>3. \A c \in Configs : LeftIn(rcTx[c], c)'
    BY <1>1, <1>2, <1>5, <2>2 DEF RefsOK, LeftIn, Multi
  <2>4. \A m \in Legs : (legTx'[m] = m /\ leg'[m].own) \/ LeftIn(legTx[m], Config[m[1]])'
    <3> SUFFICES ASSUME NEW m \in Legs
                 PROVE  (legTx'[m] = m /\ leg'[m].own) \/ LeftIn(legTx[m], Config[m[1]])'
      OBVIOUS
    <3>1. CASE legTx'[m] = legTx[m]
      BY <1>1, <1>5, <3>1 DEF RefsOK, LeftIn, Multi
    <3>2. CASE legTx'[m] = tx /\ m[1] = r
      BY <1>1, <1>2, <1>5, <3>2 DEF LeftIn, Multi
    <3> QED
      BY <1>5, <3>1, <3>2
  <2> QED
    BY <2>3, <2>4 DEF RefsOK
<1>12. OthersOK'
  BY <1>9 DEF OthersOK, Active
<1>13. ShownOK'
  <2> SUFFICES ASSUME NEW m \in Legs PROVE ShownOK!(m)'
    BY DEF ShownOK
  <2>1. CASE m[1] = r
    BY <1>4, <1>5, <2>1
  <2>2. CASE m[1] # r
    BY <1>1, <1>3, <1>5, <2>2 DEF ShownOK
  <2> QED
    BY <2>1, <2>2
<1> QED
  BY <1>6, <1>7, <1>8, <1>10, <1>11, <1>12, <1>13

\* A leg begins and ends no transaction but its own.
LEMMA StepEnds ==
  ASSUME IInv, NEW l \in Legs, Step(l)
  PROVE  \A t \in Txs \ {l} : txn'[t].state = txn[t].state
<1> DEFINE Kept(txs) == \A t \in Txs \ {l} : txs[t].state = txn[t].state
           t0 == TxOf(l)
           Wrote(n) == [txn EXCEPT ![t0].wrote = IF n = 1 THEN 1 ELSE @]
           Shown == [txn EXCEPT ![t0].shown = leg[l].seen]
<1>1. txn \in [Txs -> Txn] /\ (leg[l].own /\ leg[l].pc \in Active => t0 = l)
  BY DEF IInv, TypeOK, OwnOK
<1>2. ASSUME NEW txs, DOMAIN txs = Txs, FailWith(l, txs), Kept(txs), leg[l].pc \in Active \cup {"begin"}
      PROVE  Kept(txn')
  <2>1. leg[l].own => t0 = l
    BY <1>1, <1>2 DEF IInv, LegsOK
  <2> QED
    BY <1>2, <2>1 DEF FailWith
<1>3. DOMAIN txn = Txs /\ DOMAIN Shown = Txs /\ \A n : DOMAIN Wrote(n) = Txs
  BY <1>1
<1>4. Kept(txn) /\ Kept(Shown) /\ \A n : Kept(Wrote(n))
  BY <1>1 DEF Txn
<1> HIDE DEF Shown, Wrote
<1>5. CASE Refuse(l) \/ GiveUp(l) \/ NotCaptured(l)
  BY <1>2, <1>3, <1>4, <1>5 DEF Refuse, GiveUp, NotCaptured, Fail, Active
<1>6. CASE Connect(l) \/ TryOutsideTx(l) \/ SkipHook(l) \/ Finish(l)
  BY <1>6 DEF Connect, TryOutsideTx, SkipHook, Finish
<1>7. CASE BeginTx(l)
  BY <1>1, <1>7 DEF BeginTx
<1>8. CASE RunInTx(l) \/ RunAgainInTx(l)
  <2>1. \E n : txn' = Wrote(n)
    BY <1>8 DEF RunInTx, RunAgainInTx, Wrote
  <2> QED
    BY <1>4, <2>1
<1>9. CASE RunFails(l)
  <2>1. (\E n : FailWith(l, Wrote(n))) /\ leg[l].pc \in Active
    BY <1>9 DEF RunFails, Wrote, Active
  <2> QED
    BY <1>2, <1>3, <1>4, <2>1
<1>10. CASE CallHook(l)
  <2>1. (txn' = Shown \/ FailWith(l, Shown)) /\ leg[l].pc \in Active
    BY <1>10 DEF CallHook, Shown, Active
  <2> QED
    BY <1>2, <1>3, <1>4, <2>1
<1>11. CASE Commit(l) \/ CommitFails(l)
  <2> DEFINE ended == [txn EXCEPT ![l].state = "committed"]
  <2>1. leg[l].pc \in Active /\ t0 = l
    BY <1>1, <1>11 DEF Commit, CommitFails, Active
  <2>2. txn' = ended \/ FailWith(l, ended) \/ FailWith(l, txn)
    BY <1>11, <2>1 DEF Commit, CommitFails, Fail
  <2>3. Kept(ended) /\ DOMAIN ended = Txs
    BY <1>1
  <2> HIDE DEF ended
  <2> QED
    BY <1>2, <1>3, <1>4, <2>1, <2>2, <2>3
<1> QED
  BY <1>5, <1>6, <1>7, <1>8, <1>9, <1>10, <1>11 DEF Step

-----------------------------------------------------------------------------
(* The theorems.                                                           *)

\* The invariant holds of every behaviour of Execution.
THEOREM Invariance == Spec => []IInv
<1>1. Init => IInv
  BY InitHolds
<1>2. IInv /\ [Next]_vars => IInv'
  <2> SUFFICES ASSUME IInv, [Next]_vars PROVE IInv'
    OBVIOUS
  <2>1. ASSUME NEW l \in Legs, Step(l) PROVE IInv'
    BY <2>1, GotoKeeps, RunKeeps, TryKeeps, FailsKeep, HookKeeps, BeginKeeps, CommitKeeps DEF Step
  <2>2. CASE UNCHANGED vars
    <3>1. \A m \in Legs : TxOf(m)' = TxOf(m) /\ Audits(m[1])' = Audits(m[1])
      BY <2>2 DEF vars, TxOf, Multi, Audits
    <3>2. TypeOK'
      BY <2>2 DEF vars, TypeOK, IInv
    <3>3. LegsOK' /\ OneAtATime' /\ RefsOK' /\ ShownOK'
      BY <2>2 DEF vars, IInv, LegsOK, OneAtATime, RefsOK, LeftIn, ShownOK, Running, Multi
    <3>4. OwnOK' /\ OthersOK'
      BY <2>2, <3>1 DEF vars, IInv, OwnOK, OthersOK
    <3> QED
      BY <3>2, <3>3, <3>4 DEF IInv
  <2> QED
    BY <2>1, <2>2, EndKeeps, AnswerKeeps, IssueKeeps DEF Next
<1> QED
  BY <1>1, <1>2, PTL DEF Spec

\* Every variable keeps its type.
THEOREM ExecutionTyped == Spec => []TypeOK
<1>1. IInv => TypeOK
  BY DEF IInv
<1> QED
  BY <1>1, Invariance, PTL

\* In every transaction the engine began and committed, the hook was shown what a
\* statement that runs once changed (execute, runMutationHook and Commit).
THEOREM HookSees == Spec => []HookSeesStatement
<1>1. IInv => HookSeesStatement
  BY DEF IInv, OwnOK, ShownOK, HookSeesStatement, SeenByHook
<1> QED
  BY <1>1, Invariance, PTL

\* A request that was answered left no transaction of its own open, and one answered
\* without an error committed them all (the deferred Rollback).
THEOREM EngineTxEnded == Spec => []EngineTxEnds
<1>1. IInv => EngineTxEnds
  <2> SUFFICES ASSUME IInv, NEW r \in Reqs, answer[r] \in {"ok", "error"}, NEW l \in LegsOf(r)
               PROVE  /\ txn[l].state # "open"
                      /\ answer[r] = "ok" /\ leg[l].own => txn[l].state = "committed"
    BY DEF EngineTxEnds
  <2>1. l \in Legs /\ l[1] = r /\ l[2] \in kind[r].dbs
    BY DEF IInv, TypeOK, Kind, LegsOf, Legs
  <2>2. leg[l].pc \notin Active
    BY <2>1 DEF IInv, LegsOK, Running
  <2>3. answer[r] = "ok" => leg[l].pc = "ok"
    BY <2>1 DEF IInv, LegsOK
  <2> QED
    BY <2>1, <2>2, <2>3 DEF IInv, OwnOK
<1> QED
  BY <1>1, Invariance, PTL

\* No step of the engine ends a transaction that a caller supplied: the ones a leg
\* ends it began (ownTx).
THEOREM CallersTxStays == Spec => CallerTxKept
<1>1. ASSUME IInv, Next, NEW r \in Reqs, NEW q \in Reqs, Config[q] = Config[r], Running(q),
             txn[<<r, Caller>>].state = "open"
      PROVE  txn'[<<r, Caller>>].state = "open"
  <2> DEFINE c == <<r, Caller>>
  <2> USE <1>1
  <2>1. c \in Txs /\ c \notin Legs /\ txn \in [Txs -> Txn]
    BY Tags DEF IInv, TypeOK
  <2>2. ASSUME NEW l \in Legs, Step(l) PROVE txn'[c].state = "open"
    BY <2>1, <2>2, StepEnds
  <2>3. ASSUME NEW l \in Legs, CancelAborts(l) PROVE txn'[c].state = "open"
    BY <2>1, <2>3 DEF CancelAborts
  <2>4. ASSUME NEW p \in Reqs, CallerEnds(p) PROVE txn'[c].state = "open"
    BY <2>1, <2>4 DEF CallerEnds
  <2>5. ASSUME NEW p \in Reqs, Issue(p) PROVE txn'[c].state = "open"
    BY <2>1, <2>5, Tags DEF Issue, Txn
  <2>6. ASSUME NEW p \in Reqs, Answer(p) \/ Cancel(p) PROVE txn'[c].state = "open"
    BY <2>6 DEF Answer, Cancel
  <2> QED
    BY <2>2, <2>3, <2>4, <2>5, <2>6 DEF Next
<1>2. IInv /\ [Next]_vars =>
        [\A r \in Reqs :
           /\ txn[<<r, Caller>>].state = "open"
           /\ \E q \in Reqs : Config[q] = Config[r] /\ Running(q)
           => txn'[<<r, Caller>>].state = "open"]_vars
  BY <1>1
<1> QED
  BY <1>2, Invariance, PTL DEF Spec, CallerTxKept
=============================================================================
