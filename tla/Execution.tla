----------------------------- MODULE Execution -----------------------------
(***************************************************************************)
(* How a request is carried out (core/engine/gstate.go, dbjoin.go): the    *)
(* one-database path compileAndExecute, the fan-out executeParallelRoots   *)
(* with a goroutine per database, the transaction the engine begins for a  *)
(* mutation when a mutation hook is installed, the hook, and the retries   *)
(* of statements that run outside a transaction.                           *)
(*                                                                         *)
(* A LEG is the work of one request on one database.  What a statement     *)
(* reads or writes is abstracted to the number of rows it changed (0 or 1).*)
(* The databases, the host's hook and the callers are the environment.     *)
(***************************************************************************)
EXTENDS Naturals, FiniteSets

CONSTANTS
  Reqs,        \* requests
  DBs,         \* databases
  Configs,     \* RequestConfig objects of the callers
  Config,      \* [Reqs -> Configs], the one a request is issued with
  Kinds,       \* [Reqs -> SUBSET Kind], what each request may be
  Captures,    \* databases whose compiler captures row changes (PostgreSQL)
  ReadOnly,    \* databases configured read-only
  Attempts,    \* tries of an operation outside a transaction
  Caller,      \* tags the transaction a caller passes to GraphQLTx
  NoTx         \* a nil *sql.Tx

Kind == [mutation : BOOLEAN,            \* or a query
         dbs      : SUBSET DBs \ {{}},  \* databases its root fields are on
         tx       : BOOLEAN,            \* issued with GraphQLTx
         get      : BOOLEAN]            \* on_conflict: get (re-run if empty)
Legs == Reqs \X DBs
Txs  == Reqs \X (DBs \cup {Caller})     \* <<r, d>>: begun by the leg <<r, d>>

ASSUME ExecutionAssumption ==
  /\ Config \in [Reqs -> Configs]
  /\ Kinds \in [Reqs -> SUBSET Kind]
  /\ Captures \subseteq DBs /\ ReadOnly \subseteq DBs
  /\ Attempts \in Nat \ {0}
  /\ Caller \notin DBs
  /\ IsFiniteSet(DBs)
  /\ NoTx \notin Txs

VARIABLES
  hook,       \* mutationHook is installed
  kind,       \* [Reqs -> Kind]
  rcTx,       \* RequestConfig.Tx of every config
  legTx,      \* Tx of the config cloned for a leg of a fan-out
  leg,        \* the goroutine of a leg
  txn,        \* transactions: state, rows changed, changes shown to the hook
  applied,    \* times a leg's statement changed a row outside a transaction
  cancelled,  \* the request's context is done
  answer      \* what the caller got

vars == <<hook, kind, rcTx, legTx, leg, txn, applied, cancelled, answer>>

PCs == {"idle", "begin", "run", "again", "hook", "commit", "ok", "err"}
Ended == {"ok", "err"}
Leg == [pc : PCs, own : BOOLEAN, tries : Nat, captured : BOOLEAN, seen : 0..1]
Txn == [state : {"none", "open", "committed", "aborted"},
        wrote : 0..1, shown : 0..1]

TypeOK ==
  /\ hook \in BOOLEAN
  /\ kind \in [Reqs -> Kind] /\ \A r \in Reqs : kind[r] \in Kinds[r]
  /\ rcTx \in [Configs -> Txs \cup {NoTx}]
  /\ legTx \in [Legs -> Txs \cup {NoTx}]
  /\ leg \in [Legs -> Leg]
  /\ txn \in [Txs -> Txn]
  /\ applied \in [Legs -> Nat]
  /\ cancelled \in [Reqs -> BOOLEAN]
  /\ answer \in [Reqs -> {"none", "waiting", "ok", "error"}]

Init ==
  /\ hook \in BOOLEAN
  /\ kind \in [Reqs -> Kind] /\ \A r \in Reqs : kind[r] \in Kinds[r]
  /\ rcTx = [c \in Configs |-> NoTx]
  /\ legTx = [l \in Legs |-> NoTx]
  /\ leg = [l \in Legs |-> [pc |-> "idle", own |-> FALSE, tries |-> 0,
                            captured |-> FALSE, seen |-> 0]]
  /\ txn = [t \in Txs |-> [state |-> "none", wrote |-> 0, shown |-> 0]]
  /\ applied = [l \in Legs |-> 0]
  /\ cancelled = [r \in Reqs |-> FALSE]
  /\ answer = [r \in Reqs |-> "none"]

-----------------------------------------------------------------------------
Multi(r)    == Cardinality(kind[r].dbs) > 1
LegsOf(r)   == {r} \X kind[r].dbs
Running(r)  == answer[r] = "waiting"

\* The mutation must be shown to the hook.
Audits(r)   == kind[r].mutation /\ hook

\* s.tx(): the fan-out works on clones of the caller's config, the
\* one-database path on the caller's own.
TxOf(l)     == IF Multi(l[1]) THEN legTx[l] ELSE rcTx[Config[l[1]]]
SetTx(l, t) ==
  IF Multi(l[1])
    THEN legTx' = [legTx EXCEPT ![l] = t] /\ UNCHANGED rcTx
    ELSE rcTx' = [rcTx EXCEPT ![Config[l[1]]] = t] /\ UNCHANGED legTx

Goto(l, pc) == leg' = [leg EXCEPT ![l].pc = pc]

\* Variants of FailWith: it rolls back a transaction it does not own, or it
\* returns before the deferred Rollback is set up.
FailWithAnyTx(l, txs) ==
  /\ Goto(l, "err")
  /\ txn' = IF TxOf(l) # NoTx /\ txs[TxOf(l)].state = "open"
              THEN [txs EXCEPT ![TxOf(l)].state = "aborted"] ELSE txs
  /\ UNCHANGED <<hook, kind, rcTx, legTx, applied, cancelled, answer>>
FailWithoutRollback(l, txs) ==
  /\ Goto(l, "err")
  /\ txn' = txs
  /\ UNCHANGED <<hook, kind, rcTx, legTx, applied, cancelled, answer>>

\* An error return; the deferred Rollback ends the engine's own transaction
\* and leaves RequestConfig.Tx as it is.
FailWith(l, txs) ==
  /\ Goto(l, "err")
  /\ txn' = IF leg[l].own /\ txs[TxOf(l)].state = "open"
              THEN [txs EXCEPT ![TxOf(l)].state = "aborted"] ELSE txs
  /\ UNCHANGED <<hook, kind, rcTx, legTx, applied, cancelled, answer>>
Fail(l) == FailWith(l, txn)

-----------------------------------------------------------------------------
(* A caller issues a request; it uses a config for one request at a time.  *)
(* GraphQLTx stores the caller's transaction in the config.  A fan-out     *)
(* clones the config per database and refuses a mutation that brings a     *)
(* transaction.                                                            *)
Issue(r) ==
  /\ answer[r] = "none"
  /\ \A q \in Reqs : Config[q] = Config[r] => ~Running(q)
  /\ LET tx == IF kind[r].tx THEN <<r, Caller>> ELSE rcTx[Config[r]] IN
     /\ rcTx' = [rcTx EXCEPT ![Config[r]] = tx]
     /\ txn' = IF kind[r].tx THEN [txn EXCEPT ![tx].state = "open"] ELSE txn
     /\ IF Multi(r) /\ kind[r].mutation /\ tx # NoTx
          THEN /\ answer' = [answer EXCEPT ![r] = "error"]
               /\ UNCHANGED <<leg, legTx>>
          ELSE /\ answer' = [answer EXCEPT ![r] = "waiting"]
               /\ leg' = [l \in Legs |-> IF l \in LegsOf(r)
                            THEN [leg[l] EXCEPT !.pc = "begin"] ELSE leg[l]]
               /\ legTx' = [l \in Legs |-> IF l \in LegsOf(r) /\ Multi(r)
                              THEN tx ELSE legTx[l]]
  /\ UNCHANGED <<hook, kind, applied, cancelled>>

\* Compile errors, unknown or read-only tables and databases.
Refuse(l) == leg[l].pc = "begin" /\ Fail(l)

Blocked(l) ==
  \/ kind[l[1]].mutation /\ l[2] \in ReadOnly
  \/ Audits(l[1]) /\ l[2] \notin Captures

\* beginMutationTx: a mutation that is shown to the hook runs in the
\* caller's transaction or in one of the engine's, begun with the request's
\* context.
BeginTx(l) ==
  /\ leg[l].pc = "begin"
  /\ ~Blocked(l)
  /\ ~cancelled[l[1]]
  /\ Audits(l[1]) /\ TxOf(l) = NoTx
  /\ SetTx(l, l)
  /\ txn' = [txn EXCEPT ![l].state = "open"]
  /\ leg' = [leg EXCEPT ![l].pc = "run", ![l].own = TRUE]
  /\ UNCHANGED <<hook, kind, applied, cancelled, answer>>

\* The caller's transaction, or a connection.
Connect(l) ==
  /\ leg[l].pc = "begin"
  /\ ~Blocked(l)
  /\ \/ TxOf(l) # NoTx
     \/ ~Audits(l[1]) /\ ~cancelled[l[1]]
  /\ Goto(l, "run")
  /\ UNCHANGED <<hook, kind, rcTx, legTx, txn, applied, cancelled, answer>>

-----------------------------------------------------------------------------
(* The statement.  n is the number of rows it changed; "captured" says     *)
(* that its result carried the audit envelope, which extractMutationAudit  *)
(* takes out of it.  A result without rows (FALSE) is not an error here.   *)
Changes(r) == IF kind[r].mutation THEN 0..1 ELSE {0}

\* on_conflict: get that neither inserted its row nor read it runs once more.
AfterRun(l, n, empty) ==
  IF kind[l[1]].get /\ ~Multi(l[1]) /\ n = 0 /\ empty THEN "again" ELSE "hook"

RunInTx(l) ==
  /\ leg[l].pc = "run"
  /\ TxOf(l) # NoTx /\ txn[TxOf(l)].state = "open"
  /\ \E n \in Changes(l[1]), rows, empty \in BOOLEAN :
       /\ n = 1 \/ empty => rows
       /\ txn' = [txn EXCEPT ![TxOf(l)].wrote = IF n = 1 THEN 1 ELSE @]
       /\ leg' = [leg EXCEPT ![l].pc = AfterRun(l, n, empty),
                             ![l].captured = Audits(l[1]) /\ rows,
                             ![l].seen = IF Audits(l[1]) THEN n ELSE 0]
  /\ UNCHANGED <<hook, kind, rcTx, legTx, applied, cancelled, answer>>

\* The second run of on_conflict: get: its envelope stays in the result and
\* is not read.
RunAgainInTx(l) ==
  /\ leg[l].pc = "again"
  /\ TxOf(l) # NoTx /\ txn[TxOf(l)].state = "open"
  /\ \E n \in 0..1 :
       txn' = [txn EXCEPT ![TxOf(l)].wrote = IF n = 1 THEN 1 ELSE @]
  /\ Goto(l, "hook")
  /\ UNCHANGED <<hook, kind, rcTx, legTx, applied, cancelled, answer>>

\* A statement on a transaction fails or its result cannot be used
\* (no envelope, still empty): no second try.
RunFails(l) ==
  /\ leg[l].pc \in {"run", "again"}
  /\ TxOf(l) # NoTx
  /\ \E n \in IF txn[TxOf(l)].state = "open" THEN Changes(l[1]) ELSE {0} :
       FailWith(l, [txn EXCEPT ![TxOf(l)].wrote = IF n = 1 THEN 1 ELSE @])

\* RetryOperationForDB around a statement on a connection: every error is
\* tried again, a result without rows too, which is no error at the end.  The
\* statement commits by itself, and its reply can be lost (ok = FALSE
\* although it changed a row).
TryOutsideTx(l) ==
  /\ leg[l].pc \in {"run", "again"}
  /\ TxOf(l) = NoTx
  /\ ~cancelled[l[1]]
  /\ \E n \in Changes(l[1]), ok, empty \in BOOLEAN :
       /\ applied' = [applied EXCEPT ![l] = @ + n]
       /\ \E pc \in IF ok THEN {IF leg[l].pc = "run" THEN AfterRun(l, n, empty)
                                                    ELSE "hook"}
                   ELSE IF leg[l].tries + 1 < Attempts THEN {leg[l].pc}
                   ELSE {"err"} \cup {"hook" : x \in {"run"} \cap {leg[l].pc}} :
            leg' = [leg EXCEPT ![l].pc = pc,
                               ![l].tries = IF ok THEN 0 ELSE @ + 1]
  /\ UNCHANGED <<hook, kind, rcTx, legTx, txn, cancelled, answer>>

\* The context is looked at before each try and while waiting for the next.
GiveUp(l) ==
  /\ leg[l].pc \in {"run", "again"}
  /\ TxOf(l) = NoTx /\ cancelled[l[1]]
  /\ Fail(l)

-----------------------------------------------------------------------------
\* The host's hook sees the changes while the transaction is open; without
\* the envelope the mutation fails; without changes there is no call.
NeedsHookFromTwo(l) == Audits(l[1]) /\ leg[l].seen > 1      \* a variant
NeedsHook(l) == Audits(l[1]) /\ leg[l].seen > 0

SkipHook(l) ==
  /\ leg[l].pc = "hook"
  /\ ~NeedsHook(l)
  /\ Audits(l[1]) => leg[l].captured
  /\ Goto(l, "commit")
  /\ UNCHANGED <<hook, kind, rcTx, legTx, txn, applied, cancelled, answer>>

NotCaptured(l) ==
  /\ leg[l].pc = "hook"
  /\ Audits(l[1]) /\ ~leg[l].captured
  /\ Fail(l)

CallHook(l) ==
  /\ leg[l].pc = "hook"
  /\ NeedsHook(l) /\ leg[l].captured
  /\ LET shown == [txn EXCEPT ![TxOf(l)].shown = leg[l].seen] IN
     \/ /\ txn' = shown
        /\ Goto(l, "commit")
        /\ UNCHANGED <<hook, kind, rcTx, legTx, applied, cancelled, answer>>
     \/ FailWith(l, shown)        \* it returned an error or panicked

\* Commit of the engine's own transaction.  It fails when the context has
\* ended the transaction; the reply of a commit can be lost.
Finish(l) ==
  /\ leg[l].pc = "commit" /\ ~leg[l].own
  /\ Goto(l, "ok")
  /\ UNCHANGED <<hook, kind, rcTx, legTx, txn, applied, cancelled, answer>>

Commit(l) ==
  /\ leg[l].pc = "commit" /\ leg[l].own
  /\ txn[TxOf(l)].state = "open"
  /\ txn' = [txn EXCEPT ![TxOf(l)].state = "committed"]
  /\ SetTx(l, NoTx)
  /\ Goto(l, "ok")
  /\ UNCHANGED <<hook, kind, applied, cancelled, answer>>

CommitFails(l) ==
  /\ leg[l].pc = "commit" /\ leg[l].own
  /\ \/ Fail(l)
     \/ /\ txn[TxOf(l)].state = "open"
        /\ FailWith(l, [txn EXCEPT ![TxOf(l)].state = "committed"])

-----------------------------------------------------------------------------
(* The answer.  The fan-out waits for all its legs and answers an error if *)
(* one of them failed or their results cannot be merged.                   *)
AnswerResults(r) ==     \* a variant: waits for a result, not for the leg's end
  /\ Running(r)
  /\ \A l \in LegsOf(r) : leg[l].pc = "ok"
  /\ answer' = [answer EXCEPT ![r] = "ok"]
  /\ UNCHANGED <<hook, kind, rcTx, legTx, leg, txn, applied, cancelled>>

Answer(r) ==
  /\ Running(r)
  /\ \A l \in LegsOf(r) : leg[l].pc \in Ended
  /\ \E a \in {"ok", "error"} :
       /\ a = "ok" => \A l \in LegsOf(r) : leg[l].pc = "ok"
       /\ a = "error" => \/ Multi(r)
                         \/ \E l \in LegsOf(r) : leg[l].pc = "err"
       /\ answer' = [answer EXCEPT ![r] = a]
  /\ UNCHANGED <<hook, kind, rcTx, legTx, leg, txn, applied, cancelled>>

\* The caller goes away, or its deadline passes.
Cancel(r) ==
  /\ Running(r) /\ ~cancelled[r]
  /\ cancelled' = [cancelled EXCEPT ![r] = TRUE]
  /\ UNCHANGED <<hook, kind, rcTx, legTx, leg, txn, applied, answer>>

\* database/sql rolls a transaction back when its context is done.
CancelAborts(l) ==
  /\ cancelled[l[1]] /\ txn[l].state = "open"
  /\ txn' = [txn EXCEPT ![l].state = "aborted"]
  /\ UNCHANGED <<hook, kind, rcTx, legTx, leg, applied, cancelled, answer>>

\* The caller ends the transaction it passed to GraphQLTx.
CallerEnds(r) ==
  /\ answer[r] \in {"ok", "error"}
  /\ txn[<<r, Caller>>].state = "open"
  /\ \A q \in Reqs : Config[q] = Config[r] => ~Running(q)
  /\ \E s \in {"committed", "aborted"} :
       txn' = [txn EXCEPT ![<<r, Caller>>].state = s]
  /\ UNCHANGED <<hook, kind, rcTx, legTx, leg, applied, cancelled, answer>>

Step(l) ==
  \/ Refuse(l) \/ BeginTx(l) \/ Connect(l)
  \/ RunInTx(l) \/ RunAgainInTx(l) \/ RunFails(l)
  \/ TryOutsideTx(l) \/ GiveUp(l)
  \/ SkipHook(l) \/ NotCaptured(l) \/ CallHook(l)
  \/ Finish(l) \/ Commit(l) \/ CommitFails(l)

Next ==
  \/ \E l \in Legs : Step(l) \/ CancelAborts(l)
  \/ \E r \in Reqs : Issue(r) \/ Answer(r) \/ Cancel(r) \/ CallerEnds(r)

\* A goroutine that can go on does, and so does the one that waits for them.
Fairness ==
  /\ \A l \in Legs : WF_vars(Step(l))
  /\ \A r \in Reqs : WF_vars(Answer(r))

Spec == Init /\ [][Next]_vars /\ Fairness

-----------------------------------------------------------------------------
(* Properties.                                                             *)

\* The hook and the engine's transactions are one: in every transaction the
\* engine began and committed, each row the request changed was shown to the
\* hook (execute, runMutationHook and Commit in compileAndExecute and
\* executeForDatabaseRoots).
SeenByHook(l) == txn[l].state = "committed" => txn[l].shown = txn[l].wrote

\* A mutation whose statement runs once; the second run of an on_conflict: get
\* statement is not looked at for changes (gstate.go:940).
HookSeesStatement == \A l \in Legs : ~kind[l[1]].get => SeenByHook(l)

\* A request that was answered left no transaction of its own open, whichever
\* of its legs failed, and one answered without an error committed them all
\* (the deferred Rollback, Commit before the answer).
EngineTxEnds ==
  \A r \in Reqs : answer[r] \in {"ok", "error"} =>
    \A l \in LegsOf(r) :
      /\ txn[l].state # "open"
      /\ answer[r] = "ok" /\ leg[l].own => txn[l].state = "committed"

\* A transaction the caller supplied stays the caller's: it does not end
\* while one of the caller's requests runs, failed or not (ownTx).
CallerTxKept ==
  [][\A r \in Reqs :
       /\ txn[<<r, Caller>>].state = "open"
       /\ \E q \in Reqs : Config[q] = Config[r] /\ Running(q)
       => txn'[<<r, Caller>>].state = "open"]_vars

\* Every request that is issued is answered: retries end, and the fan-out
\* does not wait for a leg that returned early (wg.Wait in
\* executeParallelRoots).
Answered == \A r \in Reqs : Running(r) ~> ~Running(r)

=============================================================================
