---------------------------- MODULE MCExecution ----------------------------
(* Small instances of Execution: two callers' requests, two databases of    *)
(* which the second is read-only or does not capture changes.               *)
EXTENDS Execution

CONSTANTS r1, r2, a, b, c1

\* Both requests are issued one after the other with the same RequestConfig.
SameConfig == [r \in Reqs |-> c1]

Request(mutation, dbs, tx, get) ==
  [mutation |-> mutation, dbs |-> dbs, tx |-> tx, get |-> get]

\* r1 is a mutation of one or two databases, with or without the caller's
\* transaction, on_conflict: get among them, or a query in a transaction;
\* r2 is a mutation that follows it.
Plain == Request(TRUE, {a}, FALSE, FALSE)
AnyKind ==
  {Request(TRUE, ds, tx, FALSE) : ds \in {{a}, {a, b}}, tx \in BOOLEAN}
    \cup {Request(TRUE, {a}, FALSE, TRUE), Request(FALSE, {a}, TRUE, FALSE)}
AnyThenPlain == [r \in Reqs |-> IF r = r1 THEN AnyKind ELSE {Plain}]
=============================================================================
