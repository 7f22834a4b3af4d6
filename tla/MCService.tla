------------------------------ MODULE MCService -----------------------------
(***************************************************************************)
(* Small instances of Service: the default database and one that sorts     *)
(* before it.                                                              *)
(***************************************************************************)
EXTENDS Service

CONSTANTS main_db, events

EventsFirst == [d \in Names |-> IF d = events THEN 1 ELSE 2]

Conf(prod, named, legacy, given) ==
  [prod |-> prod, named |-> named, legacy |-> legacy, given |-> given]

\* Every way to name databases; pools of the caller with and without entries.
AllConfs ==
  {Conf(p, n, l, {}) : p \in BOOLEAN, n \in SUBSET Names, l \in BOOLEAN}
    \cup {Conf(p, n, FALSE, {main_db}) : p \in BOOLEAN, n \in {{}, Names}}

TwoDatabases == {Conf(TRUE, Names, FALSE, {})}
=============================================================================
