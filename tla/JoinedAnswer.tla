---------------------------- MODULE JoinedAnswer ----------------------------
(***************************************************************************)
(* What a request that reaches into several databases promises, without    *)
(* connections, goroutines or the stitching of documents: it is answered   *)
(* once, with what its query means over the data of all databases, and     *)
(* with an error only if a database failed it or it cannot be answered.    *)
(***************************************************************************)
CONSTANTS
  Requests,          \* requests in the system
  Queries,           \* what they may ask
  Answer(_),         \* what a query means
  Unanswerable(_),   \* there is nothing it could be answered
  NoDocument         \* what is read where there is no document

VARIABLES
  asked,       \* request -> its query, <<>> before it arrives
  answer,      \* request -> what it was answered
  broken       \* requests a database failed

None   == [ok |-> TRUE,  doc |-> NoDocument]
Failed == [ok |-> FALSE, doc |-> NoDocument]
Ok(v)  == [ok |-> TRUE,  doc |-> v]

Init ==
  /\ asked  = [r \in Requests |-> <<>>]
  /\ answer = [r \in Requests |-> None]
  /\ broken = {}

Ask(r) ==
  /\ asked[r] = <<>>
  /\ \E q \in Queries : asked' = [asked EXCEPT ![r] = q]
  /\ UNCHANGED <<answer, broken>>

Break(r) ==
  /\ asked[r] # <<>>
  /\ broken' = broken \cup {r}
  /\ UNCHANGED <<asked, answer>>

Reply(r) ==
  /\ asked[r] # <<>> /\ answer[r] = None
  /\ answer' = [answer EXCEPT ![r] =
                  IF r \in broken THEN Failed ELSE Ok(Answer(asked[r]))]
  /\ UNCHANGED <<asked, broken>>

Refuse(r) ==
  /\ asked[r] # <<>> /\ answer[r] = None /\ Unanswerable(asked[r])
  /\ answer' = [answer EXCEPT ![r] = Failed]
  /\ UNCHANGED <<asked, broken>>

Next == \E r \in Requests : Ask(r) \/ Break(r) \/ Reply(r) \/ Refuse(r)

vars == <<asked, answer, broken>>
Spec == Init /\ [][Next]_vars
=============================================================================
