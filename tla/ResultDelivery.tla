--------------------------- MODULE ResultDelivery ---------------------------
(***************************************************************************)
(* What server_response promises to a request: the tasks of a request are  *)
(* opened together and closed together, and while they are open the k-th   *)
(* result received of a task is the k-th one sent.  Results sent to a task *)
(* that is not open vanish.                                                *)
(***************************************************************************)
EXTENDS Naturals

CONSTANTS Readers, Tasks, Owner

VARIABLES
  state,   \* state[r]: the tasks of request r are "new", "open" or "closed"
  put,     \* put[t]: number of results accepted for t
  got      \* got[t]: the number of the last result of t its request received

deliveryVars == <<state, put, got>>

Init ==
  /\ state = [r \in Readers |-> "new"]
  /\ put = [t \in Tasks |-> 0]
  /\ got = [t \in Tasks |-> 0]

Open(r) ==
  /\ state[r] = "new"
  /\ state' = [state EXCEPT ![r] = "open"]
  /\ UNCHANGED <<put, got>>

Put(t) ==
  /\ state[Owner[t]] = "open"
  /\ put' = [put EXCEPT ![t] = @ + 1]
  /\ UNCHANGED <<state, got>>

Get(t) ==
  /\ state[Owner[t]] = "open"
  /\ got[t] < put[t]
  /\ got' = [got EXCEPT ![t] = @ + 1]
  /\ UNCHANGED <<state, put>>

Close(r) ==
  /\ state[r] = "open"
  /\ state' = [state EXCEPT ![r] = "closed"]
  /\ UNCHANGED <<put, got>>

\* the thread of r goes on to its next request, with tasks of its own
Renew(r) ==
  /\ state[r] = "closed"
  /\ state' = [state EXCEPT ![r] = "new"]
  /\ put' = [t \in Tasks |-> IF Owner[t] = r THEN 0 ELSE put[t]]
  /\ got' = [t \in Tasks |-> IF Owner[t] = r THEN 0 ELSE got[t]]

Next ==
  \/ \E r \in Readers : Open(r) \/ Close(r) \/ Renew(r)
  \/ \E t \in Tasks : Put(t) \/ Get(t)

\* A request that has results to receive receives one, or gives up.
Settle(r) ==
  /\ \E t \in Tasks : Owner[t] = r /\ got[t] < put[t]
  /\ Close(r) \/ \E t \in Tasks : Owner[t] = r /\ Get(t)

Spec == Init /\ [][Next]_deliveryVars

FairSpec == Spec /\ \A r \in Readers : WF_deliveryVars(Settle(r))

=============================================================================
