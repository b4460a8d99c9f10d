-------------------------- MODULE RecordLifecycle --------------------------
(***************************************************************************)
(* What the rest of bk-nodeman (task_result, job statistics, is_running)   *)
(* relies on of SubscriptionInstanceRecord.status: a record starts PENDING, *)
(* runs once and ends once.                                                *)
(***************************************************************************)
CONSTANT Instances
VARIABLE record

Init == record = [i \in Instances |-> "PENDING"]

\* The records of S, all in one of the states "from", move to the state "to".
Move(S, from, to) ==
    /\ \A i \in S : record[i] \in from
    /\ record' = [i \in Instances |-> IF i \in S THEN to ELSE record[i]]

Start(S) == Move(S, {"PENDING"}, "RUNNING")
Succeed(S) == Move(S, {"RUNNING"}, "SUCCESS")
Fail(S) == Move(S, {"PENDING", "RUNNING", "FAILED"}, "FAILED")

Next == \E S \in SUBSET Instances : Start(S) \/ Succeed(S) \/ Fail(S)

Settled == \A i \in Instances : record[i] \in {"SUCCESS", "FAILED"}

Spec == Init /\ [][Next]_record

\* A chunk of records is settled in the end.
Settles == <>Settled
=============================================================================
