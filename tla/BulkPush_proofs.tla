-------------------------- MODULE BulkPush_proofs --------------------------
(***************************************************************************)
(* Proofs about BulkPush, for any number of hosts, any bounds and any      *)
(* number of leases overrun and workers lost.                              *)
(* The second half is about a bulk push in which none is: nothing breaks,  *)
(* and no package is pushed twice.                                         *)
(***************************************************************************)
EXTENDS BulkPush, SequenceTheorems, TLAPS

\* TypeOK in two parts: what is shared, and what belongs to each host's node.
SharedType ==
    /\ status \in [Hosts -> {"none", "not_job", "pending", "success", "failed"}]
    /\ job \in [Hosts -> 0 .. Len(jobs)]
    /\ wait \subseteq {h \in Hosts : status[h] # "none"}
    /\ jobs \in Seq(SUBSET Hosts)
    /\ polled \in Seq({"never", "recently", "before"}) /\ Len(polled) = Len(jobs)

NodeType ==
    /\ lock \in [Locks -> Hosts \union {Nobody}]
    /\ mode \in [Hosts -> {"TRIGGER_JOB", "POLL_FILE_PUSH_STATUS"}]
    /\ time \in [Hosts -> 0 .. Timeout]
    /\ pc \in [Hosts -> Places]
    /\ carry \in [Hosts -> [hosts : SUBSET Hosts, job : 0 .. Len(jobs)]]
    /\ outcome \in [Hosts -> {"none", "success"} \union Failures]
    /\ \A h \in Hosts : outcome[h] # "none" <=> pc[h] = "done"
    /\ overdue \subseteq {h \in Hosts : pc[h] \in Pushing \union Polling}
    /\ mishaps \in 0 .. MaxMishaps

\* The hosts of a job have theirs written together: where one of them has a job, all
\* targets of that job have one.  What a schedule carries is a job of its hosts, or
\* one that all targets know.
JobsInv ==
    /\ \A h \in Hosts : job[h] # 0 =>
          /\ h \in jobs[job[h]]
          /\ \A g \in jobs[job[h]] : job[g] # 0
    /\ \A h \in Hosts : status[h] \in {"success", "failed"} => job[h] # 0

CarryInv ==
    \A h \in Hosts :
        /\ pc[h] \in {"remove", "assign", "mark", "stamp"} =>
              carry[h].job # 0 /\ jobs[carry[h].job] = carry[h].hosts
        /\ pc[h] \in Polling =>
              carry[h].job # 0 /\ \A g \in jobs[carry[h].job] : job[g] # 0

\* Who has a lock is in the block that it guards, or ended there without releasing it.
OwnersInv ==
    \A h \in Hosts :
        /\ lock["push"] = h => pc[h] \in Pushing \union {"done"}
        /\ lock["poll"] = h => pc[h] \in Polling \union {"done"}

IInv == SharedType /\ NodeType /\ HolderHolds /\ OwnersInv /\ JobsInv /\ CarryInv

LEMMA TypeParts == TypeOK <=> SharedType /\ NodeType
  BY DEF TypeOK, SharedType, NodeType

\* Every way in which a schedule ends.
Ends(h) == Later(h) \/ ToPolling(h) \/ \E how \in {"success"} \union Failures : Finish(h, how)
-----------------------------------------------------------------------------
\* Releasing what is one's own takes no lock from anybody else.
LEMMA ReleasedType ==
    ASSUME NodeType, NEW h \in Hosts
    PROVE  /\ Released(h) \in [Locks -> Hosts \union {Nobody}]
           /\ \A l \in Locks, g \in Hosts : g # h /\ lock[l] = g => Released(h)[l] = g
  BY DEF Released, NodeType

\* A schedule that ends leaves the node as well typed as it was.
LEMMA LeaveNode ==
    ASSUME NodeType, HolderHolds, OwnersInv, NEW h \in Hosts,
           Ends(h), Len(jobs) \in Nat, pc[h] # "done"
    PROVE  NodeType' /\ HolderHolds' /\ OwnersInv'
<1>1. PICK place \in {"idle", "done"} : pc' = [pc EXCEPT ![h] = place]
  BY DEF Ends, Later, ToPolling, Finish
<1>2. /\ lock' = Released(h) /\ overdue' = overdue \ {h}
      /\ carry' = [carry EXCEPT ![h] = Nothing] /\ UNCHANGED <<jobs, mishaps>>
  BY DEF Ends, Later, ToPolling, Finish, Leave
<1>3. Nothing \in [hosts : SUBSET Hosts, job : 0 .. Len(jobs)]
  BY DEF Nothing
<1>4. lock' \in [Locks -> Hosts \union {Nobody}]
  BY <1>2, ReleasedType
<1>5. carry' \in [Hosts -> [hosts : SUBSET Hosts, job : 0 .. Len(jobs')]]
  BY <1>2, <1>3, Zenon DEF NodeType
<1>6. mode' \in [Hosts -> {"TRIGGER_JOB", "POLL_FILE_PUSH_STATUS"}]
  BY DEF NodeType, Ends, Later, ToPolling, Finish
<1>7. time' \in [Hosts -> 0 .. Timeout]
  BY BoundsAssumption DEF NodeType, Ends, Later, ToPolling, Finish
<1>8. /\ outcome' \in [Hosts -> {"none", "success"} \union Failures]
      /\ \A g \in Hosts : outcome'[g] # "none" <=> pc'[g] = "done"
  <2>1. CASE Later(h) \/ ToPolling(h)
    <3>1. UNCHANGED outcome /\ pc' = [pc EXCEPT ![h] = "idle"] /\ pc[h] # "done"
      BY <2>1 DEF Later, ToPolling
    <3> QED
      BY <3>1 DEF NodeType
  <2>2. CASE \E how \in {"success"} \union Failures : Finish(h, how)
    BY <2>2 DEF NodeType, Finish, Failures
  <2> QED
    BY <2>1, <2>2 DEF Ends
<1>9. /\ pc' \in [Hosts -> Places] /\ mishaps' \in 0 .. MaxMishaps
      /\ overdue' \subseteq {g \in Hosts : pc'[g] \in Pushing \union Polling}
  BY <1>1, <1>2 DEF NodeType, Places
<1>10. HolderHolds'
  <2> SUFFICES ASSUME NEW g \in Hosts, g \notin overdue'
               PROVE  /\ pc'[g] \in Pushing => lock'["push"] = g
                      /\ pc'[g] \in Polling => lock'["poll"] = g
    BY DEF HolderHolds
  <2>1. CASE g = h
    BY <1>1, <2>1 DEF NodeType, Pushing, Polling
  <2>2. CASE g # h
    <3>1. pc'[g] = pc[g] /\ g \notin overdue
      BY <1>1, <1>2, <2>2 DEF NodeType
    <3> QED
      BY <1>2, <2>2, <3>1, ReleasedType DEF HolderHolds, Locks
  <2> QED
    BY <2>1, <2>2
<1>11. OwnersInv'
  <2> SUFFICES ASSUME NEW g \in Hosts, NEW l \in Locks, lock'[l] = g
               PROVE  lock[l] = g /\ g # h
    BY <1>1 DEF OwnersInv, Locks, NodeType
  <2> QED
    BY <1>2, NobodyAssumption DEF Released
<1> QED
  BY <1>4, <1>5, <1>6, <1>7, <1>8, <1>9, <1>10, <1>11 DEF NodeType

\* The steps of a schedule that go on take one lock at most, which is free.
Goes(h) ==
    \E place \in {"idle", "contend"} \union Pushing \union Polling :
        /\ pc' = [pc EXCEPT ![h] = place]
        /\ pc[h] # "done"
        /\ UNCHANGED <<node, chance>>
        /\ h \in overdue => place \in Pushing \union Polling
        /\ \/ /\ UNCHANGED lock
              /\ (place \in Pushing) <=> (pc[h] \in Pushing)
              /\ (place \in Polling) <=> (pc[h] \in Polling)
           \/ /\ place \in Pushing
              /\ pc[h] \notin Pushing \union Polling
              /\ lock["push"] = Nobody /\ lock' = [lock EXCEPT !["push"] = h]
           \/ /\ place \in Polling
              /\ pc[h] \notin Pushing \union Polling
              /\ lock["poll"] = Nobody /\ lock' = [lock EXCEPT !["poll"] = h]

LEMMA GoesNode ==
    ASSUME NodeType, HolderHolds, OwnersInv, NEW h \in Hosts, Goes(h),
           carry' \in [Hosts -> [hosts : SUBSET Hosts, job : 0 .. Len(jobs')]]
    PROVE  NodeType' /\ HolderHolds' /\ OwnersInv'
<1>1. PICK place \in {"idle", "contend"} \union Pushing \union Polling :
        /\ pc' = [pc EXCEPT ![h] = place]
        /\ pc[h] # "done"
        /\ UNCHANGED <<node, chance>>
        /\ h \in overdue => place \in Pushing \union Polling
        /\ \/ /\ UNCHANGED lock
              /\ (place \in Pushing) <=> (pc[h] \in Pushing)
              /\ (place \in Polling) <=> (pc[h] \in Polling)
           \/ /\ place \in Pushing
              /\ pc[h] \notin Pushing \union Polling
              /\ lock["push"] = Nobody /\ lock' = [lock EXCEPT !["push"] = h]
           \/ /\ place \in Polling
              /\ pc[h] \notin Pushing \union Polling
              /\ lock["poll"] = Nobody /\ lock' = [lock EXCEPT !["poll"] = h]
  BY DEF Goes
<1>2. lock' \in [Locks -> Hosts \union {Nobody}]
  BY <1>1 DEF NodeType, Locks
<1>3. /\ pc' \in [Hosts -> Places] /\ place # "done"
      /\ \A g \in Hosts : pc'[g] = IF g = h THEN place ELSE pc[g]
  BY <1>1 DEF NodeType, Places, Pushing, Polling
<1>4. \A g \in Hosts : outcome'[g] # "none" <=> pc'[g] = "done"
  BY <1>1, <1>3 DEF NodeType, node
<1>5. overdue' \subseteq {g \in Hosts : pc'[g] \in Pushing \union Polling}
  BY <1>1, <1>3 DEF NodeType, chance
<1>6. HolderHolds'
  <2> SUFFICES ASSUME NEW g \in Hosts, g \notin overdue
               PROVE  /\ pc'[g] \in Pushing => lock'["push"] = g
                      /\ pc'[g] \in Polling => lock'["poll"] = g
    BY <1>1 DEF HolderHolds, chance
  <2>1. /\ pc[g] \in Pushing => lock["push"] = g
        /\ pc[g] \in Polling => lock["poll"] = g
    BY DEF HolderHolds
  <2>2. Pushing \cap Polling = {} /\ "push" \in Locks /\ "poll" \in Locks /\ DOMAIN lock = Locks
    BY DEF Pushing, Polling, Locks, NodeType
  <2>3. CASE g = h
    BY <1>1, <1>3, <2>1, <2>2, <2>3
  <2>4. CASE g # h
    BY <1>1, <1>3, <2>1, <2>2, <2>4, NobodyAssumption
  <2> QED
    BY <2>3, <2>4
<1>7. OwnersInv'
  <2> SUFFICES ASSUME NEW g \in Hosts
               PROVE  /\ lock'["push"] = g => pc'[g] \in Pushing \union {"done"}
                      /\ lock'["poll"] = g => pc'[g] \in Polling \union {"done"}
    BY DEF OwnersInv
  <2>1. /\ lock["push"] = g => pc[g] \in Pushing \union {"done"}
        /\ lock["poll"] = g => pc[g] \in Polling \union {"done"}
    BY DEF OwnersInv
  <2>2. "push" \in Locks /\ "poll" \in Locks /\ DOMAIN lock = Locks
    BY DEF Locks, NodeType
  <2> QED
    BY <1>1, <1>3, <2>1, <2>2
<1> QED
  BY <1>1, <1>2, <1>3, <1>4, <1>5, <1>6, <1>7 DEF NodeType, node, chance

\* Each step of a schedule ends it or goes on.
LEMMA StepKinds ==
    ASSUME NodeType, NEW h \in Hosts, Execute(h) \/ Schedule(h)
    PROVE  pc[h] # "done" /\ (Ends(h) \/ Goes(h))
<1> USE DEF Goto, Ends, Goes, Pushing, Polling, chance, NodeType
<1>1. CASE Execute(h)
  <2>1. /\ pc[h] = "new" /\ pc' = [pc EXCEPT ![h] = "idle"]
        /\ UNCHANGED <<node, chance, lock>> /\ h \notin overdue
    BY <1>1 DEF Execute
  <2> QED
    BY <2>1
<1>2. CASE Trigger(h)
  BY <1>2 DEF Trigger
<1>3. CASE Acquire(h)
  BY <1>3 DEF Acquire
<1>4. CASE Validate(h)
  BY <1>4 DEF Validate
<1>5. CASE FastPushFile(h)
  BY <1>5 DEF FastPushFile, Failures
<1>6. CASE Remove(h) \/ Assign(h) \/ Mark(h)
  BY <1>6 DEF Remove, Assign, Mark
<1>7. CASE Stamp(h)
  BY <1>7 DEF Stamp
<1>8. CASE Poll(h)
  BY <1>8 DEF Poll, Failures
<1>9. CASE Throttle(h)
  BY <1>9 DEF Throttle, Failures
<1>10. CASE Apply(h)
  BY <1>10 DEF Apply, Failures
<1> QED
  BY <1>1, <1>2, <1>3, <1>4, <1>5, <1>6, <1>7, <1>8, <1>9, <1>10 DEF Schedule

\* Jobs are only added, by the third case of FastPushFile.
Pushes(h) ==
    /\ pc[h] = "calling" /\ carry[h].hosts # {}
    /\ jobs' = Append(jobs, carry[h].hosts)
    /\ polled' = Append(polled, "never")
    /\ carry' = [carry EXCEPT ![h] = [hosts |-> carry[h].hosts, job |-> Len(jobs')]]
    /\ pc' = [pc EXCEPT ![h] = "remove"]
    /\ UNCHANGED <<status, job, wait, lock, node, chance>>

LEMMA PushCase ==
    ASSUME NodeType, NEW h \in Hosts, FastPushFile(h)
    PROVE  Pushes(h) \/ (Ends(h) /\ UNCHANGED <<redis, jobs>>)
  BY DEF FastPushFile, Pushes, Ends, Failures, Finish, Leave, NodeType

LEMMA JobsGrow ==
    ASSUME SharedType, NodeType, NEW h \in Hosts, Pushes(h)
    PROVE  /\ carry[h].hosts \in SUBSET Hosts
           /\ jobs' \in Seq(SUBSET Hosts) /\ Len(jobs) \in Nat /\ Len(jobs') = Len(jobs) + 1
           /\ \A j \in 1 .. Len(jobs) : jobs'[j] = jobs[j]
           /\ jobs'[Len(jobs')] = carry[h].hosts
           /\ polled' \in Seq({"never", "recently", "before"}) /\ Len(polled') = Len(jobs')
<1>1. carry[h].hosts \in SUBSET Hosts
  BY DEF NodeType
<1>2. jobs \in Seq(SUBSET Hosts) /\ Len(jobs) \in Nat
  BY LenProperties DEF SharedType
<1>3. polled \in Seq({"never", "recently", "before"}) /\ Len(polled) = Len(jobs)
  BY DEF SharedType
<1>4. /\ jobs' \in Seq(SUBSET Hosts) /\ Len(jobs') = Len(jobs) + 1
      /\ \A j \in 1 .. Len(jobs) : jobs'[j] = jobs[j]
      /\ jobs'[Len(jobs) + 1] = carry[h].hosts
  BY <1>1, <1>2, AppendProperties DEF Pushes
<1>5. polled' \in Seq({"never", "recently", "before"}) /\ Len(polled') = Len(polled) + 1
  BY <1>3, AppendProperties DEF Pushes
<1> QED
  BY <1>1, <1>2, <1>3, <1>4, <1>5
-----------------------------------------------------------------------------
LEMMA PolledType ==
    ASSUME SharedType, NEW j \in 1 .. Len(jobs), NEW x \in {"recently", "before"},
           polled' = [polled EXCEPT ![j] = x]
    PROVE  polled' \in Seq({"never", "recently", "before"}) /\ Len(polled') = Len(jobs)
<1>1. polled \in Seq({"never", "recently", "before"}) /\ j \in 1 .. Len(polled)
  BY DEF SharedType
<1>2. x \in {"never", "recently", "before"}
  OBVIOUS
<1> QED
  BY <1>1, <1>2, ExceptSeq DEF SharedType

\* What a schedule carries when it writes is a job that exists.
LEMMA CarriedJob ==
    ASSUME NodeType, CarryInv, NEW h \in Hosts, Len(jobs) \in Nat,
           pc[h] \in {"remove", "assign", "mark", "stamp"} \union Polling
    PROVE  carry[h].job \in 1 .. Len(jobs) /\ carry[h].hosts \in SUBSET Hosts
<1>1. carry[h] \in [hosts : SUBSET Hosts, job : 0 .. Len(jobs)]
  BY DEF NodeType
<1>2. carry[h].job # 0
  BY DEF CarryInv
<1> QED
  BY <1>1, <1>2

LEMMA SharedStep == IInv /\ [Next]_vars => SharedType'
<1> SUFFICES ASSUME IInv, [Next]_vars PROVE SharedType'
  OBVIOUS
<1> USE DEF IInv
<1>1. Len(jobs) \in Nat
  BY LenProperties DEF SharedType
<1>2. ASSUME UNCHANGED <<status, job, wait, jobs>>, NEW j \in 1 .. Len(jobs),
             NEW x \in {"recently", "before"}, polled' = [polled EXCEPT ![j] = x]
      PROVE  SharedType'
  BY <1>2, PolledType DEF SharedType
<1>3. CASE UNCHANGED <<redis, jobs>>
  BY <1>3 DEF SharedType, redis
<1>4. ASSUME NEW h \in Hosts, Execute(h) PROVE SharedType'
  BY <1>4 DEF SharedType, Execute, Goto
<1>5. ASSUME NEW h \in Hosts, Trigger(h) \/ Acquire(h) \/ Validate(h) \/ Poll(h) \/ Throttle(h)
      PROVE  SharedType'
  <2>1. UNCHANGED <<redis, jobs>>
    BY <1>5 DEF Trigger, Acquire, Validate, Poll, Throttle, Goto, Later, ToPolling, Finish, Leave
  <2> QED
    BY <1>3, <2>1
<1>6. ASSUME NEW h \in Hosts, FastPushFile(h) PROVE SharedType'
  <2>1. CASE Pushes(h)
    <3>1. UNCHANGED <<status, job, wait>>
      BY <2>1 DEF Pushes
    <3>2. job' \in [Hosts -> 0 .. Len(jobs')]
      BY <1>1, <2>1, <3>1, JobsGrow DEF SharedType
    <3> QED
      BY <2>1, <3>1, <3>2, JobsGrow DEF SharedType
  <2> QED
    BY <1>3, <1>6, <2>1, PushCase
<1>7. ASSUME NEW h \in Hosts, Remove(h) PROVE SharedType'
  BY <1>7 DEF SharedType, Remove, Goto
<1>8. ASSUME NEW h \in Hosts, Assign(h) PROVE SharedType'
  <2>1. carry[h].job \in 0 .. Len(jobs)
    BY <1>1, <1>8, CarriedJob DEF Assign
  <2> QED
    BY <1>8, <2>1 DEF SharedType, Assign, Goto
<1>9. ASSUME NEW h \in Hosts, Mark(h) PROVE SharedType'
  BY <1>9 DEF SharedType, Mark, Goto
<1>10. ASSUME NEW h \in Hosts, Stamp(h) PROVE SharedType'
  <2>1. carry[h].job \in 1 .. Len(jobs)
    BY <1>1, <1>10, CarriedJob DEF Stamp
  <2>2. UNCHANGED <<status, job, wait, jobs>> /\ polled' = [polled EXCEPT ![carry[h].job] = "before"]
    BY <1>10 DEF Stamp, ToPolling, Leave
  <2> QED
    BY <1>2, <2>1, <2>2
<1>11. ASSUME NEW h \in Hosts, Apply(h) PROVE SharedType'
  <2>1. carry[h].job \in 1 .. Len(jobs)
    BY <1>1, <1>11, CarriedJob DEF Apply, Polling
  <2>2. UNCHANGED <<job, wait, jobs>> /\ polled' = [polled EXCEPT ![carry[h].job] = "recently"]
    BY <1>11 DEF Apply, Later, Finish, Leave
  <2>3. PICK result \in [jobs[carry[h].job] -> {"success", "failed", "pending"}] :
            status' = [g \in Hosts |-> IF g \in DOMAIN result /\ result[g] # "pending"
                                       THEN result[g] ELSE status[g]]
    BY <1>11 DEF Apply
  <2>4. /\ status' \in [Hosts -> {"none", "not_job", "pending", "success", "failed"}]
        /\ wait' \subseteq {g \in Hosts : status'[g] # "none"}
    BY <2>2, <2>3 DEF SharedType
  <2> QED
    BY <2>1, <2>2, <2>4, PolledType DEF SharedType
<1>12. ASSUME NEW j \in 1 .. Len(jobs), Cool(j) PROVE SharedType'
  BY <1>2, <1>12 DEF Cool
<1>13. ASSUME NEW h \in Hosts, Overrun(h) \/ Lose(h) \/ Expire(h) PROVE UNCHANGED <<redis, jobs>>
  BY <1>13 DEF Overrun, Lose, Expire
<1>14. CASE Done \/ UNCHANGED vars
  BY <1>3, <1>14 DEF Done, vars
<1> QED
  BY <1>3, <1>4, <1>5, <1>6, <1>7, <1>8, <1>9, <1>10, <1>11, <1>12, <1>13, <1>14
  DEF Next, Schedule
-----------------------------------------------------------------------------
LEMMA CarryType ==
    ASSUME SharedType, NodeType, CarryInv, NEW h \in Hosts, Execute(h) \/ Schedule(h)
    PROVE  carry' \in [Hosts -> [hosts : SUBSET Hosts, job : 0 .. Len(jobs')]]
<1>1. Len(jobs) \in Nat
  BY LenProperties DEF SharedType
<1>2. ASSUME NEW c \in [hosts : SUBSET Hosts, job : 0 .. Len(jobs)],
             carry' = [carry EXCEPT ![h] = c], UNCHANGED jobs
      PROVE  carry' \in [Hosts -> [hosts : SUBSET Hosts, job : 0 .. Len(jobs')]]
  BY <1>2, Zenon DEF NodeType
<1>3. Nothing \in [hosts : SUBSET Hosts, job : 0 .. Len(jobs)]
  BY <1>1 DEF Nothing
<1>4. CASE Ends(h)
  BY <1>2, <1>3, <1>4 DEF Ends, Later, ToPolling, Finish, Leave
<1>5. CASE UNCHANGED <<carry, jobs>>
  BY <1>5 DEF NodeType
<1>6. CASE Validate(h)
  <2>1. [hosts |-> wait, job |-> 0] \in [hosts : SUBSET Hosts, job : 0 .. Len(jobs)]
    BY <1>1 DEF SharedType
  <2>2. Ends(h) \/ (carry' = [carry EXCEPT ![h] = [hosts |-> wait, job |-> 0]] /\ UNCHANGED jobs)
    BY <1>6 DEF Validate, Ends, Goto
  <2> QED
    BY <1>2, <1>4, <2>1, <2>2
<1>7. CASE FastPushFile(h)
  <2>1. CASE Pushes(h)
    <3>1. carry' = [carry EXCEPT ![h] = [hosts |-> carry[h].hosts, job |-> Len(jobs')]]
      BY <2>1 DEF Pushes
    <3>2. carry[h].hosts \in SUBSET Hosts /\ Len(jobs') = Len(jobs) + 1
      BY <2>1, JobsGrow
    <3>3. [hosts |-> carry[h].hosts, job |-> Len(jobs')] \in [hosts : SUBSET Hosts, job : 0 .. Len(jobs')]
      BY <1>1, <3>2
    <3>4. carry \in [Hosts -> [hosts : SUBSET Hosts, job : 0 .. Len(jobs')]]
      BY <1>1, <3>2 DEF NodeType
    <3> QED
      BY <3>1, <3>3, <3>4, Zenon
  <2> QED
    BY <1>4, <1>7, <2>1, PushCase
<1>8. CASE Poll(h)
  <2>1. job[h] \in 0 .. Len(jobs)
    BY DEF SharedType
  <2>2. [hosts |-> {}, job |-> job[h]] \in [hosts : SUBSET Hosts, job : 0 .. Len(jobs)]
    BY <2>1
  <2>3. Ends(h) \/ (carry' = [carry EXCEPT ![h] = [hosts |-> {}, job |-> job[h]]] /\ UNCHANGED jobs)
    BY <1>8 DEF Poll, Ends, Goto, Failures
  <2> QED
    BY <1>2, <1>4, <2>2, <2>3
<1>9. CASE Execute(h) \/ Trigger(h) \/ Acquire(h) \/ Remove(h) \/ Assign(h) \/ Mark(h) \/ Stamp(h)
           \/ Throttle(h) \/ Apply(h)
  <2>1. Ends(h) \/ UNCHANGED <<carry, jobs>>
    BY <1>9 DEF Execute, Trigger, Acquire, Remove, Assign, Mark, Stamp, Throttle, Apply, Ends,
                Goto, Failures
  <2> QED
    BY <1>4, <1>5, <2>1
<1> QED
  BY <1>6, <1>7, <1>8, <1>9 DEF Schedule

\* HolderHolds, with the types: only a free lock is taken, and only one's own is
\* released; a holder whose lease runs out is overdue.
LEMMA NodeStep == IInv /\ [Next]_vars => NodeType' /\ HolderHolds' /\ OwnersInv'
<1> SUFFICES ASSUME IInv, [Next]_vars PROVE NodeType' /\ HolderHolds' /\ OwnersInv'
  OBVIOUS
<1> USE DEF IInv
<1>1. Len(jobs) \in Nat
  BY LenProperties DEF SharedType
<1>2. ASSUME NEW h \in Hosts, Execute(h) \/ Schedule(h) PROVE NodeType' /\ HolderHolds' /\ OwnersInv'
  BY <1>1, <1>2, StepKinds, CarryType, LeaveNode, GoesNode
<1>3. CASE UNCHANGED <<lock, jobs, node, pc, carry, chance>>
  BY <1>3 DEF NodeType, HolderHolds, OwnersInv, node, chance
<1>4. ASSUME NEW h \in Hosts, Overrun(h) PROVE NodeType' /\ HolderHolds' /\ OwnersInv'
  <2>1. PICK l \in Locks : lock[l] = h /\ pc[h] # "done" /\ lock' = [lock EXCEPT ![l] = Nobody]
    BY <1>4 DEF Overrun
  <2>2. /\ overdue' = overdue \union {h} /\ UNCHANGED <<jobs, node, pc, carry>>
        /\ mishaps < MaxMishaps /\ mishaps' = mishaps + 1
    BY <1>4 DEF Overrun, Mishap
  <2>3. pc[h] \in Pushing \union Polling
    BY <2>1 DEF OwnersInv, Locks
  <2>4. HolderHolds' /\ OwnersInv'
    BY <2>1, <2>2, NobodyAssumption DEF HolderHolds, OwnersInv, NodeType, Locks
  <2>5. mishaps' \in 0 .. MaxMishaps
    BY <2>2, BoundsAssumption DEF NodeType
  <2>6. lock' \in [Locks -> Hosts \union {Nobody}]
    BY <2>1 DEF NodeType
  <2> QED
    BY <2>2, <2>3, <2>4, <2>5, <2>6 DEF NodeType, node
<1>5. ASSUME NEW h \in Hosts, Lose(h) PROVE NodeType' /\ HolderHolds' /\ OwnersInv'
  <2>1. /\ pc' = [pc EXCEPT ![h] = "done"] /\ outcome' = [outcome EXCEPT ![h] = "lost"]
        /\ overdue' = overdue \ {h} /\ carry' = [carry EXCEPT ![h] = Nothing]
        /\ UNCHANGED <<lock, jobs, mode, time>>
        /\ mishaps < MaxMishaps /\ mishaps' = mishaps + 1
    BY <1>5 DEF Lose, Mishap
  <2>2. Nothing \in [hosts : SUBSET Hosts, job : 0 .. Len(jobs)]
    BY <1>1 DEF Nothing
  <2>3. carry' \in [Hosts -> [hosts : SUBSET Hosts, job : 0 .. Len(jobs')]]
    BY <2>1, <2>2, Zenon DEF NodeType
  <2>4. HolderHolds' /\ OwnersInv'
    BY <2>1 DEF HolderHolds, OwnersInv, NodeType, Pushing, Polling
  <2>5. /\ outcome' \in [Hosts -> {"none", "success"} \union Failures]
        /\ \A g \in Hosts : outcome'[g] # "none" <=> pc'[g] = "done"
    BY <2>1 DEF NodeType, Failures
  <2>6. /\ pc' \in [Hosts -> Places] /\ mishaps' \in 0 .. MaxMishaps
        /\ overdue' \subseteq {g \in Hosts : pc'[g] \in Pushing \union Polling}
    BY <2>1, BoundsAssumption DEF NodeType, Places
  <2> QED
    BY <2>1, <2>3, <2>4, <2>5, <2>6 DEF NodeType
<1>6. ASSUME NEW h \in Hosts, Expire(h) PROVE NodeType' /\ HolderHolds' /\ OwnersInv'
  <2>1. pc[h] = "done" /\ lock' = Released(h) /\ UNCHANGED <<jobs, node, pc, carry, chance>>
    BY <1>6 DEF Expire
  <2>2. lock' \in [Locks -> Hosts \union {Nobody}]
    BY <2>1, ReleasedType
  <2>3. \A l \in Locks, g \in Hosts : lock'[l] = g => lock[l] = g
    BY <2>1, NobodyAssumption DEF Released
  <2>4. \A l \in Locks, g \in Hosts : g # h /\ lock[l] = g => lock'[l] = g
    BY <2>1, ReleasedType
  <2>5. HolderHolds' /\ OwnersInv'
    BY <2>1, <2>3, <2>4 DEF HolderHolds, OwnersInv, Pushing, Polling, Locks, chance
  <2> QED
    BY <2>1, <2>2, <2>5 DEF NodeType, node, chance
<1>7. ASSUME NEW j \in 1 .. Len(jobs), Cool(j) PROVE UNCHANGED <<lock, jobs, node, pc, carry, chance>>
  BY <1>7 DEF Cool
<1>8. CASE Done \/ UNCHANGED vars
  BY <1>3, <1>8 DEF Done, vars
<1> QED
  BY <1>2, <1>3, <1>4, <1>5, <1>6, <1>7, <1>8 DEF Next
-----------------------------------------------------------------------------
\* A host gets its job together with all targets of that job, after the job was
\* started for exactly the hosts that the schedule carries.
LEMMA JobsStep == IInv /\ [Next]_vars => JobsInv'
<1> SUFFICES ASSUME IInv, [Next]_vars PROVE JobsInv'
  OBVIOUS
<1> USE DEF IInv
<1>1. Len(jobs) \in Nat /\ \A j \in 1 .. Len(jobs) : jobs[j] \in SUBSET Hosts
  BY LenProperties, ElementOfSeq DEF SharedType
<1>2. CASE UNCHANGED <<status, job, jobs>>
  BY <1>2 DEF JobsInv
<1>3. ASSUME NEW h \in Hosts, Execute(h) PROVE JobsInv'
  BY <1>3 DEF JobsInv, Execute, Goto, SharedType
<1>4. ASSUME NEW h \in Hosts, Trigger(h) \/ Acquire(h) \/ Validate(h) \/ Poll(h) \/ Throttle(h)
                              \/ Remove(h) \/ Stamp(h)
      PROVE  UNCHANGED <<status, job, jobs>>
  BY <1>4 DEF Trigger, Acquire, Validate, Poll, Throttle, Remove, Stamp,
              Goto, Later, ToPolling, Finish, Leave, redis
<1>5. ASSUME NEW h \in Hosts, FastPushFile(h) PROVE JobsInv'
  <2>1. CASE Pushes(h)
    <3>1. UNCHANGED <<status, job>>
      BY <2>1 DEF Pushes
    <3>2. \A g \in Hosts : job[g] # 0 => jobs'[job[g]] = jobs[job[g]]
      BY <1>1, <2>1, JobsGrow DEF SharedType
    <3> QED
      BY <3>1, <3>2 DEF JobsInv
  <2>2. CASE UNCHANGED <<redis, jobs>>
    BY <1>2, <2>2 DEF redis
  <2> QED
    BY <1>5, <2>1, <2>2, PushCase
<1>6. ASSUME NEW h \in Hosts, Assign(h) PROVE JobsInv'
  <2>1. /\ job' = [g \in Hosts |-> IF g \in carry[h].hosts THEN carry[h].job ELSE job[g]]
        /\ UNCHANGED <<status, jobs>>
    BY <1>6 DEF Assign, Goto
  <2>2. carry[h].job # 0 /\ jobs[carry[h].job] = carry[h].hosts /\ carry[h].hosts \in SUBSET Hosts
    BY <1>1, <1>6, CarriedJob DEF Assign, CarryInv
  <2>3. \A g \in Hosts : job[g] # 0 => job'[g] # 0
    BY <2>1, <2>2
  <2>4. ASSUME NEW g \in Hosts, job'[g] # 0
        PROVE  g \in jobs'[job'[g]] /\ \A i \in jobs'[job'[g]] : job'[i] # 0
    <3>1. CASE g \in carry[h].hosts
      BY <2>1, <2>2, <3>1
    <3>2. CASE g \notin carry[h].hosts
      <4>1. job'[g] = job[g] /\ job[g] # 0
        BY <2>1, <2>4, <3>2
      <4>2. job[g] \in 1 .. Len(jobs)
        BY <1>1, <4>1 DEF SharedType
      <4>3. g \in jobs[job[g]] /\ \A i \in jobs[job[g]] : job[i] # 0 /\ i \in Hosts
        BY <1>1, <4>1, <4>2 DEF JobsInv
      <4> QED
        BY <2>1, <2>3, <4>1, <4>3
    <3> QED
      BY <3>1, <3>2
  <2>5. \A g \in Hosts : status'[g] \in {"success", "failed"} => job'[g] # 0
    BY <2>1, <2>3 DEF JobsInv
  <2> QED
    BY <2>4, <2>5 DEF JobsInv
<1>7. ASSUME NEW h \in Hosts, Mark(h) PROVE JobsInv'
  BY <1>7 DEF JobsInv, Mark, Goto, SharedType
<1>8. ASSUME NEW h \in Hosts, Apply(h) PROVE JobsInv'
  <2>1. \A g \in jobs[carry[h].job] : job[g] # 0
    BY <1>8 DEF Apply, CarryInv, Polling
  <2>2. UNCHANGED <<job, jobs>>
    BY <1>8 DEF Apply, Later, Finish, Leave
  <2>3. PICK result \in [jobs[carry[h].job] -> {"success", "failed", "pending"}] :
            status' = [g \in Hosts |-> IF g \in DOMAIN result /\ result[g] # "pending"
                                       THEN result[g] ELSE status[g]]
    BY <1>8 DEF Apply
  <2>4. \A g \in Hosts : status'[g] \in {"success", "failed"} => job[g] # 0
    BY <2>1, <2>3 DEF JobsInv
  <2> QED
    BY <2>2, <2>4 DEF JobsInv
<1>9. ASSUME NEW h \in Hosts, Overrun(h) \/ Lose(h) \/ Expire(h) PROVE UNCHANGED <<status, job, jobs>>
  BY <1>9 DEF Overrun, Lose, Expire, redis
<1>10. ASSUME NEW j \in 1 .. Len(jobs), Cool(j) PROVE UNCHANGED <<status, job, jobs>>
  BY <1>10 DEF Cool
<1>11. CASE Done \/ UNCHANGED vars
  BY <1>2, <1>11 DEF Done, vars, redis
<1> QED
  BY <1>2, <1>3, <1>4, <1>5, <1>6, <1>7, <1>8, <1>9, <1>10, <1>11 DEF Next, Schedule

\* Jobs stay what they are, and who has one keeps having one.
LEMMA JobsStay ==
    ASSUME SharedType, NodeType, CarryInv, [Next]_vars
    PROVE  /\ Len(jobs) \in Nat
           /\ \A j \in 1 .. Len(jobs) : jobs[j] \in SUBSET Hosts /\ jobs'[j] = jobs[j]
           /\ \A g \in Hosts : job[g] # 0 => job'[g] # 0
<1>1. Len(jobs) \in Nat /\ \A j \in 1 .. Len(jobs) : jobs[j] \in SUBSET Hosts
  BY LenProperties, ElementOfSeq DEF SharedType
<1>2. ASSUME NEW h \in Hosts, FastPushFile(h)
      PROVE  UNCHANGED job /\ \A j \in 1 .. Len(jobs) : jobs'[j] = jobs[j]
  BY <1>2, PushCase, JobsGrow DEF Pushes, redis
<1>3. ASSUME NEW h \in Hosts, Assign(h)
      PROVE  UNCHANGED jobs /\ \A g \in Hosts : job[g] # 0 => job'[g] # 0
  <2>1. carry[h].job # 0
    BY <1>3 DEF Assign, CarryInv
  <2> QED
    BY <1>3, <2>1 DEF Assign, Goto
<1>4. ASSUME NEW h \in Hosts,
             \/ Execute(h) \/ Trigger(h) \/ Acquire(h) \/ Validate(h) \/ Remove(h) \/ Mark(h)
             \/ Stamp(h) \/ Poll(h) \/ Throttle(h) \/ Apply(h) \/ Overrun(h) \/ Lose(h) \/ Expire(h)
      PROVE  UNCHANGED <<job, jobs>>
  BY <1>4 DEF Execute, Trigger, Acquire, Validate, Remove, Mark, Stamp, Poll, Throttle, Apply,
              Overrun, Lose, Expire, Goto, Later, ToPolling, Finish, Leave, redis
<1>5. ASSUME NEW j \in 1 .. Len(jobs), Cool(j) PROVE UNCHANGED <<job, jobs>>
  BY <1>5 DEF Cool
<1>6. CASE Done \/ UNCHANGED vars
  BY <1>1, <1>6 DEF Done, vars, redis
<1> QED
  BY <1>1, <1>2, <1>3, <1>4, <1>5, <1>6 DEF Next, Schedule

\* What CarryInv says of one host, with the places that it is about.
Writes == {"remove", "assign", "mark", "stamp"}

CarryOf(h) ==
    /\ pc[h] \in Writes => carry[h].job # 0 /\ jobs[carry[h].job] = carry[h].hosts
    /\ pc[h] \in Polling => carry[h].job # 0 /\ \A g \in jobs[carry[h].job] : job[g] # 0

LEMMA CarryStays ==
    ASSUME SharedType, NodeType, CarryInv, [Next]_vars, NEW h \in Hosts, carry'[h] = carry[h],
           pc'[h] \in Writes => pc[h] \in Writes, pc'[h] \in Polling => pc[h] \in Polling
    PROVE  CarryOf(h)'
<1>1. CASE pc'[h] \in Writes \union Polling
  <2>1. carry[h].job \in 1 .. Len(jobs) /\ carry[h].hosts \in SUBSET Hosts
    BY <1>1, JobsStay, CarriedJob DEF Writes
  <2>2. jobs'[carry[h].job] = jobs[carry[h].job] /\ jobs[carry[h].job] \in SUBSET Hosts
    BY <2>1, JobsStay
  <2> QED
    BY <2>1, <2>2, JobsStay DEF CarryOf, CarryInv, Writes
<1>2. CASE pc'[h] \notin Writes \union Polling
  BY <1>2 DEF CarryOf
<1> QED
  BY <1>1, <1>2

LEMMA CarryStep == IInv /\ [Next]_vars => CarryInv'
<1> SUFFICES ASSUME IInv, [Next]_vars, NEW g \in Hosts PROVE CarryOf(g)'
  BY DEF CarryInv, CarryOf, Writes
<1> USE DEF IInv
<1>1. CASE UNCHANGED <<pc, carry>>
  BY <1>1, CarryStays
<1>2. ASSUME NEW h \in Hosts, Execute(h) \/ Schedule(h) PROVE CarryOf(g)'
  <2>1. PICK place : pc' = [pc EXCEPT ![h] = place]
    BY <1>2, StepKinds DEF Ends, Goes, Later, ToPolling, Finish
  <2>2. CASE g # h
    <3>1. UNCHANGED carry \/ \E c : carry' = [carry EXCEPT ![h] = c]
      BY <1>2 DEF Execute, Schedule, Trigger, Acquire, Validate, FastPushFile, Remove, Assign,
                  Mark, Stamp, Poll, Throttle, Apply, Goto, Later, ToPolling, Finish, Leave
    <3>2. carry'[g] = carry[g] /\ pc'[g] = pc[g]
      BY <2>1, <2>2, <3>1 DEF NodeType
    <3> QED
      BY <3>2, CarryStays
  <2>3. CASE g = h /\ Ends(h)
    <3>1. pc'[h] \in {"idle", "done"}
      BY <2>3 DEF Ends, Later, ToPolling, Finish, NodeType
    <3> QED
      BY <2>3, <3>1 DEF CarryOf, Writes, Polling
  <2>4. CASE g = h /\ ~Ends(h)
    <3>1. CASE FastPushFile(h)
      <4>1. Pushes(h)
        BY <2>4, <3>1, PushCase
      <4>2. pc'[h] = "remove" /\ carry'[h] = [hosts |-> carry[h].hosts, job |-> Len(jobs')]
        BY <4>1 DEF Pushes, NodeType
      <4>3. Len(jobs') # 0 /\ jobs'[Len(jobs')] = carry[h].hosts
        BY <4>1, JobsGrow
      <4> QED
        BY <2>4, <4>2, <4>3 DEF CarryOf, Writes, Polling
    <3>2. CASE Poll(h)
      <4>1. /\ pc'[h] = "throttle" /\ carry'[h] = [hosts |-> {}, job |-> job[h]]
            /\ job[h] # 0 /\ UNCHANGED <<job, jobs>>
        BY <2>4, <3>2 DEF Poll, Ends, Goto, Failures, NodeType, redis
      <4>2. \A i \in jobs[job[h]] : job[i] # 0
        BY <4>1 DEF JobsInv
      <4> QED
        BY <2>4, <4>1, <4>2 DEF CarryOf, Writes, Polling
    <3>3. CASE Execute(h) \/ Trigger(h) \/ Acquire(h) \/ Validate(h)
      <4>1. pc'[h] \in {"idle", "contend", "locked", "calling"}
        BY <2>4, <3>3 DEF Execute, Trigger, Acquire, Validate, Ends, Goto, NodeType
      <4> QED
        BY <2>4, <4>1 DEF CarryOf, Writes, Polling
    <3>4. CASE Remove(h) \/ Assign(h) \/ Mark(h) \/ Stamp(h) \/ Throttle(h) \/ Apply(h)
      <4>1. /\ carry'[h] = carry[h]
            /\ pc'[h] \in Writes => pc[h] \in Writes
            /\ pc'[h] \in Polling => pc[h] \in Polling
        BY <2>4, <3>4 DEF Remove, Assign, Mark, Stamp, Throttle, Apply, Ends, Goto, Failures,
                          NodeType, Writes, Polling
      <4> QED
        BY <2>4, <4>1, CarryStays
    <3> QED
      BY <1>2, <3>1, <3>2, <3>3, <3>4 DEF Schedule
  <2> QED
    BY <1>2, <2>2, <2>3, <2>4
<1>3. ASSUME NEW h \in Hosts, Lose(h) PROVE CarryOf(g)'
  <2>1. CASE g = h
    BY <1>3, <2>1 DEF Lose, CarryOf, NodeType, Writes, Polling
  <2>2. CASE g # h
    <3>1. carry'[g] = carry[g] /\ pc'[g] = pc[g]
      BY <1>3, <2>2 DEF Lose, NodeType
    <3> QED
      BY <3>1, CarryStays
  <2> QED
    BY <2>1, <2>2
<1>4. ASSUME NEW h \in Hosts, Overrun(h) \/ Expire(h) PROVE UNCHANGED <<pc, carry>>
  BY <1>4 DEF Overrun, Expire
<1>5. ASSUME NEW j \in 1 .. Len(jobs), Cool(j) PROVE UNCHANGED <<pc, carry>>
  BY <1>5 DEF Cool
<1>6. CASE Done \/ UNCHANGED vars
  BY <1>1, <1>6 DEF Done, vars
<1> QED
  BY <1>1, <1>2, <1>3, <1>4, <1>5, <1>6 DEF Next
-----------------------------------------------------------------------------
LEMMA InvInit == Init => IInv
<1> SUFFICES ASSUME Init PROVE IInv
  OBVIOUS
<1>1. /\ <<>> \in Seq(SUBSET Hosts) /\ <<>> \in Seq({"never", "recently", "before"})
      /\ Len(jobs) = 0 /\ Len(polled) = 0
  BY EmptySeq DEF Init
<1>2. SharedType
  BY <1>1 DEF Init, SharedType
<1>3. [h \in Hosts |-> Nothing] \in [Hosts -> [hosts : SUBSET Hosts, job : 0 .. Len(jobs)]]
  BY <1>1 DEF Nothing
<1>4. NodeType
  BY <1>3, BoundsAssumption DEF Init, NodeType, Places, Failures
<1>5. HolderHolds /\ OwnersInv /\ JobsInv /\ CarryInv
  BY NobodyAssumption
  DEF Init, HolderHolds, OwnersInv, JobsInv, CarryInv, Pushing, Polling, Locks
<1> QED
  BY <1>2, <1>4, <1>5 DEF IInv

\* It holds in every reachable state: locks and jobs belong to those who act on them.
THEOREM Inductive == Spec => []IInv
<1>1. IInv /\ [Next]_vars => IInv'
  BY SharedStep, NodeStep, JobsStep, CarryStep DEF IInv
<1> QED
  BY InvInit, <1>1, PTL DEF Spec

\* TypeOK: who waits has a status, jobs have targets and polls, a node that ended says how.
THEOREM TypeCorrect == Spec => []TypeOK
<1>1. IInv => TypeOK
  BY TypeParts DEF IInv
<1> QED
  BY Inductive, <1>1, PTL

\* HolderHolds: with any number of leases that run out and workers that are lost,
\* nobody releases the lock that another one holds.
THEOREM HolderHoldsThm == Spec => []HolderHolds
<1>1. IInv => HolderHolds
  BY DEF IInv
<1> QED
  BY Inductive, <1>1, PTL

\* FollowsItsJob: whatever overlaps, a host's job has it among its targets, and a
\* verdict is about a job.
THEOREM FollowsItsJobThm == Spec => []FollowsItsJob
<1>1. IInv => FollowsItsJob
  BY DEF IInv, JobsInv, FollowsItsJob
<1> QED
  BY Inductive, <1>1, PTL
-----------------------------------------------------------------------------
\* While nothing goes wrong, a host waits in the set, or has been taken out of it by
\* a schedule that is about to mark it; who is told of a job has one, and polls only
\* then; the time of a poll is missing only while the job is being assigned.
Told(g) == status[g] \in {"pending", "success", "failed"}

HostOK(g) ==
    /\ outcome[g] # "broken"
    /\ pc[g] = "new" <=> status[g] = "none"
    /\ Told(g) => job[g] # 0
    /\ mode[g] = "POLL_FILE_PUSH_STATUS" => Told(g)
    /\ g \in wait => status[g] = "not_job"
    /\ status[g] = "not_job" => g \in wait \/ \E h \in Hosts : pc[h] \in {"assign", "mark"} /\ g \in carry[h].hosts
    /\ job[g] # 0 /\ polled[job[g]] = "never" =>
          \E h \in Hosts : pc[h] \in {"mark", "stamp"} /\ carry[h].job = job[g]

\* What a schedule pushes to is hosts that wait, itself among them.
PushOK(h) ==
    /\ pc[h] \in {"calling"} \union Writes => h \in carry[h].hosts
    /\ pc[h] \in {"calling", "remove", "assign", "mark"} => \A g \in carry[h].hosts : status[g] = "not_job"
    /\ pc[h] \in {"assign", "mark"} => carry[h].hosts \cap wait = {}
    /\ pc[h] \in {"mark", "stamp"} => \A g \in carry[h].hosts : job[g] # 0
    /\ pc[h] = "stamp" => \A g \in carry[h].hosts : Told(g)

PollOK(h) == pc[h] \in Polling => polled[carry[h].job] # "never"

\* The targets of a job have been told, or are about to be; so none is in two jobs.
JobOK(j) ==
    /\ polled[j] # "never" => \A g \in jobs[j] : Told(g)
    /\ \A g \in jobs[j] :
          Told(g) \/ \E h \in Hosts : pc[h] \in {"remove", "assign", "mark"} /\ carry[h].job = j
Apart == \A i, j \in 1 .. Len(jobs) : i # j => jobs[i] \cap jobs[j] = {}

Smooth ==
    /\ overdue = {} /\ Apart
    /\ \A h \in Hosts : HostOK(h) /\ PushOK(h) /\ PollOK(h)
    /\ \A j \in 1 .. Len(jobs) : JobOK(j)

SmoothInv == mishaps = 0 => Smooth

\* While no lease has run out one schedule at a time pushes.
LEMMA OnePusher ==
    ASSUME HolderHolds, overdue = {}, NEW h \in Hosts, NEW g \in Hosts, pc[h] \in Pushing, pc[g] \in Pushing
    PROVE  g = h
  BY DEF HolderHolds

\* What a step leaves of a host's node, and what it may make of one that writes nothing.
Stays(g) == pc'[g] = pc[g] /\ carry'[g] = carry[g] /\ mode'[g] = mode[g] /\ outcome'[g] = outcome[g]
Reads(g) ==
    /\ pc[g] \notin Writes \union {"new"} /\ pc'[g] \notin Writes \union {"new"}
    /\ mode'[g] = "POLL_FILE_PUSH_STATUS" => Told(g)
    /\ pc'[g] = "calling" => g \in carry'[g].hosts /\ \A i \in carry'[g].hosts : i \in Hosts /\ status[i] = "not_job"
    /\ pc'[g] \in Polling => carry'[g].job \in 1 .. Len(jobs) /\ polled[carry'[g].job] # "never"
    /\ outcome'[g] # "broken"

LEMMA OthersStay ==
    ASSUME NodeType, NEW h \in Hosts, Execute(h) \/ Schedule(h)
    PROVE  /\ \A g \in Hosts : g # h => Stays(g)
           /\ overdue' \subseteq overdue
<1>1. \E place : pc' = [pc EXCEPT ![h] = place]
  BY StepKinds DEF Ends, Goes, Later, ToPolling, Finish
<1>2. UNCHANGED carry \/ \E c : carry' = [carry EXCEPT ![h] = c]
  BY DEF Execute, Schedule, Trigger, Acquire, Validate, FastPushFile, Remove, Assign, Mark, Stamp, Poll, Throttle,
         Apply, Goto, Later, ToPolling, Finish, Leave
<1>3. /\ UNCHANGED mode \/ \E m : mode' = [mode EXCEPT ![h] = m]
      /\ UNCHANGED outcome \/ \E o : outcome' = [outcome EXCEPT ![h] = o]
      /\ overdue' = overdue \/ overdue' = overdue \ {h}
  BY StepKinds DEF Ends, Goes, Later, ToPolling, Finish, Leave, node, chance
<1> QED
  BY <1>1, <1>2, <1>3 DEF Stays, NodeType

\* A step that tells nobody anything new keeps all that.
LEMMA SmoothReads ==
    ASSUME IInv, Smooth, \A g \in Hosts : Stays(g) \/ Reads(g), UNCHANGED <<job, wait, jobs>>, overdue' = {},
           \A g \in Hosts : /\ Told(g)' <=> Told(g)
                            /\ status'[g] = "not_job" <=> status[g] = "not_job"
                            /\ status'[g] = "none" <=> status[g] = "none",
           \A j \in 1 .. Len(jobs) : /\ polled'[j] = "never" => polled[j] = "never"
                                     /\ polled'[j] # "never" => polled[j] # "never"
    PROVE  Smooth'
<1>1. Len(jobs) \in Nat /\ \A j \in 1 .. Len(jobs) : jobs[j] \in SUBSET Hosts
  BY LenProperties, ElementOfSeq DEF IInv, SharedType
<1>2. ASSUME NEW g \in Hosts PROVE HostOK(g)'
  <2>1. HostOK(g)
    BY DEF Smooth
  <2>2. \A p \in Hosts : pc[p] \in Writes => pc'[p] = pc[p] /\ carry'[p] = carry[p]
    BY DEF Stays, Reads
  <2>3. job[g] # 0 => job[g] \in 1 .. Len(jobs)
    BY <1>1 DEF IInv, SharedType
  <2>4. pc'[g] = "new" <=> pc[g] = "new"
    BY DEF Stays, Reads
  <2>5. mode'[g] = "POLL_FILE_PUSH_STATUS" => Told(g)'
    BY <2>1 DEF Stays, Reads, HostOK
  <2>6. status'[g] = "not_job" => g \in wait' \/ \E h \in Hosts : pc'[h] \in {"assign", "mark"} /\ g \in carry'[h].hosts
    BY <2>1, <2>2 DEF HostOK, Writes
  <2>7. job'[g] # 0 /\ polled'[job'[g]] = "never" =>
          \E h \in Hosts : pc'[h] \in {"mark", "stamp"} /\ carry'[h].job = job'[g]
    BY <2>1, <2>2, <2>3 DEF HostOK, Writes
  <2>8. (pc'[g] = "new" <=> status'[g] = "none") /\ (Told(g)' => job'[g] # 0) /\ (g \in wait' => status'[g] = "not_job")
    BY <2>1, <2>4 DEF HostOK
  <2>9. outcome'[g] # "broken"
    BY <2>1 DEF HostOK, Stays, Reads
  <2> QED
    BY <2>5, <2>6, <2>7, <2>8, <2>9 DEF HostOK
<1>3. ASSUME NEW h \in Hosts PROVE PushOK(h)'
  <2>1. CASE Stays(h)
    <3>1. carry[h].hosts \in SUBSET Hosts
      BY DEF IInv, NodeType
    <3> QED
      BY <2>1, <3>1 DEF Smooth, PushOK, Stays
  <2>2. CASE Reads(h)
    BY <2>2 DEF PushOK, Reads, Writes
  <2> QED
    BY <2>1, <2>2
<1>4. ASSUME NEW h \in Hosts PROVE PollOK(h)'
  <2>1. CASE Stays(h)
    <3>1. pc[h] \in Polling => carry[h].job \in 1 .. Len(jobs)
      BY <1>1, CarriedJob DEF IInv
    <3> QED
      BY <2>1, <3>1 DEF Smooth, PollOK, Stays
  <2>2. CASE Reads(h)
    BY <2>2 DEF PollOK, Reads
  <2> QED
    BY <2>1, <2>2
<1>5. ASSUME NEW j \in 1 .. Len(jobs) PROVE JobOK(j)'
  <2>1. \A p \in Hosts : pc[p] \in Writes => pc'[p] = pc[p] /\ carry'[p] = carry[p]
    BY DEF Stays, Reads
  <2> QED
    BY <1>1, <2>1 DEF Smooth, JobOK, Writes
<1>6. Apart'
  BY DEF Smooth, Apart
<1> QED
  BY <1>2, <1>3, <1>4, <1>5, <1>6 DEF Smooth

\* How a schedule ends, or asks for the lock, without having written anything.
LEMMA EndReads ==
    ASSUME IInv, Smooth, NEW h \in Hosts, pc[h] \notin Writes \union {"new"},
           \/ Later(h) \/ (ToPolling(h) /\ Told(h))
           \/ \E how \in ({"success"} \union Failures) \ {"broken"} : Finish(h, how)
    PROVE  Reads(h) /\ UNCHANGED jobs
<1>1. pc'[h] \in {"idle", "done"} /\ UNCHANGED jobs
  BY DEF Later, ToPolling, Finish, Leave, IInv, NodeType
<1>2. mode'[h] = "POLL_FILE_PUSH_STATUS" => Told(h)
  BY DEF Later, ToPolling, Finish, IInv, NodeType, Smooth, HostOK
<1>3. outcome'[h] # "broken"
  <2>1. CASE \E how \in ({"success"} \union Failures) \ {"broken"} : Finish(h, how)
    <3>1. PICK how \in ({"success"} \union Failures) \ {"broken"} : outcome' = [outcome EXCEPT ![h] = how]
      BY <2>1 DEF Finish
    <3> QED
      BY <3>1 DEF IInv, NodeType
  <2>2. CASE Later(h) \/ ToPolling(h)
    BY <2>2 DEF Later, ToPolling, Smooth, HostOK
  <2> QED
    BY <2>1, <2>2
<1> QED
  BY <1>1, <1>2, <1>3 DEF Reads, Writes, Polling

\* Who is past its first step has been told, or waits.
LEMMA ToldOrWaits ==
    ASSUME IInv, Smooth, NEW h \in Hosts, pc[h] # "new"
    PROVE  status[h] = "not_job" \/ Told(h)
  BY DEF IInv, SharedType, Smooth, HostOK, Told

LEMMA TriggerReads ==
    ASSUME IInv, Smooth, NEW h \in Hosts, Trigger(h) \/ Acquire(h)
    PROVE  Reads(h) /\ UNCHANGED <<redis, jobs>>
<1>1. pc[h] \in {"idle", "contend"} /\ UNCHANGED redis
  BY DEF Trigger, Acquire
<1>2. CASE status[h] # "not_job" /\ ToPolling(h)
  BY <1>1, <1>2, ToldOrWaits, EndReads DEF Writes
<1>3. CASE Goto(h, "contend") \/ Goto(h, "locked")
  <2>1. pc'[h] \in {"contend", "locked"} /\ UNCHANGED <<mode, outcome, jobs>>
    BY <1>3 DEF Goto, node, IInv, NodeType
  <2> QED
    BY <1>1, <2>1 DEF Reads, Writes, Polling, Smooth, HostOK
<1>4. CASE Later(h)
  BY <1>1, <1>4, EndReads DEF Writes
<1> QED
  BY <1>2, <1>3, <1>4 DEF Trigger, Acquire

\* Under the lock a host that still waits is in the waiting set.
LEMMA ValidateReads ==
    ASSUME IInv, Smooth, NEW h \in Hosts, Validate(h)
    PROVE  Reads(h) /\ UNCHANGED <<redis, jobs>>
<1>1. pc[h] = "locked" /\ UNCHANGED redis
  BY DEF Validate
<1>2. CASE status[h] # "not_job"
  BY <1>1, <1>2, ToldOrWaits, EndReads DEF Validate, Writes
<1>3. CASE status[h] = "not_job"
  <2>1. carry' = [carry EXCEPT ![h] = [hosts |-> wait, job |-> 0]] /\ Goto(h, "calling")
    BY <1>3 DEF Validate
  <2>2. carry'[h] = [hosts |-> wait, job |-> 0] /\ pc'[h] = "calling" /\ UNCHANGED <<mode, outcome, jobs>>
    BY <2>1 DEF Goto, node, IInv, NodeType
  <2>3. \A p \in Hosts : pc[p] \notin {"assign", "mark"}
    BY <1>1, OnePusher DEF IInv, Smooth, Pushing
  <2>4. h \in wait
    BY <1>3, <2>3 DEF Smooth, HostOK
  <2>5. \A g \in wait : g \in Hosts /\ status[g] = "not_job"
    BY DEF IInv, SharedType, Smooth, HostOK
  <2>6. carry'[h].hosts = wait
    BY <2>2
  <2> QED
    BY <1>1, <2>2, <2>4, <2>5, <2>6 DEF Reads, Writes, Polling, Smooth, HostOK
<1> QED
  BY <1>2, <1>3

\* Whoever polls knows its job, and the time of the last poll.
LEMMA PollReads ==
    ASSUME IInv, Smooth, NEW h \in Hosts, Poll(h)
    PROVE  Reads(h) /\ UNCHANGED <<redis, jobs>>
<1>1. pc[h] = "idle" /\ UNCHANGED redis /\ mode[h] = "POLL_FILE_PUSH_STATUS"
      /\ \A g \in Hosts : pc[g] = "stamp" => h \notin carry[g].hosts
  BY DEF Poll
<1>2. Told(h) /\ job[h] # 0
  BY <1>1 DEF Smooth, HostOK
<1>3. job[h] \in 1 .. Len(jobs) /\ h \in jobs[job[h]]
  <2>1. Len(jobs) \in Nat
    BY LenProperties DEF IInv, SharedType
  <2> QED
    BY <1>2, <2>1 DEF IInv, SharedType, JobsInv
<1>4. polled[job[h]] # "never"
  <2>1. ASSUME NEW p \in Hosts, pc[p] \in {"mark", "stamp"}, carry[p].job = job[h] PROVE FALSE
    <3>1. h \in carry[p].hosts
      BY <1>3, <2>1 DEF IInv, CarryInv
    <3>2. pc[p] = "mark"
      BY <1>1, <2>1, <3>1
    <3>3. status[h] = "not_job"
      BY <3>1, <3>2 DEF Smooth, PushOK
    <3> QED
      BY <1>2, <3>3 DEF Told
  <2> QED
    BY <1>2, <2>1 DEF Smooth, HostOK
<1>5. CASE \/ Later(h)
           \/ \E how \in ({"success"} \union Failures) \ {"broken"} : Finish(h, how)
  BY <1>1, <1>5, EndReads DEF Writes
<1>6. CASE carry' = [carry EXCEPT ![h] = [hosts |-> {}, job |-> job[h]]] /\ Goto(h, "throttle")
  <2>1. carry'[h] = [hosts |-> {}, job |-> job[h]] /\ pc'[h] = "throttle" /\ UNCHANGED <<mode, outcome, jobs>>
    BY <1>6 DEF Goto, node, IInv, NodeType
  <2>2. carry'[h].job = job[h]
    BY <2>1
  <2> QED
    BY <1>1, <1>3, <1>4, <2>1, <2>2 DEF Reads, Writes, Smooth, HostOK
<1> QED
  BY <1>2, <1>5, <1>6 DEF Poll, Failures

LEMMA ThrottleReads ==
    ASSUME IInv, Smooth, NEW h \in Hosts, Throttle(h)
    PROVE  Reads(h) /\ UNCHANGED <<redis, jobs>>
<1>1. pc[h] = "throttle" /\ UNCHANGED redis /\ Len(jobs) \in Nat
  BY LenProperties DEF Throttle, IInv, SharedType
<1>2. carry[h].job \in 1 .. Len(jobs) /\ polled[carry[h].job] # "never"
  <2>1. pc[h] \in Polling
    BY <1>1 DEF Polling
  <2> QED
    BY <1>1, <2>1, CarriedJob DEF IInv, Smooth, PollOK
<1>3. CASE Later(h) \/ Finish(h, "error")
  BY <1>1, <1>3, EndReads DEF Writes, Failures
<1>4. CASE Goto(h, "apply") /\ UNCHANGED carry
  <2>1. pc'[h] = "apply" /\ UNCHANGED <<mode, outcome, jobs, carry>>
    BY <1>4 DEF Goto, node, IInv, NodeType
  <2> QED
    BY <1>1, <1>2, <2>1 DEF Reads, Writes, Smooth, HostOK
<1> QED
  BY <1>2, <1>3, <1>4 DEF Throttle

\* What the other steps write, with nobody else pushing.
LEMMA SmoothExecute ==
    ASSUME IInv, Smooth, NEW h \in Hosts, Execute(h)
    PROVE  Smooth'
<1>1. /\ pc[h] = "new" /\ pc'[h] = "idle" /\ wait' = wait \union {h}
      /\ \A g \in Hosts : status'[g] = IF g = h THEN "not_job" ELSE status[g]
      /\ \A g \in Hosts : pc'[g] = IF g = h THEN "idle" ELSE pc[g]
      /\ UNCHANGED <<job, polled, carry, jobs, mode, outcome, overdue>>
  BY DEF Execute, Goto, node, chance, IInv, NodeType, SharedType
<1>2. status[h] = "none" /\ ~Told(h) /\ mode[h] # "POLL_FILE_PUSH_STATUS"
  BY <1>1 DEF Smooth, HostOK, Told
<1>3. \A g \in Hosts : g # h => (Told(g)' <=> Told(g))
  BY <1>1 DEF Told
<1>4. ASSUME NEW g \in Hosts PROVE HostOK(g)'
  <2>1. HostOK(g)
    BY DEF Smooth
  <2>2. CASE g = h
    BY <1>1, <1>2, <2>1, <2>2 DEF HostOK, Told
  <2>3. CASE g # h
    BY <1>1, <1>3, <2>1, <2>3 DEF HostOK
  <2> QED
    BY <2>2, <2>3
<1>5. ASSUME NEW p \in Hosts PROVE PushOK(p)'
  <2>1. PushOK(p) /\ carry[p].hosts \in SUBSET Hosts
    BY DEF Smooth, IInv, NodeType
  <2>2. CASE p = h
    BY <1>1, <2>2 DEF PushOK, Writes
  <2>3. CASE p # h
    <3>1. pc[p] \in {"calling"} \union Writes => h \notin carry[p].hosts
      BY <1>2, <2>1 DEF PushOK, Writes
    <3> QED
      BY <1>1, <1>3, <2>1, <2>3, <3>1 DEF PushOK, Writes
  <2> QED
    BY <2>2, <2>3
<1>6. ASSUME NEW p \in Hosts PROVE PollOK(p)'
  BY <1>1 DEF Smooth, PollOK, Polling
<1>7. ASSUME NEW j \in 1 .. Len(jobs) PROVE JobOK(j)'
  <2>1. jobs[j] \in SUBSET Hosts
    BY ElementOfSeq DEF IInv, SharedType
  <2> QED
    BY <1>1, <1>2, <1>3, <2>1 DEF Smooth, JobOK
<1> QED
  BY <1>1, <1>4, <1>5, <1>6, <1>7 DEF Smooth, Apart

\* bulk_push_file, by the one that pushes.
Steps(h, place) ==
    /\ \A g \in Hosts : pc'[g] = IF g = h THEN place ELSE pc[g]
    /\ \A g \in Hosts \ {h} : pc[g] \notin Pushing
    /\ UNCHANGED <<carry, jobs, mode, outcome, overdue>>

LEMMA GotoSteps ==
    ASSUME IInv, Smooth, NEW h \in Hosts, pc[h] \in Pushing, NEW place, Goto(h, place), UNCHANGED carry
    PROVE  Steps(h, place)
  BY OnePusher DEF Goto, Steps, node, chance, IInv, NodeType, Smooth

LEMMA SmoothRemove ==
    ASSUME IInv, Smooth, NEW h \in Hosts, Remove(h)
    PROVE  Smooth'
<1>1. pc[h] = "remove" /\ wait' = wait \ carry[h].hosts /\ UNCHANGED <<status, job, polled>> /\ Steps(h, "assign")
  BY GotoSteps DEF Remove, Pushing
<1>2. \A g \in Hosts : Told(g)' <=> Told(g)
  BY <1>1 DEF Told
<1>3. PushOK(h) /\ carry[h].hosts \in SUBSET Hosts
  BY DEF Smooth, IInv, NodeType
<1>4. \A p \in Hosts : pc[p] \notin {"assign", "mark", "stamp"}
  BY <1>1 DEF Steps, Pushing
<1>5. ASSUME NEW g \in Hosts PROVE HostOK(g)'
  <2>1. HostOK(g)
    BY DEF Smooth
  <2>2. status'[g] = "not_job" => g \in wait' \/ \E p \in Hosts : pc'[p] \in {"assign", "mark"} /\ g \in carry'[p].hosts
    BY <1>1, <1>4, <2>1 DEF HostOK, Steps
  <2>3. ~(job'[g] # 0 /\ polled'[job'[g]] = "never")
    BY <1>1, <1>4, <2>1 DEF HostOK
  <2>4. /\ pc'[g] = "new" <=> status'[g] = "none"
        /\ (Told(g)' => job'[g] # 0) /\ (g \in wait' => status'[g] = "not_job")
        /\ mode'[g] = "POLL_FILE_PUSH_STATUS" => Told(g)'
        /\ outcome'[g] # "broken"
    BY <1>1, <1>2, <2>1 DEF HostOK, Steps
  <2> QED
    BY <2>2, <2>3, <2>4 DEF HostOK
<1>6. ASSUME NEW p \in Hosts PROVE PushOK(p)'
  <2>1. CASE p = h
    BY <1>1, <1>3, <2>1 DEF PushOK, Steps, Writes
  <2>2. CASE p # h
    BY <1>1, <2>2 DEF PushOK, Steps, Writes, Pushing
  <2> QED
    BY <2>1, <2>2
<1>7. ASSUME NEW p \in Hosts PROVE PollOK(p)'
  BY <1>1 DEF Smooth, PollOK, Steps, Polling
<1>8. ASSUME NEW j \in 1 .. Len(jobs) PROVE JobOK(j)'
  <2>1. jobs[j] \in SUBSET Hosts
    BY ElementOfSeq DEF IInv, SharedType
  <2> QED
    BY <1>1, <1>2, <2>1 DEF Smooth, JobOK, Steps
<1> QED
  BY <1>1, <1>5, <1>6, <1>7, <1>8 DEF Smooth, Apart, Steps

LEMMA SmoothAssign ==
    ASSUME IInv, Smooth, NEW h \in Hosts, Assign(h)
    PROVE  Smooth'
<1>1. /\ pc[h] = "assign" /\ UNCHANGED <<status, wait, polled>> /\ Steps(h, "mark")
      /\ \A g \in Hosts : job'[g] = IF g \in carry[h].hosts THEN carry[h].job ELSE job[g]
  BY GotoSteps DEF Assign, Pushing
<1>2. \A g \in Hosts : Told(g)' <=> Told(g)
  BY <1>1 DEF Told
<1>3. PushOK(h) /\ carry[h].hosts \in SUBSET Hosts /\ carry[h].job # 0
  BY <1>1 DEF Smooth, IInv, NodeType, CarryInv
<1>4. \A p \in Hosts : pc[p] \notin {"mark", "stamp"}
  BY <1>1 DEF Steps, Pushing
<1>5. ASSUME NEW g \in Hosts PROVE HostOK(g)'
  <2>1. HostOK(g)
    BY DEF Smooth
  <2>2. status'[g] = "not_job" => g \in wait' \/ \E p \in Hosts : pc'[p] \in {"assign", "mark"} /\ g \in carry'[p].hosts
    BY <1>1, <1>4, <2>1 DEF HostOK, Steps
  <2>3. job'[g] # 0 /\ polled'[job'[g]] = "never" =>
          \E p \in Hosts : pc'[p] \in {"mark", "stamp"} /\ carry'[p].job = job'[g]
    BY <1>1, <1>4, <2>1 DEF HostOK, Steps
  <2>4. /\ pc'[g] = "new" <=> status'[g] = "none"
        /\ (Told(g)' => job'[g] # 0) /\ (g \in wait' => status'[g] = "not_job")
        /\ mode'[g] = "POLL_FILE_PUSH_STATUS" => Told(g)'
        /\ outcome'[g] # "broken"
    BY <1>1, <1>2, <1>3, <2>1 DEF HostOK, Steps
  <2> QED
    BY <2>2, <2>3, <2>4 DEF HostOK
<1>6. ASSUME NEW p \in Hosts PROVE PushOK(p)'
  <2>1. CASE p = h
    BY <1>1, <1>3, <2>1 DEF PushOK, Steps, Writes
  <2>2. CASE p # h
    BY <1>1, <2>2 DEF PushOK, Steps, Writes, Pushing
  <2> QED
    BY <2>1, <2>2
<1>7. ASSUME NEW p \in Hosts PROVE PollOK(p)'
  BY <1>1 DEF Smooth, PollOK, Steps, Polling
<1>8. ASSUME NEW j \in 1 .. Len(jobs) PROVE JobOK(j)'
  <2>1. jobs[j] \in SUBSET Hosts
    BY ElementOfSeq DEF IInv, SharedType
  <2> QED
    BY <1>1, <1>2, <2>1 DEF Smooth, JobOK, Steps
<1> QED
  BY <1>1, <1>5, <1>6, <1>7, <1>8 DEF Smooth, Apart, Steps

LEMMA SmoothMark ==
    ASSUME IInv, Smooth, NEW h \in Hosts, Mark(h)
    PROVE  Smooth'
<1>1. /\ pc[h] = "mark" /\ UNCHANGED <<job, wait, polled>> /\ Steps(h, "stamp")
      /\ \A g \in Hosts : status'[g] = IF g \in carry[h].hosts THEN "pending" ELSE status[g]
  BY GotoSteps DEF Mark, Pushing
<1>2. PushOK(h) /\ carry[h].hosts \in SUBSET Hosts
  BY DEF Smooth, IInv, NodeType
<1>3. \A g \in Hosts : Told(g)' <=> Told(g) \/ g \in carry[h].hosts
  BY <1>1 DEF Told
<1>4. \A g \in carry[h].hosts : status[g] = "not_job" /\ g \notin wait /\ job[g] # 0
  BY <1>1, <1>2 DEF PushOK
<1>5. ASSUME NEW g \in Hosts PROVE HostOK(g)'
  <2>1. HostOK(g)
    BY DEF Smooth
  <2>2. status'[g] = "not_job" => g \in wait'
    BY <1>1, <2>1 DEF HostOK, Steps, Pushing
  <2>3. job'[g] # 0 /\ polled'[job'[g]] = "never" =>
          \E p \in Hosts : pc'[p] \in {"mark", "stamp"} /\ carry'[p].job = job'[g]
    BY <1>1, <2>1 DEF HostOK, Steps, Pushing
  <2>4. /\ pc'[g] = "new" <=> status'[g] = "none"
        /\ (Told(g)' => job'[g] # 0) /\ (g \in wait' => status'[g] = "not_job")
        /\ mode'[g] = "POLL_FILE_PUSH_STATUS" => Told(g)'
        /\ outcome'[g] # "broken"
    BY <1>1, <1>3, <1>4, <2>1 DEF HostOK, Steps
  <2> QED
    BY <2>2, <2>3, <2>4 DEF HostOK
<1>6. ASSUME NEW p \in Hosts PROVE PushOK(p)'
  <2>1. CASE p = h
    BY <1>1, <1>2, <1>3, <1>4, <2>1 DEF PushOK, Steps, Writes
  <2>2. CASE p # h
    BY <1>1, <2>2 DEF PushOK, Steps, Writes, Pushing
  <2> QED
    BY <2>1, <2>2
<1>7. ASSUME NEW p \in Hosts PROVE PollOK(p)'
  BY <1>1 DEF Smooth, PollOK, Steps, Polling
<1>8. jobs[carry[h].job] = carry[h].hosts
  BY <1>1 DEF IInv, CarryInv
<1>9. ASSUME NEW j \in 1 .. Len(jobs) PROVE JobOK(j)'
  <2>1. jobs[j] \in SUBSET Hosts
    BY ElementOfSeq DEF IInv, SharedType
  <2> QED
    BY <1>1, <1>3, <1>8, <2>1 DEF Smooth, JobOK, Steps, Pushing
<1> QED
  BY <1>1, <1>5, <1>6, <1>7, <1>9 DEF Smooth, Apart, Steps

LEMMA SmoothStamp ==
    ASSUME IInv, Smooth, NEW h \in Hosts, Stamp(h)
    PROVE  Smooth'
<1> DEFINE j == carry[h].job
<1>1. pc[h] = "stamp" /\ Len(jobs) \in Nat
  BY LenProperties DEF Stamp, IInv, SharedType
<1>2. j \in 1 .. Len(jobs) /\ jobs[j] = carry[h].hosts
  BY <1>1, CarriedJob DEF IInv, CarryInv
<1>3. \A i \in 1 .. Len(jobs) : polled'[i] = IF i = j THEN "before" ELSE polled[i]
  <2>1. polled' = [polled EXCEPT ![j] = "before"] /\ DOMAIN polled = 1 .. Len(jobs)
    BY LenProperties DEF Stamp, IInv, SharedType
  <2> QED
    BY <2>1
<1>4. /\ UNCHANGED <<status, job, wait, jobs, outcome>> /\ overdue' \subseteq overdue
      /\ \A g \in Hosts : pc'[g] = IF g = h THEN "idle" ELSE pc[g]
      /\ \A g \in Hosts : mode'[g] = IF g = h THEN "POLL_FILE_PUSH_STATUS" ELSE mode[g]
      /\ \A g \in Hosts : g # h => carry'[g] = carry[g]
  BY DEF Stamp, ToPolling, Leave, IInv, NodeType
<1>5. \A g \in Hosts : (Told(g)' <=> Told(g)) /\ (pc[g] \in Pushing => g = h)
  BY <1>1, <1>4, OnePusher DEF Told, IInv, Smooth, Pushing
<1>6. h \in carry[h].hosts /\ \A g \in carry[h].hosts : Told(g)
  BY <1>1 DEF Smooth, PushOK, Writes
<1> HIDE DEF j
<1>7. ASSUME NEW g \in Hosts PROVE HostOK(g)'
  <2>1. HostOK(g) /\ job[g] \in 0 .. Len(jobs)
    BY DEF Smooth, IInv, SharedType
  <2>2. status'[g] = "not_job" => g \in wait'
    BY <1>1, <1>4, <1>5, <2>1 DEF HostOK, Pushing
  <2>3. ~(job'[g] # 0 /\ polled'[job'[g]] = "never")
    <3>1. ASSUME job[g] # 0, polled'[job[g]] = "never" PROVE FALSE
      <4>1. job[g] # j /\ polled[job[g]] = "never"
        BY <1>1, <1>3, <2>1, <3>1
      <4>2. PICK p \in Hosts : pc[p] \in {"mark", "stamp"} /\ carry[p].job = job[g]
        BY <2>1, <3>1, <4>1 DEF HostOK
      <4> QED
        BY <1>5, <4>1, <4>2 DEF Pushing, j
    <3> QED
      BY <1>4, <3>1
  <2>4. /\ pc'[g] = "new" <=> status'[g] = "none"
        /\ (Told(g)' => job'[g] # 0) /\ (g \in wait' => status'[g] = "not_job")
        /\ mode'[g] = "POLL_FILE_PUSH_STATUS" => Told(g)'
        /\ outcome'[g] # "broken"
    BY <1>1, <1>4, <1>5, <1>6, <2>1 DEF HostOK
  <2> QED
    BY <2>2, <2>3, <2>4 DEF HostOK
<1>8. ASSUME NEW p \in Hosts PROVE PushOK(p)'
  BY <1>4, <1>5 DEF PushOK, Pushing, Writes
<1>9. ASSUME NEW p \in Hosts PROVE PollOK(p)'
  <2>1. CASE p = h
    BY <1>4, <2>1 DEF PollOK, Polling
  <2>2. CASE p # h /\ pc[p] \in Polling
    <3>1. carry[p].job \in 1 .. Len(jobs)
      BY <1>1, <2>2, CarriedJob DEF IInv
    <3> QED
      BY <1>3, <1>4, <2>2, <3>1 DEF Smooth, PollOK
  <2>3. CASE p # h /\ pc[p] \notin Polling
    BY <1>4, <2>3 DEF PollOK
  <2> QED
    BY <2>1, <2>2, <2>3
<1>10. ASSUME NEW i \in 1 .. Len(jobs) PROVE JobOK(i)'
  <2>1. jobs[i] \in SUBSET Hosts
    BY ElementOfSeq DEF IInv, SharedType
  <2> QED
    BY <1>1, <1>2, <1>3, <1>4, <1>5, <1>6, <2>1 DEF Smooth, JobOK, Pushing
<1> QED
  BY <1>4, <1>7, <1>8, <1>9, <1>10 DEF Smooth, Apart

LEMMA SmoothPush ==
    ASSUME IInv, Smooth, NEW h \in Hosts, Pushes(h)
    PROVE  Smooth'
<1>1. /\ pc[h] = "calling" /\ UNCHANGED <<status, job, wait, mode, outcome, overdue>>
      /\ \A g \in Hosts : pc'[g] = IF g = h THEN "remove" ELSE pc[g]
      /\ \A g \in Hosts : g # h => carry'[g] = carry[g]
      /\ carry'[h] = [hosts |-> carry[h].hosts, job |-> Len(jobs')]
  BY DEF Pushes, node, chance, IInv, NodeType
<1>2. /\ Len(jobs) \in Nat /\ Len(jobs') = Len(jobs) + 1 /\ carry'[h].hosts = carry[h].hosts
      /\ \A j \in 1 .. Len(jobs) : jobs'[j] = jobs[j] /\ jobs[j] \in SUBSET Hosts
  BY <1>1, JobsGrow, ElementOfSeq DEF IInv, SharedType
<1>3. polled'[Len(jobs')] = "never" /\ \A j \in 1 .. Len(jobs) : polled'[j] = polled[j]
  <2>1. polled \in Seq({"never", "recently", "before"}) /\ Len(polled) = Len(jobs) /\ polled' = Append(polled, "never")
    BY DEF Pushes, IInv, SharedType
  <2> QED
    BY <1>2, <2>1, AppendProperties
<1>4. \A g \in Hosts : (Told(g)' <=> Told(g)) /\ (pc[g] \in Pushing => g = h)
  BY <1>1, OnePusher DEF Told, IInv, Smooth, Pushing
<1>5. ASSUME NEW g \in Hosts PROVE HostOK(g)'
  <2>1. HostOK(g) /\ (job[g] # 0 => job[g] \in 1 .. Len(jobs))
    BY <1>2 DEF Smooth, IInv, SharedType
  <2>2. status'[g] = "not_job" => g \in wait'
    BY <1>1, <1>4, <2>1 DEF HostOK, Pushing
  <2>3. ~(job'[g] # 0 /\ polled'[job'[g]] = "never")
    <3>1. \A p \in Hosts : pc[p] \notin {"mark", "stamp"}
      BY <1>1, <1>4 DEF Pushing
    <3> QED
      BY <1>1, <1>3, <2>1, <3>1 DEF HostOK
  <2>4. /\ pc'[g] = "new" <=> status'[g] = "none"
        /\ (Told(g)' => job'[g] # 0) /\ (g \in wait' => status'[g] = "not_job")
        /\ mode'[g] = "POLL_FILE_PUSH_STATUS" => Told(g)'
        /\ outcome'[g] # "broken"
    BY <1>1, <1>4, <2>1 DEF HostOK
  <2> QED
    BY <2>2, <2>3, <2>4 DEF HostOK
<1>6. ASSUME NEW p \in Hosts PROVE PushOK(p)'
  <2>1. CASE p = h
    BY <1>1, <1>2, <2>1 DEF Smooth, PushOK, Writes
  <2>2. CASE p # h
    BY <1>1, <1>4, <2>2 DEF PushOK, Writes, Pushing
  <2> QED
    BY <2>1, <2>2
<1>7. ASSUME NEW p \in Hosts PROVE PollOK(p)'
  <2>1. CASE p = h
    BY <1>1, <2>1 DEF PollOK, Polling
  <2>2. CASE p # h /\ pc[p] \in Polling
    <3>1. carry[p].job \in 1 .. Len(jobs)
      BY <1>2, <2>2, CarriedJob DEF IInv
    <3> QED
      BY <1>1, <1>3, <2>2, <3>1 DEF Smooth, PollOK
  <2>3. CASE p # h /\ pc[p] \notin Polling
    BY <1>1, <2>3 DEF PollOK
  <2> QED
    BY <2>1, <2>2, <2>3
<1>8. \A j \in 1 .. Len(jobs) : \A g \in jobs[j] : Told(g)
  BY <1>1, <1>4 DEF Smooth, JobOK, Pushing
<1>9. ASSUME NEW j \in 1 .. Len(jobs') PROVE JobOK(j)'
  <2>1. CASE j = Len(jobs')
    <3>1. pc'[h] = "remove" /\ carry'[h].job = j
      BY <1>1, <2>1
    <3> QED
      BY <1>3, <2>1, <3>1 DEF JobOK
  <2>2. CASE j \in 1 .. Len(jobs)
    BY <1>2, <1>4, <1>8, <2>2 DEF JobOK
  <2> QED
    BY <1>2, <2>1, <2>2
<1>10. Apart'
  <2>1. jobs'[Len(jobs')] = carry[h].hosts
    BY JobsGrow DEF IInv
  <2>2. \A g \in carry[h].hosts : ~Told(g)
    BY <1>1 DEF Smooth, PushOK, Told
  <2>3. ASSUME NEW i \in 1 .. Len(jobs'), NEW j \in 1 .. Len(jobs'), i # j PROVE jobs'[i] \cap jobs'[j] = {}
    <3>1. CASE i \in 1 .. Len(jobs) /\ j \in 1 .. Len(jobs)
      BY <1>2, <2>3, <3>1 DEF Smooth, Apart
    <3>2. CASE i = Len(jobs') /\ j \in 1 .. Len(jobs)
      BY <1>2, <1>8, <2>1, <2>2, <3>2
    <3>3. CASE j = Len(jobs') /\ i \in 1 .. Len(jobs)
      BY <1>2, <1>8, <2>1, <2>2, <3>3
    <3> QED
      BY <1>2, <2>3, <3>1, <3>2, <3>3
  <2> QED
    BY <2>3 DEF Apart
<1> QED
  BY <1>1, <1>5, <1>6, <1>7, <1>9, <1>10 DEF Smooth

LEMMA SmoothPushFile ==
    ASSUME IInv, Smooth, NEW h \in Hosts, FastPushFile(h)
    PROVE  Pushes(h) \/ (Reads(h) /\ UNCHANGED <<redis, jobs>>)
<1>1. carry[h].hosts # {} /\ pc[h] = "calling"
  BY DEF FastPushFile, Smooth, PushOK
<1>2. CASE Finish(h, "error") /\ UNCHANGED redis
  BY <1>1, <1>2, EndReads DEF Writes, Failures
<1>3. CASE ~(Finish(h, "error") /\ UNCHANGED redis)
  BY <1>1, <1>3 DEF FastPushFile, Pushes
<1> QED
  BY <1>2, <1>3

\* A result is written for targets that have been told already.
LEMMA SmoothApply ==
    ASSUME IInv, Smooth, NEW h \in Hosts, Apply(h), \A g \in Hosts : g # h => Stays(g), overdue' = {}
    PROVE  Smooth'
<1> DEFINE j == carry[h].job
<1>1. pc[h] = "apply" /\ Len(jobs) \in Nat
  BY LenProperties DEF Apply, IInv, SharedType
<1>2. j \in 1 .. Len(jobs) /\ polled[j] # "never"
  <2>1. pc[h] \in Polling
    BY <1>1 DEF Polling
  <2> QED
    BY <1>1, <2>1, CarriedJob DEF IInv, Smooth, PollOK
<1>3. jobs[j] \in SUBSET Hosts /\ \A g \in jobs[j] : Told(g)
  BY <1>2, ElementOfSeq DEF IInv, SharedType, Smooth, JobOK
<1>4. PICK result \in [jobs[j] -> {"success", "failed", "pending"}] :
            status' = [g \in Hosts |-> IF g \in DOMAIN result /\ result[g] # "pending"
                                       THEN result[g] ELSE status[g]]
  BY DEF Apply
<1>5. \A g \in Hosts : /\ Told(g)' <=> Told(g)
                       /\ status'[g] = "not_job" <=> status[g] = "not_job"
                       /\ status'[g] = "none" <=> status[g] = "none"
  BY <1>3, <1>4 DEF Told
<1>6. \A i \in 1 .. Len(jobs) : polled'[i] = IF i = j THEN "recently" ELSE polled[i]
  <2>1. polled' = [polled EXCEPT ![j] = "recently"] /\ DOMAIN polled = 1 .. Len(jobs)
    BY LenProperties DEF Apply, IInv, SharedType
  <2> QED
    BY <2>1
<1>7. Reads(h) /\ UNCHANGED <<job, wait, jobs>>
  <2>1. UNCHANGED <<job, wait>> /\ (Finish(h, "timeout") \/ Later(h))
    BY DEF Apply
  <2> QED
    BY <1>1, <2>1, EndReads DEF Writes, Failures
<1> HIDE DEF j
<1>8. \A g \in Hosts : Stays(g) \/ Reads(g)
  BY <1>7
<1>9. \A i \in 1 .. Len(jobs) : /\ polled'[i] = "never" => polled[i] = "never"
                                /\ polled'[i] # "never" => polled[i] # "never"
  BY <1>2, <1>6
<1> QED
  BY <1>5, <1>7, <1>8, <1>9, SmoothReads

\* What tells nobody anything.
LEMMA SmoothSame ==
    ASSUME IInv, Smooth, \A g \in Hosts : Stays(g) \/ Reads(g), UNCHANGED <<redis, jobs>>, overdue' = {}
    PROVE  Smooth'
<1>1. \A g \in Hosts : Told(g)' <=> Told(g)
  BY DEF redis, Told
<1>2. UNCHANGED <<status, job, wait, polled, jobs>>
  BY DEF redis
<1> QED
  BY <1>1, <1>2, SmoothReads

LEMMA SmoothStep ==
    ASSUME IInv, SmoothInv, [Next]_vars
    PROVE  SmoothInv'
<1>1. ASSUME NEW h \in Hosts, Execute(h) \/ Schedule(h) PROVE UNCHANGED mishaps
  BY <1>1, StepKinds DEF IInv, Ends, Goes, Later, ToPolling, Finish, Leave, chance, FastPushFile, Schedule, Trigger
<1>2. ASSUME NEW h \in Hosts, Overrun(h) \/ Lose(h) PROVE mishaps' # 0
  BY <1>2 DEF Overrun, Lose, Mishap, IInv, NodeType
<1>3. ASSUME NEW h \in Hosts, Expire(h)
      PROVE  UNCHANGED <<redis, jobs, pc, carry, mode, outcome, overdue, mishaps>>
  BY <1>3 DEF Expire, node, chance
<1>4. ASSUME NEW j \in 1 .. Len(jobs), Cool(j)
      PROVE  /\ UNCHANGED <<status, job, wait, jobs, pc, carry, mode, outcome, overdue, mishaps>>
             /\ \A i \in 1 .. Len(jobs) : (polled'[i] = "never" <=> polled[i] = "never")
  <2>1. polled' = [polled EXCEPT ![j] = "before"] /\ polled[j] = "recently" /\ DOMAIN polled = 1 .. Len(jobs)
    BY <1>4, LenProperties DEF Cool, IInv, SharedType
  <2> QED
    BY <1>4, <2>1 DEF Cool, node, chance
<1>5. Done \/ UNCHANGED vars => UNCHANGED <<redis, jobs, pc, carry, mode, outcome, overdue, mishaps>>
  BY DEF Done, vars, node, chance
<1>6. mishaps' = 0 => mishaps = 0
  BY <1>1, <1>2, <1>3, <1>4, <1>5 DEF Next
<1> SUFFICES ASSUME mishaps' = 0 PROVE Smooth'
  BY DEF SmoothInv
<1>7. Smooth /\ overdue = {}
  BY <1>6 DEF SmoothInv, Smooth
<1>8. CASE UNCHANGED <<redis, jobs, pc, carry, mode, outcome, overdue, mishaps>>
  BY <1>7, <1>8, SmoothSame DEF Stays
<1>9. ASSUME NEW j \in 1 .. Len(jobs), Cool(j) PROVE Smooth'
  <2>1. \A g \in Hosts : Told(g)' <=> Told(g)
    BY <1>4, <1>9 DEF Told
  <2> QED
    BY <1>4, <1>7, <1>9, <2>1, SmoothReads DEF Stays
<1>10. ASSUME NEW h \in Hosts, Execute(h) \/ Schedule(h) PROVE Smooth'
  <2>1. (\A g \in Hosts : g # h => Stays(g)) /\ overdue' = {}
    BY <1>7, <1>10, OthersStay DEF IInv
  <2>2. CASE Reads(h) /\ UNCHANGED <<redis, jobs>>
    BY <1>7, <2>1, <2>2, SmoothSame
  <2>3. CASE Pushes(h)
    BY <1>7, <2>3, SmoothPush
  <2>4. CASE Execute(h) \/ Remove(h) \/ Assign(h) \/ Mark(h) \/ Stamp(h)
    BY <1>7, <2>4, SmoothExecute, SmoothRemove, SmoothAssign, SmoothMark, SmoothStamp
  <2>5. CASE Apply(h)
    BY <1>7, <2>1, <2>5, SmoothApply
  <2> QED
    BY <1>7, <1>10, <2>2, <2>3, <2>4, <2>5, TriggerReads, ValidateReads, PollReads, ThrottleReads, SmoothPushFile
    DEF Schedule
<1> QED
  BY <1>2, <1>3, <1>5, <1>8, <1>9, <1>10 DEF Next

LEMMA SmoothAlways == Spec => []SmoothInv
<1>1. Init => SmoothInv
  <2> SUFFICES ASSUME Init PROVE Smooth
    BY DEF SmoothInv
  <2>1. Len(jobs) = 0 /\ overdue = {}
    BY EmptySeq DEF Init
  <2>2. ASSUME NEW h \in Hosts PROVE HostOK(h) /\ PushOK(h) /\ PollOK(h)
    BY DEF Init, HostOK, PushOK, PollOK, Told, Writes, Polling
  <2> QED
    BY <2>1, <2>2 DEF Smooth, Apart
<1>2. IInv /\ SmoothInv /\ [Next]_vars => SmoothInv'
  BY SmoothStep
<1> QED
  BY Inductive, <1>1, <1>2, PTL DEF Spec

\* NothingBreaks: unless a lease runs out or a worker is lost, no host meets an empty
\* waiting set, an unknown job or a job without the time of its last poll.
THEOREM NothingBreaksThm == Spec => []NothingBreaks
<1>1. SmoothInv => NothingBreaks
  BY DEF SmoothInv, Smooth, HostOK, NothingBreaks
<1> QED
  BY SmoothAlways, <1>1, PTL

\* PushedOnce: unless a lease runs out or a worker is lost, no host is a target of two
\* jobs, whoever triggers the push.
THEOREM PushedOnceThm == Spec => []PushedOnce
<1>1. IInv /\ SmoothInv => PushedOnce
  <2>1. IInv => DOMAIN jobs = 1 .. Len(jobs)
    BY LenProperties DEF IInv, SharedType
  <2> QED
    BY <2>1 DEF SmoothInv, Smooth, Apart, PushedOnce
<1> QED
  BY Inductive, SmoothAlways, <1>1, PTL
=============================================================================
