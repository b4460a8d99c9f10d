------------------------------ MODULE BulkPush ------------------------------
(***************************************************************************)
(* JobBulkPushFileV2Service: the hosts of a task that need the same        *)
(* package, each in a pipeline of its own, gather in a waiting set in      *)
(* Redis; the first that has waited long enough pushes the package to all  *)
(* of them with one job, then one at a time asks the job platform for all. *)
(* Two Redis locks with a lease guard the two.  A schedule of a host is a  *)
(* sequence of steps between which others run; pc says where it is.  A     *)
(* definition named Mut... is the next one with a plausible mistake, for   *)
(* the mutation runs in PROJECT.json.                                      *)
(***************************************************************************)
EXTENDS Integers, Sequences, FiniteSets

CONSTANTS
    Hosts,
    Nobody,        \* who holds a lock that is free
    Patience,      \* polls before a host triggers the push (POLLING_TIMEOUT / 20)
    Timeout,       \* polls before a host gives up on the job
    MaxMishaps     \* bound: leases that run out and workers that are lost

ASSUME NobodyAssumption == Nobody \notin Hosts
ASSUME BoundsAssumption == Patience \in Nat /\ Timeout \in Nat \ {0} /\ MaxMishaps \in Nat

VARIABLES
    status,    \* Redis: ip_status of each host
    job,       \* Redis: job_instance_id of each host, 0 for none
    wait,      \* Redis: the waiting sets
    polled,    \* Redis: for each job, last_poll_time relative to the throttle
    lock,      \* Redis: who holds the two locks
    jobs,      \* the targets of each job, on the job platform
    mode, time, pc,   \* of the node of each host: outputs, and where its schedule is
    carry,     \* what a schedule has read: hosts to push to, a job
    outcome,   \* how the node of each host ended
    overdue,   \* hosts whose schedule outlived its lease
    mishaps

redis == <<status, job, wait, polled>>
node == <<mode, time, outcome>>
chance == <<overdue, mishaps>>
vars == <<redis, lock, jobs, node, pc, carry, chance>>

Locks == {"push", "poll"}
Nothing == [hosts |-> {}, job |-> 0]

Pushing == {"locked", "calling", "remove", "assign", "mark", "stamp"}
Polling == {"throttle", "apply"}
Places == {"new", "idle", "contend", "done"} \union Pushing \union Polling
Failures == {"failed", "timeout", "error", "broken", "lost"}

TypeOK ==
    /\ status \in [Hosts -> {"none", "not_job", "pending", "success", "failed"}]
    /\ job \in [Hosts -> 0 .. Len(jobs)]
    /\ wait \subseteq {h \in Hosts : status[h] # "none"}
    /\ jobs \in Seq(SUBSET Hosts)
    /\ polled \in Seq({"never", "recently", "before"}) /\ Len(polled) = Len(jobs)
    /\ lock \in [Locks -> Hosts \union {Nobody}]
    /\ mode \in [Hosts -> {"TRIGGER_JOB", "POLL_FILE_PUSH_STATUS"}]
    /\ time \in [Hosts -> 0 .. Timeout]
    /\ pc \in [Hosts -> Places]
    /\ carry \in [Hosts -> [hosts : SUBSET Hosts, job : 0 .. Len(jobs)]]
    /\ outcome \in [Hosts -> {"none", "success"} \union Failures]
    /\ \A h \in Hosts : outcome[h] # "none" <=> pc[h] = "done"
    /\ overdue \subseteq {h \in Hosts : pc[h] \in Pushing \union Polling}
    /\ mishaps \in 0 .. MaxMishaps

Init ==
    /\ status = [h \in Hosts |-> "none"]
    /\ job = [h \in Hosts |-> 0]
    /\ wait = {} /\ jobs = <<>> /\ polled = <<>>
    /\ lock = [l \in Locks |-> Nobody]
    /\ mode = [h \in Hosts |-> "TRIGGER_JOB"]
    /\ time = [h \in Hosts |-> 0]
    /\ pc = [h \in Hosts |-> "new"]
    /\ carry = [h \in Hosts |-> Nothing]
    /\ outcome = [h \in Hosts |-> "none"]
    /\ overdue = {} /\ mishaps = 0
-----------------------------------------------------------------------------
\* How a schedule ends: it leaves the lock, if it has one, in the manner of __exit__
\* and release_lock, and the node waits for its next poll or is done.
MutReleased(h) == [l \in Locks |-> IF pc[h] \in (IF l = "push" THEN Pushing ELSE Polling) THEN Nobody ELSE lock[l]]

Released(h) == [l \in Locks |-> IF lock[l] = h THEN Nobody ELSE lock[l]]

Leave(h) ==
    /\ lock' = Released(h)
    /\ overdue' = overdue \ {h}
    /\ carry' = [carry EXCEPT ![h] = Nothing]
    /\ UNCHANGED <<jobs, mishaps>>

\* polling_time grows; what is beyond the bound of every comparison is cut off
Later(h) ==
    /\ Leave(h)
    /\ pc' = [pc EXCEPT ![h] = "idle"]
    /\ time' = [time EXCEPT ![h] = IF @ < Timeout THEN @ + 1 ELSE @]
    /\ UNCHANGED <<mode, outcome>>

ToPolling(h) ==
    /\ Leave(h)
    /\ pc' = [pc EXCEPT ![h] = "idle"]
    /\ mode' = [mode EXCEPT ![h] = "POLL_FILE_PUSH_STATUS"]
    /\ time' = [time EXCEPT ![h] = 0]
    /\ UNCHANGED outcome

Finish(h, how) ==
    /\ Leave(h)
    /\ pc' = [pc EXCEPT ![h] = "done"]
    /\ outcome' = [outcome EXCEPT ![h] = how]
    /\ UNCHANGED <<mode, time>>

Goto(h, place) ==
    /\ pc' = [pc EXCEPT ![h] = place]
    /\ UNCHANGED <<node, jobs, chance>>
-----------------------------------------------------------------------------
\* execute: the host waits for a push.
MutExecute(h) ==
    /\ pc[h] = "new" /\ Goto(h, "idle")
    /\ wait' = wait \union {h}
    /\ UNCHANGED <<status, job, polled, lock, carry>>

Execute(h) ==
    /\ pc[h] = "new" /\ Goto(h, "idle")
    /\ status' = [status EXCEPT ![h] = "not_job"]
    /\ wait' = wait \union {h}
    /\ UNCHANGED <<job, polled, lock, carry>>

\* schedule, TRIGGER_JOB.  The threshold on the number of waiting hosts may be
\* passed at any time.
Trigger(h) ==
    /\ pc[h] = "idle" /\ mode[h] = "TRIGGER_JOB"
    /\ UNCHANGED redis
    /\ \/ status[h] # "not_job" /\ ToPolling(h)
       \/ status[h] = "not_job" /\ time[h] < Patience /\ Later(h)
       \/ status[h] = "not_job" /\ Goto(h, "contend") /\ UNCHANGED <<lock, carry>>

MutAcquire(h) ==
    /\ pc[h] = "contend"
    /\ UNCHANGED redis
    /\ lock' = [lock EXCEPT !["push"] = h]
    /\ Goto(h, "locked") /\ UNCHANGED carry

Acquire(h) ==
    /\ pc[h] = "contend"
    /\ UNCHANGED redis
    /\ IF lock["push"] # Nobody THEN Later(h)
       ELSE /\ lock' = [lock EXCEPT !["push"] = h]
            /\ Goto(h, "locked") /\ UNCHANGED carry

\* validate_not_job again, then the hosts that wait
Validate(h) ==
    /\ pc[h] = "locked"
    /\ UNCHANGED redis
    /\ IF status[h] # "not_job" THEN ToPolling(h)
       ELSE /\ carry' = [carry EXCEPT ![h] = [hosts |-> wait, job |-> 0]]
            /\ Goto(h, "calling") /\ UNCHANGED lock

\* fast_push_file, which may raise; so do it and zrem when there is no host
FastPushFile(h) ==
    /\ pc[h] = "calling"
    /\ \/ carry[h].hosts = {} /\ Finish(h, "broken") /\ UNCHANGED redis
       \/ carry[h].hosts # {} /\ Finish(h, "error") /\ UNCHANGED redis
       \/ /\ carry[h].hosts # {}
          /\ jobs' = Append(jobs, carry[h].hosts)
          /\ polled' = Append(polled, "never")
          /\ carry' = [carry EXCEPT ![h] = [hosts |-> @.hosts, job |-> Len(jobs')]]
          /\ pc' = [pc EXCEPT ![h] = "remove"]
          /\ UNCHANGED <<status, job, wait, lock, node, chance>>

\* bulk_push_file: zrem, the job of the hosts, their status, the time of the poll
MutRemove(h) ==
    /\ pc[h] = "remove" /\ Goto(h, "assign")
    /\ wait' = {}
    /\ UNCHANGED <<status, job, polled, lock, carry>>

Remove(h) ==
    /\ pc[h] = "remove" /\ Goto(h, "assign")
    /\ wait' = wait \ carry[h].hosts
    /\ UNCHANGED <<status, job, polled, lock, carry>>

MutAssign(h) ==
    /\ pc[h] = "assign" /\ Goto(h, "mark")
    /\ job' = [g \in Hosts |-> IF g \in carry[h].hosts \/ job[g] = 0 THEN carry[h].job ELSE job[g]]
    /\ UNCHANGED <<status, wait, polled, lock, carry>>

Assign(h) ==
    /\ pc[h] = "assign" /\ Goto(h, "mark")
    /\ job' = [g \in Hosts |-> IF g \in carry[h].hosts THEN carry[h].job ELSE job[g]]
    /\ UNCHANGED <<status, wait, polled, lock, carry>>

Mark(h) ==
    /\ pc[h] = "mark" /\ Goto(h, "stamp")
    /\ status' = [g \in Hosts |-> IF g \in carry[h].hosts THEN "pending" ELSE status[g]]
    /\ UNCHANGED <<job, wait, polled, lock, carry>>

Stamp(h) ==
    /\ pc[h] = "stamp"
    /\ polled' = [polled EXCEPT ![carry[h].job] = "before"]
    /\ ToPolling(h)
    /\ UNCHANGED <<status, job, wait>>
-----------------------------------------------------------------------------
\* schedule, POLL_FILE_PUSH_STATUS.  The poll that learns of a job comes five
\* seconds after it was marked, when it is stamped too unless the worker was lost.
Poll(h) ==
    /\ pc[h] = "idle" /\ mode[h] = "POLL_FILE_PUSH_STATUS"
    /\ \A g \in Hosts : pc[g] = "stamp" => h \notin carry[g].hosts
    /\ UNCHANGED redis
    /\ IF job[h] = 0 THEN Finish(h, "broken")
       ELSE IF status[h] \in {"success", "failed"} THEN Finish(h, status[h])
       ELSE IF lock["poll"] # Nobody THEN Later(h)
       ELSE /\ lock' = [lock EXCEPT !["poll"] = h]
            /\ carry' = [carry EXCEPT ![h] = [hosts |-> {}, job |-> job[h]]]
            /\ Goto(h, "throttle")

Throttle(h) ==
    /\ pc[h] = "throttle"
    /\ UNCHANGED redis
    /\ \/ polled[carry[h].job] = "never" /\ Finish(h, "broken")
       \/ polled[carry[h].job] = "recently" /\ Later(h)
       \/ polled[carry[h].job] = "before" /\ Finish(h, "error")
       \/ polled[carry[h].job] = "before" /\ Goto(h, "apply") /\ UNCHANGED <<lock, carry>>

\* What get_task_result says of the targets of the job is written for all of them;
\* a job that is finished says it of each.
MutApply(h) ==
    /\ pc[h] = "apply"
    /\ \E result \in [jobs[carry[h].job] -> {"success", "failed", "pending"}] :
          status' = [g \in Hosts |-> IF g \in DOMAIN result /\ result[g] # "pending"
                                     THEN result[g] ELSE status[g]]
    /\ polled' = [polled EXCEPT ![carry[h].job] = "recently"]
    /\ Later(h)
    /\ UNCHANGED <<job, wait>>

Apply(h) ==
    /\ pc[h] = "apply"
    /\ \E result \in [jobs[carry[h].job] -> {"success", "failed", "pending"}] :
          /\ status' = [g \in Hosts |-> IF g \in DOMAIN result /\ result[g] # "pending"
                                        THEN result[g] ELSE status[g]]
          /\ \/ time[h] >= Timeout /\ Finish(h, "timeout")
             \/ time[h] < Timeout /\ Later(h)
             \/ (\A g \in DOMAIN result : result[g] # "pending") /\ Later(h)
    /\ polled' = [polled EXCEPT ![carry[h].job] = "recently"]
    /\ UNCHANGED <<job, wait>>

\* Five seconds have passed since a job was polled.
Cool(j) ==
    /\ j \in DOMAIN polled /\ polled[j] = "recently"
    /\ polled' = [polled EXCEPT ![j] = "before"]
    /\ UNCHANGED <<status, job, wait, lock, jobs, node, pc, carry, chance>>
-----------------------------------------------------------------------------
Mishap == mishaps < MaxMishaps /\ mishaps' = mishaps + 1

\* A lease of 20 seconds runs out while its holder waits for the job platform.
Overrun(h) ==
    /\ Mishap
    /\ \E l \in Locks :
          /\ lock[l] = h /\ pc[h] # "done"
          /\ lock' = [lock EXCEPT ![l] = Nobody]
    /\ overdue' = overdue \union {h}
    /\ UNCHANGED <<redis, jobs, node, pc, carry>>

\* A worker is lost in the middle of a schedule.  The engine fails the node in
\* the end, the lock stays for as long as it is leased.
Lose(h) ==
    /\ Mishap
    /\ pc[h] \in Pushing \union Polling \union {"contend"}
    /\ pc' = [pc EXCEPT ![h] = "done"]
    /\ outcome' = [outcome EXCEPT ![h] = "lost"]
    /\ overdue' = overdue \ {h}
    /\ carry' = [carry EXCEPT ![h] = Nothing]
    /\ UNCHANGED <<redis, lock, jobs, mode, time>>

Expire(h) ==
    /\ pc[h] = "done" /\ \E l \in Locks : lock[l] = h
    /\ lock' = Released(h)
    /\ UNCHANGED <<redis, jobs, node, pc, carry, chance>>
-----------------------------------------------------------------------------
Schedule(h) ==
    \/ Trigger(h) \/ Acquire(h) \/ Validate(h) \/ FastPushFile(h)
    \/ Remove(h) \/ Assign(h) \/ Mark(h) \/ Stamp(h)
    \/ Poll(h) \/ Throttle(h) \/ Apply(h)

Done == (\A h \in Hosts : pc[h] = "done" /\ h \notin {lock["push"], lock["poll"]}) /\ UNCHANGED vars

Next ==
    \/ \E h \in Hosts : Execute(h) \/ Schedule(h) \/ Overrun(h) \/ Lose(h) \/ Expire(h)
    \/ \E j \in 1 .. Len(jobs) : Cool(j)
    \/ Done

\* The engine polls each node, leases run out, time passes.
Fairness ==
    /\ \A h \in Hosts : WF_vars(Schedule(h)) /\ WF_vars(Expire(h))
    /\ \A j \in 1 .. Cardinality(Hosts) * (MaxMishaps + 1) : WF_vars(Cool(j))

Spec == Init /\ [][Next]_vars /\ Fairness
-----------------------------------------------------------------------------
\* The lock of a schedule in one of the two blocks is its own, until the lease
\* runs out: nobody releases the lock that another one has taken meanwhile.
HolderHolds ==
    \A h \in Hosts \ overdue :
        /\ pc[h] \in Pushing => lock["push"] = h
        /\ pc[h] \in Polling => lock["poll"] = h

\* A host follows a job that pushes to it, whatever overlaps.
FollowsItsJob ==
    \A h \in Hosts :
        /\ job[h] # 0 => h \in jobs[job[h]]
        /\ status[h] \in {"success", "failed"} => job[h] # 0

\* With no lease overrun and no worker lost, no node fails on data that another
\* one has not written, or has taken away: every host that waits for a push gets
\* into one, and knows its job and the time of the last poll when it looks.
NothingBreaks == mishaps = 0 => \A h \in Hosts : outcome[h] # "broken"

\* Nor is a package pushed to a host twice, although every host of it may trigger
\* the push to all of them.
PushedOnce ==
    mishaps = 0 => \A i, j \in DOMAIN jobs : i # j => jobs[i] \cap jobs[j] = {}

\* Every node that has been executed ends, although only the one that has the lock
\* and is not throttled checks the timeout, and the job may hang for ever.
Settles == \A h \in Hosts : pc[h] # "new" ~> pc[h] = "done"
=============================================================================
