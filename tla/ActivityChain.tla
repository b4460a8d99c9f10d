--------------------------- MODULE ActivityChain ---------------------------
(***************************************************************************)
(* One chunk of subscription instance records walking through the chain of *)
(* activities that build_instances_task lays out: every activity is a      *)
(* BaseService whose execute/schedule go through BaseService.run           *)
(* (apps/backend/components/collections/base.py).  The steps of run are    *)
(* separated wherever it reads or writes the database, because the revoke  *)
(* API and the zombie sweep write the same rows in between.  A definition  *)
(* named Mut... is the one after it with a plausible mistake; nothing uses *)
(* it but the mutation runs that PROJECT.json lists.                       *)
(***************************************************************************)
EXTENDS Integers, FiniteSets

CONSTANTS
    Instances,     \* ids of the SubscriptionInstanceRecords of the chunk
    NumActs,       \* number of activities of the chain
    NeedSchedule,  \* activities whose service sets __need_schedule__
    MaxPolls,      \* bound: POLLING_TIMEOUT / POLLING_INTERVAL
    Revokers,      \* calls of the revoke API
    MaxMissed,     \* bound: beats the zombie sweep may miss
    RetryCap       \* bound: retry_times is counted up to here

ASSUME InstancesAssumption == IsFiniteSet(Instances) /\ Instances # {}
ASSUME NumActsAssumption == NumActs \in Nat \ {0}
ASSUME ScheduleAssumption == NeedSchedule \subseteq 1..NumActs /\ MaxPolls \in Nat \ {0}
ASSUME BoundsAssumption == MaxMissed \in Nat /\ RetryCap \in Nat \ {0}

VARIABLES
    record,      \* SubscriptionInstanceRecord.status
    detail,      \* SubscriptionInstanceStatusDetail.status per activity
    retryTimes,  \* ProcessStatus.retry_times of the instance
    act,         \* the activity the pipeline process is at
    pc,          \* where in BaseService.run it is
    ids,         \* get_subscription_instance_ids(data) of this activity
    failed,      \* failed_subscription_instance_id_reason_map
    succ,        \* succeeded_subscription_instance_ids computed by run
    finished,    \* is_schedule_finished()
    polls,       \* schedules done in this activity
    revoke,      \* the revoke calls: where they are, what they target
    age,         \* beats since update_time of the unfinished records
    missed       \* beats missed so far

engineVars == <<act, pc, ids, failed, succ, finished, polls>>
rowVars == <<record, detail, retryTimes>>
beatVars == <<age, missed>>
vars == <<rowVars, engineVars, revoke, beatVars>>

Acts == 1..NumActs
NoDetail == "NONE"
Unfinished == {"PENDING", "RUNNING"}
Terminal == {"SUCCESS", "FAILED"}
Status == Unfinished \union Terminal

\* The sweep runs every 15 minutes on update_time between 30 and 60 minutes
\* ago: the third and the fourth beat after the update.
ZombieAfter == 3
MutNarrowWindow == 3
ZombieUntil == 4

\* Control locations of run, named by the statement that comes next.
Executing == {"service", "read", "writeRevoked", "writeFailed", "writeSuccess", "writeTail"}
Live == {"queued", "await"} \union Executing
PCs == Live \union {"stopped", "done", "crashed"}

TypeOK ==
    /\ record \in [Instances -> Status]
    /\ detail \in [Acts -> [Instances -> {NoDetail, "RUNNING"} \union Terminal]]
    /\ retryTimes \in [Instances -> 0..RetryCap]
    /\ act \in Acts
    /\ pc \in PCs
    /\ ids \in SUBSET Instances
    /\ failed \in SUBSET Instances
    /\ succ \in SUBSET Instances
    /\ finished \in BOOLEAN
    /\ polls \in 0..MaxPolls
    /\ revoke \in [Revokers -> [pc : {"idle", "read", "written", "done"},
                                ids : SUBSET Instances,
                                at : 0..NumActs]]
    /\ age \in 0..(ZombieUntil + 1)
    /\ missed \in 0..MaxMissed

Init ==
    /\ record = [i \in Instances |-> "PENDING"]
    /\ detail = [k \in Acts |-> [i \in Instances |-> NoDetail]]
    /\ retryTimes = [i \in Instances |-> 0]
    /\ act = 1
    /\ pc = "queued"
    /\ ids = Instances
    /\ failed = {}
    /\ succ = {}
    /\ finished = FALSE
    /\ polls = 0
    /\ revoke = [r \in Revokers |-> [pc |-> "idle", ids |-> {}, at |-> 0]]
    /\ age = 0
    /\ missed = 0
-----------------------------------------------------------------------------
\* bulk_set_sub_inst_status: the records of S, without looking at what they are
SetRecords(S, st) == [i \in Instances |-> IF i \in S THEN st ELSE record[i]]

\* the status details of S at the current activity, where the rows exist
SetDetails(S, st) ==
    [detail EXCEPT ![act] = [i \in Instances |->
        IF i \in S /\ detail[act][i] # NoDetail THEN st ELSE detail[act][i]]]

\* sub_inst_failed_handler: one more retry for each of S
BumpRetries(S) ==
    [i \in Instances |-> IF i \in S /\ retryTimes[i] < RetryCap
                         THEN retryTimes[i] + 1 ELSE retryTimes[i]]

\* bulk_set_sub_inst_act_status(S, FAILED)
FailInstances(S) ==
    /\ detail' = SetDetails(S, "FAILED")
    /\ record' = SetRecords(S, "FAILED")
    /\ retryTimes' = BumpRetries(S)

Goto(loc) == pc' = loc /\ UNCHANGED <<act, ids, failed, succ, finished, polls>>

MutPassEveryInput ==
    IF succ = {} THEN Goto("stopped")
    ELSE /\ act' = act + 1 /\ pc' = "queued" /\ ids' = ids
         /\ failed' = {} /\ succ' = {} /\ finished' = FALSE /\ polls' = 0

\* The engine after run returned bool(succ): the node fails and the process
\* sleeps for good, or the next activity gets succ as its input.
NextActivity ==
    IF succ = {}
    THEN Goto("stopped")
    ELSE /\ act' = act + 1
         /\ pc' = "queued"
         /\ ids' = succ
         /\ failed' = {}
         /\ succ' = {}
         /\ finished' = FALSE
         /\ polls' = 0

\* Whether the service still waits for its next schedule.
Scheduling == act \in NeedSchedule /\ ~finished
-----------------------------------------------------------------------------
\* execute up to run: the details are created RUNNING, and the HEAD activity
\* sets its records RUNNING whatever they are.
Execute ==
    /\ pc = "queued"
    /\ detail' = [detail EXCEPT ![act] = [i \in Instances |->
                    IF i \in ids THEN "RUNNING" ELSE detail[act][i]]]
    /\ IF act = 1
       THEN record' = SetRecords(ids, "RUNNING") /\ age' = 0
       ELSE UNCHANGED <<record, age>>
    /\ Goto("service")
    /\ UNCHANGED <<retryTimes, revoke, missed>>

MutPollForEver ==
    /\ pc \in {"service", "await"} /\ polls' = polls
    /\ \E F \in SUBSET ids : failed' = failed \union F
    /\ finished' \in BOOLEAN
    /\ finished' => act \in NeedSchedule
    /\ pc' = "read"
    /\ UNCHANGED <<rowVars, act, ids, succ, revoke, beatVars>>

\* _execute or _schedule: moves some instances to the failed map, and may
\* finish the schedule; a service that polls gives up after its timeout.
RunService ==
    /\ \/ pc = "service" /\ polls' = polls
       \/ pc = "await" /\ polls < MaxPolls /\ polls' = polls + 1
    /\ \E F \in SUBSET ids : failed' = failed \union F
    /\ finished' \in BOOLEAN
    /\ finished' => act \in NeedSchedule
    /\ polls' = MaxPolls => finished'
    /\ pc' = "read"
    /\ UNCHANGED <<rowVars, act, ids, succ, revoke, beatVars>>

MutIgnoreRevoked ==
    /\ pc = "read" /\ succ' = ids \ failed /\ pc' = "writeRevoked"
    /\ UNCHANGED <<rowVars, act, ids, failed, finished, polls, revoke, beatVars>>

MutIgnoreFailed ==
    /\ pc = "read" /\ succ' = {i \in ids : record[i] # "FAILED"} /\ pc' = "writeRevoked"
    /\ UNCHANGED <<rowVars, act, ids, failed, finished, polls, revoke, beatVars>>

\* The query for records that were failed from outside while the service ran.
ReadRevoked ==
    /\ pc = "read"
    /\ succ' = {i \in ids \ failed : record[i] # "FAILED"}
    /\ pc' = "writeRevoked"
    /\ UNCHANGED <<rowVars, act, ids, failed, finished, polls, revoke, beatVars>>

WriteRevoked ==
    /\ pc = "writeRevoked"
    /\ FailInstances((ids \ failed) \ succ)
    /\ Goto("writeFailed")
    /\ UNCHANGED <<revoke, beatVars>>

WriteFailed ==
    /\ pc = "writeFailed"
    /\ FailInstances(failed)
    /\ Goto(IF ~Scheduling THEN "writeSuccess"
            ELSE IF succ = {} THEN "stopped" ELSE "await")
    /\ UNCHANGED <<revoke, beatVars>>

MutMissTail ==
    /\ pc = "writeSuccess" /\ detail' = SetDetails(succ, "SUCCESS") /\ NextActivity
    /\ UNCHANGED <<record, retryTimes, revoke, beatVars>>

WriteSuccess ==
    /\ pc = "writeSuccess"
    /\ detail' = SetDetails(succ, "SUCCESS")
    /\ IF act = NumActs THEN Goto("writeTail") ELSE NextActivity
    /\ UNCHANGED <<record, retryTimes, revoke, beatVars>>

MutTailAll ==
    /\ pc = "writeTail" /\ record' = SetRecords(ids, "SUCCESS")
    /\ Goto(IF succ = {} THEN "stopped" ELSE "done")
    /\ UNCHANGED <<detail, retryTimes, revoke, beatVars>>

\* The TAIL activity sets its records SUCCESS whatever they are by now.
WriteTail ==
    /\ pc = "writeTail"
    /\ record' = SetRecords(succ, "SUCCESS")
    /\ Goto(IF succ = {} THEN "stopped" ELSE "done")
    /\ UNCHANGED <<detail, retryTimes, revoke, beatVars>>

MutRaiseFailedOnly ==
    /\ pc \in Live /\ FailInstances(failed) /\ Goto("stopped")
    /\ UNCHANGED <<revoke, beatVars>>

\* exception_handler: an exception anywhere in execute or schedule fails every
\* instance the activity was given, and the node.
Raise ==
    /\ pc \in Live
    /\ FailInstances(ids)
    /\ Goto("stopped")
    /\ UNCHANGED <<revoke, beatVars>>

\* The worker dies, or the message of the next schedule is lost.
Crash ==
    /\ pc \in Live
    /\ Goto("crashed")
    /\ UNCHANGED <<rowVars, revoke, beatVars>>
-----------------------------------------------------------------------------
\* get_running_instance_records: every unfinished record, or those of the
\* instances the caller lists, finished or not.
RevokeRead(r) ==
    /\ revoke[r].pc = "idle"
    /\ \E T \in {{i \in Instances : record[i] \in Unfinished}} \union SUBSET Instances :
          /\ T # {}
          /\ revoke' = [revoke EXCEPT ![r].pc = "read", ![r].ids = T]
    /\ UNCHANGED <<rowVars, engineVars, beatVars>>

\* The first of the two writes.  "at" remembers how far the chain was: the
\* activity it is in, or the last one when HEAD may still overwrite this.
RevokeWrite(r) ==
    /\ revoke[r].pc = "read"
    /\ record' = SetRecords(revoke[r].ids, "FAILED")
    /\ revoke' = [revoke EXCEPT
            ![r].pc = "written",
            ![r].at = IF act = 1 /\ pc = "queued" THEN NumActs ELSE act]
    /\ UNCHANGED <<detail, retryTimes, engineVars, beatVars>>

\* set_record_status, the delayed second write
SetRecordStatus(r) ==
    /\ revoke[r].pc = "written"
    /\ record' = SetRecords(revoke[r].ids, "FAILED")
    /\ revoke' = [revoke EXCEPT ![r].pc = "done"]
    /\ UNCHANGED <<detail, retryTimes, engineVars, beatVars>>

\* A beat, 15 minutes after the last one.
BeatPasses == age' = IF age > ZombieUntil THEN age ELSE age + 1

\* check_zombie_sub_inst_record: fails the unfinished records in the window.
\* A detail's update_time moves with every log line (none: never swept), so
\* any of the running details may be in the window once the record is that old.
CheckZombies ==
    /\ BeatPasses
    /\ record' = IF age' \in ZombieAfter..ZombieUntil
                 THEN [i \in Instances |->
                         IF record[i] \in Unfinished THEN "FAILED" ELSE record[i]]
                 ELSE record
    /\ \E D \in SUBSET {i \in Instances : detail[act][i] = "RUNNING" /\ age' >= ZombieAfter} :
          detail' = SetDetails(D, "FAILED")
    /\ UNCHANGED <<retryTimes, engineVars, revoke, missed>>

MissBeat ==
    /\ missed < MaxMissed
    /\ BeatPasses
    /\ missed' = missed + 1
    /\ UNCHANGED <<rowVars, engineVars, revoke>>
-----------------------------------------------------------------------------
\* what the worker does on its own
Engine ==
    \/ Execute \/ RunService \/ ReadRevoked
    \/ WriteRevoked \/ WriteFailed \/ WriteSuccess \/ WriteTail

Revoke == \E r \in Revokers : RevokeRead(r) \/ RevokeWrite(r) \/ SetRecordStatus(r)

Next ==
    \/ Engine \/ Raise \/ Crash
    \/ Revoke
    \/ CheckZombies \/ MissBeat

Fairness ==
    /\ WF_vars(Engine)
    /\ WF_vars(CheckZombies)
    /\ \A r \in Revokers : WF_vars(RevokeWrite(r) \/ SetRecordStatus(r))

Spec == Init /\ [][Next]_vars /\ Fairness

\* The chain left alone: no revoke, no sweep, no crash.
EngineSpec == Init /\ [][Engine \/ Raise]_vars /\ WF_vars(Engine)
-----------------------------------------------------------------------------
\* A record is SUCCESS only when each activity of the chain, in its own status
\* detail, is SUCCESS for it: TAIL overwrites the record without a look.
SuccessIsEarned ==
    \A i \in Instances : record[i] = "SUCCESS" =>
        \A k \in Acts : detail[k][i] = "SUCCESS"

\* An instance that an activity failed or dropped never enters a later one:
\* succeeded_subscription_instance_ids is all that the chain passes on.
OnlySucceededAdvance ==
    \A i \in Instances : \A k \in 1..(NumActs - 1) :
        detail[k + 1][i] # NoDetail => detail[k][i] = "SUCCESS"

\* A chain that ended, well or not, leaves nothing behind that a user would
\* see as still running: neither records nor status details.
EndedLeavesNothingRunning ==
    pc \in {"stopped", "done"} => \A i \in Instances :
        /\ record[i] \in Terminal
        /\ \A k \in Acts : detail[k][i] # "RUNNING"

\* A revoke that lands after HEAD stops the instance at the latest in the next
\* activity, at its query for revoked records.
RevokeStopsWithinOneActivity ==
    \A r \in Revokers : revoke[r].pc \in {"written", "done"} =>
        \A i \in revoke[r].ids : \A k \in Acts :
            k > revoke[r].at + 1 => detail[k][i] = NoDetail

\* Whatever crashes, every record is settled for good in the end: by the chain,
\* or by the sweep, whose window two beats hit.
EveryRecordSettles == <>[](\A i \in Instances : record[i] \in Terminal)

\* Left alone, the chain takes its records through RecordLifecycle.
Lifecycle == INSTANCE RecordLifecycle
RecordsFollowLifecycle == Lifecycle!Spec

\* Left alone, the chain settles each of its records, however long it polls.
ChunkSettles == Lifecycle!Settles

\* The log of sub_inst_failed_handler: a failed deployment is one more retry.
OneRetryPerFailure == \A i \in Instances : retryTimes[i] <= 1

\* The comment on the delayed second write: it keeps a revoked record from
\* being overwritten by base.
RevokedStaysFailed ==
    \A r \in Revokers : revoke[r].pc = "done" =>
        \A i \in revoke[r].ids : record[i] = "FAILED"
=============================================================================
