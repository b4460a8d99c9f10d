------------------------- MODULE SubscriptionTasks -------------------------
(***************************************************************************)
(* The tasks of one subscription: calls of the run API, the periodic       *)
(* trigger and the retry API each create a SubscriptionTask, have          *)
(* create_task replace the latest records of the instances it acts on, and *)
(* start a pipeline over what it finds as latest                           *)
(* (apps/backend/subscription/tasks.py and handler.py).  None of this is   *)
(* in a transaction: the statements of the calls interleave.  A record is  *)
(* known by the call that created it and its instance; a pipeline, which   *)
(* ActivityChain describes, only starts and ends each record here, and no  *)
(* matter how it ends.                                                     *)
(* A definition named Mut... is the next one with a plausible mistake, for *)
(* the mutation runs that PROJECT.json lists.                              *)
(***************************************************************************)
EXTENDS Integers, FiniteSets

CONSTANTS
    Instances,  \* instances in the scope of the subscription
    Calls,      \* calls that create a task
    NoCall      \* none of them

ASSUME InstancesAssumption == IsFiniteSet(Instances)
ASSUME NoCallAssumption == NoCall \notin Calls

VARIABLES
    pc,       \* where each call is
    kind,     \* how it came about: run API, periodic trigger or retry API
    row,      \* its SubscriptionTask: not created yet, there, or deleted
    ready,    \* SubscriptionTask.is_ready
    err,      \* whether SubscriptionTask.err_msg is set
    actions,  \* keys of instance_actions
    created,  \* instances in to_be_created_records_map
    status,   \* status of the record a call created for an instance
    latest,   \* its is_latest
    member,   \* whose record of the instance the call's pipeline works on
    work      \* how far that pipeline is with it

taskVars == <<row, ready, err>>
recordVars == <<status, latest>>
pipelineVars == <<member, work>>
vars == <<pc, kind, taskVars, actions, created, recordVars, pipelineVars>>

NoRecord == "NONE"
Unfinished == {"PENDING", "RUNNING"}
EndStatus == "SUCCESS or FAILED"

\* inside create_task and its decorators, by the statement reached
Creating == {"begun", "unset", "inserted", "saved", "ready"}
Ended == {"idle", "rejected", "done"}

TypeOK ==
    /\ pc \in [Calls -> Creating \union Ended \union {"failed", "crashed"}]
    /\ kind \in [Calls -> {"none", "run", "auto", "retry"}]
    /\ row \in [Calls -> {"none", "exists", "deleted"}]
    /\ ready \in [Calls -> BOOLEAN]
    /\ err \in [Calls -> BOOLEAN]
    /\ actions \in [Calls -> SUBSET Instances]
    /\ created \in [Calls -> SUBSET Instances]
    /\ status \in [Calls -> [Instances -> {NoRecord, EndStatus} \union Unfinished]]
    /\ latest \in [Calls -> [Instances -> BOOLEAN]]
    /\ member \in [Calls -> [Instances -> Calls \union {NoCall}]]
    /\ work \in [Calls -> [Instances -> {"none", "todo", "going"}]]

Init ==
    /\ pc = [c \in Calls |-> "idle"]
    /\ kind = [c \in Calls |-> "none"]
    /\ row = [c \in Calls |-> "none"]
    /\ ready = [c \in Calls |-> FALSE]
    /\ err = [c \in Calls |-> FALSE]
    /\ actions = [c \in Calls |-> {}]
    /\ created = [c \in Calls |-> {}]
    /\ status = [c \in Calls |-> [i \in Instances |-> NoRecord]]
    /\ latest = [c \in Calls |-> [i \in Instances |-> FALSE]]
    /\ member = [c \in Calls |-> [i \in Instances |-> NoCall]]
    /\ work = [c \in Calls |-> [i \in Instances |-> "none"]]
-----------------------------------------------------------------------------
\* Subscription.is_running
IsRunning == \E c \in Calls, i \in Instances : latest[c][i] /\ status[c][i] \in Unfinished

\* the records of an instance that are marked latest
LatestOf(i) == {c \in Calls : latest[c][i]}

Goto(c, loc) == pc' = [pc EXCEPT ![c] = loc]

\* create_task is left, its locals go
Return(c) ==
    /\ actions' = [actions EXCEPT ![c] = {}]
    /\ created' = [created EXCEPT ![c] = {}]

\* SubscriptionHandler.run and update_subscription_instances_chunk: refuse or
\* skip while an instance is running, else create the task and go on, in
\* another worker or right here.
Request(c) ==
    /\ pc[c] = "idle"
    /\ \E k \in {"run", "auto"} : kind' = [kind EXCEPT ![c] = k]
    /\ IF IsRunning
       THEN Goto(c, "rejected") /\ row' = row
       ELSE Goto(c, "begun") /\ row' = [row EXCEPT ![c] = "exists"]
    /\ UNCHANGED <<ready, err, actions, created, recordVars, pipelineVars>>

\* SubscriptionHandler.retry asks nothing about running instances, but needs
\* records to retry: the failed ones, or those of the instances it is given.
Retry(c) ==
    /\ pc[c] = "idle"
    /\ \E i \in Instances, d \in Calls : status[d][i] # NoRecord
    /\ kind' = [kind EXCEPT ![c] = "retry"]
    /\ Goto(c, "begun")
    /\ row' = [row EXCEPT ![c] = "exists"]
    /\ UNCHANGED <<ready, err, actions, created, recordVars, pipelineVars>>

\* What the call may act on: whatever migrates, or what there is to retry.
Targets(c) ==
    IF kind[c] = "retry"
    THEN {i \in Instances : \E d \in Calls : status[d][i] # NoRecord}
    ELSE Instances

\* create_task up to its first write: A is what instance_actions names, R what
\* is left of it without instances that are suppressed or out of scope.  The
\* old records of all of A stop being the latest.
UnsetLatest(c) ==
    /\ pc[c] = "begun"
    /\ \E A \in SUBSET Targets(c) : \E R \in SUBSET A :
          /\ R # {}
          /\ actions' = [actions EXCEPT ![c] = A]
          /\ created' = [created EXCEPT ![c] = R]
          /\ latest' = [d \in Calls |->
                [i \in Instances |-> latest[d][i] /\ i \notin A]]
    /\ Goto(c, "unset")
    /\ UNCHANGED <<kind, taskVars, status, pipelineVars>>

\* create_task finding nothing to do: a triggered task goes away again
\* (SubscriptionInstanceEmpty), any other is ready, with no pipeline to run.
NothingToDo(c) ==
    /\ pc[c] = "begun"
    /\ IF kind[c] = "auto"
       THEN row' = [row EXCEPT ![c] = "deleted"] /\ ready' = ready
       ELSE ready' = [ready EXCEPT ![c] = TRUE] /\ row' = row
    /\ Goto(c, "done")
    /\ UNCHANGED <<kind, err, actions, created, recordVars, pipelineVars>>

BulkCreate(c) ==
    /\ pc[c] = "unset"
    /\ status' = [status EXCEPT ![c] = [i \in Instances |->
            IF i \in created[c] THEN "PENDING" ELSE NoRecord]]
    /\ latest' = [latest EXCEPT ![c] = [i \in Instances |-> i \in created[c]]]
    /\ Goto(c, "inserted")
    /\ UNCHANGED <<kind, taskVars, actions, created, pipelineVars>>

MutAnyRecord(c) ==
    {m \in [Instances -> Calls \union {NoCall}] : \A i \in Instances :
        LET found == {d \in Calls : status[d][i] # NoRecord}
        IN  IF i \in actions[c] /\ found # {} THEN m[i] \in found ELSE m[i] = NoCall}

MutPartialMap(c) == {m \in [actions[c] -> Calls] : \A i \in actions[c] : m[i] \in LatestOf(i)}

\* create_pipeline on the records that were read back, the latest ones of these
\* instances.  It keeps one for each: which, if another call has put one there
\* as well, is up to the order of the rows.
Members(c) ==
    {m \in [Instances -> Calls \union {NoCall}] : \A i \in Instances :
        IF i \in actions[c] /\ LatestOf(i) # {} THEN m[i] \in LatestOf(i)
                                                 ELSE m[i] = NoCall}

\* The new records are read back and bound to a pipeline.  The tree, the pipeline
\* ids of the records and the task's are then written; nothing here reads them.
Requery(c) ==
    /\ pc[c] = "inserted"
    /\ \E m \in Members(c) : member' = [member EXCEPT ![c] = m]
    /\ Return(c)
    /\ Goto(c, "saved")
    /\ UNCHANGED <<kind, taskVars, recordVars, work>>

\* create_task_transaction after create_task returned
SetReady(c) ==
    /\ pc[c] = "saved"
    /\ ready' = [ready EXCEPT ![c] = TRUE]
    /\ Goto(c, "ready")
    /\ UNCHANGED <<kind, row, err, actions, created, recordVars, pipelineVars>>

\* run_subscription_task
RunPipeline(c) ==
    /\ pc[c] = "ready"
    /\ work' = [work EXCEPT ![c] = [i \in Instances |->
            IF member[c][i] # NoCall THEN "todo" ELSE "none"]]
    /\ Goto(c, "done")
    /\ UNCHANGED <<kind, taskVars, actions, created, recordVars, member>>

\* run_subscription_task raises, no worker say.  Only calls that came through
\* run_subscription_task_and_create_instance have its decorator to notice.
MutKeepReady(c) ==
    /\ pc[c] = "ready" /\ Goto(c, "failed")
    /\ row' = IF kind[c] = "auto" THEN [row EXCEPT ![c] = "deleted"] ELSE row
    /\ err' = IF kind[c] = "run" THEN [err EXCEPT ![c] = TRUE] ELSE err
    /\ UNCHANGED <<kind, ready, actions, created, recordVars, pipelineVars>>

RunFails(c) ==
    /\ pc[c] = "ready"
    /\ Goto(c, "failed")
    /\ row' = IF kind[c] = "auto" THEN [row EXCEPT ![c] = "deleted"] ELSE row
    /\ ready' = IF kind[c] = "run" THEN [ready EXCEPT ![c] = FALSE] ELSE ready
    /\ err' = IF kind[c] = "run" THEN [err EXCEPT ![c] = TRUE] ELSE err
    /\ UNCHANGED <<kind, actions, created, recordVars, pipelineVars>>

\* An exception before is_ready is set: the decorators delete a triggered task,
\* and record the error in any other.
MutForgetError(c) ==
    /\ pc[c] \in Creating \ {"ready"} /\ Goto(c, "failed")
    /\ row' = IF kind[c] = "auto" THEN [row EXCEPT ![c] = "deleted"] ELSE row
    /\ err' = IF kind[c] = "run" THEN [err EXCEPT ![c] = TRUE] ELSE err
    /\ Return(c)
    /\ UNCHANGED <<kind, ready, recordVars, pipelineVars>>

CreateFails(c) ==
    /\ pc[c] \in Creating \ {"ready"}
    /\ Goto(c, "failed")
    /\ IF kind[c] = "auto"
       THEN row' = [row EXCEPT ![c] = "deleted"] /\ err' = err
       ELSE err' = [err EXCEPT ![c] = TRUE] /\ row' = row
    /\ Return(c)
    /\ UNCHANGED <<kind, ready, recordVars, pipelineVars>>

\* The worker is gone; nothing takes the task up again.
Crash(c) ==
    /\ pc[c] \in Creating
    /\ Goto(c, "crashed")
    /\ Return(c)
    /\ UNCHANGED <<kind, taskVars, recordVars, pipelineVars>>
-----------------------------------------------------------------------------
\* The pipeline of c starts on S, one chunk of it: HEAD sets its records
\* RUNNING, whatever they were ...
StartRecords(c, S) ==
    /\ S # {} /\ \A i \in S : work[c][i] = "todo"
    /\ work' = [work EXCEPT ![c] = [i \in Instances |->
            IF i \in S THEN "going" ELSE work[c][i]]]
    /\ status' = [d \in Calls |-> [i \in Instances |->
            IF i \in S /\ member[c][i] = d THEN "RUNNING" ELSE status[d][i]]]
    /\ UNCHANGED <<pc, kind, taskVars, actions, created, latest, member>>

\* ... and the records end, each in an activity of its own.
EndRecord(c, i) ==
    /\ work[c][i] = "going"
    /\ work' = [work EXCEPT ![c][i] = "none"]
    /\ status' = [status EXCEPT ![member[c][i]][i] = EndStatus]
    /\ UNCHANGED <<pc, kind, taskVars, actions, created, latest, member>>

\* check_zombie_sub_inst_record on the unfinished records whose update_time is
\* in its window; which calls they are of is left open.
MutSweepRunning ==
    /\ \E Old \in SUBSET Calls :
          /\ \E c \in Old, i \in Instances : status[c][i] = "RUNNING"
          /\ status' = [c \in Calls |-> [i \in Instances |->
                IF c \in Old /\ status[c][i] = "RUNNING" THEN EndStatus ELSE status[c][i]]]
    /\ UNCHANGED <<pc, kind, taskVars, actions, created, latest, pipelineVars>>

CheckZombies ==
    /\ \E Old \in SUBSET Calls :
          /\ \E c \in Old, i \in Instances : status[c][i] \in Unfinished
          /\ status' = [c \in Calls |-> [i \in Instances |->
                IF c \in Old /\ status[c][i] \in Unfinished THEN EndStatus ELSE status[c][i]]]
    /\ UNCHANGED <<pc, kind, taskVars, actions, created, latest, pipelineVars>>
-----------------------------------------------------------------------------
\* the worker that carries the call on, and its good end
Proceed(c) ==
    \/ UnsetLatest(c) \/ NothingToDo(c) \/ BulkCreate(c) \/ Requery(c)
    \/ SetReady(c) \/ RunPipeline(c)

Work(c) ==
    \/ \E S \in SUBSET Instances : StartRecords(c, S)
    \/ \E i \in Instances : EndRecord(c, i)

Next ==
    \/ \E c \in Calls : Request(c) \/ Retry(c) \/ Proceed(c) \/ Work(c)
    \/ \E c \in Calls : CreateFails(c) \/ RunFails(c) \/ Crash(c)
    \/ CheckZombies

\* The workers never stop; as every call takes finitely many steps, none is
\* starved for ever.
Fairness ==
    /\ WF_vars(\E c \in Calls : Proceed(c) \/ Work(c))
    /\ WF_vars(CheckZombies)

Spec == Init /\ [][Next]_vars /\ Fairness
-----------------------------------------------------------------------------
\* A failed call that the outer decorator watched is seen to have failed: a
\* triggered task is gone, one of the API is not ready and has its error.
FailureIsReported ==
    \A c \in Calls : pc[c] = "failed" /\ kind[c] # "retry" =>
        IF kind[c] = "auto" THEN row[c] = "deleted" ELSE err[c] /\ ~ready[c]

\* When every call came to a good end, an instance with latest records has one
\* of them in a pipeline: however the calls interleaved, it is not left with
\* records that look current and that nothing ever ran.
LatestIsServed ==
    (\A c \in Calls : pc[c] \in Ended) =>
        \A i \in Instances : LatestOf(i) # {} =>
            \E c \in Calls : member[c][i] \in LatestOf(i)

\* Callers polling check_task_ready are answered, once and for all: each task is
\* ready, or has an error, or is gone, unless its worker died.
CallersAreAnswered == <>[](\A c \in Calls : row[c] = "exists" =>
    ready[c] \/ err[c] \/ pc[c] = "crashed")

\* The subscription does not stay blocked by its own running check: whatever
\* failed or crashed half-way, no latest record is unfinished for ever.
FreesUp == []<>~IsRunning

\* The message of InstanceTaskIsRunning: calls that ask first do not dispatch
\* a second task to an instance while one runs on it.
NoDuplicateDispatch ==
    \A i \in Instances : \A c, d \in {e \in Calls : kind[e] # "retry"} :
        work[c][i] = "going" /\ work[d][i] = "going" => c = d

\* The comment of the outer decorator: is_ready does not stay True on a task
\* that is there but was in fact not created.
FailedIsNotReady ==
    \A c \in Calls : pc[c] = "failed" /\ row[c] = "exists" => ~ready[c]
=============================================================================
