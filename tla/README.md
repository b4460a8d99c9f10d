# bk-nodeman: a verification project

TLA+ models of the part of bk-nodeman that carries out deployments: how a
subscription's tasks are created and dispatched, how the engine runs their
pipelines, how the instances of a task walk through their activities and share the
distribution of packages, how policies and their patrol decide what is to be done,
and how changes of the CMDB are picked up, while users revoke, workers die and
periodic jobs write the same rows. The models are checked with TLC; every safety
property that a passing run checks, both refinements included, is also proved with
TLAPS. Paths are relative to the repository.

## 1. Inventory

bk-nodeman installs agents and plugins on hosts. The SaaS side (`apps/node_man`)
keeps hosts, jobs and policies; the backend (`apps/backend`) runs *subscriptions*:
a scope of instances and the steps to carry out on each. Everything is Django
models in one MySQL database, Celery tasks on several workers, Celery beat, and
an embedded pipeline engine (`pipeline/`). There is next to no locking and, apart
from single statements, no transaction: processes meet in the rows they write.

| Component | State | Operations | What is hard |
|---|---|---|---|
| Activity execution, `apps/backend/components/collections/base.py` | `SubscriptionInstanceRecord.status`, `SubscriptionInstanceStatusDetail.status` per activity, `ProcessStatus.retry_times`, the service object with its map of failed instances | `execute`, `schedule`, both through `run`; `exception_handler` | writers from outside between any two statements; instances of one chunk failing one by one; polling |
| Pipeline engine, `pipeline/engine` | `PipelineProcess` rows with `ack_num` and `need_ack`, `Status` with versions, `ScheduleService` rows, Celery messages | fork, join, run a node, poll it, fail it, retry, revoke, cure | who wakes the parent, late polls, retries and revokes under way, dead workers, rows saved whole |
| Revoke, `apps/backend/subscription/handler.py` | records | two writes of FAILED, one second apart | racing with the activity that writes the same rows |
| Zombie sweep, `apps/backend/periodic_tasks/check_zombie_sub_inst_record.py` | records, details | every 15 minutes, fails what was last updated 30 to 60 minutes ago | missed beats; healthy but slow chains |
| Task creation, `apps/backend/subscription/tasks.py` and `handler.py` | `SubscriptionTask` (`is_ready`, `err_msg`), records with `is_latest`, pipeline trees | run API, periodic trigger, retry API, `create_task`, `run_subscription_task` | check-then-act over several workers, failures between statements, two layers of decorators |
| Migration decisions, `apps/backend/subscription/steps/plugin.py`, carried out by `components/collections/plugin.py` | `ProcessStatus` rows: status, version, `is_latest`, `retry_times` | the patrol's decision, the activities of an action | retry limit, manual stops, rows written by several tasks and the synchronisation |
| Policy suppression, `Subscription.check_is_suppressed` in `apps/node_man/models.py` | reads the same rows | priority between policies of a host | who governs follows from who ran last; ties |
| Policy and plugin operations, `node_man/handlers/policy.py`, `plugin_v2.py` | policies, enabled or not | edit, stop, start, delete, delete a canary, one-off operations | tasks under way |
| Bulk file push, `components/collections/bulk_job_redis.py` with the lock of `bulk_job.py` | Redis: status and job of each host, the waiting sets, the time of the last poll; two locks with expiry | collect, push once for all, poll for all | lease expiry, order of the writes, who polls, timeouts |
| Resource watch, `apps/node_man/periodic_tasks/resource_watch_task.py` | cursor, stored events, a lease in the settings table, debounce flags | watch, apply, trigger | lease take-over, duplicated events, dropped triggers |
| Job collection and statistics, `collect_auto_trigger_job.py`, `calculate_statistics.py` | `Job`, a pointer and a map of not-ready tasks in the settings | create jobs for triggered tasks, sum up statuses | tasks that disappear, pointer passing tasks |
| Agent tasks, packaging, CMDB and GSE synchronisation, SaaS CRUD, front end | | | remote I/O or plain CRUD |

How they interact: the run API, the trigger (every 15 minutes, or debounced from
CMDB events) and the retry API create a `SubscriptionTask`; `create_task` turns it
into records and a pipeline with parallel chains, one per 500 instances of equal
actions; the engine calls `BaseService.execute` and `schedule` of each activity of
a chain in turn; each activity passes on the ids that succeeded; the first (HEAD)
and the last (TAIL) set the records' final statuses. Revoke and sweep reach into
the same records. `is_running` reads them back to refuse further tasks, the
decisions read the retry counters, the statistics the statuses. The activities of agent
pipelines gather their hosts in Redis to push a package once for all of them.

What makes each correct: records and details tell the truth about what was done
(activities); a revoke stops work (revoke); nothing stays running for ever (sweep);
a caller learns what became of its task, one pipeline per instance at a time
(creation); the join happens once, each branch has one worker and a pipeline that stands
still says why (engine); the patrol comes to rest, leaves alone what was stopped by hand, and
the policy that governs a host has its version there, up to races with the synchronisation that section 2 names (decisions, suppression); each
waiter follows a job that is for it and gets an answer (bulk push);
each event is applied, in order, by one process (watch); each triggered task gets
one job (collection).

All hazards found while reading, with their lines, are in `PROJECT.json`.

## 2. Modules

### ActivityChain

One chunk of instances going through the chain that `build_instances_task` builds.
`Init` is the chain as it is submitted. The rows are `record`, `detail` (one per
activity and instance) and `retryTimes`; `act`, `pc`, `ids`, `failed`, `succ`,
`finished` and `polls` are the pipeline process and its service object. `run` is cut
wherever it touches the database:

| Action | Code |
|---|---|
| `Execute` | `execute`: the details are created; the HEAD write of `run` |
| `RunService` | `_execute` or `_schedule`: any instances go to the failed map, the schedule may finish |
| `ReadRevoked` | the query for records failed from outside |
| `WriteRevoked`, `WriteFailed` | `bulk_set_sub_inst_act_status(..., FAILED)` for the two groups, retry counters included; after the second, `run` may return to wait for its next schedule |
| `WriteSuccess`, `WriteTail` | details SUCCESS, then for TAIL the records |
| `NextActivity` | the engine on the result of `run`: next activity, or the node fails |
| `Raise` | `exception_handler` |
| `Crash` | a dead worker, or a schedule message that is lost; no task is redelivered (`acks_late` is not set) |
| `RevokeRead`, `RevokeWrite`, `SetRecordStatus` | `get_running_instance_records`, the first write of `revoke`, the delayed second |
| `CheckZombies`, `MissBeat` | a beat on which the sweep runs, or does not |

Time is counted in beats of the sweep, since the record's last `update_time`; 30 and 60
minutes are then the third and fourth beat after it (`ZombieAfter`, `ZombieUntil`). Only
unfinished records matter to the sweep, and their `update_time` moves at HEAD
only, so one age serves all of a chunk. `revoke[r].at` is not in the code: it notes how
far the chain was when the revoke landed.

Abstractions: the three statements that fail an instance are one step (no property
sees between them); an exception inside `exception_handler` itself is left out, that
is, the database answers there; what a service does to hosts is left out.

### RecordLifecycle

What everything else relies on of a record's status: PENDING, then RUNNING, then
SUCCESS or FAILED, once (FAILED may be written again). `ActivityChain` left alone
(`EngineSpec`) implements it; with revoke and sweep it does not, which is the code's
behaviour and the reason for the weaker `SuccessIsEarned` and
`RevokeStopsWithinOneActivity`.

### SubscriptionTasks

Several calls creating tasks over one subscription. Per call: how far it is (`pc`),
the task row (`row`, `ready`, `err`), the locals of `create_task` (`actions`,
`created`), the records it created (`status`, `latest`) and its pipeline (`member`,
whose record of each instance the pipeline works on; `work`).

| Action | Code |
|---|---|
| `Request` | `SubscriptionHandler.run`, `update_subscription_instances_chunk`: `is_running`, then the task row |
| `Retry` | `SubscriptionHandler.retry` |
| `UnsetLatest` | `create_task` up to `is_latest=False`; suppression and instances out of scope leave any non-empty rest |
| `NothingToDo` | the early return, `SubscriptionInstanceEmpty` for a triggered task |
| `BulkCreate`, `Requery` | `bulk_create`; the records read back as the latest and bound to a pipeline (`Members`) |
| `SetReady`, `RunPipeline` | `create_task_transaction` on success, `run_subscription_task` |
| `CreateFails`, `RunFails` | the two decorators on an exception before and after `is_ready` |
| `Crash` | a dead worker |
| `StartRecords`, `EndRecord` | what `ActivityChain` does to the records, without its inside |
| `CheckZombies` | the sweep, without its clock |

Agent tasks (another branch of `create_task`, one pipeline per instance) and
`preview_only` are left out. An exception is taken to have a text: `err_msg` is `str(err)`
(`tasks.py:220` and 446), and of one without text a caller would learn nothing.

### ForkJoin and PipelineProcess

`ForkJoin` is what a parallel gateway promises: it forks once, joins once, after every
branch has arrived, and the pipeline finishes after that or is stopped.
`PipelineProcess` is how `pipeline/engine` does it, with rows that several workers
load, change and save whole: `row` (the `PipelineProcess` of each branch: alive,
asleep, current node), `rootRow` with `ack` and `need`, `pipeline` and `node` with
`ver` (the `Status` rows and their versions), `scheds` (`ScheduleService`). On their
way are `queue` and `calls` (Celery messages to branches and to the root) and `polls`.
`loop` is where up to two workers of a branch are within `run_loop`, `root` the
worker of the root process, `api` and `todo` the revoke call.

| Action | Code |
|---|---|
| `Start`, `Fork`, `RootSleep`, `RootWakeUp`, `Sync`, `End` | the root process: `start`, `ParallelGatewayHandler`, `PipelineProcess.sleep` with its children, `wake_up`, `ConvergeGatewayHandler`, `EndEventHandler` |
| `Take` | a worker receives `dispatch`, `process_wake_up` or `wake_from_schedule` |
| `SeeRevoked`, `Go`, `Ack` | one turn of `run_loop`: revoked, the next node, the destination |
| `Succeed`, `Fail`, `SetSchedule` | `ServiceActivityHandler`, by what the activity does |
| `Adjust`, `Block`, `Sleep` | `PipelineProcess.sleep` with `adjust_status` |
| `WakeParent`, `BlockParent`, `Destroy` | `destroy_and_wake_up_parent`, under the lock of the parent's row |
| `Poll`, `PollAgain`, `PollEnd`, `WakeFromSchedule`, `ScheduleFailed` | `core/schedule.py`, cut where it reads or writes a row |
| `Die` | a worker is lost while it executes an activity |
| `Cure` | `RunningNodeZombieDoctor` |
| `Retry` | `retry_node` |
| `Revoke`, `ForcedFail`, `RevokePipeline`, `DestroyAll` | `force_fail_and_revoke_pipeline`: read the current nodes, fail each, set the status, destroy the processes |

What is assumed of time: the countdown before a first poll (5 seconds and more)
outlasts what its sender still has to do (`CountdownOver`), and the doctor, who waits
`max_stuck_time` (1200 seconds), finds no worker executing the node it cures, though
it may find one that is polled. Workers run on eventlet, where revoking a Celery
task only drops what has not begun. Left out: pausing and freezing, subprocesses
(the nodes of one are a branch here), data exchange between nodes, a worker lost
outside an activity, a retry while the revoke call runs. The check of a transition
and the write that follows it are one step. `ForcedFail` takes the writes of
`forced_fail` (`engine/api.py:494` and 503-512) as one step and drops all messages of the
branch. `arrived`, `hasty` and `TooLate` are not
in the code: they note who has acknowledged, that a retry overtook a worker, and that a
revoke found the pipeline finished.

A retry overtakes a worker (`Unsettled`) when one of the same branch has still to look at
its failed node, or any has yet to block the pipeline for a failure or to put a process to
sleep, which it does by saving the row it read before. The proofs drew this line. A first
version marked fewer of these retries and did not except them from `InOrder`; the run
`pipeline` found nothing wrong with it, but neither `InOrder` nor `StillSaysWhy` was
provable, and TLC then showed why on other instances. A worker that goes to sleep late,
after its activity was retried and the branch went on, sets the row back to the activity
it was at: the next retry starts from there again, and a worker of another branch, which
looks for a failure at the current node of each row, finds none.

The refinement maps `arrived` to the branches no longer missing, and the status with
`need_ack` to the stage: `ImplementsForkJoin` says that the counters in the row,
reset by whoever finds them complete, do what a barrier does.

### PluginPatrol

One plugin on one host, which policies and one-off operations of users compete for.
Per subscription: `wanted`, `enabled`, `scope`, its `ProcessStatus` row (`row`) and
the activities its task still has to run (`task`); `host` is the plugin as GSE sees it,
`loose` a latest row that belongs to no subscription, `sync` the synchronisation under
way: what GSE has said, and the row it will be written to.

| Action | Code |
|---|---|
| `Patrol` | `update_subscription_instances_chunk` and `make_instances_migrate_actions`: given up, stopped by hand, suppressed (`check_is_suppressed`), out of scope, or an action |
| `InitProcessStatus`, `Operate`, `UpdateHostProcessStatus`, `DeleteSubscription`, `Fail` | the activities of the action (`steps/plugin.py`, `components/collections/plugin.py`) |
| `QueryProcStatus`, `ReadRows` | `update_or_create_proc_status` asks GSE, then looks for the latest row and decides what to write |
| `Sync`, `SyncLate` | its `bulk_update` by primary key and `bulk_create`; late, if something it relies on has changed since or a task is under way |
| `SyncLost` | its worker is lost |
| `EditPolicy`, `PolicyOperate`, `Disable`, `DeleteGray`, `Once` | `handlers/policy.py`, `plugin_v2.py` |
| `ClearLatest` | `UpdateHostProcessStatus` seen between its two statements |
| `MoveHost`, `Crash` | the CMDB, the host |

GSE says one of three things of a plugin (`PLUGIN_STATUS_DICT`): running, not running
(TERMINATED) or not registered (UNREGISTER, status 0); which of the last two may be said of
one that is down is the constant `DownAs`. The difference matters. The mark of a manual stop
is kept against TERMINATED only, and `make_instances_migrate_actions` acts on UNKNOWN and
TERMINATED only: an UNREGISTER erases the mark, and a plugin of the right version that is so
reported is left down. `StaysStopped` and `Converges` have that as their exceptions.

What a synchronisation writes may be old in two ways: GSE answered before a stop, a start
or an installation, or the row it found is no longer the latest, or is marked by now.
`Agrees` says that neither is the case, nor did a row appear where it means to create
one. `StaysStopped` asks that no such synchronisation is under way when the plugin
is stopped (`Heard`). It has to: a RUNNING that GSE said before the stop and that is
written after it erases the mark, the next synchronisation says TERMINATED, and a patrol
starts the plugin, against what `handle_manual_op_instances` is for (`steps/plugin.py:373`);
TLC shows this within the bounds of the run, one operation and one slip, for the statement without
`Heard`, that the patrol starts no task until the next operation. A row that is detached from
its policy, or deleted, ends the synchronisation that knows it (`Forget`): what is written
then is to a row of no subscription, or to none.

Activities that write only rows of their own subscription are taken together. Two things
would livelock if they came about for ever, and are bounded by `MaxSlips`, together with a
plugin that goes down: a synchronisation that writes late or in the middle of a task, and
somebody who comes between the two statements that make a row the latest (`ClearLatest`). The
second is a race of the code in which two policies take the host from each other; TLC shows it
when it is not bounded. `Quiesces` and `Converges` are therefore about finitely many of them;
beyond the bound, a synchronisation that would be late is lost. One synchronisation is under
way at a time (the period spreads the hosts over its 15 minutes), and GSE is taken to report
the version that is installed. Changes of configuration, `target_hosts` and several instances
of a host are left out.

### BulkPush

`JobBulkPushFileV2Service`, for one package: hosts gather in a waiting set in Redis,
one of them pushes for all, then one at a time polls for all. `status`, `job`, `wait`
and `polled` are the Redis keys, `lock` the two locks with a lease, `jobs` the targets
of the jobs on the job platform; `mode`, `time`, `pc`, `carry` are each node's outputs
and what its schedule has read.

| Action | Code |
|---|---|
| `Execute`, `Trigger`, `Acquire`, `Validate`, `FastPushFile` | `_execute`; `_schedule` in `TRIGGER_JOB` and `bulk_push_file` up to the call of the job platform |
| `Remove`, `Assign`, `Mark`, `Stamp` | its four writes to Redis afterwards |
| `Poll`, `Throttle`, `Apply` | `_schedule` in `POLL_FILE_PUSH_STATUS` |
| `Cool` | five seconds since the last poll |
| `Overrun`, `Lose`, `Expire` | a lease of 20 seconds runs out under its holder; a worker is lost; its lock expires |

The verdict of the job platform is arbitrary, but that a finished job has one for each
target. The first poll of a host that has been marked comes five seconds later, after
the time of the last poll is stamped too, unless the worker was lost. The two writes of
`_execute` commute and are one step. The hour after which the keys expire is left out.
The first variant of the service (`bulk_job.py`) is no longer used by any step; of it
the lock is modelled.

### ResourceWatch

Two loops that run in several deployments: watchers record CMDB events and advance the
cursor, appliers carry out the oldest record. `lease` is the row of `GlobalSettings`
of each loop, `pc`, `have` and `kwargs` are a process, `cursor` the cache,
`records` and `applied` the table of events, `source` and `mirror` the last change in
the CMDB and the one the nodes database shows.

| Action | Code |
|---|---|
| `Look`, `Delete`, `Wake`, `Renew` | `is_lock`, cut at the database and at its sleep of 70 seconds |
| `Fetch`, `Record`, `SetCursor` | `_resource_watch` |
| `Pick`, `Handle`, `DeleteEvent` | `apply_resource_watched_events` |
| `Restart`, `Overrun` | a process is lost, or takes more than a minute |
| `Forget` | the cursor's 120 seconds in the cache are over while nobody renews it |

Time is left out: a lease is stale when its owner was lost or overran it. `late` and
`missed` are not in the code: they note that a process outlived its lease or deleted
a row renewed meanwhile, and that an event was passed over because a process had to start
without a cursor or failed to apply it (the periodic synchronisation makes up for that).
A takeover lasts 130 seconds at least, so the second does happen. The
two watchers, of hosts and of their relations, have leases and cursors of their own:
one stands for both. The debounced trigger of subscriptions is not modelled.

### MC modules

`MCActivityChain` names the sets of polling activities and `QuietSpec`, one
deployment without disturbance. `MCPipelineProcess` gives one of its two branches a
polled activity and one to go on to, and the other a single activity;
`MCPluginPatrol` ranks the canary above its policy. `MCSubscriptionTasks`,
`MCBulkPush` and `MCResourceWatch` only name what is used.
Definitions named `Mut...` in the modules are plausible mistakes in the
definition after them; each property is shown to be violated by one of them.

## 3. Runs

| Run | Shows |
|---|---|
| `chain` | types; `SuccessIsEarned`, `OnlySucceededAdvance`, `EndedLeavesNothingRunning`, `RevokeStopsWithinOneActivity`; `EveryRecordSettles` with a crash and a missed beat |
| `chain_lifecycle` | refinement of `RecordLifecycle`, and that every chunk settles |
| `chain_retry` | violated: one failure in a polling activity counts as several retries |
| `chain_revoke` | violated: both writes of a revoke before HEAD, and the revoke is gone |
| `tasks` | `FailureIsReported`, `LatestIsServed`, `CallersAreAnswered`, `FreesUp` |
| `tasks_duplicate` | violated: `is_running` does not keep two calls apart |
| `tasks_ready` | violated: a retried task stays ready although its pipeline was not started |
| `pipeline` | `NoTwins`, `StillSaysWhy`, `InOrder`, `FinishedIsComplete`, and that the processes implement `ForkJoin`, with two mishaps |
| `pipeline_settles` | `Settles`, `RevokedComesToRest`, with one mishap |
| `patrol` | `StaysStopped`, `Quiesces`, `Converges`, with one operation of users, one slip and one retry |
| `bulk_push` | `HolderHolds`, `FollowsItsJob`, `NothingBreaks`, `PushedOnce`, `Settles`, with two leases overrun or workers lost |
| `resource_watch` | `OneAtWork`, `NothingSkipped`, `UpToDate`, `Mirrors`, with one restart, overrun or error |

The four violated statements are quoted from comments, messages and logs of the
code; `findings` in `PROJECT.json` gives the lines and what happens.

Bounds, and why they are enough. Three activities are the least with a HEAD, a TAIL
and one that is neither; the middle one polls in `chain`, HEAD and TAIL in
`chain_lifecycle`. Two instances show one failing and one going on; instances do not
influence each other otherwise, except through `succ` being empty. `MaxPolls = 2` lets
an activity wait, fail someone and wait again. `RetryCap` stops the counter. One revoke
(it may come at any time, with any targets) and one missed beat: the window holds two
beats, so two missed in a row are the case the code does not cover. Two calls of any
kind over two instances: the races of `SubscriptionTasks` are between pairs, and two
instances let one be suppressed while the other goes on. `CHECK_DEADLOCK FALSE` is set
where a chain, all calls or a pipeline come to an end; in `chain` the sweep goes on for ever.

`pipeline`: two branches, one of two activities with the first polled, one of a single
activity: the least with a branch that goes on, a poll and somebody to wait for; two
mishaps (retries, lost workers, a revoke) meet in any order, 1.2 million states. The
liveness properties are checked with one mishap. Versions, polls and messages need no
bound: they grow with mishaps only. `patrol`: a policy, its canary and
one one-off operation, two versions, one retry, one operation (or a host that moves) and one
slip: a third policy adds no relation that two and an operation do not have, the canary and
its policy compete from the beginning, and any operation meets any slip and any failures,
in 0.6 million states. Two operations in a row are covered for `StaysStopped` by its proof only.
`bulk_push`: two hosts, of which one may push for both or
each for itself, and two mishaps, so that both locks may be overrun, or one overtaken by a
worker that is lost in turn; `Patience` and `Timeout` are cut down to 1 and 2 polls.
`resource_watch`: two processes in each loop, two events, one mishap: a takeover with
everything that may be left behind, and a second event while it lasts (0.9 million states;
for any number of mishaps the safety properties hold by the proofs below).

Fairness. `WF(Engine)`: Celery workers take their messages unless they die, which
`Crash` allows at any time. `WF(CheckZombies)`: beat goes on. Weak fairness of the two
writes of a revoke: the request and its delayed task are carried out; `RevokeRead` is
the user's choice and not fair. In `SubscriptionTasks`, weak fairness of all workers
together: each call takes finitely many steps, so none is starved. Failures, crashes
and missed beats are never fair.

In `PipelineProcess`, weak fairness of the root, of the revoke call once made, of the
workers of each branch, of its polls and of the periodic doctor; strong fairness of
`PollEnd`, since a service is polled again and again but its timeout ends it. In
`PluginPatrol`, weak fairness of the patrol and the activities (they end, at a timeout if
need be) and of the synchronisation up to its last step, strong fairness of `Sync`: it is
periodic and independent of the patrol that may keep disabling it; `SyncLost` is in the first
so that one that may no longer write makes room for the next. In `BulkPush`, weak fairness of each node's schedule, of the
expiry of a lock whose holder has ended and of time passing (`Cool`): the engine polls
each node until it is done. In `ResourceWatch`, weak fairness of each process's turn; that
a stale lease is noticed follows. Users' operations, mishaps, expiry of the cursor and
changes of the CMDB are never fair.

## 4. Proofs

Each proof module assumes nothing but the `ASSUME`s of its component, and holds for every
value of the constants.

`ActivityChain_proofs`, for every finite non-empty set of instances, every number of
activities, every set of polling activities, every set of revokes and all bounds:

* `TypeCorrect`: `TypeOK`.
* `SuccessIsEarnedThm`, `OnlySucceededAdvanceThm`, `EndedLeavesNothingRunningThm`.
  None is inductive alone. `Shape` adds what a reader of `run` knows: nothing exists
  ahead of the current activity (`NothingAhead`), what the worker holds at each
  statement (`WorkInProgress`: `succ` and `failed` are disjoint parts of `ids`, and the
  details of the survivors are not yet final), the input of an activity is what
  succeeded in the one before (`Opened`), the failed ones are final (`FailuresWritten`),
  and before the TAIL write all details of the survivors are SUCCESS (`TailReached`).
  The revoke, the sweep and the exceptions only fail rows, which `OutsideStep` shows to
  be harmless once for all of them.
* `RevokeStopsThm`: besides, an instance that was revoked and is still on its way
  keeps its record FAILED until the query for revoked records drops it
  (`RevokeHolds`); only TAIL could undo that, and TAIL has no next activity.
* `ChainImplementsLifecycle`: every step of `EngineSpec` is one of `RecordLifecycle`,
  or changes no record. It needs that nobody else writes (`Alone`).

`SubscriptionTasks_proofs`, for any calls and instances: `TypeCorrect`,
`FailureReported` and `LatestServed`. The invariant is `CallsInv` (what a call has in hand
by where it is), `RecordsInv` (records exist only for calls that created them), `FreshInv`
and `ServedInv`: where the latest records of an instance are in no pipeline, a call is
between its insertion and its second query and will find them, or a call that created some
came to a bad end. Between two calls that overlap, either the later query finds both, or the
later `is_latest=False` takes one of them away.

`BulkPush_proofs`, for any number of hosts, mishaps and polls: `TypeCorrect`,
`HolderHoldsThm` and `FollowsItsJobThm`. `HolderHolds` needs its converse, `OwnersInv`: who
has a lock is in its block, or ended there, so that an overrun makes its holder, and
nobody else, overdue. `FollowsItsJob` needs that all targets of a job get it at once
(`JobsInv`) and that a schedule carries a job with the hosts that it started it for, or
one that all targets know (`CarryInv`); jobs are only ever added (`JobsStay`). The
twelve steps of a schedule are reduced to two, one that ends it (`Ends`) and one that goes
on (`Goes`), for what concerns the locks.

The second half of the module is about a push in which no lease runs out and no worker is
lost: `NothingBreaksThm` and `PushedOnceThm`. `SmoothInv` adds, for that case, what the
order of the writes to Redis is for: a host that is `not_job` is in the waiting set or in
the hands of a schedule that is about to mark it; what a schedule carries are hosts that
still wait, itself among them, so that the set it reads is never empty; who is told of a
job has one; the time of a poll is missing only until the schedule that started the job
stamps it; and the targets of a job have been told, or are about to be, which keeps them
out of the next one (`OnePusher` is where the lock comes in).

`PipelineProcess_proofs`, for any finite set of branches, any numbers of activities, any
polled ones and any number of mishaps: `TypeCorrect` and `PipelineImplementsForkJoin`, in
three layers, each used by the next.

* `Typed`: a worker, a poll and a message are about an activity of their branch, and no
  version is ahead of the node's own (`VersionGrows`: it only ever grows, which is what
  makes a stale poll recognisable for good).
* `Rooted`: where the root is says what the counters are. Before it forks nothing exists
  (`Nothing`); while `need_ack` is set it sleeps or is about to; beyond the gateway somebody
  has arrived and nobody calls it any more. `StatusOK` ties the status of the pipeline to
  the revoke call and the end of the root.
* `TokensOK`: until a revoke is through, the work of a branch is one token. It is a message,
  an active worker, or a poll that is still valid (`Excl`); a branch that has acknowledged
  has none (`Gone`), so it cannot acknowledge again, and `ack` is the number of those that
  have (`CountOK`). A retry makes a token only where there is none (`Focus`, `Healthy`): a
  node that can be retried has failed, and where there is a worker in it or a valid poll of
  it, it is RUNNING.

The step lemmas come in pairs: what an action does to its own branch (`BranchTake`,
`BranchGo`, ...), and that it leaves the others alone (`SameElsewhere`). The effect of each
action is stated once, pointwise (`TakeEffect`, `GoEffect`, ...).

`PipelineCalm_proofs` adds what holds while no revoke is under way and no retry has
overtaken a worker: `NoTwinsEver`, `InOrderEver`, `FinishedIsCompleteEver` and
`StillSaysWhyEver`.

* `CalmOK`: of a branch under way the row says at which activity it is, all before that have
  finished, and any worker, message or poll is about that activity (`InStep`); a branch
  that has arrived has finished them all (`Through`); whatever blocks the pipeline, or is
  about to, has a failed node to show for it (`BlockOK`), so that the root is not blocked
  when it is woken.
* `WatchOK`: nothing gets lost. A branch under way has something on its way or a node that
  says RUNNING, or sleeps over a failed one (`WatchBranch`); when all have arrived somebody is at the point of waking
  the root (`WakeDue`); a pipeline that is READY has a worker to be told (`ReadyFor`); a
  failure that does not block the pipeline yet is still in somebody's hands (`FailureSeen`,
  which is why `WakeParent` asks `BlockedByFailure`: a retry of its branch may have made the
  pipeline RUNNING again while another branch stands at a failed activity).

`ResourceWatch_proofs`, for any processes, events and mishaps: `TypeCorrect`,
`OneAtWorkThm`, `NothingSkippedThm` and `UpToDateThm`. `LeaseInv` says that, unless somebody was late, who
works or is about to renew has its lease; one lease has one owner. `CursorInv` says that
all events up to any cursor that may still be used are recorded: the one in the cache,
those kept as arguments, the one about to be written. `UpToDate`, the safety part of
`Mirrors`, needs two more facts about the order of things, both consequences of one process
being at work: the records applied are the first `n`, the one in hand is the next, and the
nodes database shows one of the two (`AppliedTo`); and the last record is the newest event of
all (`LatestLast`), although events are recorded twice after a restart, because whoever
repeats some goes on to the end.

`PluginPatrol_proofs`, for any policies, operations of users, versions and bounds:
`TypeCorrect` and `StaysStoppedThm`. That types are kept says that failures are bounded,
and needs `RetryInv`: the patrol starts nothing for who is over the limit, so that each
further failure takes an operation. `TasksInv` is what is left of a task: an activity that
takes the latest mark away is followed by one that sets it or drops the row, and only
one-off operations stop by hand. So no policy's row says that a user has stopped the plugin
(`ManualInv`), which is why no policy that is moved away can take that mark with it.
`StaysStopped` is about one step, with the plugin stopped and marked, all tasks at rest, and
a synchronisation under way that has heard of it or has still to ask (`Heard`). It needs
`SyncInv`: what is to be written to a row while that row exists, and MANUAL_STOP only to that
of a one-off operation. Each step of the three keeps `Heard`, or hears UNREGISTER.

Only model-checked: liveness, which is out of the prover's reach. It is `EveryRecordSettles`,
`ChunkSettles`, `CallersAreAnswered`, `FreesUp`, `RevokedComesToRest`, `Quiesces`,
`Converges`, `Mirrors` and the `Settles` of two modules. All invariants and action properties
of the passing runs, and the safety of both refinements, are theorems.

## 5. Plan

Done: `ActivityChain`, `SubscriptionTasks`, `BulkPush`, `ResourceWatch`, `PluginPatrol`
and `PipelineProcess` with their proofs, `RecordLifecycle` and `ForkJoin` as what two of
them implement.

What would come next:

1. `TriggerCollection`: `collect_auto_trigger_job` against tasks that are created, get
   ready and are deleted; each triggered task of the SaaS gets exactly one job.
2. A composition of `SubscriptionTasks` with `ActivityChain`, so that `StartRecords`
   and `EndRecord` are shown to be what the chain does.
3. The debounced trigger between `ResourceWatch` and `SubscriptionTasks`.

## 6. Not modelled, and why

Agent installation tasks (steps are SSH, WMI and HTTP on remote hosts, statuses come
from the engine), the pausing and freezing of pipelines, which nothing here asks for, and
the engine's data exchange, the collection of triggered tasks into jobs, the statistics
and step statuses (computed from rows, and written nowhere else), the debounced
trigger, the SaaS handlers and API views (queries and single writes), synchronisation
with CMDB and GSE but for what they write to rows that others race for, packaging,
permissions, file storage, migrations and the front end. The models stand for
about 3300 of some 80000 lines; the rest make up most of the
repository, and little of its control: what a line of them does does not depend
on who else is running. Everything the runs leave open is a nondeterministic choice: what
a service fails, what a task has to do, what the job platform answers.

Other observations made while reading, beside the hazards in `PROJECT.json`. In
`apps/backend`: the sweep fails healthy chains that take longer than half an hour
(`periodic_tasks/check_zombie_sub_inst_record.py:47`); details are created without an
`update_time` (`components/collections/base.py:418`); failing an instance is three
statements (`base.py:232`); a `create_task` that returned nothing is subscripted
(`subscription/tasks.py:563`); a revoke with explicit instances fails records that were
successful (`subscription/handler.py:211`); retrying a bulk push in the same task always
fails, because `hset` returns 0 for a field that exists
(`components/collections/bulk_job_redis.py:226`), a host that a finished job does not name is
polled for ever (`bulk_job_redis.py:368`), and hosts are lost to all pushes when a worker dies
between taking them off the waiting set and marking them (`bulk_job_redis.py:143`); a START
enables again a policy disabled meanwhile (`components/collections/plugin.py:1258`), and
`DeleteSubscriptionService` deletes a policy of which it has just said that it fails to
(`plugin.py:1198`); the map of tasks not ready grows with every one that is deleted
(`periodic_tasks/collect_auto_trigger_job.py:116`). In `apps/node_man`: deleting a canary
disables it and then may refuse (`handlers/policy.py:698`); two policies created in the same
instant each outrank the other (`models.py:1857`); stopping a policy does not pull up the
next (`tools/policy.py:246`); a one-off operation takes the host from its policy without a
word (`models.py:1795`); a late process deletes a lease just renewed
(`periodic_tasks/resource_watch_task.py:71`). In `pipeline`: a polled node that is well is
failed by the doctor after 1200 seconds (`engine/health/zombie/doctors.py:81`); a revoke
fails nodes of a pipeline that has finished (`engine/api.py:183`); a worker lost between
the end of a gateway and the dispatch of its children leaves a pipeline that nobody
finds (`engine/core/handlers/parallel_gateway.py:49`); `schedule` reads its row before it has the
lock (`engine/core/schedule.py:65`).
