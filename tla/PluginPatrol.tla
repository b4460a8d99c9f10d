---------------------------- MODULE PluginPatrol ----------------------------
(***************************************************************************)
(* One plugin on one host, for which policies and one-off operations of    *)
(* the user compete: each has its row of ProcessStatus, the latest row     *)
(* says who governs the host.  The patrol compares the rows of a policy    *)
(* with what the policy wants and starts a task, whose activities change   *)
(* the host and the rows one after the other; a periodic task asks GSE how *)
(* the plugin is, looks for the latest row and writes it there, with all   *)
(* the others at work in between.  A subscription runs one task at a time  *)
(* (is_running).  A definition named Mut... is the next one with a         *)
(* plausible mistake, for the mutation runs in PROJECT.json.               *)
(***************************************************************************)
EXTENDS Integers, Sequences, FiniteSets

CONSTANTS
    Policies,      \* subscriptions of category POLICY
    Gray,          \* those that are canaries of another one
    Onces,         \* subscriptions of category ONCE, an operation each
    Rank,          \* the order of policies: topology level, then creation
    MaxVersion,    \* versions of the plugin are 1 .. MaxVersion
    MaxRetryTime,
    DownAs,        \* what GSE may say of a plugin that is not up
    MaxOps,        \* bound: what users do, and hosts that move
    MaxSlips       \* bound: what goes wrong beside failing activities

ASSUME GrayAssumption == Gray \subseteq Policies /\ Policies \cap Onces = {}
ASSUME RankAssumption ==
    /\ Rank \in [Policies -> Nat]
    /\ \A p, q \in Policies : Rank[p] = Rank[q] => p = q
ASSUME DownAsAssumption == DownAs # {} /\ DownAs \subseteq {"TERMINATED", "UNREGISTER"}
ASSUME BoundsAssumption ==
    /\ MaxVersion \in Nat \ {0} /\ MaxRetryTime \in Nat
    /\ MaxOps \in Nat /\ MaxSlips \in Nat

VARIABLES
    wanted,   \* version of each subscription, 0 for operations to come
    enabled,  \* policies that are enabled
    scope,    \* policies whose scope the host is in
    row,      \* ProcessStatus of each subscription
    loose,    \* whether a latest row of no subscription exists
    task,     \* activities that the task of each subscription has to run
    host,     \* the plugin on the host, and how GSE sees it
    sync,     \* the synchronisation under way: what GSE said, the row to write it to
    ops,      \* what users did, and hosts that moved
    slips     \* a plugin that went down, what came too late or between two statements

subVars == <<wanted, enabled, scope>>
rowVars == <<row, loose>>
bounds == <<ops, slips>>
vars == <<subVars, rowVars, task, host, sync, bounds>>

Subs == Policies \union Onces
NoRow == [status |-> "none", latest |-> FALSE, retry |-> 0, version |-> 0]
NoSync == [at |-> "none", version |-> 0, status |-> "UNKNOWN", target |-> {}]
Exists(s) == row[s].status # "none"
Idle(s) == task[s] = <<>>

Activities == {"init", "init_enable", "init_disable", "install", "start", "stop", "clear",
               "running", "removed", "manual", "delete"}
Status == {"UNKNOWN", "RUNNING", "TERMINATED", "UNREGISTER", "MANUAL_STOP"}
Versions == 0 .. MaxVersion
Rows == [status : Status, latest : BOOLEAN, retry : 0 .. MaxRetryTime + MaxOps + 1, version : 1 .. MaxVersion]

TypeOK ==
    /\ wanted \in [Subs -> Versions] /\ \A p \in Policies : wanted[p] # 0
    /\ enabled \subseteq Policies /\ scope \subseteq Policies
    /\ row \in [Subs -> {NoRow} \union Rows]
    /\ loose \in BOOLEAN
    /\ task \in [Subs -> Seq(Activities)]
    /\ host \in [version : Versions, status : {"RUNNING"} \union DownAs]
    /\ sync \in [at : {"none", "asked", "update", "create"}, version : Versions,
                status : Status, target : SUBSET Subs]
    /\ ops \in 0 .. MaxOps /\ slips \in 0 .. MaxSlips

\* The host is deployed by one policy when the others come.
Init ==
    \E first \in Policies :
        /\ \A p \in Policies : Rank[first] <= Rank[p]
        /\ wanted \in [Subs -> Versions]
        /\ \A s \in Subs : wanted[s] = IF s \in Onces THEN 0 ELSE IF s = first THEN 1 ELSE MaxVersion
        /\ enabled = Policies /\ scope = Policies
        /\ row = [s \in Subs |-> IF s # first THEN NoRow
                     ELSE [status |-> "RUNNING", latest |-> TRUE, retry |-> 0, version |-> 1]]
        /\ loose = FALSE
        /\ task = [s \in Subs |-> <<>>]
        /\ host = [version |-> 1, status |-> "RUNNING"]
        /\ sync = NoSync
        /\ ops = 0 /\ slips = 0
-----------------------------------------------------------------------------
\* The activities of an action (steps/plugin.py).  Those that only write the row
\* of their own subscription are taken together, at the beginning and at the end,
\* and so are those that bring a package to the host.
Script(kind, s) ==
    CASE kind = "install" -> <<"init", "install", "clear", "running">>
      [] kind = "start" -> <<"init_enable", "start", "clear", "running">>
      [] kind = "stop" -> <<"init", "stop", "clear", IF s \in Onces THEN "manual" ELSE "removed">>
      [] kind = "stop_and_delete" -> <<"init_disable", "stop", "clear", "removed", "delete">>

\* get_host_id__bk_obj_sub_map: the policies that govern the host, or if not latest
\* have governed it and may again
OnHost(latest) == {q \in enabled : Exists(q) /\ row[q].latest = latest}

\* check_is_suppressed: a policy yields to a higher one that governs the host,
\* a one-off installation to any.
MutNotSuppressed(s, kind) == s \in Onces /\ kind = "install" /\ OnHost(TRUE) # {}

Suppressed(s, kind) ==
    \E q \in OnHost(TRUE) \ {s} : IF s \in Onces THEN kind = "install" ELSE Rank[q] > Rank[s]

\* What keeps the patrol from acting: handle_exceed_max_retry_times_instances and
\* handle_manual_op_instances
GivenUp(p) == row[p].retry > MaxRetryTime
ManuallyStopped == \E s \in Subs : row[s].latest /\ row[s].status = "MANUAL_STOP"

\* make_instances_migrate_actions: the actions for a host in the scope of a policy
\* that wants version v, given the row of it that counts.
Migrate(v, r) ==
    IF r = NoRow \/ r.status = "UNKNOWN" \/ r.version # v THEN {"install"}
    ELSE IF r.status = "TERMINATED" THEN {"start"} ELSE {}

\* A task that has begun; the suppressed one has nothing to do.
Run(s, kinds) ==
    LET run == {k \in kinds : ~Suppressed(s, k)}
    IN  task' = IF run = {} THEN task ELSE [task EXCEPT ![s] = Script(CHOOSE k \in run : TRUE, s)]

\* A row that goes, or becomes nobody's, is out of reach of who knows it by the
\* subscription: the synchronisation updates it by its key.
Forget(s) == sync' = IF s \in sync.target THEN NoSync ELSE sync

\* handle_uninstall_instances on patrol: the host that has left the scope is merely
\* detached from the policy, its row becomes nobody's.
Detach(p) ==
    IF Exists(p) /\ row[p].status # "TERMINATED"
    THEN /\ row' = [row EXCEPT ![p] = NoRow]
         /\ loose' = (loose \/ row[p].latest)
         /\ Forget(p)
    ELSE UNCHANGED <<rowVars, sync>>

\* update_subscription_instances_chunk; the task that has nothing to do is deleted.
MutPatrolUnknown(p) ==
    /\ p \in enabled /\ Idle(p) /\ p \in scope
    /\ Run(p, IF GivenUp(p) \/ ManuallyStopped THEN {}
              ELSE IF Exists(p) /\ row[p].version = wanted[p] THEN {} ELSE {"install"})
    /\ UNCHANGED <<rowVars, subVars, host, sync, bounds>>

Patrol(p) ==
    /\ p \in enabled /\ Idle(p)
    /\ IF p \in scope
       THEN /\ Run(p, IF GivenUp(p) \/ ManuallyStopped THEN {} ELSE Migrate(wanted[p], row[p]))
            /\ UNCHANGED <<rowVars, sync>>
       ELSE Detach(p) /\ UNCHANGED task
    /\ UNCHANGED <<subVars, host, bounds>>
-----------------------------------------------------------------------------
Doing(s, activity) == task[s] # <<>> /\ Head(task[s]) = activity
Done(s) == task' = [task EXCEPT ![s] = Tail(@)]

\* InitProcessStatusService, SwitchSubscriptionEnableService where there is one (a
\* one-off operation keeps what it has), UpdateHostProcessStatusService to UNKNOWN
InitProcessStatus(s) ==
    /\ ~Idle(s) /\ Head(task[s]) \in {"init", "init_enable", "init_disable"}
    /\ Done(s)
    /\ row' = [row EXCEPT ![s] = [@ EXCEPT !.status = "UNKNOWN", !.version = wanted[s]]]
    /\ enabled' = IF s \in Onces \/ Doing(s, "init") THEN enabled
                  ELSE IF Doing(s, "init_enable") THEN enabled \union {s} ELSE enabled \ {s}
    /\ UNCHANGED <<wanted, scope, loose, host, sync, bounds>>

\* Activities that change the host: a package and a restart, or just the process
Operated(s) ==
    CASE Doing(s, "install") -> {[version |-> wanted[s], status |-> "RUNNING"]}
      [] Doing(s, "start") -> {IF host.version # 0 THEN [host EXCEPT !.status = "RUNNING"] ELSE host}
      [] Doing(s, "stop") -> {[host EXCEPT !.status = down] : down \in DownAs}
      [] OTHER -> {host}

Operate(s) ==
    /\ ~Idle(s) /\ Head(task[s]) \in {"install", "start", "stop"}
    /\ Done(s)
    /\ host' \in Operated(s)
    /\ UNCHANGED <<subVars, rowVars, sync, bounds>>

\* UpdateHostProcessStatusService: all rows of the plugin on the host cease to be
\* the latest, then that of the subscription becomes it, or goes.
\* ResetRetryTimesService follows.
Cleared == [q \in Subs |-> [row[q] EXCEPT !.latest = FALSE]]

Marked(rows, s, outcome) ==
    IF outcome = "removed" THEN [rows EXCEPT ![s] = NoRow]
    ELSE IF rows[s].status = "none" THEN rows
    ELSE [rows EXCEPT ![s] = [status |-> IF outcome = "manual" THEN "MANUAL_STOP" ELSE "RUNNING",
                              latest |-> TRUE, retry |-> 0, version |-> @.version]]

UpdateHostProcessStatus(s) ==
    /\ \/ /\ Doing(s, "clear")
          /\ row' = Marked(Cleared, s, task[s][2])
          /\ loose' = FALSE
          /\ task' = [task EXCEPT ![s] = Tail(Tail(@))]
       \/ /\ ~Idle(s) /\ Head(task[s]) \in {"running", "manual", "removed"}
          /\ row' = Marked(row, s, Head(task[s]))
          /\ loose' = loose
          /\ Done(s)
    /\ IF Exists(s) /\ row'[s] = NoRow THEN Forget(s) ELSE UNCHANGED sync
    /\ UNCHANGED <<subVars, host, bounds>>

\* DeleteSubscriptionService deletes what governs nothing, even if it is enabled
\* again; that makes the activity fail, but there is no row left to count it in.
DeleteSubscription(s) ==
    /\ Doing(s, "delete") /\ Done(s)
    /\ enabled' = IF row[s].latest THEN enabled ELSE enabled \ {s}
    /\ UNCHANGED <<wanted, scope, rowVars, host, sync, bounds>>

\* An activity fails: sub_inst_failed_handler counts that in the row.  What it did
\* to the host it may have done all the same, or brought the package there only.
Unfinished(s) ==
    {host} \union Operated(s)
        \union IF Doing(s, "install") THEN {[host EXCEPT !.version = wanted[s]]} ELSE {}

MutFail(s) ==
    /\ ~Idle(s) /\ Head(task[s]) \notin {"clear", "delete"}
    /\ task' = [task EXCEPT ![s] = <<>>]
    /\ row' = [row EXCEPT ![s].retry = @ + 1]
    /\ host' \in Unfinished(s)
    /\ UNCHANGED <<subVars, loose, sync, bounds>>

Fail(s) ==
    /\ ~Idle(s) /\ Head(task[s]) \notin {"clear", "delete"}
    /\ task' = [task EXCEPT ![s] = <<>>]
    /\ row' = [row EXCEPT ![s].retry = IF Exists(s) THEN @ + 1 ELSE @]
    /\ host' \in Unfinished(s)
    /\ UNCHANGED <<subVars, loose, sync, bounds>>
-----------------------------------------------------------------------------
\* What is counted: if slips came about every time the policies could take the host
\* from each other for ever.
Op == ops < MaxOps /\ ops' = ops + 1 /\ UNCHANGED slips
Slip == slips < MaxSlips /\ slips' = slips + 1 /\ UNCHANGED ops

AllIdle == \A s \in Subs : Idle(s)
LatestSubs == {s \in Subs : row[s].latest}

\* A plugin stopped by hand stays so marked against the report that it is down.
MutKept(old, said) == said

Kept(old, said) == IF old = "MANUAL_STOP" /\ said = "TERMINATED" THEN old ELSE said

\* update_or_create_proc_status: it asks GSE (PLUGIN_STATUS_DICT: 0 is not registered,
\* 2 not running),
QueryProcStatus ==
    /\ sync.at = "none" /\ host.version # 0
    /\ sync' = [at |-> "asked", version |-> host.version, status |-> host.status, target |-> {}]
    /\ UNCHANGED <<subVars, rowVars, task, host, bounds>>

\* looks for the latest row, for one of them if there are more, and decides what to
\* write (what it writes to a row of no subscription nobody reads),
ReadRows ==
    /\ sync.at = "asked"
    /\ \/ \E s \in LatestSubs :
             sync' = [sync EXCEPT !.at = "update", !.target = {s}, !.status = Kept(row[s].status, @)]
       \/ loose /\ sync' = NoSync
       \/ LatestSubs = {} /\ ~loose /\ sync' = [NoSync EXCEPT !.at = "create"]
    /\ UNCHANGED <<subVars, rowVars, task, host, bounds>>

\* and writes, to the row with that key whatever it is by now.
Write ==
    /\ sync.at \in {"update", "create"}
    /\ row' = [s \in Subs |-> IF s \in sync.target
                              THEN [row[s] EXCEPT !.status = sync.status, !.version = sync.version]
                              ELSE row[s]]
    /\ loose' = (loose \/ sync.at = "create")
    /\ sync' = NoSync
    /\ UNCHANGED <<subVars, task, host>>

\* Nothing that matters to it has changed: asking and looking now might come to the same.
Agrees ==
    /\ sync.at = "create" => LatestSubs = {} /\ ~loose
    /\ \A s \in sync.target : row[s].latest /\ sync.version = host.version
                                /\ sync.status = Kept(row[s].status, host.status)

Sync == AllIdle /\ Agrees /\ Write /\ UNCHANGED bounds
SyncLate == ~(AllIdle /\ Agrees) /\ Write /\ Slip

\* Its worker is lost: so end those that would come too late and be one too many to count.
SyncLost ==
    /\ sync.at \in {"update", "create"} /\ ~Agrees
    /\ sync' = NoSync
    /\ UNCHANGED <<subVars, rowVars, task, host, bounds>>

\* Others see the rows between the two statements that make one the latest.
ClearLatest(s) ==
    /\ Slip /\ Doing(s, "clear") /\ Done(s)
    /\ row' = Cleared /\ loose' = FALSE
    /\ UNCHANGED <<subVars, host, sync>>
-----------------------------------------------------------------------------
\* Users and the environment.

\* A policy gets a version and is run without saying what to do: of its rows the
\* latest counts, and retries start anew.
EditPolicy(p, v) ==
    /\ Op /\ p \in enabled /\ Idle(p)
    /\ wanted' = [wanted EXCEPT ![p] = v]
    /\ row' = [row EXCEPT ![p].retry = 0]
    /\ LET r == IF row[p].latest THEN row[p] ELSE NoRow
           kinds == IF p \in scope
                    THEN Migrate(v, r)
                    ELSE IF r # NoRow /\ r.status # "TERMINATED" THEN {"stop"} ELSE {}
       IN  Run(p, kinds)
    /\ UNCHANGED <<enabled, scope, loose, host, sync>>

\* policy_operate: STOP, START, RETRY_ABNORMAL and STOP_AND_DELETE
PolicyOperate(p, kind) ==
    /\ Op /\ Idle(p)
    /\ CASE kind \in {"stop", "stop_and_delete"} -> row[p].latest
         [] kind = "start" -> p \in scope
         [] kind = "install" -> p \in scope /\ GivenUp(p)
    /\ Run(p, {kind})
    /\ enabled' = IF kind = "stop" THEN enabled \ {p} ELSE enabled
    /\ UNCHANGED <<wanted, scope, rowVars, host, sync>>

Disable(p) ==
    /\ Op /\ p \in enabled
    /\ enabled' = enabled \ {p}
    /\ UNCHANGED <<wanted, scope, rowVars, task, host, sync>>

\* To delete a canary hands its host to the highest of the policies that once
\* had it, unless that has a task under way: then the canary is disabled only.
DeleteGray(p) ==
    /\ Op /\ p \in Gray /\ p \in enabled /\ row[p].latest
    /\ enabled' = enabled \ {p}
    /\ LET others == OnHost(FALSE) \ {p}
       IN  \/ others = {} /\ UNCHANGED task
           \/ \E second \in others :
                 /\ \A q \in others : Rank[q] <= Rank[second]
                 /\ task' = IF Idle(second) THEN [task EXCEPT ![second] = Script("install", second)]
                            ELSE task
    /\ UNCHANGED <<wanted, scope, rowVars, host, sync>>

\* The user operates the plugin on the host.
Once(u, kind) ==
    /\ Op /\ wanted[u] = 0
    /\ wanted' = [wanted EXCEPT ![u] = MaxVersion]
    /\ Run(u, {kind})
    /\ UNCHANGED <<enabled, scope, rowVars, host, sync>>

MoveHost(p) ==
    /\ Op
    /\ scope' = IF p \in scope THEN scope \ {p} ELSE scope \union {p}
    /\ UNCHANGED <<wanted, enabled, rowVars, task, host, sync>>

\* The plugin goes down, or GSE comes to see one that is down otherwise.
Crash ==
    /\ Slip
    /\ \E down \in DownAs \ {host.status} : host' = [host EXCEPT !.status = down]
    /\ UNCHANGED <<subVars, rowVars, task, sync>>
-----------------------------------------------------------------------------
Activity(s) ==
    InitProcessStatus(s) \/ Operate(s) \/ UpdateHostProcessStatus(s) \/ DeleteSubscription(s)

User ==
    \/ \E p \in Policies :
          \/ \E v \in 1 .. MaxVersion : EditPolicy(p, v)
          \/ \E kind \in {"stop", "start", "install", "stop_and_delete"} : PolicyOperate(p, kind)
          \/ Disable(p) \/ DeleteGray(p) \/ MoveHost(p)
    \/ \E u \in Onces, kind \in {"install", "start", "stop"} : Once(u, kind)
    \/ Crash

Next ==
    \/ \E p \in Policies : Patrol(p)
    \/ \E s \in Subs : Activity(s) \/ Fail(s) \/ ClearLatest(s)
    \/ QueryProcStatus \/ ReadRows \/ Sync \/ SyncLate \/ SyncLost
    \/ User

\* The patrol and the synchronisation are periodic; activities end, if only at
\* the timeout of what they wait for.
Fairness ==
    /\ \A p \in Policies : WF_vars(Patrol(p))
    /\ \A s \in Subs : WF_vars(Activity(s) \/ Fail(s))
    /\ WF_vars(QueryProcStatus \/ ReadRows \/ SyncLost) /\ SF_vars(Sync)

Spec == Init /\ [][Next]_vars /\ Fairness
-----------------------------------------------------------------------------
StoppedByHand == ManuallyStopped /\ host.status # "RUNNING" /\ AllIdle

\* The synchronisation under way has heard that the plugin is down, and will keep the
\* mark if it is the marked row that it writes to.
Heard ==
    /\ sync.at = "asked" => sync.status = "TERMINATED"
    /\ \A s \in sync.target : row[s].status = "MANUAL_STOP" => sync.status = "MANUAL_STOP"

\* What a user has stopped by hand, with no task and no older synchronisation under
\* way, neither the patrol of any policy nor a synchronisation starts or marks
\* otherwise: only the next operation ends that, or that GSE says of the plugin that it
\* is not registered.
StaysStopped ==
    [][StoppedByHand /\ Heard =>
          \/ StoppedByHand' /\ (Heard' \/ sync'.status = "UNREGISTER")
          \/ ops' # ops]_vars

\* The patrol comes to rest: policies do not take the host from each other in
\* turns, and what fails is given up.  But a policy whose first activity fails
\* has no row to count that in, and tries for ever.
Quiesces == <>[]AllIdle \/ []<>(\E p \in Policies : ~Exists(p) /\ ~Idle(p))

\* p is the one policy whose row is the latest
Governs(p) == p \in enabled /\ p \in scope /\ row[p].latest /\ ~loose /\ \A s \in Subs \ {p} : ~row[s].latest

\* The one policy that governs the host has the version it wants there, and running
\* unless GSE says of the plugin that it is not registered, in which state the patrol
\* leaves it; or it was given up on.
Converges ==
    <>[](\A p \in Policies : Governs(p) =>
            \/ host.version = wanted[p] /\ host.status \in {"RUNNING", "UNREGISTER"}
            \/ GivenUp(p))
=============================================================================
