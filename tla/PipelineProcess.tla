-------------------------- MODULE PipelineProcess --------------------------
(***************************************************************************)
(* The engine under one pipeline of a subscription task (pipeline/engine): *)
(* the root process forks a process for every branch of the parallel       *)
(* gateway and sleeps; each branch runs its activities 1 .. Last, some of  *)
(* them polled by the schedule service, and the branch that arrives last   *)
(* at the converge gateway wakes the root.  Activities fail, are retried,  *)
(* lose their worker and are cured by the zombie doctor; the pipeline is   *)
(* revoked.  Processes and statuses are rows that workers save whole.      *)
(* A definition named Mut... is the next one with a plausible mistake, for *)
(* the mutation runs that PROJECT.json lists.                              *)
(***************************************************************************)
EXTENDS Integers, FiniteSets

CONSTANTS
    Branches,   \* the branches of the parallel gateway
    Last,       \* the number of activities of each
    Polled,     \* the activities whose service is polled
    MaxMishaps  \* bound: retries, lost workers and revokes together

ASSUME BranchesAssumption == IsFiniteSet(Branches) /\ Branches # {}
ASSUME LastAssumption == Last \in [Branches -> Nat \ {0}]
ASSUME PolledAssumption == \A a \in Polled : a[1] \in Branches /\ a[2] \in 1 .. Last[a[1]]
ASSUME MaxMishapsAssumption == MaxMishaps \in Nat

VARIABLES
    pipeline,  \* Status of the pipeline
    node,      \* Status of the activities, by branch
    ver,       \* their version
    row,       \* PipelineProcess row of each branch
    ack,       \* of the root's row: ack_num
    need,      \*   need_ack
    rootRow,   \*   is_alive and is_sleep
    root,      \* the worker of the root process, and at which node it is
    calls,     \* process_wake_up tasks sent to the root
    loop,      \* the workers in run_loop for each branch, at most two
    queue,     \* tasks sent to process workers
    scheds,    \* ScheduleService rows
    polls,     \* service_schedule tasks, waiting or by how far they are
    api,       \* the revoke call
    todo,      \*   and the nodes it has still to fail
    mishaps,   \* counted against their bound
    arrived,   \* history: branches that have acknowledged
    hasty      \* history: a retry overtook a worker about to sleep

statusVars == <<pipeline, node, ver>>
rootVars == <<ack, need, rootRow, root, calls>>
scheduleVars == <<scheds, polls>>
callVars == <<api, todo, mishaps, hasty>>
vars == <<statusVars, row, rootVars, loop, queue, scheduleVars, callVars, arrived>>

Acts(b) == 1 .. Last[b]
Converge(b) == Last[b] + 1  \* destination_id of the branch
NoNode == 0                 \* current_node_id when there is none
Slots == {1, 2}
NoWorker == [pc |-> "idle", k |-> NoNode, v |-> 0]
Activities == UNION {{<<b, k>> : k \in Acts(b)} : b \in Branches}
ScheduleIds == {id \in Branches \X Nat \X Nat : id[2] \in Acts(id[1])}  \* with the version
Message == [to : Branches, as : {"dispatch", "process_wake_up", "wake_from_schedule"}, k : Nat]

WorkerPC == {"idle", "loop", "execute", "adjust", "block", "sleep", "wake", "fence", "destroy"}
RootPC == {"start", "loop", "sleep", "idle"}

TypeOK ==
    /\ pipeline \in {"READY", "RUNNING", "BLOCKED", "FINISHED", "REVOKED"}
    /\ DOMAIN node = Branches /\ DOMAIN ver = Branches
    /\ \A b \in Branches :
          /\ node[b] \in [Acts(b) -> {"none", "READY", "RUNNING", "FINISHED", "FAILED"}]
          /\ ver[b] \in [Acts(b) -> Nat]
    /\ row \in [Branches -> [alive : BOOLEAN, asleep : BOOLEAN, k : Nat]]
    /\ ack \in Nat /\ need \in {-1, Cardinality(Branches)}
    /\ rootRow \in [alive : BOOLEAN, asleep : BOOLEAN]
    /\ root \in [pc : RootPC, at : {"gateway", "converge", "end"}]
    /\ calls \in Nat
    /\ loop \in [Branches -> [Slots -> [pc : WorkerPC, k : Nat, v : Nat]]]
    /\ queue \subseteq Message
    /\ scheds \subseteq ScheduleIds
    /\ polls \subseteq [s : ScheduleIds, at : {"sent", "polling", "failed", "done"}]
    /\ api \in {"idle", "failing", "destroying", "done"}
    /\ todo \subseteq Activities
    /\ mishaps \in 0 .. MaxMishaps
    /\ arrived \subseteq Branches /\ hasty \in BOOLEAN

Init ==
    /\ pipeline = "READY"
    /\ node = [b \in Branches |-> [k \in Acts(b) |-> "none"]]
    /\ ver = [b \in Branches |-> [k \in Acts(b) |-> 0]]
    /\ row = [b \in Branches |-> [alive |-> FALSE, asleep |-> FALSE, k |-> NoNode]]
    /\ ack = 0 /\ need = -1
    /\ rootRow = [alive |-> TRUE, asleep |-> FALSE]
    /\ root = [pc |-> "start", at |-> "gateway"] /\ calls = 0
    /\ loop = [b \in Branches |-> [s \in Slots |-> NoWorker]]
    /\ queue = {} /\ scheds = {} /\ polls = {}
    /\ api = "idle" /\ todo = {} /\ mishaps = 0
    /\ arrived = {} /\ hasty = FALSE
-----------------------------------------------------------------------------
\* states.py, what is left of its tables without SUSPENDED, which no caller of
\* the engine here asks for
NodeTransition ==
    [none |-> {"RUNNING"}, READY |-> {"RUNNING"}, RUNNING |-> {"FINISHED", "FAILED"},
     FINISHED |-> {"RUNNING", "FAILED"}, FAILED |-> {}]
AppointNodeTransition ==
    [none |-> {}, READY |-> {}, RUNNING |-> {}, FINISHED |-> {}, FAILED |-> {"READY", "FINISHED"}]
PipelineTransition ==
    [READY |-> {"RUNNING", "BLOCKED"}, RUNNING |-> {"BLOCKED", "FINISHED", "FAILED"},
     BLOCKED |-> {"READY", "REVOKED"}, FINISHED |-> {"RUNNING"}, REVOKED |-> {}]
AppointPipelineTransition ==
    [READY |-> {"REVOKED"}, RUNNING |-> {"REVOKED"}, BLOCKED |-> {"REVOKED"},
     FINISHED |-> {}, REVOKED |-> {}]

\* StatusManager.transit of the pipeline and of a node: the state afterwards,
\* which is the old one if the transition is not allowed
Pipeline(to) == IF to \in PipelineTransition[pipeline] THEN to ELSE pipeline
Node(b, k, to) == IF to \in NodeTransition[node[b][k]] THEN to ELSE node[b][k]

At(b, s, pc) == loop[b][s].pc = pc
Goto(b, s, pc) == loop' = [loop EXCEPT ![b][s].pc = pc]
Leave(b, s) == loop' = [loop EXCEPT ![b][s] = NoWorker]

\* A task of the queue is given to a worker that enters run_loop at node k.
Enter(b, k) ==
    \E s \in Slots :
        /\ At(b, s, "idle") /\ (s = 2 => ~At(b, 1, "idle"))
        /\ loop' = [loop EXCEPT ![b][s] = [pc |-> "loop", k |-> k, v |-> 0]]

\* destroy_and_wake_up_parent holds the row lock of the parent through its
\* transaction; the others wait.
ParentLocked == \E b \in Branches, s \in Slots : At(b, s, "fence")
-----------------------------------------------------------------------------
\* The task start.
Start ==
    /\ root.pc = "start"
    /\ pipeline' = IF rootRow.alive THEN Pipeline("RUNNING") ELSE pipeline
    /\ root' = [root EXCEPT !.pc =
            IF rootRow.alive /\ "RUNNING" \in PipelineTransition[pipeline] THEN "loop" ELSE "idle"]
    /\ UNCHANGED <<node, ver, row, ack, need, rootRow, calls, loop, queue, scheduleVars,
                   callVars, arrived>>

\* run_loop of the root: revoked, it drops what it has, and blocked, it sleeps;
\* else its node is handled.
RootLoop(at, handle) ==
    /\ root = [pc |-> "loop", at |-> at]
    /\ IF pipeline \in {"REVOKED", "BLOCKED"}
       THEN /\ root' = [root EXCEPT !.pc = IF pipeline = "REVOKED" THEN "idle" ELSE "sleep"]
            /\ UNCHANGED <<pipeline, row, need, rootRow>>
       ELSE handle
    /\ UNCHANGED <<node, ver, ack, calls, loop, queue, scheduleVars, callVars, arrived>>

MutForkShort == RootLoop("gateway",
    /\ row' = [b \in Branches |-> [alive |-> TRUE, asleep |-> FALSE, k |-> 1]]
    /\ need' = Cardinality(Branches) - 1
    /\ root' = [root EXCEPT !.pc = "sleep"]
    /\ UNCHANGED <<pipeline, rootRow>>)

\* ParallelGatewayHandler: a process for each branch, then join.
Fork == RootLoop("gateway",
    /\ row' = [b \in Branches |-> [alive |-> TRUE, asleep |-> FALSE, k |-> 1]]
    /\ need' = Cardinality(Branches)
    /\ root' = [root EXCEPT !.pc = "sleep"]
    /\ UNCHANGED <<pipeline, rootRow>>)

\* ConvergeGatewayHandler
Sync == RootLoop("converge",
    /\ root' = [root EXCEPT !.at = "end"]
    /\ UNCHANGED <<pipeline, row, need, rootRow>>)

\* EndEventHandler
End == RootLoop("end",
    /\ pipeline' = Pipeline("FINISHED")
    /\ rootRow' = [rootRow EXCEPT !.alive = FALSE]
    /\ root' = [root EXCEPT !.pc = "idle"]
    /\ UNCHANGED <<row, need>>)

\* sleep of the root saves its row and only then sends its children off.  Of
\* ack_num and need_ack it saves what they are, or what no longer matters.
RootSleep ==
    /\ root.pc = "sleep"
    /\ rootRow' = [alive |-> TRUE, asleep |-> TRUE]
    /\ root' = [root EXCEPT !.pc = "idle"]
    /\ queue' = IF root.at = "end" THEN queue ELSE queue \union
            {[to |-> b, as |-> "dispatch", k |-> NoNode] : b \in Branches}
    /\ UNCHANGED <<statusVars, row, ack, need, calls, loop, scheduleVars, callVars, arrived>>

\* process_wake_up of the root, from a child: the status is not looked at.
RootWakeUp ==
    /\ calls > 0 /\ root.pc = "idle"
    /\ calls' = calls - 1
    /\ IF rootRow.alive
       THEN /\ rootRow' = [rootRow EXCEPT !.asleep = FALSE]
            /\ root' = [pc |-> "loop", at |-> "converge"]
       ELSE UNCHANGED <<rootRow, root>>
    /\ UNCHANGED <<statusVars, row, ack, need, loop, queue, scheduleVars, callVars, arrived>>
-----------------------------------------------------------------------------
MutWaitAlive(b) ==
    \E m \in queue :
        /\ m.to = b /\ row[b].alive
        /\ queue' = queue \ {m}
        /\ pipeline' = IF m.as = "process_wake_up" THEN Pipeline("RUNNING") ELSE pipeline
        /\ row' = IF m.as = "dispatch" THEN row ELSE [row EXCEPT ![b].asleep = FALSE]
        /\ IF m.as = "process_wake_up" => pipeline' \in {"RUNNING", "BLOCKED"}
           THEN Enter(b, IF m.as = "wake_from_schedule" THEN m.k + 1 ELSE row[b].k)
           ELSE UNCHANGED loop
        /\ UNCHANGED <<node, ver, rootVars, scheduleVars, callVars, arrived>>

\* A worker takes a task for a branch: dispatch, process_wake_up after a
\* retry, or wake_from_schedule.
Take(b) ==
    \E m \in queue :
        /\ m.to = b
        /\ queue' = queue \ {m}
        /\ pipeline' = IF m.as = "process_wake_up" /\ row[b].alive THEN Pipeline("RUNNING") ELSE pipeline
        /\ row' = IF m.as = "dispatch" THEN row ELSE [row EXCEPT ![b].asleep = FALSE]
        /\ IF row[b].alive /\ (m.as = "process_wake_up" => pipeline' \in {"RUNNING", "BLOCKED"})
           THEN Enter(b, IF m.as = "wake_from_schedule" THEN m.k + 1 ELSE row[b].k)
           ELSE UNCHANGED loop
        /\ UNCHANGED <<node, ver, rootVars, scheduleVars, callVars, arrived>>

\* run_loop: at its destination the process acknowledges to its parent, with an
\* update that waits for the lock of the parent's row; when the pipeline is
\* revoked it drops what it has.  A blocked pipeline does not stop it.
Ack(b, s) ==
    /\ At(b, s, "loop") /\ loop[b][s].k = Converge(b) /\ ~ParentLocked
    /\ ack' = ack + 1
    /\ arrived' = arrived \union {b}
    /\ Goto(b, s, "wake")
    /\ UNCHANGED <<statusVars, row, need, rootRow, root, calls, queue, scheduleVars, callVars>>

SeeRevoked(b, s) ==
    /\ At(b, s, "loop") /\ loop[b][s].k # Converge(b)
    /\ pipeline = "REVOKED"
    /\ Leave(b, s)
    /\ UNCHANGED <<statusVars, row, rootVars, queue, scheduleVars, callVars, arrived>>

\* The node is RUNNING and the process at it, or it cannot be and the process
\* sleeps.  To run again what has finished makes a new version.
Go(b, s) ==
    /\ At(b, s, "loop") /\ loop[b][s].k # Converge(b)
    /\ pipeline # "REVOKED"
    /\ LET k == loop[b][s].k
       IN  IF "RUNNING" \in NodeTransition[node[b][k]]
           THEN /\ node' = [node EXCEPT ![b][k] = "RUNNING"]
                /\ ver' = IF node[b][k] = "FINISHED" THEN [ver EXCEPT ![b][k] = @ + 1] ELSE ver
                /\ row' = [row EXCEPT ![b].k = k]
                /\ loop' = [loop EXCEPT ![b][s] = [pc |-> "execute", k |-> k, v |-> ver'[b][k]]]
           ELSE Goto(b, s, "adjust") /\ UNCHANGED <<node, ver, row>>
    /\ UNCHANGED <<pipeline, rootVars, queue, scheduleVars, callVars, arrived>>

\* ServiceActivityHandler: the activity succeeds; that finish may have been
\* refused because it has been forced failed goes unnoticed, ActionResult being
\* true whatever it says ...
Succeed(b, s) ==
    /\ At(b, s, "execute") /\ <<b, loop[b][s].k>> \notin Polled
    /\ LET k == loop[b][s].k
       IN  /\ node' = [node EXCEPT ![b][k] = Node(b, k, "FINISHED")]
           /\ loop' = [loop EXCEPT ![b][s] = [pc |-> "loop", k |-> k + 1, v |-> 0]]
    /\ UNCHANGED <<pipeline, ver, row, rootVars, queue, scheduleVars, callVars, arrived>>

\* ... or fails ...
Fail(b, s) ==
    /\ At(b, s, "execute")
    /\ LET k == loop[b][s].k IN node' = [node EXCEPT ![b][k] = Node(b, k, "FAILED")]
    /\ Goto(b, s, "adjust")
    /\ UNCHANGED <<pipeline, ver, row, rootVars, queue, scheduleVars, callVars, arrived>>

\* ... or is to be polled (set_schedule): the first poll is on its way before
\* the process sleeps.
SetSchedule(b, s) ==
    /\ At(b, s, "execute") /\ <<b, loop[b][s].k>> \in Polled
    /\ LET id == <<b, loop[b][s].k, loop[b][s].v>>
       IN  /\ scheds' = scheds \union {id}
           /\ polls' = polls \union {[s |-> id, at |-> "sent"]}
    /\ Goto(b, s, "adjust")
    /\ UNCHANGED <<statusVars, row, rootVars, queue, callVars, arrived>>

\* The worker dies in the activity.
Die(b, s) ==
    /\ At(b, s, "execute") /\ mishaps < MaxMishaps
    /\ mishaps' = mishaps + 1
    /\ Leave(b, s)
    /\ UNCHANGED <<statusVars, row, rootVars, queue, scheduleVars, api, todo, hasty, arrived>>

\* adjust_status reads the state of the node ...
Adjust(b, s) ==
    /\ At(b, s, "adjust")
    /\ Goto(b, s, IF node[b][loop[b][s].k] = "FAILED" THEN "block" ELSE "sleep")
    /\ UNCHANGED <<statusVars, row, rootVars, queue, scheduleVars, callVars, arrived>>

\* ... and blocks the pipeline if it has failed; then the process sleeps.
Block(b, s) ==
    /\ At(b, s, "block")
    /\ pipeline' = Pipeline("BLOCKED")
    /\ Goto(b, s, "sleep")
    /\ UNCHANGED <<node, ver, row, rootVars, queue, scheduleVars, callVars, arrived>>

Sleep(b, s) ==
    /\ At(b, s, "sleep")
    /\ row' = [row EXCEPT ![b] = [alive |-> TRUE, asleep |-> TRUE, k |-> loop[b][s].k]]
    /\ Leave(b, s)
    /\ UNCHANGED <<statusVars, rootVars, queue, scheduleVars, callVars, arrived>>
-----------------------------------------------------------------------------
\* blocked_by_failure_or_suspended of the root
BlockedByFailure ==
    /\ rootRow.asleep
    /\ \E b \in Branches : row[b].asleep /\ row[b].k \in Acts(b) /\ node[b][row[b].k] = "FAILED"

\* destroy_and_wake_up_parent: under the lock of the parent's row whoever finds
\* the count complete resets it and wakes the parent.  Any other sees to it that
\* the pipeline is blocked if a branch is.
MutNoReset(b, s) ==
    /\ At(b, s, "wake") /\ ~ParentLocked
    /\ calls' = IF ack = need THEN calls + 1 ELSE calls
    /\ Goto(b, s, IF ack # need /\ BlockedByFailure THEN "fence" ELSE "destroy")
    /\ UNCHANGED <<statusVars, row, ack, need, rootRow, root, queue, scheduleVars, callVars, arrived>>

MutNoBlock(b, s) ==
    /\ At(b, s, "wake") /\ ~ParentLocked
    /\ IF need # -1 /\ ack = need
       THEN need' = -1 /\ ack' = 0 /\ calls' = calls + 1
       ELSE UNCHANGED <<need, ack, calls>>
    /\ Goto(b, s, "destroy")
    /\ UNCHANGED <<statusVars, row, rootRow, root, queue, scheduleVars, callVars, arrived>>

WakeParent(b, s) ==
    /\ At(b, s, "wake") /\ ~ParentLocked
    /\ IF need # -1 /\ ack = need
       THEN need' = -1 /\ ack' = 0 /\ calls' = calls + 1 /\ Goto(b, s, "destroy")
       ELSE /\ Goto(b, s, IF need # -1 /\ BlockedByFailure THEN "fence" ELSE "destroy")
            /\ UNCHANGED <<need, ack, calls>>
    /\ UNCHANGED <<statusVars, row, rootRow, root, queue, scheduleVars, callVars, arrived>>

BlockParent(b, s) ==
    /\ At(b, s, "fence")
    /\ pipeline' = Pipeline("BLOCKED")
    /\ Goto(b, s, "destroy")
    /\ UNCHANGED <<node, ver, row, rootVars, queue, scheduleVars, callVars, arrived>>

Destroy(b, s) ==
    /\ At(b, s, "destroy")
    /\ row' = [row EXCEPT ![b] = [alive |-> FALSE, asleep |-> FALSE, k |-> NoNode]]
    /\ Leave(b, s)
    /\ UNCHANGED <<statusVars, rootVars, queue, scheduleVars, callVars, arrived>>
-----------------------------------------------------------------------------
\* The countdown before a poll is seconds: longer than the worker that has sent
\* the first one takes to put its process to sleep.
CountdownOver(b) == \A s \in Slots : loop[b][s].pc \notin {"adjust", "block", "sleep"}

\* service_schedule: whoever finds no schedule, or that the node has another
\* version by now, gives up.
Poll(b) ==
    \E p \in polls :
        /\ p.at = "sent" /\ p.s[1] = b /\ CountdownOver(b)
        /\ IF p.s \in scheds /\ ver[b][p.s[2]] = p.s[3]
           THEN polls' = (polls \ {p}) \union {[p EXCEPT !.at = "polling"]} /\ UNCHANGED scheds
           ELSE polls' = polls \ {p} /\ scheds' = scheds \ {p.s}
        /\ UNCHANGED <<statusVars, row, rootVars, loop, queue, callVars, arrived>>

\* not done yet: set_next_schedule, which saves the row even if it is gone
PollAgain(b) ==
    \E p \in polls :
        /\ p.at = "polling" /\ p.s[1] = b
        /\ polls' = (polls \ {p}) \union {[p EXCEPT !.at = "sent"]}
        /\ scheds' = scheds \union {p.s}
        /\ UNCHANGED <<statusVars, row, rootVars, loop, queue, callVars, arrived>>

\* Done or failed: the transition asks for the version again.
PollEnd(b) ==
    \E p \in polls, to \in {"FINISHED", "FAILED"} :
        /\ p.at = "polling" /\ p.s[1] = b
        /\ LET k == p.s[2]
           IN  IF ver[b][k] = p.s[3] /\ to \in NodeTransition[node[b][k]]
               THEN /\ node' = [node EXCEPT ![b][k] = to]
                    /\ polls' = (polls \ {p}) \union
                            {[p EXCEPT !.at = IF to = "FINISHED" THEN "done" ELSE "failed"]}
                    /\ UNCHANGED scheds
               ELSE node' = node /\ polls' = polls \ {p} /\ scheds' = scheds \ {p.s}
        /\ UNCHANGED <<pipeline, ver, row, rootVars, loop, queue, callVars, arrived>>

MutWakeFailed(b) ==
    \E p \in polls :
        /\ p.at \in {"done", "failed"} /\ p.s[1] = b
        /\ polls' = polls \ {p} /\ scheds' = scheds \ {p.s}
        /\ queue' = IF row[b].alive
                    THEN queue \union {[to |-> b, as |-> "wake_from_schedule", k |-> p.s[2]]}
                    ELSE queue
        /\ UNCHANGED <<statusVars, row, rootVars, loop, callVars, arrived>>

\* The process of a schedule that has finished goes on, if it is still there.
WakeFromSchedule(b) ==
    \E p \in polls :
        /\ p.at = "done" /\ p.s[1] = b
        /\ polls' = polls \ {p} /\ scheds' = scheds \ {p.s}
        /\ queue' = IF row[b].alive
                    THEN queue \union {[to |-> b, as |-> "wake_from_schedule", k |-> p.s[2]]}
                    ELSE queue
        /\ UNCHANGED <<statusVars, row, rootVars, loop, callVars, arrived>>

\* If it has failed the pipeline is blocked; the process sleeps already.
ScheduleFailed(b) ==
    \E p \in polls :
        /\ p.at = "failed" /\ p.s[1] = b
        /\ polls' = polls \ {p}
        /\ pipeline' = IF row[b].alive /\ row[b].k \in Acts(b) /\ node[b][row[b].k] = "FAILED"
                       THEN Pipeline("BLOCKED") ELSE pipeline
        /\ UNCHANGED <<node, ver, row, rootVars, loop, queue, scheds, callVars, arrived>>
-----------------------------------------------------------------------------
MutNoBlocked(b, k) ==
    /\ node' = [node EXCEPT ![b][k] = "FAILED"]
    /\ ver' = [ver EXCEPT ![b][k] = @ + 1]
    /\ row' = [row EXCEPT ![b] = [alive |-> TRUE, asleep |-> TRUE, k |-> k]]
    /\ queue' = {m \in queue : m.to # b}
    /\ UNCHANGED pipeline

\* What forced_fail and the zombie doctor do to node k of process b: whoever
\* holds the old version finds that out.  The celery task of the process is
\* revoked, but workers on eventlet cannot end it once it runs.
FailNode(b, k) ==
    /\ node' = [node EXCEPT ![b][k] = "FAILED"]
    /\ ver' = [ver EXCEPT ![b][k] = @ + 1]
    /\ pipeline' = Pipeline("BLOCKED")
    /\ row' = [row EXCEPT ![b] = [alive |-> TRUE, asleep |-> TRUE, k |-> k]]
    /\ queue' = {m \in queue : m.to # b}

\* RunningNodeZombieDoctor: a node that has been RUNNING for max_stuck_time.
\* Workers are not that slow; a schedule may well be.
Cure(b) ==
    LET k == row[b].k
    IN  /\ row[b].alive /\ k \in Acts(b) /\ node[b][k] = "RUNNING"
        /\ \A s \in Slots : ~(At(b, s, "execute") /\ loop[b][s].k = k)
        /\ FailNode(b, k)
        /\ UNCHANGED <<rootVars, loop, scheduleVars, callVars, arrived>>

MutRetryAny(b) ==
    LET k == row[b].k
    IN  /\ api \in {"idle", "done"} /\ mishaps < MaxMishaps
        /\ k \in Acts(b) /\ node[b][k] # "none"
        /\ mishaps' = mishaps + 1
        /\ node' = [node EXCEPT ![b][k] = "READY"]
        /\ ver' = [ver EXCEPT ![b][k] = @ + 1]
        /\ pipeline' = Pipeline("READY")
        /\ queue' = queue \union {[to |-> b, as |-> "process_wake_up", k |-> NoNode]}
        /\ UNCHANGED <<row, rootVars, loop, scheduleVars, api, todo, arrived, hasty>>

\* A worker has yet to put the process to sleep as it once read it, or to block the
\* pipeline for a failure.
Unsettled(b) ==
    \/ \E s \in Slots : At(b, s, "adjust")
    \/ \E c \in Branches, s \in Slots : loop[c][s].pc \in {"block", "sleep", "fence"}
    \/ \E p \in polls : p.at = "failed"

\* retry_node
Retry(b) ==
    LET k == row[b].k
    IN  /\ api \in {"idle", "done"} /\ mishaps < MaxMishaps
        /\ k \in Acts(b) /\ "READY" \in AppointNodeTransition[node[b][k]]
        /\ mishaps' = mishaps + 1
        /\ node' = [node EXCEPT ![b][k] = "READY"]
        /\ ver' = [ver EXCEPT ![b][k] = @ + 1]
        /\ pipeline' = Pipeline("READY")
        /\ queue' = queue \union {[to |-> b, as |-> "process_wake_up", k |-> NoNode]}
        /\ hasty' = (hasty \/ Unsettled(b))
        /\ UNCHANGED <<row, rootVars, loop, scheduleVars, api, todo, arrived>>

\* force_fail_and_revoke_pipeline: the current nodes of all processes ...
Revoke ==
    /\ api = "idle" /\ mishaps < MaxMishaps
    /\ mishaps' = mishaps + 1
    /\ api' = "failing"
    /\ todo' = {<<b, row[b].k>> : b \in {c \in Branches : row[c].k \in Acts(c)}}
    /\ UNCHANGED <<statusVars, row, rootVars, loop, queue, scheduleVars, hasty, arrived>>

\* ... are failed, where they still are current and may be, ...
ForcedFail ==
    \E t \in todo :
        LET b == t[1]  k == t[2]
        IN  /\ todo' = todo \ {t}
            /\ IF row[b].k = k /\ node[b][k] # "none" /\ "FAILED" \in NodeTransition[node[b][k]]
               THEN /\ FailNode(b, k)
                    /\ scheds' = scheds \ {<<b, k, ver[b][k]>>}
               ELSE UNCHANGED <<statusVars, row, queue, scheds>>
            /\ UNCHANGED <<rootVars, loop, polls, api, mishaps, hasty, arrived>>

\* ... and revoke_pipeline sets the status, then destroys the processes.
RevokePipeline ==
    /\ api = "failing" /\ todo = {}
    /\ IF "REVOKED" \in AppointPipelineTransition[pipeline]
       THEN pipeline' = "REVOKED" /\ api' = "destroying"
       ELSE pipeline' = pipeline /\ api' = "done"
    /\ UNCHANGED <<node, ver, row, rootVars, loop, queue, scheduleVars, todo, mishaps, hasty, arrived>>

DestroyAll ==
    /\ api = "destroying"
    /\ api' = "done"
    /\ rootRow' = [rootRow EXCEPT !.alive = FALSE]
    /\ row' = IF rootRow.alive
              THEN [b \in Branches |-> [alive |-> FALSE, asleep |-> row[b].asleep, k |-> NoNode]] ELSE row
    /\ UNCHANGED <<statusVars, ack, need, root, calls, loop, queue, scheduleVars, todo, mishaps,
                   hasty, arrived>>
-----------------------------------------------------------------------------
Root == Start \/ Fork \/ RootSleep \/ RootWakeUp \/ Sync \/ End

Execute(b, s) == Succeed(b, s) \/ Fail(b, s) \/ SetSchedule(b, s)

Process(b) ==
    \/ Take(b)
    \/ \E s \in Slots :
          \/ SeeRevoked(b, s) \/ Go(b, s) \/ Execute(b, s) \/ Adjust(b, s) \/ Block(b, s) \/ Sleep(b, s)
          \/ Ack(b, s) \/ WakeParent(b, s) \/ BlockParent(b, s) \/ Destroy(b, s)

Schedules(b) == Poll(b) \/ PollAgain(b) \/ PollEnd(b) \/ WakeFromSchedule(b) \/ ScheduleFailed(b)

Caller == ForcedFail \/ RevokePipeline \/ DestroyAll

Next ==
    \/ Root \/ Caller \/ Revoke
    \/ \E b \in Branches :
          \/ Process(b) \/ Schedules(b) \/ Cure(b) \/ Retry(b)
          \/ \E s \in Slots : Die(b, s)

\* Workers and the periodic doctor run; a polled service ends, at its timeout
\* at the latest; a call that was made is carried through.
Fairness ==
    /\ WF_vars(Root) /\ WF_vars(Caller)
    /\ \A b \in Branches :
          WF_vars(Process(b)) /\ WF_vars(Schedules(b)) /\ SF_vars(PollEnd(b)) /\ WF_vars(Cure(b))

Spec == Init /\ [][Next]_vars /\ Fairness
-----------------------------------------------------------------------------
\* A revoke has found the pipeline finished, but failed nodes of it: to retry one
\* of those starts the finished pipeline again, and nobody ends it.
TooLate == api = "done" /\ pipeline # "REVOKED"

\* How far the barrier is: arrived is who has acknowledged, need_ack is taken back
\* when the last of them has.
Stage ==
    CASE pipeline = "REVOKED" -> "stopped"
      [] pipeline = "FINISHED" \/ TooLate -> "finished"
      [] pipeline \notin {"REVOKED", "FINISHED"} /\ ~TooLate /\ need # -1 -> "forked"
      [] OTHER -> IF arrived = {} THEN "before" ELSE "joined"

FJ == INSTANCE ForkJoin WITH missing <- Branches \ arrived, stage <- Stage

\* The converge gateway is passed once, after every branch has arrived, and the
\* pipeline finishes after that and is revoked for good.
ImplementsForkJoin == FJ!Spec

\* What of run_loop goes on, rather than putting the process to sleep or away.
Advancing == {"loop", "execute", "wake", "fence"}

\* Two workers never advance one branch, whatever is retried, cured or late, while no
\* revoke is under way and no retry has overtaken a worker.
NoTwins == api = "idle" /\ ~hasty => \A b \in Branches : ~ \A s \in Slots : loop[b][s].pc \in Advancing

\* Nothing is on its way.
Still ==
    /\ root.pc = "idle" /\ calls = 0 /\ queue = {} /\ polls = {} /\ todo = {}
    /\ api \in {"idle", "done"}
    /\ \A b \in Branches, s \in Slots : At(b, s, "idle")
Failed == \E b \in Branches : \E k \in Acts(b) : node[b][k] = "FAILED"
\* an activity that nobody executes or polls any more, when nothing is on its way
Lost == \E b \in Branches : \E k \in Acts(b) : node[b][k] = "RUNNING"

\* A pipeline that stands still says why: it is over, or is blocked by a failed
\* node, unless a worker died and is still to be found, or a retry overtook a
\* worker that had yet to say so.
StillSaysWhy ==
    Still => \/ pipeline \in {"FINISHED", "REVOKED"}
             \/ pipeline = "BLOCKED" /\ Failed
             \/ Lost \/ hasty \/ TooLate

\* The converge gateway is not passed, nor the pipeline finished, before every
\* activity of every branch has finished, whatever failed and was retried, cured or
\* polled too late on the way there, while no revoke is under way and no retry has
\* overtaken a worker.
FinishedIsComplete ==
    api = "idle" /\ ~hasty /\ (pipeline = "FINISHED" \/ root.at # "gateway") =>
        \A b \in Branches : \A k \in Acts(b) : node[b][k] = "FINISHED"

\* An activity starts when the one before it has finished, unless a revoke is
\* failing nodes under the hands of the workers, or a retry has overtaken one of them.
InOrder == [][\A b \in Branches : \A k \in Acts(b) \ {1} :
    node'[b][k] = "RUNNING" /\ node[b][k] # "RUNNING" =>
        node[b][k - 1] = "FINISHED" \/ api # "idle" \/ hasty]_vars

\* After a revoke everything comes to rest, polls of forgotten schedules too.
RevokedComesToRest == pipeline = "REVOKED" ~> []Still

\* With finitely many retries every pipeline ends or stays blocked by a node
\* that failed: a lost worker does not keep it running for ever.
Settles == <>[](pipeline \in {"FINISHED", "REVOKED"} \/ (pipeline = "BLOCKED" /\ Failed) \/ hasty \/ TooLate)
=============================================================================
