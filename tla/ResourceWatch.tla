--------------------------- MODULE ResourceWatch ---------------------------
(***************************************************************************)
(* Changes of hosts in the CMDB reach the nodes database by two loops that *)
(* run in several deployments, one process at a time at work: watchers     *)
(* record the events that follow a cursor, appliers take the oldest record *)
(* and apply it.  A row of GlobalSettings with the time of its last        *)
(* renewal is the lease of each loop (is_lock).  Time is left out: a lease *)
(* goes stale when its owner is lost, or works for longer than a minute.   *)
(* A definition named Mut... is the next one with a plausible mistake, for *)
(* the mutation runs in PROJECT.json.                                      *)
(***************************************************************************)
EXTENDS Integers, Sequences, FiniteSets

CONSTANTS
    Watchers, Appliers,   \* processes
    Nobody,               \* the key of a lease without a row
    MaxEvents,            \* bound: changes in the CMDB
    MaxMishaps            \* bound: restarts, delays and errors

ASSUME ProcessesAssumption == Watchers \cap Appliers = {} /\ Nobody \notin Watchers \union Appliers
ASSUME BoundsAssumption == MaxEvents \in Nat /\ MaxMishaps \in Nat

VARIABLES
    lease,     \* GlobalSettings: owner of each loop, and whether a minute has passed
    pc,        \* where a process is
    have,      \* what it holds: the cursor that a fetch led to, or a record
    kwargs,    \* the cursor it has last used, which stays in its arguments
    cursor,    \* cache: the cursor up to which events are recorded
    source,    \* events in the CMDB so far; the last one says what is true
    records,   \* ResourceWatchEvent: the events recorded, in order
    applied,   \* the records that were deleted
    mirror,    \* the event that the nodes database shows
    mishaps,
    late,      \* a process outlived its lease, or deleted a row renewed meanwhile
    missed     \* an event was skipped: the cursor had expired, or applying it failed

data == <<cursor, source, records, applied, mirror>>
faults == <<mishaps, late, missed>>
vars == <<lease, pc, have, kwargs, data, faults>>

Procs == Watchers \union Appliers
Loops == {"watch", "apply"}
LoopOf(p) == IF p \in Watchers THEN "watch" ELSE "apply"
None == -1
Events == 1 .. MaxEvents
Working == {"own", "fetched", "recorded", "picked", "handled"}
NoLease == [key |-> Nobody, stale |-> FALSE]

TypeOK ==
    /\ lease \in [Loops -> [key : Procs \union {Nobody}, stale : BOOLEAN]]
    /\ \A l \in Loops : lease[l].key = Nobody \/ LoopOf(lease[l].key) = l
    /\ pc \in [Procs -> Working \union {"loop", "renew", "delete", "asleep"}]
    /\ have \in [Procs -> Nat]
    /\ \A p \in Procs : pc[p] \in {"picked", "handled"} => have[p] \in 1 .. Len(records)
    /\ \A p \in Procs : pc[p] \in {"fetched", "recorded"} => have[p] \in 0 .. source
    /\ kwargs \in [Procs -> {None} \union 0 .. source]
    /\ cursor \in {None} \union 0 .. source
    /\ source \in 0 .. MaxEvents
    /\ records \in Seq(1 .. source)
    /\ applied \subseteq 1 .. Len(records)
    /\ mirror \in 0 .. source
    /\ mishaps \in 0 .. MaxMishaps /\ late \in BOOLEAN /\ missed \in BOOLEAN

\* One process of each loop has begun, and has its first cursor.
Init ==
    \E w \in Watchers, a \in Appliers :
        /\ lease = [l \in Loops |-> [key |-> IF l = "watch" THEN w ELSE a, stale |-> FALSE]]
        /\ pc = [p \in Procs |-> IF p \in {w, a} THEN "own" ELSE "loop"]
        /\ have = [p \in Procs |-> 0]
        /\ kwargs = [p \in Procs |-> IF p = w THEN 0 ELSE None]
        /\ cursor = 0 /\ source = 0 /\ records = <<>> /\ applied = {} /\ mirror = 0
        /\ mishaps = 0 /\ late = FALSE /\ missed = FALSE

Goto(p, place) == pc' = [pc EXCEPT ![p] = place]
LeaseOf(p) == lease[LoopOf(p)]
Recorded == {records[i] : i \in 1 .. Len(records)}
Drop(p) == have' = [have EXCEPT ![p] = 0]
SetLease(p, l) == lease' = [lease EXCEPT ![LoopOf(p)] = l]
-----------------------------------------------------------------------------
\* is_lock.  A process finds no row and creates it, finds the row stale and deletes
\* it, finds its own and renews it, or another one's and sleeps.
Owned(p) == [key |-> p, stale |-> FALSE]

Look(p) ==
    /\ pc[p] = "loop"
    /\ \/ LeaseOf(p).key = Nobody /\ SetLease(p, Owned(p)) /\ Goto(p, "own")
       \/ LeaseOf(p).stale /\ Goto(p, "delete") /\ UNCHANGED lease
       \/ LeaseOf(p) = Owned(p) /\ Goto(p, "renew") /\ UNCHANGED lease
    /\ UNCHANGED <<have, kwargs, data, faults>>

\* The deletion asks neither whose row it is nor how old it is by now.
Delete(p) ==
    /\ pc[p] = "delete"
    /\ SetLease(p, NoLease) /\ Goto(p, "asleep")
    /\ late' = (late \/ (LeaseOf(p).key # Nobody /\ ~LeaseOf(p).stale))
    /\ UNCHANGED <<have, kwargs, data, mishaps, missed>>

\* After 70 seconds of sleep the row is created, unless it is there again.
MutWake(p) ==
    /\ pc[p] = "asleep"
    /\ SetLease(p, Owned(p)) /\ Goto(p, "own")
    /\ UNCHANGED <<have, kwargs, data, faults>>

Wake(p) ==
    /\ pc[p] = "asleep"
    /\ IF LeaseOf(p).key = Nobody THEN SetLease(p, Owned(p)) /\ Goto(p, "own")
       ELSE Goto(p, "loop") /\ UNCHANGED lease
    /\ UNCHANGED <<have, kwargs, data, faults>>

\* update_config writes to whatever row there is by now.
Renew(p) ==
    /\ pc[p] = "renew" /\ Goto(p, "own")
    /\ IF LeaseOf(p).key = Nobody THEN UNCHANGED lease ELSE SetLease(p, Owned(p))
    /\ UNCHANGED <<have, kwargs, data, faults>>
-----------------------------------------------------------------------------
\* _resource_watch: from the cursor in the cache, else from the last one used, else
\* from now.  No event leaves the cursor alone.
Fetch(p) ==
    /\ p \in Watchers /\ pc[p] = "own" /\ Goto(p, "fetched")
    /\ kwargs' = [kwargs EXCEPT ![p] = IF cursor = None THEN @ ELSE cursor]
    /\ have' = [have EXCEPT ![p] = source]
    /\ missed' = (missed \/ (kwargs'[p] = None /\ ~(1 .. source \subseteq Recorded)))
    /\ UNCHANGED <<lease, data, mishaps, late>>

\* bulk_create
MutRecord(p) ==
    /\ pc[p] = "fetched" /\ Goto(p, "recorded")
    /\ records' = IF kwargs[p] = None THEN records
                  ELSE records \o [i \in 1 .. (have[p] - kwargs[p] + 1) |-> kwargs[p] + i - 1]
    /\ UNCHANGED <<lease, have, kwargs, cursor, source, applied, mirror, faults>>

Record(p) ==
    /\ pc[p] = "fetched" /\ Goto(p, "recorded")
    /\ records' = IF kwargs[p] = None THEN records
                  ELSE records \o [i \in 1 .. (have[p] - kwargs[p]) |-> kwargs[p] + i]
    /\ UNCHANGED <<lease, have, kwargs, cursor, source, applied, mirror, faults>>

\* set_cursor
MutSetCursor(p) ==
    /\ pc[p] = "recorded" /\ Goto(p, "loop")
    /\ cursor' = source /\ Drop(p)
    /\ UNCHANGED <<lease, kwargs, source, records, applied, mirror, faults>>

SetCursor(p) ==
    /\ pc[p] = "recorded" /\ Goto(p, "loop")
    /\ cursor' = have[p] /\ Drop(p)
    /\ UNCHANGED <<lease, kwargs, source, records, applied, mirror, faults>>
-----------------------------------------------------------------------------
\* apply_resource_watched_events: the record created first, or none
MutPick(p) ==
    /\ p \in Appliers /\ pc[p] = "own"
    /\ LET left == (1 .. Len(records)) \ applied
       IN  \/ left = {} /\ Goto(p, "loop") /\ UNCHANGED have
           \/ \E i \in left :
                 /\ \A j \in left : i >= j
                 /\ have' = [have EXCEPT ![p] = i]
                 /\ Goto(p, "picked")
    /\ UNCHANGED <<lease, kwargs, data, faults>>

Pick(p) ==
    /\ p \in Appliers /\ pc[p] = "own"
    /\ LET left == (1 .. Len(records)) \ applied
       IN  \/ left = {} /\ Goto(p, "loop") /\ UNCHANGED have
           \/ \E i \in left :
                 /\ \A j \in left : i <= j
                 /\ have' = [have EXCEPT ![p] = i]
                 /\ Goto(p, "picked")
    /\ UNCHANGED <<lease, kwargs, data, faults>>

\* The event is applied; an error is logged and the event passed over.
Mishap == mishaps < MaxMishaps /\ mishaps' = mishaps + 1

Handle(p) ==
    /\ pc[p] = "picked" /\ Goto(p, "handled")
    /\ \/ mirror' = records[have[p]] /\ UNCHANGED <<mishaps, missed>>
       \/ Mishap /\ missed' = TRUE /\ UNCHANGED mirror
    /\ UNCHANGED <<lease, have, kwargs, cursor, source, records, applied, late>>

DeleteEvent(p) ==
    /\ pc[p] = "handled" /\ Goto(p, "loop")
    /\ applied' = applied \union {have[p]} /\ Drop(p)
    /\ UNCHANGED <<lease, kwargs, cursor, source, records, mirror, faults>>
-----------------------------------------------------------------------------
\* Something changes in the CMDB.
Change ==
    /\ source < MaxEvents /\ source' = source + 1
    /\ UNCHANGED <<lease, pc, have, kwargs, cursor, records, applied, mirror, faults>>

\* A process is lost and started again, with another key: the row it may have had
\* is nobody's, which is as good as stale.
Restart(p) ==
    /\ Mishap /\ pc[p] # "loop"
    /\ pc' = [pc EXCEPT ![p] = "loop"]
    /\ Drop(p)
    /\ kwargs' = [kwargs EXCEPT ![p] = None]
    /\ IF LeaseOf(p).key = p THEN SetLease(p, [key |-> p, stale |-> TRUE]) ELSE UNCHANGED lease
    /\ UNCHANGED <<data, late, missed>>

\* A process takes more than a minute for one turn.
Overrun(p) ==
    /\ Mishap /\ pc[p] \in Working \union {"renew"} /\ LeaseOf(p) = Owned(p)
    /\ SetLease(p, [key |-> p, stale |-> TRUE])
    /\ late' = TRUE
    /\ UNCHANGED <<pc, have, kwargs, data, missed>>

\* The cursor lives for two minutes, which a change of the owner may well take.
Forget ==
    /\ cursor # None
    /\ lease["watch"].key = Nobody \/ lease["watch"].stale
    /\ cursor' = None
    /\ UNCHANGED <<lease, pc, have, kwargs, source, records, applied, mirror, faults>>
-----------------------------------------------------------------------------
Turn(p) ==
    \/ Look(p) \/ Delete(p) \/ Wake(p) \/ Renew(p)
    \/ Fetch(p) \/ Record(p) \/ SetCursor(p)
    \/ Pick(p) \/ Handle(p) \/ DeleteEvent(p)

Next ==
    \/ \E p \in Procs : Turn(p) \/ Restart(p) \/ Overrun(p)
    \/ Change \/ Forget

\* Every process goes on with its turn.
Fairness == \A p \in Procs : WF_vars(Turn(p))

Spec == Init /\ [][Next]_vars /\ Fairness
-----------------------------------------------------------------------------
\* As long as processes keep the times, one of each loop is at work, through
\* restarts and takeovers.
OneAtWork ==
    ~late => \A p, q \in Procs :
        LoopOf(p) = LoopOf(q) /\ pc[p] \in Working /\ pc[q] \in Working => p = q

\* A cursor never runs ahead of what is recorded, whoever was lost or late, unless
\* a process had to start without one.
NothingSkipped == ~missed => 1 .. cursor \subseteq Recorded

\* When all that happened is recorded and every record applied, the nodes database shows
\* the last change: no repetition of older events, no other owner has come in between.
UpToDate ==
    ~late /\ ~missed /\ cursor = source /\ applied = 1 .. Len(records) => mirror = source

\* The nodes database ends up with the last change, records repeated after a restart
\* included, unless an event was skipped or two processes were at work at once.
Mirrors == <>[](mirror = source \/ late \/ missed)
=============================================================================
