------------------------ MODULE PluginPatrol_proofs ------------------------
(***************************************************************************)
(* Proofs about PluginPatrol, for any policies, operations, versions and   *)
(* bounds.                                                                 *)
(***************************************************************************)
EXTENDS PluginPatrol, SequenceTheorems, TLAPS

\* What is left of a task: another activity follows the one that takes the latest
\* mark away, and only one-off operations stop a plugin by hand.
TaskOK(s, t) ==
    /\ t \in Seq(Activities)
    /\ \A i \in 1 .. Len(t) :
          /\ t[i] = "clear" => i < Len(t)
          /\ t[i] = "manual" => s \notin Policies

TasksInv ==
    \A s \in Subs : TaskOK(s, task[s]) /\ (~Idle(s) => wanted[s] # 0)

\* No row of a policy says that a user has stopped the plugin.
ManualInv == \A p \in Policies : row[p].status # "MANUAL_STOP"

\* The patrol starts nothing for who is given up, so that every failure beyond the
\* limit takes an operation.
RetryInv ==
    \A s \in Subs :
        /\ row[s].retry <= MaxRetryTime + ops + 1
        /\ ~Idle(s) => row[s].retry <= MaxRetryTime + ops

\* The synchronisation writes what it has heard to a row that exists, and the mark of a
\* manual stop to that of a one-off operation only.
SyncInv ==
    /\ sync.at = "asked" => sync.version # 0 /\ sync.target = {} /\ sync.status # "MANUAL_STOP"
    /\ \A s \in sync.target : Exists(s) /\ sync.version # 0
    /\ sync.status = "MANUAL_STOP" => sync.target \cap Policies = {}

IInv == TypeOK /\ TasksInv /\ ManualInv /\ RetryInv /\ SyncInv

Kinds == {"install", "start", "stop", "stop_and_delete"}
AnyRow == {NoRow} \union Rows
-----------------------------------------------------------------------------
LEMMA FieldsOfRows ==
    ASSUME NEW r \in AnyRow
    PROVE  /\ r.status \in Status \union {"none"} /\ r.latest \in BOOLEAN
           /\ r.retry \in 0 .. MaxRetryTime + MaxOps + 1 /\ r.version \in Versions
           /\ r = [status |-> r.status, latest |-> r.latest, retry |-> r.retry, version |-> r.version]
           /\ r.status = "none" => r = NoRow
           /\ r.status # "none" => r \in Rows
           /\ r.latest => r \in Rows
<1>1. CASE r = NoRow
  BY <1>1, BoundsAssumption DEF NoRow, Versions
<1>2. CASE r \in Rows
  <2>1. /\ r.status \in Status /\ r.latest \in BOOLEAN
        /\ r.retry \in 0 .. MaxRetryTime + MaxOps + 1 /\ r.version \in 1 .. MaxVersion
        /\ r = [status |-> r.status, latest |-> r.latest, retry |-> r.retry, version |-> r.version]
    BY <1>2 DEF Rows
  <2>2. r.status # "none" /\ r.version \in Versions
    BY <2>1, BoundsAssumption DEF Status, Versions
  <2> QED
    BY <1>2, <2>1, <2>2
<1> QED
  BY <1>1, <1>2 DEF AnyRow

LEMMA Unlatest ==
    ASSUME NEW r \in AnyRow
    PROVE  /\ [r EXCEPT !.latest = FALSE] \in AnyRow
           /\ [r EXCEPT !.latest = FALSE].status = r.status
           /\ [r EXCEPT !.latest = FALSE].retry = r.retry
  BY FieldsOfRows DEF AnyRow, NoRow, Rows

\* Scripts are tasks.
LEMMA ScriptOK ==
    ASSUME NEW s \in Subs, NEW k \in Kinds
    PROVE  TaskOK(s, Script(k, s)) /\ Script(k, s) # <<>>
<1> DEFINE end == IF s \in Onces THEN "manual" ELSE "removed"
<1>1. CASE k = "install"
  BY <1>1 DEF Script, TaskOK, Activities
<1>2. CASE k = "start"
  BY <1>2 DEF Script, TaskOK, Activities
<1>3. CASE k = "stop"
  BY <1>3, GrayAssumption DEF Script, TaskOK, Activities
<1>4. CASE k = "stop_and_delete"
  BY <1>4 DEF Script, TaskOK, Activities
<1> QED
  BY <1>1, <1>2, <1>3, <1>4 DEF Kinds

LEMMA TailOK ==
    ASSUME NEW s \in Subs, NEW t, TaskOK(s, t), t # <<>>
    PROVE  /\ TaskOK(s, Tail(t))
           /\ Head(t) = "clear" => Tail(t) # <<>>
<1>1. t \in Seq(Activities) /\ Len(t) \in Nat
  BY LenProperties DEF TaskOK
<1>2. /\ Head(t) = t[1] /\ Tail(t) \in Seq(Activities) /\ Len(t) >= 1
      /\ Len(Tail(t)) = Len(t) - 1
      /\ \A i \in 1 .. Len(Tail(t)) : Tail(t)[i] = t[i + 1]
  BY <1>1, HeadTailProperties, EmptySeq
<1>3. ASSUME NEW i \in 1 .. Len(Tail(t))
      PROVE  /\ Tail(t)[i] = "clear" => i < Len(Tail(t))
             /\ Tail(t)[i] = "manual" => s \notin Policies
  <2>1. i + 1 \in 1 .. Len(t) /\ Tail(t)[i] = t[i + 1]
    BY <1>1, <1>2
  <2> QED
    BY <1>1, <1>2, <2>1 DEF TaskOK
<1>4. Head(t) = "clear" => Len(Tail(t)) >= 1
  BY <1>1, <1>2 DEF TaskOK
<1>5. Len(<<>>) = 0
  BY EmptySeq
<1>6. TaskOK(s, Tail(t))
  BY <1>2, <1>3 DEF TaskOK
<1> QED
  BY <1>4, <1>5, <1>6
-----------------------------------------------------------------------------
\* What a step does to one row: it goes, keeps its count of failures or begins a new
\* one; only the failure of a task, which ends it, counts one up.
RowStep(s, r) ==
    /\ r \in AnyRow
    /\ s \in Policies => r.status # "MANUAL_STOP"
    /\ \/ r.retry <= row[s].retry
       \/ ~Idle(s) /\ task'[s] = <<>> /\ r.retry <= row[s].retry + 1

LEMMA RowOf ==
    ASSUME IInv, NEW s \in Subs
    PROVE  /\ row \in [Subs -> AnyRow] /\ row[s] \in AnyRow
           /\ row[s].retry \in Nat
           /\ RowStep(s, row[s])
           /\ RowStep(s, NoRow)
<1>1. row \in [Subs -> AnyRow] /\ row[s] \in AnyRow
  BY DEF IInv, TypeOK, AnyRow
<1>2. row[s].retry \in Nat
  BY <1>1, FieldsOfRows, BoundsAssumption
<1> QED
  BY <1>1, <1>2 DEF IInv, ManualInv, RowStep, NoRow, AnyRow

\* Several fields of a row at once, and one of them.
LEMMA Written ==
    ASSUME NEW r \in AnyRow, NEW v \in 1 .. MaxVersion
    PROVE  /\ [r EXCEPT !.status = "UNKNOWN", !.version = v] \in AnyRow
           /\ [r EXCEPT !.status = "UNKNOWN", !.version = v].status = "UNKNOWN"
           /\ [r EXCEPT !.status = "UNKNOWN", !.version = v].retry = r.retry
  BY FieldsOfRows, BoundsAssumption DEF AnyRow, NoRow, Rows, Status

LEMMA Counted ==
    ASSUME NEW r \in AnyRow, NEW n \in 0 .. MaxRetryTime + MaxOps + 1, n = 0 \/ r # NoRow
    PROVE  /\ [r EXCEPT !.retry = n] \in AnyRow
           /\ [r EXCEPT !.retry = n].status = r.status
           /\ [r EXCEPT !.retry = n].retry = n
  BY FieldsOfRows, BoundsAssumption DEF AnyRow, NoRow, Rows

LEMMA Reported ==
    ASSUME NEW r \in Rows, NEW v \in 1 .. MaxVersion, NEW st \in Status
    PROVE  /\ [r EXCEPT !.status = st, !.version = v] \in Rows
           /\ [r EXCEPT !.status = st, !.version = v].status = st
           /\ [r EXCEPT !.status = st, !.version = v].retry = r.retry
           /\ [r EXCEPT !.status = st, !.version = v].latest = r.latest
  BY FieldsOfRows DEF AnyRow, Rows

RowsStep == row' \in [Subs -> AnyRow] /\ \A s \in Subs : RowStep(s, row'[s])

LEMMA OneRow ==
    ASSUME IInv, NEW u \in Subs, NEW r, RowStep(u, r), row' = [row EXCEPT ![u] = r]
    PROVE  RowsStep
<1>1. row \in [Subs -> AnyRow] /\ r \in AnyRow
  BY RowOf DEF RowStep
<1>2. row' \in [Subs -> AnyRow]
  BY <1>1
<1>3. \A s \in Subs : row'[s] = IF s = u THEN r ELSE row[s]
  BY <1>1
<1>4. \A s \in Subs : RowStep(s, row[s])
  BY RowOf
<1> QED
  BY <1>2, <1>3, <1>4, Zenon DEF RowsStep

LEMMA SameRows == IInv /\ UNCHANGED row => RowsStep
<1> SUFFICES ASSUME IInv, row' = row PROVE RowsStep
  OBVIOUS
<1>1. row \in [Subs -> AnyRow]
  BY DEF IInv, TypeOK, AnyRow
<1>2. \A s \in Subs : RowStep(s, row[s])
  BY RowOf
<1> QED
  BY <1>1, <1>2, Zenon DEF RowsStep

\* UpdateHostProcessStatus: first no row is the latest, then that of the subscription.
LEMMA ClearedRows ==
    ASSUME IInv
    PROVE  Cleared \in [Subs -> AnyRow] /\ \A s \in Subs : RowStep(s, Cleared[s])
<1> SUFFICES ASSUME NEW s \in Subs
             PROVE  [row[s] EXCEPT !.latest = FALSE] \in AnyRow /\ RowStep(s, [row[s] EXCEPT !.latest = FALSE])
  BY DEF Cleared
<1>1. row[s] \in AnyRow /\ row[s].retry \in Nat /\ (s \in Policies => row[s].status # "MANUAL_STOP")
  BY RowOf DEF RowStep
<1> QED
  BY <1>1, Unlatest DEF RowStep

LEMMA MarkedRows ==
    ASSUME IInv, NEW rows, NEW u \in Subs, NEW outcome,
           rows \in [Subs -> AnyRow], \A s \in Subs : RowStep(s, rows[s]),
           u \in Policies => outcome # "manual", row' = Marked(rows, u, outcome)
    PROVE  RowsStep
<1>1. CASE outcome = "removed"
  <2>1. row' = [rows EXCEPT ![u] = NoRow]
    BY <1>1 DEF Marked
  <2> QED
    BY <2>1, RowOf DEF RowsStep, AnyRow
<1>2. CASE outcome # "removed" /\ rows[u].status = "none"
  BY <1>2 DEF Marked, RowsStep
<1>3. CASE outcome # "removed" /\ rows[u].status # "none"
  <2> DEFINE st == IF outcome = "manual" THEN "MANUAL_STOP" ELSE "RUNNING"
             r == [status |-> st, latest |-> TRUE, retry |-> 0, version |-> rows[u].version]
  <2>1. row' = [rows EXCEPT ![u] = r]
    BY <1>3 DEF Marked
  <2>2. rows[u] \in AnyRow
    OBVIOUS
  <2>3. rows[u] \in Rows
    BY <1>3, <2>2, FieldsOfRows
  <2>4. r \in Rows
    BY <2>3, BoundsAssumption DEF Rows, Status
  <2>5. RowStep(u, r)
    BY <2>4, RowOf DEF RowStep, AnyRow
  <2> QED
    BY <2>1, <2>4, <2>5 DEF RowsStep, AnyRow
<1> QED
  BY <1>1, <1>2, <1>3

LEMMA WriteRows == IInv /\ Write => RowsStep
<1> SUFFICES ASSUME IInv, Write PROVE RowsStep
  OBVIOUS
<1>1. /\ sync.status \in Status /\ sync.target \subseteq Subs
      /\ \A s \in sync.target : sync.version \in 1 .. MaxVersion
  <2>1. sync.status \in Status /\ sync.version \in Versions /\ sync.target \subseteq Subs
    BY DEF IInv, TypeOK
  <2>2. \A s \in sync.target : sync.version # 0
    BY DEF IInv, SyncInv
  <2> QED
    BY <2>1, <2>2, BoundsAssumption DEF Versions
<1>2. ASSUME NEW s \in sync.target
      PROVE  RowStep(s, [row[s] EXCEPT !.status = sync.status, !.version = sync.version])
  <2>1. s \in Subs /\ Exists(s)
    BY <1>1, <1>2 DEF IInv, SyncInv
  <2>2. row[s] \in Rows /\ row[s].retry \in Nat
    BY <2>1, RowOf, FieldsOfRows DEF Exists
  <2>3. s \in Policies => sync.status # "MANUAL_STOP"
    BY <1>2 DEF IInv, SyncInv
  <2>4. ASSUME NEW r \in Rows, NEW v \in 1 .. MaxVersion, NEW st \in Status,
               r.retry \in Nat, r = row[s], s \in Policies => st # "MANUAL_STOP"
        PROVE  RowStep(s, [r EXCEPT !.status = st, !.version = v])
    <3> DEFINE w == [r EXCEPT !.status = st, !.version = v]
    <3>1. w \in Rows /\ w.status = st /\ w.retry = r.retry
      BY Reported
    <3> HIDE DEF w
    <3>2. RowStep(s, w)
      BY <2>4, <3>1 DEF RowStep, AnyRow
    <3> QED
      BY <3>2 DEF w
  <2> QED
    BY <1>1, <2>2, <2>3, <2>4, Zenon
<1>3. row' = [s \in Subs |-> IF s \in sync.target
                             THEN [row[s] EXCEPT !.status = sync.status, !.version = sync.version]
                             ELSE row[s]]
  BY DEF Write
<1>4. ASSUME NEW s \in Subs PROVE RowStep(s, row'[s])
  <2>1. CASE s \in sync.target
    <3>1. row'[s] = [row[s] EXCEPT !.status = sync.status, !.version = sync.version]
      BY <1>3, <2>1, Zenon
    <3> QED
      BY <1>2, <2>1, <3>1, Zenon
  <2>2. CASE s \notin sync.target
    <3>1. row'[s] = row[s]
      BY <1>3, <2>2, Zenon
    <3> QED
      BY <3>1, RowOf, Zenon
  <2> QED
    BY <2>1, <2>2
<1>5. \A s \in Subs : row'[s] \in AnyRow
  BY <1>4 DEF RowStep
<1>6. row' \in [Subs -> AnyRow]
  BY <1>3, <1>5
<1> QED
  BY <1>4, <1>6 DEF RowsStep

LEMMA RowsOfStep == IInv /\ [Next]_vars => RowsStep
<1> SUFFICES ASSUME IInv, [Next]_vars PROVE RowsStep
  OBVIOUS
<1>1. ASSUME NEW p \in Policies, Patrol(p) PROVE RowsStep
  <2>1. CASE UNCHANGED row
    BY <2>1, SameRows
  <2>2. CASE row' = [row EXCEPT ![p] = NoRow]
    BY <2>2, RowOf, OneRow DEF Subs
  <2> QED
    BY <1>1, <2>1, <2>2 DEF Patrol, Detach, rowVars
<1>2. ASSUME NEW s \in Subs, InitProcessStatus(s) PROVE RowsStep
  <2>1. wanted[s] \in 1 .. MaxVersion
    <3>1. wanted[s] \in Versions /\ wanted[s] # 0
      BY <1>2 DEF IInv, TypeOK, TasksInv, InitProcessStatus
    <3> QED
      BY <3>1, BoundsAssumption DEF Versions
  <2>2. row[s] \in AnyRow /\ row[s].retry \in Nat
    BY RowOf
  <2>3. RowStep(s, [row[s] EXCEPT !.status = "UNKNOWN", !.version = wanted[s]])
    <3>1. ASSUME NEW v \in 1 .. MaxVersion, NEW r \in AnyRow, r.retry \in Nat, r = row[s]
          PROVE  RowStep(s, [r EXCEPT !.status = "UNKNOWN", !.version = v])
      <4>1. PICK w \in AnyRow : /\ w = [r EXCEPT !.status = "UNKNOWN", !.version = v]
                               /\ w.status = "UNKNOWN" /\ w.retry = r.retry
        BY Written, Zenon
      <4>2. RowStep(s, w)
        BY <3>1, <4>1 DEF RowStep
      <4> QED
        BY <4>1, <4>2, Zenon
    <3> QED
      BY <2>1, <2>2, <3>1, Zenon
  <2>4. row' = [row EXCEPT ![s] = [row[s] EXCEPT !.status = "UNKNOWN", !.version = wanted[s]]]
    BY <1>2 DEF InitProcessStatus
  <2> QED
    BY <2>3, <2>4, OneRow
<1>3. ASSUME NEW s \in Subs, UpdateHostProcessStatus(s) PROVE RowsStep
  <2>1. TaskOK(s, task[s]) /\ task[s] # <<>>
    BY <1>3 DEF IInv, TasksInv, UpdateHostProcessStatus, Doing, Idle
  <2>2. CASE Doing(s, "clear") /\ row' = Marked(Cleared, s, task[s][2])
    <3>1. s \in Policies => task[s][2] # "manual"
      <4>1. task[s] \in Seq(Activities) /\ Len(task[s]) \in Nat
        BY <2>1, LenProperties DEF TaskOK
      <4>2. Head(task[s]) = task[s][1] /\ Len(task[s]) >= 1
        BY <2>1, <4>1, EmptySeq
      <4>3. 2 \in 1 .. Len(task[s])
        BY <2>1, <2>2, <4>1, <4>2 DEF TaskOK, Doing
      <4> QED
        BY <2>1, <4>3 DEF TaskOK
    <3> QED
      BY <2>2, <3>1, ClearedRows, MarkedRows
  <2>3. CASE row' = Marked(row, s, Head(task[s]))
    <3>1. s \in Policies => Head(task[s]) # "manual"
      <4>1. task[s] \in Seq(Activities) /\ Len(task[s]) \in Nat
        BY <2>1, LenProperties DEF TaskOK
      <4>2. Head(task[s]) = task[s][1] /\ Len(task[s]) >= 1
        BY <2>1, <4>1, EmptySeq
      <4> QED
        BY <2>1, <4>1, <4>2 DEF TaskOK
    <3>2. row \in [Subs -> AnyRow] /\ \A q \in Subs : RowStep(q, row[q])
      BY RowOf
    <3> QED
      BY <2>3, <3>1, <3>2, MarkedRows
  <2> QED
    BY <1>3, <2>2, <2>3 DEF UpdateHostProcessStatus
<1>4. ASSUME NEW s \in Subs, Fail(s) PROVE RowsStep
  <2>1. ~Idle(s) /\ task' = [task EXCEPT ![s] = <<>>]
        /\ row' = [row EXCEPT ![s].retry = IF Exists(s) THEN @ + 1 ELSE @]
    BY <1>4 DEF Fail
  <2>2. task'[s] = <<>>
    BY <2>1 DEF IInv, TypeOK
  <2>3. row[s] \in AnyRow /\ row[s].retry \in Nat /\ (s \in Policies => row[s].status # "MANUAL_STOP")
    BY RowOf DEF RowStep
  <2>4. CASE Exists(s)
    <3>1. row[s].retry + 1 \in 0 .. MaxRetryTime + MaxOps + 1
      BY <2>1, <2>3, BoundsAssumption DEF IInv, RetryInv, TypeOK
    <3>2. row' = [row EXCEPT ![s] = [row[s] EXCEPT !.retry = row[s].retry + 1]]
      BY <2>1, <2>4
    <3>3. row[s] # NoRow
      BY <2>4 DEF Exists, NoRow
    <3>4. RowStep(s, [row[s] EXCEPT !.retry = row[s].retry + 1])
      <4>1. ASSUME NEW n \in 0 .. MaxRetryTime + MaxOps + 1, n = row[s].retry + 1
            PROVE  RowStep(s, [row[s] EXCEPT !.retry = n])
        BY <2>1, <2>2, <2>3, <3>3, <4>1, Counted DEF RowStep
      <4> QED
        BY <3>1, <4>1
    <3> QED
      BY <3>2, <3>4, OneRow
  <2>5. CASE ~Exists(s)
    <3>1. row[s] = NoRow
      BY <2>3, <2>5, FieldsOfRows DEF Exists
    <3>2. row' = [row EXCEPT ![s] = [row[s] EXCEPT !.retry = row[s].retry]]
      BY <2>1, <2>5
    <3>3. [NoRow EXCEPT !.retry = NoRow.retry] = NoRow
      BY DEF NoRow
    <3> QED
      BY <3>1, <3>2, <3>3, RowOf, OneRow
  <2> QED
    BY <2>4, <2>5
<1>5. ASSUME NEW s \in Subs, ClearLatest(s) PROVE RowsStep
  BY <1>5, ClearedRows DEF ClearLatest, RowsStep
<1>6. ASSUME NEW p \in Policies, NEW v \in 1 .. MaxVersion, EditPolicy(p, v) PROVE RowsStep
  <2>1. row[p] \in AnyRow /\ row[p].retry \in Nat /\ row[p].status # "MANUAL_STOP" /\ p \in Subs
    BY RowOf DEF RowStep, Subs
  <2>2. row' = [row EXCEPT ![p] = [row[p] EXCEPT !.retry = 0]]
    BY <1>6 DEF EditPolicy
  <2>3. RowStep(p, [row[p] EXCEPT !.retry = 0])
    <3>1. ASSUME NEW r \in AnyRow, NEW n \in 0 .. MaxRetryTime + MaxOps + 1, n = 0, r = row[p]
          PROVE  RowStep(p, [r EXCEPT !.retry = n])
      <4>1. PICK w \in AnyRow : w = [r EXCEPT !.retry = n] /\ w.status = r.status /\ w.retry = n
        BY <3>1, Counted, Zenon
      <4>2. RowStep(p, w)
        BY <2>1, <3>1, <4>1 DEF RowStep
      <4> QED
        BY <4>1, <4>2, Zenon
    <3>2. 0 \in 0 .. MaxRetryTime + MaxOps + 1
      BY BoundsAssumption
    <3> QED
      BY <2>1, <3>1, <3>2, Zenon
  <2> QED
    BY <2>1, <2>2, <2>3, OneRow
<1>7. CASE Sync \/ SyncLate
  BY <1>7, WriteRows DEF Sync, SyncLate
<1>8. ASSUME NEW s \in Subs, Operate(s) \/ DeleteSubscription(s) PROVE UNCHANGED row
  BY <1>8 DEF Operate, DeleteSubscription, rowVars
<1>9. ASSUME NEW p \in Policies, NEW kind \in Kinds,
             PolicyOperate(p, kind) \/ Disable(p) \/ DeleteGray(p) \/ MoveHost(p)
      PROVE  UNCHANGED row
  BY <1>9 DEF PolicyOperate, Disable, DeleteGray, MoveHost, rowVars
<1>10. ASSUME NEW u \in Onces, NEW kind \in Kinds, Once(u, kind) PROVE UNCHANGED row
  BY <1>10 DEF Once, rowVars
<1>11. CASE Crash \/ QueryProcStatus \/ ReadRows \/ SyncLost \/ UNCHANGED vars
  BY <1>11, SameRows DEF Crash, QueryProcStatus, ReadRows, SyncLost, rowVars, vars
<1> QED
  BY <1>1, <1>2, <1>3, <1>4, <1>5, <1>6, <1>7, <1>8, <1>9, <1>10, <1>11, SameRows
  DEF Next, Activity, User, Kinds
-----------------------------------------------------------------------------
\* What a step does to the tasks: one goes on or ends, or one begins, which takes an
\* operation or a subscription that is not given up.
Continues(u, t) == TaskOK(u, t) /\ ~Idle(u)

Begins(u, t) ==
    /\ TaskOK(u, t) /\ wanted'[u] # 0
    /\ \/ ops' = ops + 1
       \/ UNCHANGED <<row, ops>> /\ row[u].retry <= MaxRetryTime

TasksStep ==
    \/ UNCHANGED task
    \/ \E u \in Subs, t \in Seq(Activities) :
          task' = [task EXCEPT ![u] = t] /\ (Continues(u, t) \/ Begins(u, t))

LEMMA RunStep ==
    ASSUME NEW u \in Subs, NEW kinds \in SUBSET Kinds, Run(u, kinds)
    PROVE  \/ UNCHANGED task
           \/ \E t \in Seq(Activities) : task' = [task EXCEPT ![u] = t] /\ TaskOK(u, t) /\ kinds # {}
<1> DEFINE run == {k \in kinds : ~Suppressed(u, k)}
<1>1. CASE run = {}
  BY <1>1 DEF Run
<1>2. CASE run # {}
  <2>1. (CHOOSE k \in run : TRUE) \in Kinds /\ kinds # {}
    BY <1>2
  <2>2. task' = [task EXCEPT ![u] = Script(CHOOSE k \in run : TRUE, u)]
    BY <1>2 DEF Run
  <2> HIDE DEF run
  <2>3. TaskOK(u, Script(CHOOSE k \in run : TRUE, u))
    BY <2>1, ScriptOK
  <2> QED
    BY <2>1, <2>2, <2>3 DEF TaskOK
<1> QED
  BY <1>1, <1>2

LEMMA DoneStep ==
    ASSUME IInv, NEW u \in Subs, ~Idle(u), Done(u)
    PROVE  TasksStep
<1>1. TaskOK(u, task[u]) /\ task[u] # <<>>
  BY DEF IInv, TasksInv, Idle
<1>2. TaskOK(u, Tail(task[u]))
  BY <1>1, TailOK
<1>3. task' = [task EXCEPT ![u] = Tail(task[u])]
  BY DEF Done
<1> QED
  BY <1>2, <1>3 DEF TasksStep, Continues, TaskOK

LEMMA TasksOfStep == IInv /\ [Next]_vars => TasksStep
<1> SUFFICES ASSUME IInv, [Next]_vars PROVE TasksStep
  OBVIOUS
<1>1. ASSUME NEW p \in Policies, Patrol(p) PROVE TasksStep
  <2> DEFINE kinds == IF GivenUp(p) \/ ManuallyStopped THEN {} ELSE Migrate(wanted[p], row[p])
  <2>1. CASE UNCHANGED task
    BY <2>1 DEF TasksStep
  <2>2. CASE Run(p, kinds) /\ UNCHANGED rowVars
    <3>1. kinds \in SUBSET Kinds
      BY DEF Migrate, Kinds
    <3>2. kinds # {} => row[p].retry <= MaxRetryTime
      <4>1. row[p].retry \in Nat
        BY RowOf DEF Subs
      <4> QED
        BY <4>1, BoundsAssumption DEF GivenUp
    <3>3. wanted'[p] # 0 /\ UNCHANGED <<row, ops>> /\ p \in Subs
      BY <1>1, <2>2 DEF Patrol, subVars, rowVars, bounds, IInv, TypeOK, Subs
    <3> HIDE DEF kinds
    <3> QED
      BY <2>2, <3>1, <3>2, <3>3, RunStep DEF TasksStep, Begins
  <2> QED
    BY <1>1, <2>1, <2>2 DEF Patrol
<1>2. ASSUME NEW s \in Subs, InitProcessStatus(s) \/ Operate(s) \/ DeleteSubscription(s) \/ ClearLatest(s)
      PROVE  TasksStep
  <2>1. ~Idle(s) /\ Done(s)
    BY <1>2 DEF InitProcessStatus, Operate, DeleteSubscription, ClearLatest, Doing, Idle
  <2> QED
    BY <2>1, DoneStep
<1>3. ASSUME NEW s \in Subs, UpdateHostProcessStatus(s) PROVE TasksStep
  <2>1. CASE Doing(s, "clear") /\ task' = [task EXCEPT ![s] = Tail(Tail(@))]
    <3>1. TaskOK(s, task[s]) /\ task[s] # <<>> /\ Head(task[s]) = "clear"
      BY <2>1 DEF IInv, TasksInv, Doing
    <3>2. TaskOK(s, Tail(task[s])) /\ Tail(task[s]) # <<>>
      BY <3>1, TailOK
    <3>3. TaskOK(s, Tail(Tail(task[s])))
      BY <3>2, TailOK
    <3> QED
      BY <2>1, <3>1, <3>3 DEF TasksStep, Continues, TaskOK, Idle
  <2>2. CASE ~Idle(s) /\ Done(s)
    BY <2>2, DoneStep
  <2> QED
    BY <1>3, <2>1, <2>2 DEF UpdateHostProcessStatus
<1>4. ASSUME NEW s \in Subs, Fail(s) PROVE TasksStep
  <2>1. <<>> \in Seq(Activities) /\ Len(<<>>) = 0
    BY EmptySeq
  <2>2. TaskOK(s, <<>>)
    BY <2>1 DEF TaskOK
  <2> QED
    BY <1>4, <2>1, <2>2 DEF Fail, TasksStep, Continues
<1>5. ASSUME NEW p \in Policies, NEW v \in 1 .. MaxVersion, EditPolicy(p, v) PROVE TasksStep
  <2> DEFINE r == IF row[p].latest THEN row[p] ELSE NoRow
             kinds == IF p \in scope THEN Migrate(v, r)
                      ELSE IF r # NoRow /\ r.status # "TERMINATED" THEN {"stop"} ELSE {}
  <2>1. Run(p, kinds) /\ kinds \in SUBSET Kinds
    BY <1>5 DEF EditPolicy, Migrate, Kinds
  <2>2. wanted'[p] # 0 /\ p \in Subs /\ ops' = ops + 1
    BY <1>5 DEF EditPolicy, Op, IInv, TypeOK, Subs
  <2> HIDE DEF kinds
  <2> QED
    BY <2>1, <2>2, RunStep DEF TasksStep, Begins
<1>6. ASSUME NEW p \in Policies, NEW kind \in Kinds, PolicyOperate(p, kind) PROVE TasksStep
  <2>1. Run(p, {kind}) /\ {kind} \in SUBSET Kinds
    BY <1>6 DEF PolicyOperate
  <2>2. wanted'[p] # 0 /\ p \in Subs /\ ops' = ops + 1
    BY <1>6 DEF PolicyOperate, Op, IInv, TypeOK, Subs
  <2> QED
    BY <2>1, <2>2, RunStep DEF TasksStep, Begins
<1>7. ASSUME NEW p \in Policies, DeleteGray(p) PROVE TasksStep
  <2>1. \/ UNCHANGED task
        \/ \E q \in OnHost(FALSE) : task' = [task EXCEPT ![q] = Script("install", q)]
    BY <1>7 DEF DeleteGray
  <2>2. ASSUME NEW q \in OnHost(FALSE), task' = [task EXCEPT ![q] = Script("install", q)]
        PROVE  TasksStep
    <3>1. q \in Policies /\ q \in Subs
      BY DEF OnHost, IInv, TypeOK, Subs
    <3>2. TaskOK(q, Script("install", q))
      BY <3>1, ScriptOK DEF Kinds
    <3>3. wanted'[q] # 0 /\ ops' = ops + 1
      BY <1>7, <3>1 DEF DeleteGray, Op, IInv, TypeOK
    <3> QED
      BY <2>2, <3>1, <3>2, <3>3 DEF TasksStep, Begins, TaskOK
  <2> QED
    BY <2>1, <2>2 DEF TasksStep
<1>8. ASSUME NEW u \in Onces, NEW kind \in Kinds, Once(u, kind) PROVE TasksStep
  <2>1. Run(u, {kind}) /\ {kind} \in SUBSET Kinds
    BY <1>8 DEF Once
  <2>2. wanted'[u] # 0 /\ u \in Subs /\ ops' = ops + 1
    BY <1>8, BoundsAssumption DEF Once, Op, IInv, TypeOK, Subs
  <2> QED
    BY <2>1, <2>2, RunStep DEF TasksStep, Begins
<1>9. CASE QueryProcStatus \/ ReadRows \/ Sync \/ SyncLate \/ SyncLost \/ Crash \/ UNCHANGED vars
  BY <1>9 DEF QueryProcStatus, ReadRows, Sync, SyncLate, SyncLost, Write, Crash, vars, TasksStep
<1>10. ASSUME NEW p \in Policies, Disable(p) \/ MoveHost(p) PROVE TasksStep
  BY <1>10 DEF Disable, MoveHost, TasksStep
<1> QED
  BY <1>1, <1>2, <1>3, <1>4, <1>5, <1>6, <1>7, <1>8, <1>9, <1>10
  DEF Next, Activity, User, Kinds
-----------------------------------------------------------------------------
\* The rest of the types; what is counted, and what subscriptions want, only moves on.
LEMMA OthersOfStep ==
    ASSUME IInv, [Next]_vars
    PROVE  /\ wanted' \in [Subs -> Versions]
           /\ \A s \in Subs : wanted[s] # 0 => wanted'[s] # 0
           /\ enabled' \subseteq Policies /\ scope' \subseteq Policies
           /\ loose' \in BOOLEAN
           /\ host' \in [version : Versions, status : {"RUNNING"} \union DownAs]
           /\ ops' \in 0 .. MaxOps /\ slips' \in 0 .. MaxSlips /\ ops' \in Nat
           /\ ops \in Nat /\ ops <= ops'
<1> USE DEF IInv, TypeOK
<1>1. \/ UNCHANGED wanted
      \/ \E s \in Subs, v \in 1 .. MaxVersion : wanted' = [wanted EXCEPT ![s] = v]
  <2>1. MaxVersion \in 1 .. MaxVersion
    BY BoundsAssumption
  <2> QED
    BY <2>1 DEF Next, Patrol, Detach, Activity, InitProcessStatus, Operate, UpdateHostProcessStatus,
       DeleteSubscription, Fail, Sync, User, EditPolicy, PolicyOperate, Disable, DeleteGray, MoveHost,
       Once, Crash, ClearLatest, Op, Slip, Write, QueryProcStatus,
      ReadRows, SyncLate, SyncLost, subVars, rowVars, bounds, vars, Subs
<1>2. wanted' \in [Subs -> Versions] /\ \A s \in Subs : wanted[s] # 0 => wanted'[s] # 0
  <2>1. wanted \in [Subs -> Versions]
    OBVIOUS
  <2>2. 1 .. MaxVersion \subseteq Versions \ {0}
    BY BoundsAssumption DEF Versions
  <2>3. ASSUME NEW s \in Subs, NEW v \in 1 .. MaxVersion, wanted' = [wanted EXCEPT ![s] = v]
        PROVE  wanted' \in [Subs -> Versions] /\ \A q \in Subs : wanted[q] # 0 => wanted'[q] # 0
    <3>1. v \in Versions /\ v # 0
      BY <2>2
    <3> HIDE DEF IInv
    <3> QED
      BY <2>1, <2>3, <3>1, Zenon
  <2> QED
    BY <1>1, <2>1, <2>3, Zenon
<1>3. \/ UNCHANGED enabled
      \/ \E p \in Policies : enabled' \in {enabled \union {p}, enabled \ {p}}
  <2>1. ASSUME NEW s \in Subs, InitProcessStatus(s) \/ DeleteSubscription(s)
        PROVE  \/ enabled' = enabled
               \/ s \in Policies /\ enabled' \in {enabled \union {s}, enabled \ {s}}
    BY <2>1 DEF InitProcessStatus, DeleteSubscription, Subs
  <2> QED
    BY <2>1 DEF Next, Patrol, Detach, Activity, InitProcessStatus, Operate, UpdateHostProcessStatus,
      DeleteSubscription, Fail, Sync, User, EditPolicy, PolicyOperate, Disable, DeleteGray, MoveHost,
      Once, Crash, ClearLatest, Op, Slip, Write, QueryProcStatus,
      ReadRows, SyncLate, SyncLost, subVars, rowVars, bounds, vars
<1>4. enabled' \subseteq Policies
  BY <1>3
<1>5. scope' \subseteq Policies
  BY DEF Next, Patrol, Detach, Activity, InitProcessStatus, Operate, UpdateHostProcessStatus,
      DeleteSubscription, Fail, Sync, User, EditPolicy, PolicyOperate, Disable, DeleteGray, MoveHost,
      Once, Crash, ClearLatest, Op, Slip, Write, QueryProcStatus,
      ReadRows, SyncLate, SyncLost, subVars, rowVars, bounds, vars
<1>6. loose' \in BOOLEAN
  BY DEF Next, Patrol, Detach, Activity, InitProcessStatus, Operate, UpdateHostProcessStatus,
      DeleteSubscription, Fail, Sync, User, EditPolicy, PolicyOperate, Disable, DeleteGray, MoveHost,
      Once, Crash, ClearLatest, Op, Slip, Write, QueryProcStatus,
      ReadRows, SyncLate, SyncLost, subVars, rowVars, bounds, vars
<1>7. host' \in [version : Versions, status : {"RUNNING"} \union DownAs]
  <2> DEFINE Seen == {"RUNNING"} \union DownAs
             Hosts == [version : Versions, status : Seen]
  <2>1. host \in Hosts /\ \A s \in Subs : wanted[s] \in Versions
    OBVIOUS
  <2>2. "RUNNING" \in Seen /\ DownAs \subseteq Seen
    OBVIOUS
  <2>3. \A h \in Hosts, v \in Versions, st \in Seen :
            /\ [version |-> v, status |-> st] \in Hosts
            /\ [h EXCEPT !.version = v] \in Hosts
            /\ [h EXCEPT !.status = st] \in Hosts
    OBVIOUS
  <2> HIDE DEF Hosts, Seen
  <2>4. ASSUME NEW s \in Subs PROVE Operated(s) \subseteq Hosts
    <3>1. CASE Doing(s, "install")
      <4>1. Operated(s) = {[version |-> wanted[s], status |-> "RUNNING"]}
        BY <3>1 DEF Operated, Doing
      <4>2. [version |-> wanted[s], status |-> "RUNNING"] \in Hosts
        BY <2>1, <2>2 DEF Hosts
      <4> QED
        BY <4>1, <4>2, Zenon
    <3>2. CASE Doing(s, "start")
      <4>1. Operated(s) = {IF host.version # 0 THEN [host EXCEPT !.status = "RUNNING"] ELSE host}
        BY <3>2 DEF Operated, Doing
      <4>2. [host EXCEPT !.status = "RUNNING"] \in Hosts
        BY <2>1, <2>2, <2>3, Zenon
      <4>3. (IF host.version # 0 THEN [host EXCEPT !.status = "RUNNING"] ELSE host) \in Hosts
        BY <2>1, <4>2, Zenon
      <4> QED
        BY <4>1, <4>3, Zenon
    <3>3. CASE Doing(s, "stop")
      <4>1. Operated(s) = {[host EXCEPT !.status = down] : down \in DownAs}
        BY <3>3 DEF Operated, Doing
      <4>2. \A down \in DownAs : [host EXCEPT !.status = down] \in Hosts
        BY <2>1, <2>2, <2>3, Zenon
      <4> QED
        BY <4>1, <4>2, Zenon
    <3>4. CASE ~(Doing(s, "install") \/ Doing(s, "start") \/ Doing(s, "stop"))
      BY <2>1, <3>4 DEF Operated
    <3> QED
      BY <3>1, <3>2, <3>3, <3>4
  <2>5. ASSUME NEW s \in Subs PROVE Unfinished(s) \subseteq Hosts
    <3>1. [host EXCEPT !.version = wanted[s]] \in Hosts
      BY <2>1, <2>2, <2>3, Zenon
    <3>2. {host} \subseteq Hosts /\ {[host EXCEPT !.version = wanted[s]]} \subseteq Hosts
      BY <2>1, <3>1, Zenon
    <3> DEFINE more == IF Doing(s, "install") THEN {[host EXCEPT !.version = wanted[s]]} ELSE {}
    <3>3. more \subseteq Hosts
      BY <3>2, Zenon
    <3>4. Unfinished(s) = {host} \union Operated(s) \union more
      BY DEF Unfinished
    <3> HIDE DEF more
    <3> QED
      BY <2>4, <3>2, <3>3, <3>4
  <2>6. ASSUME Crash PROVE host' \in Hosts
    <3>1. PICK down \in DownAs : host' = [host EXCEPT !.status = down]
      BY <2>6 DEF Crash
    <3> QED
      BY <2>1, <2>2, <2>3, <3>1, Zenon
  <2>7. \/ UNCHANGED host \/ Crash
        \/ \E s \in Subs : host' \in Operated(s) \/ host' \in Unfinished(s)
    BY DEF Next, Patrol, Detach, Activity, InitProcessStatus, Operate, UpdateHostProcessStatus,
        DeleteSubscription, Fail, Sync, User, EditPolicy, PolicyOperate, Disable, DeleteGray, MoveHost,
        Once, ClearLatest, Write, QueryProcStatus,
        ReadRows, SyncLate, SyncLost, subVars, rowVars, bounds, vars
  <2>8. host' \in Hosts
    BY <2>1, <2>4, <2>5, <2>6, <2>7
  <2> QED
    BY <2>8 DEF Hosts, Seen
<1>8. UNCHANGED bounds \/ Op \/ Slip
  BY DEF Next, Patrol, Detach, Activity, InitProcessStatus, Operate, UpdateHostProcessStatus,
      DeleteSubscription, Fail, Sync, User, EditPolicy, PolicyOperate, Disable, DeleteGray, MoveHost,
      Once, Crash, ClearLatest, QueryProcStatus, ReadRows, SyncLate, SyncLost, vars
<1>9. /\ ops' \in 0 .. MaxOps /\ slips' \in 0 .. MaxSlips /\ ops' \in Nat
      /\ ops \in Nat /\ ops <= ops'
  BY <1>8, BoundsAssumption DEF Op, Slip, bounds
<1> QED
  BY <1>2, <1>4, <1>5, <1>6, <1>7, <1>9
-----------------------------------------------------------------------------
\* What a step does to the synchronisation: it asks, looks, ends, or forgets a row that
\* goes; no row that it knows goes behind its back.
Knows == \A s \in Subs : Exists(s) /\ row'[s].status = "none" => s \notin sync'.target

SyncStep ==
    \/ UNCHANGED sync /\ Knows
    \/ \E s \in Subs : Forget(s) /\ Knows
    \/ QueryProcStatus \/ ReadRows
    \/ sync' = NoSync

LEMMA KnowsSame == UNCHANGED row => Knows
  BY DEF Knows, Exists

LEMMA KnowsCleared ==
    ASSUME IInv
    PROVE  \A s \in Subs : Cleared[s].status = row[s].status
<1> SUFFICES ASSUME NEW s \in Subs PROVE [row[s] EXCEPT !.latest = FALSE].status = row[s].status
  BY DEF Cleared
<1> QED
  BY RowOf, Unlatest

LEMMA SyncOfStep == IInv /\ [Next]_vars => SyncStep
<1> SUFFICES ASSUME IInv, [Next]_vars PROVE SyncStep
  OBVIOUS
<1> USE DEF SyncStep
<1>0. row \in [Subs -> AnyRow]
  BY RowOf DEF IInv, TypeOK, AnyRow
<1>1. ASSUME NEW p \in Policies, Patrol(p) PROVE SyncStep
  <2>1. UNCHANGED <<row, sync>> \/ (row' = [row EXCEPT ![p] = NoRow] /\ Forget(p))
    BY <1>1 DEF Patrol, Detach, rowVars
  <2>2. ASSUME row' = [row EXCEPT ![p] = NoRow], Forget(p) PROVE Knows
    BY <1>0, <2>2 DEF Knows, Forget, NoSync, Exists
  <2> QED
    BY <2>1, <2>2, KnowsSame DEF Subs
<1>2. ASSUME NEW s \in Subs, InitProcessStatus(s) \/ Fail(s) PROVE SyncStep
  <2>1. UNCHANGED sync
    BY <1>2 DEF InitProcessStatus, Fail
  <2>2. \A q \in Subs : Exists(q) => row'[q].status # "none"
    <3>1. CASE InitProcessStatus(s)
      <4>1. row' = [row EXCEPT ![s] = [@ EXCEPT !.status = "UNKNOWN", !.version = wanted[s]]]
        BY <3>1 DEF InitProcessStatus
      <4>2. row[s] \in AnyRow /\ wanted[s] \in 1 .. MaxVersion
        <5>1. wanted[s] \in Versions /\ wanted[s] # 0
          BY <3>1 DEF IInv, TypeOK, TasksInv, InitProcessStatus
        <5> QED
          BY <1>0, <5>1, BoundsAssumption DEF Versions
      <4>3. [row[s] EXCEPT !.status = "UNKNOWN", !.version = wanted[s]].status = "UNKNOWN"
        <5>1. ASSUME NEW r \in AnyRow, NEW v \in 1 .. MaxVersion
              PROVE  [r EXCEPT !.status = "UNKNOWN", !.version = v].status = "UNKNOWN"
          BY Written, Zenon
        <5> QED
          BY <4>2, <5>1, Zenon
      <4>4. \A q \in Subs : row'[q] = IF q = s THEN [row[s] EXCEPT !.status = "UNKNOWN", !.version = wanted[s]]
                                      ELSE row[q]
        BY <1>0, <4>1, Zenon
      <4> QED
        BY <4>3, <4>4 DEF Exists
    <3>2. CASE Fail(s)
      <4>1. row' = [row EXCEPT ![s] = [@ EXCEPT !.retry = IF Exists(s) THEN row[s].retry + 1 ELSE row[s].retry]]
        BY <3>2 DEF Fail
      <4> DEFINE n == IF Exists(s) THEN row[s].retry + 1 ELSE row[s].retry
      <4>2. [row[s] EXCEPT !.retry = n].status = row[s].status
        <5>1. ASSUME NEW r \in AnyRow, NEW m PROVE [r EXCEPT !.retry = m].status = r.status
          BY FieldsOfRows
        <5> QED
          BY <1>0, <5>1
      <4>3. \A q \in Subs : row'[q] = IF q = s THEN [row[s] EXCEPT !.retry = n] ELSE row[q]
        BY <1>0, <4>1
      <4> HIDE DEF n
      <4> QED
        BY <4>2, <4>3 DEF Exists
    <3> QED
      BY <1>2, <3>1, <3>2
  <2> QED
    BY <2>1, <2>2 DEF Knows
<1>3. ASSUME NEW s \in Subs, UpdateHostProcessStatus(s) PROVE SyncStep
  <2>1. RowsStep
    BY RowsOfStep
  <2>2. IF Exists(s) /\ row'[s] = NoRow THEN Forget(s) ELSE UNCHANGED sync
    BY <1>3 DEF UpdateHostProcessStatus
  <2>3. \A q \in Subs \ {s} : Exists(q) => row'[q].status # "none"
    <3>1. ASSUME NEW rows, NEW outcome, rows \in [Subs -> AnyRow],
                 \A q \in Subs : rows[q].status = row[q].status, row' = Marked(rows, s, outcome)
          PROVE  \A q \in Subs \ {s} : Exists(q) => row'[q].status # "none"
      <4>1. \E r : row' = [rows EXCEPT ![s] = r] \/ row' = rows
        BY <3>1 DEF Marked
      <4>2. \A q \in Subs \ {s} : row'[q] = rows[q]
        BY <3>1, <4>1
      <4> QED
        BY <3>1, <4>2 DEF Exists
    <3>2. row' = Marked(Cleared, s, task[s][2]) \/ row' = Marked(row, s, Head(task[s]))
      BY <1>3 DEF UpdateHostProcessStatus
    <3> QED
      BY <1>0, <3>1, <3>2, ClearedRows, KnowsCleared
  <2>4. row'[s].status = "none" => row'[s] = NoRow
    BY <2>1, FieldsOfRows DEF RowsStep
  <2>5. CASE Forget(s)
    <3>1. s \notin sync'.target
      BY <2>5 DEF Forget, NoSync
    <3> QED
      BY <2>3, <2>5, <3>1 DEF Knows
  <2>6. CASE UNCHANGED sync /\ ~(Exists(s) /\ row'[s] = NoRow)
    BY <2>3, <2>4, <2>6 DEF Knows
  <2> QED
    BY <2>2, <2>5, <2>6
<1>4. ASSUME NEW s \in Subs, ClearLatest(s) PROVE SyncStep
  BY <1>4, KnowsCleared DEF ClearLatest, Knows, Exists
<1>5. ASSUME NEW p \in Policies, NEW v \in 1 .. MaxVersion, EditPolicy(p, v) PROVE SyncStep
  <2>1. row' = [row EXCEPT ![p] = [@ EXCEPT !.retry = 0]] /\ UNCHANGED sync
    BY <1>5 DEF EditPolicy
  <2>2. row[p] \in AnyRow
    BY <1>0 DEF Subs
  <2>3. [row[p] EXCEPT !.retry = 0].status = row[p].status
    <3>1. ASSUME NEW r \in AnyRow PROVE [r EXCEPT !.retry = 0].status = r.status
      BY FieldsOfRows
    <3> QED
      BY <2>2, <3>1
  <2>4. \A q \in Subs : row'[q] = IF q = p THEN [row[p] EXCEPT !.retry = 0] ELSE row[q]
    BY <1>0, <2>1
  <2> QED
    BY <2>1, <2>3, <2>4 DEF Knows, Exists
<1>6. CASE QueryProcStatus \/ ReadRows \/ Sync \/ SyncLate \/ SyncLost
  BY <1>6 DEF Sync, SyncLate, SyncLost, Write
<1>7. ASSUME NEW s \in Subs, Operate(s) \/ DeleteSubscription(s) PROVE SyncStep
  BY <1>7, KnowsSame DEF Operate, DeleteSubscription, rowVars
<1>8. ASSUME NEW p \in Policies, NEW kind \in Kinds,
             PolicyOperate(p, kind) \/ Disable(p) \/ DeleteGray(p) \/ MoveHost(p)
      PROVE  SyncStep
  BY <1>8, KnowsSame DEF PolicyOperate, Disable, DeleteGray, MoveHost, rowVars
<1>9. ASSUME NEW u \in Onces, NEW kind \in Kinds, Once(u, kind) PROVE SyncStep
  BY <1>9, KnowsSame DEF Once, rowVars
<1>10. CASE Crash \/ UNCHANGED vars
  BY <1>10, KnowsSame DEF Crash, rowVars, vars
<1> QED
  BY <1>1, <1>2, <1>3, <1>4, <1>5, <1>6, <1>7, <1>8, <1>9, <1>10
  DEF Next, Activity, User, Kinds

Syncs == [at : {"none", "asked", "update", "create"}, version : Versions,
          status : Status, target : SUBSET Subs]

LEMMA SyncKept ==
    ASSUME IInv, [Next]_vars
    PROVE  sync' \in Syncs /\ SyncInv'
<1>1. SyncStep /\ RowsStep
  BY SyncOfStep, RowsOfStep
<1>2. sync \in Syncs /\ SyncInv /\ host \in [version : Versions, status : {"RUNNING"} \union DownAs]
  BY DEF IInv, TypeOK, Syncs
<1>3. CASE sync' = NoSync
  BY <1>3, BoundsAssumption DEF NoSync, Syncs, SyncInv, Versions, Status
<1>4. CASE QueryProcStatus
  <2>1. sync' = [at |-> "asked", version |-> host.version, status |-> host.status, target |-> {}]
        /\ host.version # 0
    BY <1>4 DEF QueryProcStatus
  <2>2. host.status \in Status /\ host.status # "MANUAL_STOP" /\ host.version \in Versions
    BY <1>2, DownAsAssumption DEF Status
  <2> QED
    BY <2>1, <2>2 DEF Syncs, SyncInv
<1>5. CASE ReadRows
  <2>1. /\ sync.version # 0 /\ sync.target = {} /\ sync.status # "MANUAL_STOP"
        /\ row' = row
    BY <1>2, <1>5 DEF SyncInv, ReadRows, rowVars
  <2>2. CASE sync' = [NoSync EXCEPT !.at = "create"]
    BY <2>2, BoundsAssumption DEF NoSync, Syncs, SyncInv, Versions, Status
  <2>3. ASSUME NEW s \in LatestSubs,
               sync' = [sync EXCEPT !.at = "update", !.target = {s}, !.status = Kept(row[s].status, @)]
        PROVE  sync' \in Syncs /\ SyncInv'
    <3>1. s \in Subs /\ row[s].latest /\ row[s] \in AnyRow
      BY <2>3, RowOf DEF LatestSubs
    <3>2. Exists(s) /\ (s \in Policies => row[s].status # "MANUAL_STOP")
      BY <3>1 DEF AnyRow, NoRow, Rows, Status, Exists, IInv, ManualInv
    <3>3. Kept(row[s].status, sync.status) \in Status
      BY <1>2 DEF Kept, Syncs, Status
    <3>4. Kept(row[s].status, sync.status) = "MANUAL_STOP" => s \notin Policies
      BY <2>1, <3>2 DEF Kept
    <3> DEFINE k == Kept(row[s].status, sync.status)
    <3>5. sync' = [sync EXCEPT !.at = "update", !.target = {s}, !.status = k]
      BY <2>3
    <3> HIDE DEF k
    <3>6. /\ sync' \in Syncs
          /\ sync'.at = "update" /\ sync'.version = sync.version /\ sync'.target = {s} /\ sync'.status = k
      BY <1>2, <3>1, <3>3, <3>5 DEF Syncs, k
    <3>7. row'[s].status # "none"
      BY <2>1, <3>2 DEF Exists
    <3> QED
      BY <2>1, <3>4, <3>6, <3>7 DEF SyncInv, Exists, k
  <2> QED
    BY <1>3, <1>5, <2>2, <2>3 DEF ReadRows
<1>6. CASE UNCHANGED sync /\ Knows
  <2>1. \A s \in sync.target : row'[s].status # "none"
    BY <1>2, <1>6 DEF Knows, SyncInv, Syncs
  <2> QED
    BY <1>2, <1>6, <2>1 DEF SyncInv, Exists
<1>7. ASSUME NEW s \in Subs, Forget(s), Knows PROVE sync' = NoSync \/ UNCHANGED sync
  BY <1>7 DEF Forget
<1> QED
  BY <1>1, <1>3, <1>4, <1>5, <1>6, <1>7 DEF SyncStep

LEMMA Step == IInv /\ [Next]_vars => IInv'
<1> SUFFICES ASSUME IInv, [Next]_vars PROVE IInv'
  OBVIOUS
<1>1. RowsStep /\ TasksStep
  BY RowsOfStep, TasksOfStep
<1>2. task' \in [Subs -> Seq(Activities)]
  BY <1>1 DEF TasksStep, IInv, TypeOK
<1>3. TypeOK'
  BY <1>1, <1>2, OthersOfStep, SyncKept DEF TypeOK, RowsStep, AnyRow, IInv, Subs, Syncs
<1>4. ManualInv'
  BY <1>1 DEF RowsStep, RowStep, ManualInv, Subs
<1>5. \A s \in Subs : task'[s] = task[s] \/ Continues(s, task'[s]) \/ Begins(s, task'[s])
  BY <1>1 DEF TasksStep, IInv, TypeOK
<1>6. TasksInv'
  <2> SUFFICES ASSUME NEW s \in Subs
               PROVE  TaskOK(s, task'[s]) /\ (task'[s] # <<>> => wanted'[s] # 0)
    BY DEF TasksInv, Idle, TaskOK
  <2>1. TaskOK(s, task[s]) /\ (task[s] # <<>> => wanted[s] # 0)
    BY DEF IInv, TasksInv, Idle
  <2> QED
    BY <1>5, <2>1, OthersOfStep DEF Continues, Begins, Idle
<1>7. RetryInv'
  <2> SUFFICES ASSUME NEW s \in Subs
               PROVE  /\ row'[s].retry <= MaxRetryTime + ops' + 1
                      /\ task'[s] # <<>> => row'[s].retry <= MaxRetryTime + ops'
    BY DEF RetryInv, Idle
  <2>1. /\ row[s].retry <= MaxRetryTime + ops + 1
        /\ task[s] # <<>> => row[s].retry <= MaxRetryTime + ops
    BY DEF IInv, RetryInv, Idle
  <2>2. row[s].retry \in Nat /\ row'[s].retry \in Nat
    BY <1>1, RowOf, FieldsOfRows, BoundsAssumption DEF RowsStep
  <2>3. \/ row'[s].retry <= row[s].retry
        \/ task[s] # <<>> /\ task'[s] = <<>> /\ row'[s].retry <= row[s].retry + 1
    BY <1>1 DEF RowsStep, RowStep, Idle
  <2>4. ops \in Nat /\ ops' \in Nat /\ ops <= ops' /\ MaxRetryTime \in Nat
    BY OthersOfStep, BoundsAssumption
  <2>5. CASE task'[s] = task[s] \/ Continues(s, task'[s])
    BY <2>1, <2>2, <2>3, <2>4, <2>5 DEF Continues, Idle
  <2>6. CASE Begins(s, task'[s])
    <3>1. CASE ops' = ops + 1
      BY <2>1, <2>2, <2>3, <2>4, <3>1
    <3>2. CASE row' = row /\ row[s].retry <= MaxRetryTime
      BY <2>2, <2>4, <3>2
    <3> QED
      BY <2>6, <3>1, <3>2 DEF Begins
  <2> QED
    BY <1>5, <2>5, <2>6
<1> QED
  BY <1>3, <1>4, <1>6, <1>7, SyncKept DEF IInv
-----------------------------------------------------------------------------
LEMMA InvInit == Init => IInv
<1> SUFFICES ASSUME Init PROVE IInv
  OBVIOUS
<1>1. PICK first \in Policies :
        /\ \A s \in Subs : wanted[s] = IF s \in Onces THEN 0 ELSE IF s = first THEN 1 ELSE MaxVersion
        /\ row = [s \in Subs |-> IF s # first THEN NoRow
                     ELSE [status |-> "RUNNING", latest |-> TRUE, retry |-> 0, version |-> 1]]
  BY DEF Init
<1>2. /\ wanted \in [Subs -> Versions] /\ enabled = Policies /\ scope = Policies
      /\ loose = FALSE /\ task = [s \in Subs |-> <<>>] /\ ops = 0
      /\ host = [version |-> 1, status |-> "RUNNING"] /\ sync = NoSync /\ slips = 0
  BY DEF Init
<1>3. \A p \in Policies : wanted[p] # 0 /\ p \in Subs
  BY <1>1, GrayAssumption, BoundsAssumption DEF Subs
<1>4. [status |-> "RUNNING", latest |-> TRUE, retry |-> 0, version |-> 1] \in Rows
  BY BoundsAssumption DEF Rows, Status
<1>5. row \in [Subs -> {NoRow} \union Rows]
  BY <1>1, <1>4
<1>6. <<>> \in Seq(Activities) /\ Len(<<>>) = 0
  BY EmptySeq
<1>7. TypeOK
  <2>1. /\ [version |-> 1, status |-> "RUNNING"] \in [version : Versions, status : {"RUNNING"} \union DownAs]
        /\ NoSync \in [at : {"none", "asked", "update", "create"}, version : Versions,
                       status : Status, target : SUBSET Subs]
    BY BoundsAssumption DEF Versions, NoSync, Status
  <2>2. task \in [Subs -> Seq(Activities)]
    BY <1>2, <1>6
  <2>3. ops \in 0 .. MaxOps /\ slips \in 0 .. MaxSlips
    BY <1>2, BoundsAssumption
  <2>4. /\ wanted \in [Subs -> Versions] /\ \A p \in Policies : wanted[p] # 0
        /\ enabled \subseteq Policies /\ scope \subseteq Policies /\ loose \in BOOLEAN
    BY <1>2, <1>3
  <2> QED
    BY <1>2, <1>5, <2>1, <2>2, <2>3, <2>4 DEF TypeOK
<1>8. TasksInv
  BY <1>2, <1>6 DEF TasksInv, TaskOK, Idle
<1>9. ManualInv
  BY <1>1 DEF ManualInv, NoRow, Subs
<1>10. RetryInv
  BY <1>1, <1>2, BoundsAssumption DEF RetryInv, NoRow, Idle
<1>11. SyncInv
  BY <1>2 DEF SyncInv, NoSync
<1> QED
  BY <1>7, <1>8, <1>9, <1>10, <1>11 DEF IInv

\* It holds in every reachable state.
THEOREM Inductive == Spec => []IInv
  BY InvInit, Step, PTL DEF Spec

\* TypeOK, with the bound on failures: the patrol never retries beyond the limit, and
\* each further one takes an operation.
THEOREM TypeCorrect == Spec => []TypeOK
<1>1. IInv => TypeOK
  BY DEF IInv
<1> QED
  BY Inductive, <1>1, PTL

\* StaysStopped: with every task at rest, a patrol may detach hosts and a
\* synchronisation may correct rows, but the row of the one-off operation says that
\* the user has stopped the plugin, and it stays down; a synchronisation that has heard
\* so keeps the mark.
LEMMA StoppedStep ==
    ASSUME IInv, [Next]_vars, StoppedByHand, Heard
    PROVE  \/ StoppedByHand' /\ (Heard' \/ sync'.status = "UNREGISTER")
           \/ ops' # ops
<1>1. PICK u \in Subs : row[u].latest /\ row[u].status = "MANUAL_STOP"
  BY DEF StoppedByHand, ManuallyStopped
<1>2. host.status # "RUNNING" /\ (\A s \in Subs : task[s] = <<>>) /\ u \notin Policies
  BY <1>1 DEF StoppedByHand, AllIdle, Idle, IInv, ManualInv
<1>3. ASSUME UNCHANGED <<task, host>>, row'[u].latest, row'[u].status = "MANUAL_STOP"
      PROVE  StoppedByHand'
  BY <1>2, <1>3 DEF StoppedByHand, ManuallyStopped, AllIdle, Idle
<1>4. row \in [Subs -> AnyRow] /\ sync \in Syncs
  BY RowOf DEF IInv, TypeOK, AnyRow, Syncs
<1>5. ASSUME NEW p \in Policies, Patrol(p) PROVE StoppedByHand' /\ Heard'
  <2>1. UNCHANGED <<task, host>>
    <3>1. Run(p, {}) \/ UNCHANGED task
      BY <1>5 DEF Patrol, StoppedByHand
    <3> QED
      BY <1>5, <3>1 DEF Run, Patrol
  <2>2. UNCHANGED <<row, sync>> \/ (row' = [row EXCEPT ![p] = NoRow] /\ Forget(p))
    BY <1>5 DEF Patrol, Detach, rowVars
  <2>3. row'[u] = row[u]
    BY <1>2, <1>4, <2>2
  <2>4. StoppedByHand'
    BY <1>1, <1>3, <2>1, <2>3
  <2>5. CASE UNCHANGED <<row, sync>>
    BY <2>4, <2>5 DEF Heard
  <2>6. CASE row' = [row EXCEPT ![p] = NoRow] /\ Forget(p)
    <3>1. sync' = NoSync \/ (sync' = sync /\ p \notin sync.target)
      BY <2>6 DEF Forget
    <3>2. \A s \in sync.target \ {p} : row'[s] = row[s]
      BY <1>4, <2>6 DEF Syncs
    <3>3. CASE sync' = NoSync
      BY <2>4, <3>3 DEF Heard, NoSync
    <3>4. CASE sync' = sync /\ p \notin sync.target
      BY <2>4, <3>2, <3>4 DEF Heard
    <3> QED
      BY <3>1, <3>3, <3>4
  <2> QED
    BY <2>2, <2>5, <2>6
<1>6. CASE QueryProcStatus
  <2>1. sync' = [at |-> "asked", version |-> host.version, status |-> host.status, target |-> {}]
        /\ UNCHANGED <<row, task, host>>
    BY <1>6 DEF QueryProcStatus, rowVars
  <2>2. host.status \in {"TERMINATED", "UNREGISTER"}
    BY <1>2, DownAsAssumption DEF IInv, TypeOK
  <2> QED
    BY <1>1, <1>3, <2>1, <2>2 DEF Heard
<1>7. CASE ReadRows
  <2>1. sync.at = "asked" /\ sync.status = "TERMINATED" /\ sync.target = {}
        /\ UNCHANGED <<row, task, host>>
    BY <1>7 DEF ReadRows, Heard, rowVars, IInv, SyncInv
  <2>2. ASSUME sync' = NoSync \/ sync' = [NoSync EXCEPT !.at = "create"] PROVE Heard'
    BY <2>2 DEF Heard, NoSync
  <2>3. ASSUME NEW s \in LatestSubs,
               sync' = [sync EXCEPT !.at = "update", !.target = {s}, !.status = Kept(row[s].status, @)]
        PROVE  Heard'
    <3> DEFINE k == Kept(row[s].status, sync.status)
    <3>1. row[s].status = "MANUAL_STOP" => k = "MANUAL_STOP"
      BY <2>1 DEF Kept
    <3>2. sync' = [sync EXCEPT !.at = "update", !.target = {s}, !.status = k]
      BY <2>3
    <3> HIDE DEF k
    <3>3. sync'.at = "update" /\ sync'.target = {s} /\ sync'.status = k
      BY <1>4, <3>2 DEF Syncs
    <3> QED
      BY <2>1, <3>1, <3>3 DEF Heard
  <2> QED
    BY <1>1, <1>3, <1>7, <2>1, <2>2, <2>3 DEF ReadRows
<1>8. CASE Sync \/ SyncLate
  <2>1. Write
    BY <1>8 DEF Sync, SyncLate
  <2>2. UNCHANGED <<task, host>> /\ sync' = NoSync
    BY <2>1 DEF Write
  <2>3. row'[u] = IF u \in sync.target
                  THEN [row[u] EXCEPT !.status = sync.status, !.version = sync.version]
                  ELSE row[u]
    BY <2>1 DEF Write
  <2>4. row[u] \in Rows
    BY <1>1, <1>4, FieldsOfRows
  <2>5. row'[u].latest /\ row'[u].status = "MANUAL_STOP"
    <3>1. CASE u \notin sync.target
      BY <1>1, <2>3, <3>1
    <3>2. CASE u \in sync.target
      <4>1. sync.status = "MANUAL_STOP"
        BY <1>1, <3>2 DEF Heard
      <4>2. row'[u] = [row[u] EXCEPT !.status = "MANUAL_STOP", !.version = sync.version]
        BY <2>3, <3>2, <4>1
      <4> QED
        BY <1>1, <2>4, <4>2 DEF Rows
    <3> QED
      BY <3>1, <3>2
  <2> QED
    BY <1>3, <2>2, <2>5 DEF Heard, NoSync
<1>9. CASE SyncLost \/ UNCHANGED vars
  <2>1. UNCHANGED <<row, task, host>> /\ (sync' = NoSync \/ sync' = sync)
    BY <1>9 DEF SyncLost, rowVars, vars
  <2> QED
    BY <1>1, <1>3, <2>1 DEF Heard, NoSync
<1>10. ASSUME NEW s \in Subs, Activity(s) \/ Fail(s) \/ ClearLatest(s) PROVE FALSE
  BY <1>2, <1>10 DEF Activity, InitProcessStatus, Operate, UpdateHostProcessStatus, DeleteSubscription,
                    Fail, ClearLatest, Doing, Idle
<1>11. CASE Crash
  <2>1. PICK down \in DownAs : host' = [host EXCEPT !.status = down]
    BY <1>11 DEF Crash
  <2>2. host'.status # "RUNNING"
    BY <2>1, DownAsAssumption DEF IInv, TypeOK
  <2>3. UNCHANGED <<row, task, sync>>
    BY <1>11 DEF Crash, rowVars
  <2> QED
    BY <1>1, <1>2, <2>2, <2>3 DEF StoppedByHand, ManuallyStopped, AllIdle, Idle, Heard
<1>12. CASE User /\ ~Crash
  <2>1. Op
    BY <1>12 DEF User, EditPolicy, PolicyOperate, Disable, DeleteGray, MoveHost, Once
  <2> QED
    BY <2>1 DEF Op, IInv, TypeOK
<1> QED
  BY <1>5, <1>6, <1>7, <1>8, <1>9, <1>10, <1>11, <1>12 DEF Next

THEOREM StaysStoppedThm == Spec => StaysStopped
<1>1. IInv /\ [Next]_vars =>
          [StoppedByHand /\ Heard =>
              \/ StoppedByHand' /\ (Heard' \/ sync'.status = "UNREGISTER")
              \/ ops' # ops]_vars
  BY StoppedStep
<1> QED
  BY Inductive, <1>1, PTL DEF Spec, StaysStopped
=============================================================================
