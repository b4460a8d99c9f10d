------------------------ MODULE ActivityChain_proofs ------------------------
(***************************************************************************)
(* Proofs about ActivityChain, for any number of instances, activities,    *)
(* schedules and revoke calls.                                             *)
(***************************************************************************)
EXTENDS ActivityChain, TLAPS

USE NumActsAssumption, ScheduleAssumption, BoundsAssumption

RevokeType == [pc : {"idle", "read", "written", "done"},
               ids : SUBSET Instances, at : 0..NumActs]
DetailType == [Acts -> [Instances -> {NoDetail, "RUNNING"} \union Terminal]]

\* A write of record statuses: its type and what each row holds afterwards.
LEMMA SetRecordsFact ==
    ASSUME TypeOK, NEW S, NEW st \in Status
    PROVE  /\ SetRecords(S, st) \in [Instances -> Status]
           /\ \A i \in Instances :
                SetRecords(S, st)[i] = IF i \in S THEN st ELSE record[i]
BY DEF TypeOK, SetRecords

\* A write of status details: only existing rows of the current activity change.
LEMMA SetDetailsFact ==
    ASSUME TypeOK, NEW S, NEW st \in {"RUNNING"} \union Terminal
    PROVE  /\ SetDetails(S, st) \in DetailType
           /\ \A k \in Acts, i \in Instances :
                SetDetails(S, st)[k][i] =
                  IF k = act /\ i \in S /\ detail[k][i] # NoDetail
                  THEN st ELSE detail[k][i]
BY DEF TypeOK, SetDetails, DetailType

\* The retry counter stays below its bound.
LEMMA BumpRetriesType ==
    ASSUME TypeOK, NEW S
    PROVE  BumpRetries(S) \in [Instances -> 0..RetryCap]
BY DEF TypeOK, BumpRetries

\* What failing a set of instances leaves in the tables.
LEMMA FailInstancesFact ==
    ASSUME TypeOK, NEW S, FailInstances(S)
    PROVE  /\ record' \in [Instances -> Status]
           /\ detail' \in DetailType
           /\ retryTimes' \in [Instances -> 0..RetryCap]
           /\ \A i \in Instances :
                record'[i] = IF i \in S THEN "FAILED" ELSE record[i]
           /\ \A k \in Acts, i \in Instances :
                detail'[k][i] = IF k = act /\ i \in S /\ detail[k][i] # NoDetail
                                THEN "FAILED" ELSE detail[k][i]
<1>1. "FAILED" \in Status /\ "FAILED" \in {"RUNNING"} \union Terminal
  BY DEF Status, Terminal
<1> QED
  BY <1>1, SetRecordsFact, SetDetailsFact, BumpRetriesType DEF FailInstances

\* The details after execute opened the current activity for its instances.
LEMMA ExecuteFact ==
    ASSUME TypeOK, Execute
    PROVE  /\ detail' \in DetailType
           /\ \A k \in Acts, i \in Instances :
                detail'[k][i] = IF k = act /\ i \in ids THEN "RUNNING" ELSE detail[k][i]
           /\ record' \in [Instances -> Status]
           /\ \A i \in Instances :
                record'[i] = IF act = 1 /\ i \in ids THEN "RUNNING" ELSE record[i]
           /\ age' \in 0..(ZombieUntil + 1)
<1>1. detail' \in DetailType /\ \A k \in Acts, i \in Instances :
        detail'[k][i] = IF k = act /\ i \in ids THEN "RUNNING" ELSE detail[k][i]
  BY DEF Execute, TypeOK, DetailType
<1>2. CASE act = 1
  BY <1>1, <1>2, SetRecordsFact DEF Execute, Status, Unfinished, ZombieUntil
<1>3. CASE act # 1
  BY <1>1, <1>3 DEF Execute, TypeOK
<1> QED
  BY <1>2, <1>3

\* What a run of the sweep leaves: no row comes alive, no detail that is not
\* running is touched.
LEMMA CheckZombiesFact ==
    ASSUME TypeOK, CheckZombies
    PROVE  /\ record' \in [Instances -> Status]
           /\ \A i \in Instances :
                \/ record'[i] = record[i]
                \/ record[i] \in Unfinished /\ record'[i] = "FAILED"
           /\ detail' \in DetailType
           /\ \A k \in Acts, i \in Instances :
                \/ detail'[k][i] = detail[k][i]
                \/ detail[k][i] = "RUNNING" /\ detail'[k][i] = "FAILED"
           /\ age' \in 0..(ZombieUntil + 1)
<1>1. /\ record' \in [Instances -> Status]
      /\ \A i \in Instances :
           \/ record'[i] = record[i]
           \/ record[i] \in Unfinished /\ record'[i] = "FAILED"
  BY DEF CheckZombies, TypeOK, Status, Unfinished, Terminal
<1>2. PICK D \in SUBSET {i \in Instances : detail[act][i] = "RUNNING" /\ age' >= ZombieAfter} :
        detail' = SetDetails(D, "FAILED")
  BY DEF CheckZombies
<1>3. "FAILED" \in {"RUNNING"} \union Terminal
  BY DEF Terminal
<1>4. detail' \in DetailType /\ \A k \in Acts, i \in Instances :
        detail'[k][i] = IF k = act /\ i \in D /\ detail[k][i] # NoDetail
                        THEN "FAILED" ELSE detail[k][i]
  BY <1>2, <1>3, SetDetailsFact
<1>5. age' \in 0..(ZombieUntil + 1)
  BY DEF CheckZombies, BeatPasses, TypeOK, ZombieUntil
<1> QED
  BY <1>1, <1>2, <1>4, <1>5
-----------------------------------------------------------------------------
\* Moving on keeps the worker's own variables well typed.
LEMMA NextActivityType ==
    ASSUME TypeOK, act # NumActs, NextActivity
    PROVE  /\ act' \in Acts /\ pc' \in PCs /\ ids' \in SUBSET Instances
           /\ failed' \in SUBSET Instances /\ succ' \in SUBSET Instances
           /\ finished' \in BOOLEAN /\ polls' \in 0..MaxPolls
<1>1. CASE succ = {}
  BY <1>1 DEF NextActivity, Goto, TypeOK, PCs
<1>2. CASE succ # {}
  <2>1. act' \in Acts
    BY <1>2 DEF NextActivity, TypeOK, Acts
  <2>2. pc' \in PCs
    BY <1>2 DEF NextActivity, PCs, Live
  <2>3. polls' \in 0..MaxPolls
    BY <1>2 DEF NextActivity
  <2> QED
    BY <1>2, <2>1, <2>2, <2>3 DEF NextActivity, TypeOK
<1> QED
  BY <1>1, <1>2

\* TypeOK is inductive: no action leaves the types.
LEMMA TypeStep == TypeOK /\ [Next]_vars => TypeOK'
<1> SUFFICES ASSUME TypeOK, [Next]_vars PROVE TypeOK'
  OBVIOUS
<1> USE DEF DetailType
<1>1. CASE Execute
  BY <1>1, ExecuteFact DEF Execute, Goto, TypeOK, PCs, Live, Executing
<1>2. CASE RunService
  <2>1. polls' \in 0..MaxPolls
    BY <1>2 DEF RunService, TypeOK
  <2> QED
    BY <1>2, <2>1 DEF RunService, TypeOK, PCs, Live, Executing, rowVars, beatVars
<1>3. CASE ReadRevoked
  BY <1>3 DEF ReadRevoked, TypeOK, PCs, Live, Executing, rowVars, beatVars
<1>4. CASE WriteRevoked
  BY <1>4, FailInstancesFact
    DEF WriteRevoked, Goto, TypeOK, PCs, Live, Executing, beatVars
<1>5. CASE WriteFailed
  BY <1>5, FailInstancesFact
    DEF WriteFailed, Goto, TypeOK, PCs, Live, Executing, beatVars
<1>6. CASE WriteSuccess
  <2>1. detail' \in DetailType
    BY <1>6, SetDetailsFact DEF WriteSuccess, Terminal
  <2>2. CASE act = NumActs
    BY <1>6, <2>1, <2>2 DEF WriteSuccess, Goto, TypeOK, PCs, Live, Executing, beatVars
  <2>3. CASE act # NumActs
    BY <1>6, <2>1, <2>3, NextActivityType DEF WriteSuccess, TypeOK, beatVars
  <2> QED
    BY <2>2, <2>3
<1>7. CASE WriteTail
  BY <1>7, SetRecordsFact
    DEF WriteTail, Goto, TypeOK, PCs, Live, Executing, beatVars, Status, Terminal
<1>8. CASE Raise
  BY <1>8, FailInstancesFact DEF Raise, Goto, TypeOK, PCs, beatVars
<1>9. CASE Crash
  BY <1>9 DEF Crash, Goto, TypeOK, PCs, rowVars, beatVars
<1>10. ASSUME NEW r \in Revokers, RevokeRead(r) PROVE TypeOK'
  <2>1. PICK T \in SUBSET Instances :
          revoke' = [revoke EXCEPT ![r].pc = "read", ![r].ids = T]
    BY <1>10 DEF RevokeRead
  <2>2. revoke' \in [Revokers -> RevokeType]
    <3>1. revoke[r] \in RevokeType
      BY DEF TypeOK, RevokeType
    <3>2. revoke'[r] = [revoke[r] EXCEPT !.pc = "read", !.ids = T]
      BY <2>1 DEF TypeOK
    <3>3. revoke'[r] \in RevokeType
      BY <3>1, <3>2 DEF RevokeType
    <3> QED
      BY <2>1, <3>3 DEF TypeOK, RevokeType
  <2> QED
    BY <1>10, <2>2 DEF RevokeRead, TypeOK, RevokeType, rowVars, engineVars, beatVars
<1>11. ASSUME NEW r \in Revokers, RevokeWrite(r) PROVE TypeOK'
  <2>1. revoke' \in [Revokers -> RevokeType]
    <3>1. revoke[r] \in RevokeType /\ act \in 0..NumActs
      BY DEF TypeOK, RevokeType, Acts
    <3> DEFINE a == IF act = 1 /\ pc = "queued" THEN NumActs ELSE act
    <3>2. /\ a \in 0..NumActs
          /\ revoke' = [revoke EXCEPT ![r].pc = "written", ![r].at = a]
      BY <1>11, <3>1 DEF RevokeWrite
    <3> HIDE DEF a
    <3>3. revoke'[r] = [revoke[r] EXCEPT !.pc = "written", !.at = a]
      BY <3>2 DEF TypeOK
    <3>4. revoke'[r] \in RevokeType
      BY <3>1, <3>2, <3>3 DEF RevokeType
    <3> QED
      BY <3>2, <3>4 DEF TypeOK, RevokeType
  <2>2. record' \in [Instances -> Status]
    BY <1>11, SetRecordsFact DEF RevokeWrite, Status, Terminal
  <2> QED
    BY <1>11, <2>1, <2>2 DEF RevokeWrite, TypeOK, RevokeType, engineVars, beatVars
<1>12. ASSUME NEW r \in Revokers, SetRecordStatus(r) PROVE TypeOK'
  BY <1>12, SetRecordsFact
    DEF SetRecordStatus, TypeOK, engineVars, beatVars, Status, Terminal
<1>13. CASE CheckZombies
  BY <1>13, CheckZombiesFact DEF CheckZombies, TypeOK, engineVars
<1>14. CASE MissBeat
  BY <1>14 DEF MissBeat, BeatPasses, TypeOK, rowVars, engineVars, ZombieUntil
<1>15. CASE UNCHANGED vars
  BY <1>15 DEF vars, rowVars, engineVars, beatVars, TypeOK
<1> QED
  BY <1>1, <1>2, <1>3, <1>4, <1>5, <1>6, <1>7, <1>8, <1>9, <1>10, <1>11, <1>12,
     <1>13, <1>14, <1>15 DEF Next, Engine, Revoke

\* The initial state is well typed.
LEMMA TypeInit == Init => TypeOK
<1> SUFFICES ASSUME Init PROVE TypeOK
  OBVIOUS
<1>1. revoke \in [Revokers -> RevokeType]
  BY DEF Init, RevokeType
<1>2. /\ record \in [Instances -> Status]
      /\ detail \in DetailType
      /\ retryTimes \in [Instances -> 0..RetryCap]
  BY DEF Init, DetailType, Status, Unfinished
<1>3. /\ act \in Acts /\ pc \in PCs /\ age \in 0..(ZombieUntil + 1)
      /\ ids \in SUBSET Instances /\ polls \in 0..MaxPolls /\ missed \in 0..MaxMissed
  BY DEF Init, Acts, PCs, Live, ZombieUntil
<1> QED
  BY <1>1, <1>2, <1>3 DEF Init, TypeOK, RevokeType, DetailType

\* The types hold in every state, for every chunk, chain and bound.
THEOREM TypeCorrect == Spec => []TypeOK
<1> QED
  BY TypeInit, TypeStep, PTL DEF Spec
-----------------------------------------------------------------------------
(***************************************************************************)
(* The inductive invariant.  SuccessIsEarned and its fellows speak of what *)
(* a chain leaves; they are kept because, while the worker is at it, the   *)
(* records that left the chain are FAILED, those still in it were SUCCESS  *)
(* in every activity before, and no later activity has a row yet.          *)
(***************************************************************************)
NothingAhead ==
    \A k \in Acts, i \in Instances : k > act => detail[k][i] = NoDetail

WorkInProgress == pc \in Live =>
    /\ failed \subseteq ids /\ succ \subseteq ids
    /\ \A i \in Instances : record[i] # "SUCCESS"
    /\ \A i \in Instances : i \notin ids => record[i] = "FAILED"
    /\ \A i \in ids, k \in Acts : k < act => detail[k][i] = "SUCCESS"
    /\ \A k \in Acts, i \in Instances :
         detail[k][i] = "RUNNING" => k = act /\ i \in ids

Opened == pc \in {"await"} \union Executing =>
    \A i \in ids : detail[act][i] # NoDetail

\* what the failing writes of run have achieved so far
Dropped(S) == \A i \in S : record[i] = "FAILED" /\ detail[act][i] # "RUNNING"

FailuresWritten ==
    /\ pc = "writeFailed" => Dropped((ids \ failed) \ succ)
    /\ pc \in {"writeSuccess", "writeTail"} => Dropped(ids \ succ)

TailReached == pc = "writeTail" =>
    act = NumActs /\ \A i \in succ : detail[act][i] = "SUCCESS"

\* The invariant but for the types, which a step has from TypeStep.
Shape ==
    /\ NothingAhead
    /\ WorkInProgress
    /\ Opened
    /\ FailuresWritten
    /\ TailReached
    /\ SuccessIsEarned
    /\ OnlySucceededAdvance
    /\ EndedLeavesNothingRunning

\* The shape holds before the first step.
LEMMA ShapeInit == Init => Shape
<1> SUFFICES ASSUME Init PROVE Shape
  OBVIOUS
<1>1. /\ \A i \in Instances : record[i] = "PENDING"
      /\ \A k \in Acts, i \in Instances : detail[k][i] = NoDetail
      /\ pc = "queued" /\ ids = Instances /\ failed = {} /\ succ = {} /\ act = 1
  BY DEF Init
<1>2. 1 \in Acts /\ \A k \in 1..(NumActs - 1) : k \in Acts /\ k + 1 \in Acts
  BY DEF Acts
<1> QED
  BY <1>1, <1>2 DEF Shape, NothingAhead, WorkInProgress, Opened, FailuresWritten,
     TailReached, SuccessIsEarned, OnlySucceededAdvance, EndedLeavesNothingRunning,
     Executing, NoDetail, Acts

\* Indices: the current activity is one of the chain's, and so are neighbours.
LEMMA Indices ==
    ASSUME TypeOK
    PROVE  /\ act \in Acts /\ 1 \in Acts /\ NumActs \in Acts
           /\ \A k \in Acts : k \in Nat /\ 1 <= k /\ k <= NumActs
           /\ \A k \in 1..(NumActs - 1) : k \in Acts /\ k + 1 \in Acts
           /\ act # NumActs => act + 1 \in Acts
BY DEF TypeOK, Acts

\* Writers outside the worker only fail rows: that keeps the shape.
LEMMA OutsideStep ==
    ASSUME TypeOK, Shape, UNCHANGED engineVars,
           \A i \in Instances : record'[i] = record[i] \/ record'[i] = "FAILED",
           \A k \in Acts, i \in Instances :
             \/ detail'[k][i] = detail[k][i]
             \/ detail[k][i] = "RUNNING" /\ detail'[k][i] = "FAILED"
    PROVE  Shape'
<1>0. UNCHANGED <<act, pc, ids, failed, succ, finished, polls>>
  BY DEF engineVars
<1> USE Indices, <1>0 DEF Shape, NoDetail, Terminal, Live, Executing
<1>1. NothingAhead'
  BY DEF NothingAhead
<1>2. WorkInProgress'
  <2> SUFFICES ASSUME pc \in Live PROVE WorkInProgress'
    BY DEF WorkInProgress
  <2>1. \A i \in Instances : record'[i] # "SUCCESS" /\ (i \notin ids => record'[i] = "FAILED")
    BY DEF WorkInProgress
  <2>2. \A i \in ids, k \in Acts : k < act => detail'[k][i] = "SUCCESS"
    <3>1. ids \subseteq Instances
      BY DEF TypeOK
    <3> QED
      BY <3>1 DEF WorkInProgress
  <2>3. \A k \in Acts, i \in Instances : detail'[k][i] = "RUNNING" => k = act /\ i \in ids
    BY DEF WorkInProgress
  <2> QED
    BY <2>1, <2>2, <2>3 DEF WorkInProgress
<1>3. Opened'
  <2> SUFFICES ASSUME pc \in {"await"} \union Executing, NEW i \in ids
               PROVE  detail'[act][i] # NoDetail
    BY DEF Opened
  <2> QED
    BY DEF Opened, TypeOK
<1>4. FailuresWritten'
  BY DEF FailuresWritten, Dropped, TypeOK
<1>5. TailReached'
  BY DEF TailReached, TypeOK
<1>6. SuccessIsEarned'
  BY DEF SuccessIsEarned
<1>7. OnlySucceededAdvance'
  BY DEF OnlySucceededAdvance
<1>8. EndedLeavesNothingRunning'
  BY DEF EndedLeavesNothingRunning
<1> QED
  BY <1>1, <1>2, <1>3, <1>4, <1>5, <1>6, <1>7, <1>8

\* Opening an activity, the HEAD write included.
LEMMA ExecuteStep == ASSUME TypeOK, Shape, Execute PROVE Shape'
<1>0. /\ pc = "queued" /\ pc' = "service"
      /\ UNCHANGED <<act, ids, failed, succ, finished, polls>>
  BY DEF Execute, Goto
<1> USE Indices, ExecuteFact, <1>0 DEF Shape, NoDetail, Terminal, Live, Executing
<1>1. NothingAhead'
  BY DEF NothingAhead
<1>2. WorkInProgress'
  BY DEF WorkInProgress, TypeOK
<1>3. Opened'
  BY DEF Opened, TypeOK
<1>4. FailuresWritten' /\ TailReached' /\ EndedLeavesNothingRunning'
  BY DEF FailuresWritten, TailReached, EndedLeavesNothingRunning
<1>6. SuccessIsEarned'
  BY DEF SuccessIsEarned, WorkInProgress
<1>7. OnlySucceededAdvance'
  <2> SUFFICES ASSUME NEW i \in Instances, NEW k \in 1..(NumActs - 1),
                      detail'[k + 1][i] # NoDetail
               PROVE  detail'[k][i] = "SUCCESS"
    BY DEF OnlySucceededAdvance
  <2>1. k \in Acts /\ k + 1 \in Acts /\ k # k + 1
    OBVIOUS
  <2>2. CASE k + 1 = act /\ i \in ids
    BY <2>1, <2>2 DEF WorkInProgress
  <2>3. CASE ~(k + 1 = act /\ i \in ids)
    BY <2>1, <2>3 DEF OnlySucceededAdvance, NothingAhead
  <2> QED
    BY <2>2, <2>3
<1> QED
  BY <1>1, <1>2, <1>3, <1>4, <1>6, <1>7

\* WriteRevoked and WriteFailed: failing S, part of the activity's instances.
LEMMA FailStep ==
    ASSUME TypeOK, Shape, NEW S \in SUBSET ids, FailInstances(S),
           pc \in Live, pc' \in {"writeFailed", "writeSuccess", "stopped", "await"},
           pc' = "writeFailed" => S = (ids \ failed) \ succ,
           pc' = "writeSuccess" => pc = "writeFailed" /\ S = failed,
           pc' = "await" => pc \in {"await"} \union Executing,
           pc' = "writeFailed" => pc \in {"await"} \union Executing,
           pc' = "stopped" => \/ S = ids
                              \/ S = failed /\ pc = "writeFailed" /\ succ = {},
           UNCHANGED <<act, ids, failed, succ, finished, polls>>
    PROVE  Shape'
<1> USE Indices, FailInstancesFact DEF Shape, NoDetail, Terminal, Executing
<1>0. ids \subseteq Instances /\ S \subseteq Instances
  BY DEF TypeOK
<1>1. NothingAhead'
  BY DEF NothingAhead
<1>2. WorkInProgress'
  BY <1>0 DEF WorkInProgress, Live
<1>3. Opened'
  BY <1>0 DEF Opened
<1>4. FailuresWritten'
  <2>1. Dropped(S)'
    BY <1>0 DEF Dropped
  <2>2. CASE pc' = "writeFailed"
    BY <2>1, <2>2 DEF FailuresWritten, Dropped
  <2>3. CASE pc' = "writeSuccess"
    <3> SUFFICES ASSUME NEW i \in ids \ succ
                 PROVE  record'[i] = "FAILED" /\ detail'[act][i] # "RUNNING"
      BY <2>3 DEF FailuresWritten, Dropped
    <3>1. CASE i \in failed
      BY <2>1, <2>3, <3>1 DEF Dropped
    <3>2. CASE i \notin failed
      BY <1>0, <2>3, <3>2 DEF FailuresWritten, Dropped
    <3> QED
      BY <3>1, <3>2
  <2> QED
    BY <2>2, <2>3 DEF FailuresWritten
<1>5. TailReached'
  BY DEF TailReached
<1>6. SuccessIsEarned'
  BY DEF SuccessIsEarned, WorkInProgress
<1>7. OnlySucceededAdvance'
  <2> SUFFICES ASSUME NEW i \in Instances, NEW k \in 1..(NumActs - 1),
                      detail'[k + 1][i] # NoDetail
               PROVE  detail'[k][i] = "SUCCESS"
    BY DEF OnlySucceededAdvance
  <2>1. k \in Acts /\ k + 1 \in Acts /\ k + 1 > k
    OBVIOUS
  <2>2. detail[k + 1][i] # NoDetail
    BY <2>1
  <2>3. k # act
    BY <2>1, <2>2 DEF NothingAhead
  <2> QED
    BY <2>1, <2>2, <2>3 DEF OnlySucceededAdvance
<1>8. EndedLeavesNothingRunning'
  <2> SUFFICES ASSUME pc' = "stopped", NEW i \in Instances
               PROVE  record'[i] = "FAILED" /\ \A k \in Acts : detail'[k][i] # "RUNNING"
    BY DEF EndedLeavesNothingRunning
  <2>1. CASE i \in S
    BY <2>1 DEF WorkInProgress
  <2>2. CASE i \notin S /\ i \notin ids
    BY <2>2 DEF WorkInProgress
  <2>3. CASE i \notin S /\ i \in ids
    <3>1. S = failed /\ pc = "writeFailed" /\ succ = {}
      BY <2>3
    <3>2. record[i] = "FAILED" /\ detail[act][i] # "RUNNING"
      BY <2>3, <3>1 DEF FailuresWritten, Dropped
    <3> QED
      BY <2>3, <3>1, <3>2 DEF WorkInProgress
  <2> QED
    BY <2>1, <2>2, <2>3
<1> QED
  BY <1>1, <1>2, <1>3, <1>4, <1>5, <1>6, <1>7, <1>8

\* WriteSuccess: the survivors' details, and the step to the next activity.
LEMMA WriteSuccessStep == ASSUME TypeOK, Shape, WriteSuccess PROVE Shape'
<1>0. /\ pc = "writeSuccess" /\ record' = record
      /\ detail' \in DetailType
      /\ \A k \in Acts, i \in Instances :
           detail'[k][i] = IF k = act /\ i \in succ /\ detail[k][i] # NoDetail
                           THEN "SUCCESS" ELSE detail[k][i]
  BY SetDetailsFact DEF WriteSuccess, Terminal
<1>1. ids \subseteq Instances /\ succ \subseteq ids /\ act \in Acts
  BY <1>0 DEF TypeOK, Shape, WorkInProgress, Live, Executing
<1>2. /\ \A i \in succ : detail'[act][i] = "SUCCESS"
      /\ \A i \in Instances : i \notin succ => record[i] = "FAILED"
      /\ \A k \in Acts, i \in Instances : detail'[k][i] # "RUNNING"
  BY <1>0, <1>1 DEF Shape, Opened, FailuresWritten, Dropped, WorkInProgress, Live, Executing
<1>3. /\ \A i \in Instances : record[i] # "SUCCESS"
      /\ \A i \in ids, k \in Acts : k < act => detail'[k][i] = "SUCCESS"
      /\ \A k \in Acts, i \in Instances : k > act => detail'[k][i] = NoDetail
  BY <1>0, <1>1, Indices DEF Shape, NothingAhead, WorkInProgress, Live, Executing
<1>4. SuccessIsEarned'
  BY <1>0, <1>3 DEF SuccessIsEarned
<1>5. OnlySucceededAdvance'
  BY <1>0, <1>3, Indices DEF Shape, OnlySucceededAdvance
<1>6. CASE act = NumActs
  <2>1. pc' = "writeTail" /\ UNCHANGED <<act, ids, failed, succ, finished, polls>>
    BY <1>6 DEF WriteSuccess, Goto
  <2>2. NothingAhead' /\ TailReached'
    BY <1>2, <1>3, <1>6, <2>1 DEF NothingAhead, TailReached
  <2>4. Opened'
    BY <1>0, <1>1, <2>1 DEF Shape, Opened, Executing, NoDetail
  <2>5. FailuresWritten'
    BY <1>0, <1>1, <1>2, <2>1 DEF FailuresWritten, Dropped
  <2>3. WorkInProgress' /\ EndedLeavesNothingRunning'
    BY <1>0, <1>1, <1>2, <1>3, <2>1
    DEF Shape, WorkInProgress, EndedLeavesNothingRunning, Live, Executing
  <2> QED
    BY <1>4, <1>5, <2>2, <2>3, <2>4, <2>5 DEF Shape
<1>7. CASE act # NumActs /\ succ # {}
  <2>1. /\ act' = act + 1 /\ pc' = "queued" /\ ids' = succ
        /\ failed' = {} /\ succ' = {}
    BY <1>7 DEF WriteSuccess, NextActivity
  <2>2. NothingAhead'
    BY <1>3, <2>1, Indices DEF NothingAhead
  <2>3. WorkInProgress'
    <3>1. \A i \in succ, k \in Acts : k < act + 1 => detail'[k][i] = "SUCCESS"
      BY <1>1, <1>2, <1>3, Indices
    <3> QED
      BY <1>0, <1>2, <1>3, <2>1, <3>1 DEF WorkInProgress
  <2>4. Opened' /\ FailuresWritten' /\ TailReached' /\ EndedLeavesNothingRunning'
    BY <2>1 DEF Opened, FailuresWritten, TailReached, EndedLeavesNothingRunning, Executing
  <2> QED
    BY <1>4, <1>5, <2>2, <2>3, <2>4 DEF Shape
<1>8. CASE act # NumActs /\ succ = {}
  <2>1. pc' = "stopped" /\ act' = act
    BY <1>8 DEF WriteSuccess, NextActivity, Goto
  <2>2. NothingAhead' /\ EndedLeavesNothingRunning'
    BY <1>0, <1>2, <1>3, <1>8, <2>1 DEF NothingAhead, EndedLeavesNothingRunning, Terminal
  <2>3. WorkInProgress' /\ Opened' /\ FailuresWritten' /\ TailReached'
    BY <2>1 DEF WorkInProgress, Opened, FailuresWritten, TailReached, Live, Executing
  <2> QED
    BY <1>4, <1>5, <2>2, <2>3 DEF Shape
<1> QED
  BY <1>6, <1>7, <1>8

\* WriteTail: the one place where a record becomes SUCCESS.
LEMMA WriteTailStep == ASSUME TypeOK, Shape, WriteTail PROVE Shape'
<1>0. /\ pc = "writeTail" /\ pc' \in {"stopped", "done"}
      /\ UNCHANGED <<act, ids, failed, succ, finished, polls, detail>>
      /\ \A i \in Instances : record'[i] = IF i \in succ THEN "SUCCESS" ELSE record[i]
  BY SetRecordsFact DEF WriteTail, Goto, Status, Terminal
<1>1. /\ ids \subseteq Instances /\ succ \subseteq ids /\ act = NumActs
      /\ \A i \in succ : detail[act][i] = "SUCCESS"
      /\ \A i \in Instances : i \notin succ => record[i] = "FAILED"
  BY <1>0 DEF TypeOK, Shape, WorkInProgress, TailReached, FailuresWritten, Dropped,
     Live, Executing
<1>2. SuccessIsEarned'
  <2> SUFFICES ASSUME NEW i \in Instances, record'[i] = "SUCCESS", NEW k \in Acts
               PROVE  detail[k][i] = "SUCCESS"
    BY <1>0 DEF SuccessIsEarned
  <2>1. i \in succ /\ i \in ids
    BY <1>0, <1>1
  <2>2. k < act \/ k = act
    BY <1>1, Indices
  <2> QED
    BY <1>0, <1>1, <2>1, <2>2 DEF Shape, WorkInProgress, Live, Executing
<1>3. EndedLeavesNothingRunning'
  <2>1. \A i \in Instances : record'[i] \in Terminal
    BY <1>0, <1>1 DEF Terminal
  <2>2. \A k \in Acts, i \in Instances : detail[k][i] # "RUNNING"
    BY <1>0, <1>1 DEF Shape, WorkInProgress, FailuresWritten, Dropped, Live, Executing
  <2> QED
    BY <1>0, <2>1, <2>2 DEF EndedLeavesNothingRunning
<1>4. NothingAhead' /\ OnlySucceededAdvance'
  BY <1>0 DEF Shape, NothingAhead, OnlySucceededAdvance
<1>5. WorkInProgress' /\ Opened' /\ FailuresWritten' /\ TailReached'
  BY <1>0 DEF WorkInProgress, Opened, FailuresWritten, TailReached, Live, Executing
<1> QED
  BY <1>2, <1>3, <1>4, <1>5 DEF Shape

\* Every action keeps the shape.
LEMMA ShapeStep == TypeOK /\ Shape /\ [Next]_vars => Shape'
<1> SUFFICES ASSUME TypeOK, Shape, [Next]_vars PROVE Shape'
  OBVIOUS
<1>0. ids \subseteq Instances /\ failed \subseteq Instances
  BY DEF TypeOK
<1>1. CASE RunService \/ ReadRevoked \/ Crash
  BY <1>0, <1>1 DEF RunService, ReadRevoked, Crash, Goto, rowVars, beatVars, Shape,
     NothingAhead, WorkInProgress, Opened, Dropped, FailuresWritten, TailReached,
     SuccessIsEarned, OnlySucceededAdvance, EndedLeavesNothingRunning, Live, Executing
<1>2. CASE WriteRevoked
  BY <1>2, FailStep DEF WriteRevoked, Goto, Live, Executing
<1>3. CASE WriteFailed
  <2>1. failed \subseteq ids
    BY <1>3 DEF WriteFailed, Shape, WorkInProgress, Live, Executing
  <2> QED
    BY <1>3, <2>1, FailStep DEF WriteFailed, Goto, Live, Executing
<1>4. CASE Raise
  BY <1>4, FailStep DEF Raise, Goto
<1>5. ASSUME NEW r \in Revokers, RevokeRead(r) PROVE Shape'
  BY <1>5, OutsideStep DEF RevokeRead, rowVars
<1>6. ASSUME NEW r \in Revokers, RevokeWrite(r) PROVE Shape'
  BY <1>6, SetRecordsFact, OutsideStep DEF RevokeWrite, Status, Terminal
<1>7. ASSUME NEW r \in Revokers, SetRecordStatus(r) PROVE Shape'
  BY <1>7, SetRecordsFact, OutsideStep DEF SetRecordStatus, Status, Terminal
<1>8. CASE CheckZombies
  BY <1>8, CheckZombiesFact, OutsideStep DEF CheckZombies
<1>9. CASE MissBeat
  BY <1>9, OutsideStep DEF MissBeat, rowVars
<1>10. CASE UNCHANGED vars
  BY <1>10, OutsideStep DEF vars, rowVars
<1> QED
  BY <1>1, <1>2, <1>3, <1>4, <1>5, <1>6, <1>7, <1>8, <1>9, <1>10,
     ExecuteStep, WriteSuccessStep, WriteTailStep DEF Next, Engine, Revoke

\* The inductive invariant holds in every state.
LEMMA Invariance == Spec => [](TypeOK /\ Shape)
<1>1. Init => TypeOK /\ Shape
  BY TypeInit, ShapeInit
<1>2. TypeOK /\ Shape /\ [Next]_vars => (TypeOK /\ Shape)'
  BY TypeStep, ShapeStep
<1> QED
  BY <1>1, <1>2, PTL DEF Spec

\* No record ends SUCCESS that an activity of the chain did not earn, whatever
\* is revoked, swept, raised or crashed.
THEOREM SuccessIsEarnedThm == Spec => []SuccessIsEarned
<1>1. Shape => SuccessIsEarned
  BY DEF Shape
<1> QED
  BY <1>1, Invariance, PTL

\* What an activity dropped does not come back in a later one.
THEOREM OnlySucceededAdvanceThm == Spec => []OnlySucceededAdvance
<1>1. Shape => OnlySucceededAdvance
  BY DEF Shape
<1> QED
  BY <1>1, Invariance, PTL

\* A chain that ended leaves neither record nor detail running.
THEOREM EndedLeavesNothingRunningThm == Spec => []EndedLeavesNothingRunning
<1>1. Shape => EndedLeavesNothingRunning
  BY DEF Shape
<1> QED
  BY <1>1, Invariance, PTL
-----------------------------------------------------------------------------
(***************************************************************************)
(* The chain left alone implements RecordLifecycle.  Beyond the invariant  *)
(* it takes that every survivor is RUNNING when TAIL overwrites it.        *)
(***************************************************************************)
Decided == {"writeRevoked", "writeFailed", "writeSuccess", "writeTail"}

Alone ==
    /\ pc = "queued" /\ act = 1 =>
         ids = Instances /\ \A i \in Instances : record[i] = "PENDING"
    /\ pc \in Live /\ ~(pc = "queued" /\ act = 1) =>
         \A i \in ids : record[i] \in {"RUNNING", "FAILED"}
    /\ pc \in Decided =>
         succ \cap failed = {} /\ \A i \in succ : record[i] = "RUNNING"

\* A step of the chain left alone is one of the whole specification.
LEMMA AloneIsNext == [Engine \/ Raise]_vars => [Next]_vars
BY DEF Next

\* Nobody else writes, so the records keep to what run last wrote.
LEMMA AloneStep ==
    TypeOK /\ Shape /\ Alone /\ [Engine \/ Raise]_vars => Alone'
<1> SUFFICES ASSUME TypeOK, Shape, Alone, [Engine \/ Raise]_vars PROVE Alone'
  OBVIOUS
<1>0. ids \subseteq Instances /\ act \in Nat /\ act >= 1
  BY DEF TypeOK, Acts
<1>1. CASE Execute
  BY <1>0, <1>1, ExecuteFact DEF Execute, Goto, Alone, Live, Executing, Decided
<1>2. CASE RunService
  BY <1>0, <1>2 DEF RunService, rowVars, Alone, Live, Executing, Decided
<1>3. CASE ReadRevoked
  BY <1>0, <1>3 DEF ReadRevoked, rowVars, Alone, Live, Executing, Decided
<1>4. CASE WriteRevoked
  <2>1. /\ pc = "writeRevoked" /\ pc' = "writeFailed"
        /\ UNCHANGED <<act, ids, failed, succ>>
        /\ \A i \in Instances :
             record'[i] = IF i \in (ids \ failed) \ succ THEN "FAILED" ELSE record[i]
    BY <1>4, FailInstancesFact DEF WriteRevoked, Goto
  <2>2. succ \subseteq ids
    BY <2>1 DEF Shape, WorkInProgress, Live, Executing
  <2> QED
    BY <1>0, <2>1, <2>2 DEF Alone, Live, Executing, Decided
<1>5. CASE WriteFailed
  <2>1. /\ pc = "writeFailed" /\ pc' \in {"writeSuccess", "await", "stopped"}
        /\ UNCHANGED <<act, ids, failed, succ>>
        /\ \A i \in Instances : record'[i] = IF i \in failed THEN "FAILED" ELSE record[i]
    BY <1>5, FailInstancesFact DEF WriteFailed, Goto
  <2>2. succ \subseteq ids
    BY <2>1 DEF Shape, WorkInProgress, Live, Executing
  <2> QED
    BY <1>0, <2>1, <2>2 DEF Alone, Live, Executing, Decided
<1>6. CASE WriteSuccess
  <2>1. pc = "writeSuccess" /\ record' = record
    BY <1>6 DEF WriteSuccess
  <2>2. CASE act = NumActs
    BY <1>6, <2>1, <2>2 DEF WriteSuccess, Goto, Alone, Live, Executing, Decided
  <2>3. CASE act # NumActs /\ succ = {}
    BY <1>6, <2>1, <2>3 DEF WriteSuccess, NextActivity, Goto, Alone, Live, Executing, Decided
  <2>4. CASE act # NumActs /\ succ # {}
    <3>1. act' = act + 1 /\ pc' = "queued" /\ ids' = succ
      BY <1>6, <2>4 DEF WriteSuccess, NextActivity
    <3> QED
      BY <1>0, <2>1, <3>1 DEF Alone, Decided
  <2> QED
    BY <2>2, <2>3, <2>4
<1>7. CASE WriteTail
  BY <1>7 DEF WriteTail, Goto, Alone, Live, Executing, Decided
<1>8. CASE Raise
  BY <1>8 DEF Raise, Goto, Alone, Live, Executing, Decided
<1>9. CASE UNCHANGED vars
  BY <1>9 DEF vars, rowVars, engineVars, Alone
<1> QED
  BY <1>1, <1>2, <1>3, <1>4, <1>5, <1>6, <1>7, <1>8, <1>9 DEF Engine

\* Every step of the chain left alone is a step of RecordLifecycle, or none.
LEMMA LifecycleStep ==
    TypeOK /\ Shape /\ Alone /\ [Engine \/ Raise]_vars => [Lifecycle!Next]_record
<1> SUFFICES ASSUME TypeOK, Shape, Alone, [Engine \/ Raise]_vars
             PROVE  [Lifecycle!Next]_record
  OBVIOUS
<1>0. ids \subseteq Instances /\ failed \subseteq Instances /\ succ \subseteq Instances
  BY DEF TypeOK
<1>1. CASE Execute
  <2>1. CASE act = 1
    <3>1. Lifecycle!Start(ids)
      BY <1>1, <2>1 DEF Execute, Alone, SetRecords, Lifecycle!Start, Lifecycle!Move
    <3> QED
      BY <1>0, <3>1 DEF Lifecycle!Next
  <2>2. CASE act # 1
    BY <1>1, <2>2 DEF Execute
  <2> QED
    BY <2>1, <2>2
<1>2. ASSUME NEW S \in SUBSET Instances, FailInstances(S), pc \in Live
      PROVE  [Lifecycle!Next]_record
  <2>1. \A i \in S : record[i] \in {"PENDING", "RUNNING", "FAILED"}
    BY <1>2 DEF Shape, WorkInProgress, TypeOK, Status, Unfinished, Terminal
  <2>2. Lifecycle!Fail(S)
    BY <1>2, <2>1 DEF FailInstances, SetRecords, Lifecycle!Fail, Lifecycle!Move
  <2> QED
    BY <2>2 DEF Lifecycle!Next
<1>3. CASE WriteRevoked
  BY <1>0, <1>2, <1>3 DEF WriteRevoked, Live, Executing
<1>4. CASE WriteFailed
  BY <1>0, <1>2, <1>4 DEF WriteFailed, Live, Executing
<1>5. CASE Raise
  BY <1>0, <1>2, <1>5 DEF Raise
<1>6. CASE WriteTail
  <2>1. Lifecycle!Succeed(succ)
    BY <1>6 DEF WriteTail, Alone, Decided, SetRecords, Lifecycle!Succeed, Lifecycle!Move
  <2> QED
    BY <1>0, <2>1 DEF Lifecycle!Next
<1>7. CASE RunService \/ ReadRevoked \/ WriteSuccess \/ UNCHANGED vars
  BY <1>7 DEF RunService, ReadRevoked, WriteSuccess, vars, rowVars
<1> QED
  BY <1>1, <1>3, <1>4, <1>5, <1>6, <1>7 DEF Engine

\* Left alone, the chain takes its records through RecordLifecycle: the states
\* map to themselves, each step to one of its steps or to none.
THEOREM ChainImplementsLifecycle == EngineSpec => RecordsFollowLifecycle
<1>1. Init => Lifecycle!Init /\ TypeOK /\ Shape /\ Alone
  BY TypeInit, ShapeInit DEF Init, Lifecycle!Init, Alone, Live, Executing, Decided
<1>2. TypeOK /\ Shape /\ Alone /\ [Engine \/ Raise]_vars => (TypeOK /\ Shape /\ Alone)'
  BY TypeStep, ShapeStep, AloneStep, AloneIsNext
<1> QED
  BY <1>1, <1>2, LifecycleStep, PTL DEF EngineSpec, RecordsFollowLifecycle, Lifecycle!Spec
-----------------------------------------------------------------------------
(***************************************************************************)
(* A revoke that lands after HEAD: its instances are FAILED from then on,  *)
(* so the next query for revoked records drops them, in the activity the   *)
(* revoke met or in the one after it.                                      *)
(***************************************************************************)
Landed(r) == revoke[r].pc \in {"written", "done"} /\ revoke[r].at < NumActs

RevokeHolds == \A r \in Revokers : Landed(r) =>
    /\ ~(pc = "queued" /\ act = 1)
    /\ act >= revoke[r].at
    /\ \A i \in revoke[r].ids :
         /\ pc \in Live => record[i] = "FAILED"
         /\ act > revoke[r].at + 1 => i \notin ids
         /\ act > revoke[r].at /\ pc \in Decided => i \notin succ
         /\ \A k \in Acts : k > revoke[r].at + 1 => detail[k][i] = NoDetail

\* No action undoes a revoke that landed.
LEMMA RevokeHoldsStep ==
    TypeOK /\ Shape /\ RevokeHolds /\ [Next]_vars => RevokeHolds'
<1> SUFFICES ASSUME TypeOK, Shape, RevokeHolds, [Next]_vars PROVE RevokeHolds'
  OBVIOUS
<1>0. /\ ids \subseteq Instances /\ succ \subseteq Instances
      /\ act \in Acts /\ act \in Nat /\ act >= 1 /\ \A k \in Acts : k \in Nat
      /\ \A r \in Revokers : revoke[r].ids \subseteq Instances /\ revoke[r].at \in Nat
  BY DEF TypeOK, Acts
<1>1. CASE Execute
  <2>1. pc = "queued" /\ pc' = "service" /\ UNCHANGED <<act, ids, succ, revoke>>
    BY <1>1 DEF Execute, Goto
  <2>2. \A r \in Revokers : Landed(r) => act # 1
    BY <2>1 DEF RevokeHolds
  <2> QED
    BY <1>0, <1>1, <2>1, <2>2, ExecuteFact
    DEF RevokeHolds, Landed, Live, Executing, Decided
<1>2. CASE RunService
  BY <1>0, <1>2 DEF RunService, rowVars, RevokeHolds, Landed, Live, Executing, Decided
<1>3. CASE ReadRevoked
  BY <1>0, <1>3 DEF ReadRevoked, rowVars, RevokeHolds, Landed, Live, Executing, Decided
<1>4. ASSUME NEW S \in SUBSET Instances, FailInstances(S), pc \in Live,
             pc' \in Decided => pc \in Decided, pc' # "queued",
             UNCHANGED <<act, ids, succ, revoke>>
      PROVE  RevokeHolds'
  BY <1>0, <1>4, FailInstancesFact DEF RevokeHolds, Landed
<1>5. CASE WriteRevoked
  BY <1>0, <1>4, <1>5 DEF WriteRevoked, Goto, Live, Executing, Decided
<1>6. CASE WriteFailed
  <2>1. failed \subseteq Instances
    BY DEF TypeOK
  <2> QED
    BY <1>4, <1>6, <2>1 DEF WriteFailed, Goto, Live, Executing, Decided
<1>7. CASE Raise
  BY <1>0, <1>4, <1>7 DEF Raise, Goto, Decided
<1>8. CASE WriteSuccess
  <2>1. /\ pc = "writeSuccess" /\ UNCHANGED <<record, revoke>>
        /\ \A k \in Acts, i \in Instances :
             detail'[k][i] = IF k = act /\ i \in succ /\ detail[k][i] # NoDetail
                             THEN "SUCCESS" ELSE detail[k][i]
    BY <1>8, SetDetailsFact DEF WriteSuccess, Terminal
  <2>2. CASE act = NumActs \/ succ = {}
    <3>1. pc' \in {"writeTail", "stopped"} /\ UNCHANGED <<act, ids, succ>>
      BY <1>8, <2>2 DEF WriteSuccess, NextActivity, Goto
    <3> QED
      BY <1>0, <2>1, <3>1 DEF RevokeHolds, Landed, Live, Executing, Decided
  <2>3. CASE act # NumActs /\ succ # {}
    <3>1. act' = act + 1 /\ pc' = "queued" /\ ids' = succ /\ succ' = {}
      BY <1>8, <2>3 DEF WriteSuccess, NextActivity
    <3> QED
      BY <1>0, <2>1, <3>1 DEF RevokeHolds, Landed, Live, Executing, Decided
  <2> QED
    BY <2>2, <2>3
<1>9. CASE WriteTail
  BY <1>0, <1>9 DEF WriteTail, Goto, RevokeHolds, Landed, Live, Executing, Decided
<1>10. CASE Crash
  BY <1>0, <1>10 DEF Crash, Goto, rowVars, RevokeHolds, Landed, Live, Executing, Decided
<1>11. ASSUME NEW r \in Revokers, RevokeRead(r) PROVE RevokeHolds'
  <2>1. /\ UNCHANGED <<record, detail, act, pc, ids, succ>>
        /\ ~Landed(r)'
        /\ \A q \in Revokers : q # r => revoke'[q] = revoke[q]
    BY <1>11 DEF RevokeRead, rowVars, engineVars, Landed, TypeOK
  <2> QED
    BY <1>0, <2>1 DEF RevokeHolds, Landed
<1>12. ASSUME NEW r \in Revokers, RevokeWrite(r) PROVE RevokeHolds'
  <2> DEFINE a == IF act = 1 /\ pc = "queued" THEN NumActs ELSE act
  <2>1. /\ UNCHANGED <<detail, act, pc, ids, succ>>
        /\ \A q \in Revokers : q # r => revoke'[q] = revoke[q]
        /\ revoke'[r].ids = revoke[r].ids /\ revoke'[r].at = a
        /\ \A i \in Instances :
             record'[i] = IF i \in revoke[r].ids THEN "FAILED" ELSE record[i]
    BY <1>12, SetRecordsFact
    DEF RevokeWrite, engineVars, TypeOK, Status, Terminal
  <2>2. ASSUME NEW q \in Revokers, q # r, Landed(q)'
        PROVE  Landed(q) /\ revoke'[q] = revoke[q]
    BY <2>1, <2>2 DEF Landed
  <2>3. \A k \in Acts, i \in Instances : k > act => detail[k][i] = NoDetail
    BY DEF Shape, NothingAhead
  <2> QED
    BY <1>0, <2>1, <2>2, <2>3 DEF RevokeHolds, Landed, Live
<1>13. ASSUME NEW r \in Revokers, SetRecordStatus(r) PROVE RevokeHolds'
  <2>1. /\ UNCHANGED <<detail, act, pc, ids, succ>>
        /\ \A q \in Revokers : Landed(q)' => Landed(q)
        /\ \A q \in Revokers : revoke'[q].ids = revoke[q].ids /\ revoke'[q].at = revoke[q].at
        /\ \A i \in Instances : record'[i] = record[i] \/ record'[i] = "FAILED"
    BY <1>13, SetRecordsFact
    DEF SetRecordStatus, engineVars, TypeOK, Status, Terminal, Landed
  <2> QED
    BY <1>0, <2>1 DEF RevokeHolds, Landed
<1>14. CASE CheckZombies
  <2>1. UNCHANGED <<act, pc, ids, succ, revoke>>
    BY <1>14 DEF CheckZombies, engineVars
  <2> QED
    BY <1>0, <1>14, <2>1, CheckZombiesFact DEF RevokeHolds, Landed, Unfinished, NoDetail
<1>15. CASE MissBeat \/ UNCHANGED vars
  BY <1>15 DEF MissBeat, vars, rowVars, engineVars, RevokeHolds, Landed
<1> QED
  BY <1>1, <1>2, <1>3, <1>5, <1>6, <1>7, <1>8, <1>9, <1>10, <1>11, <1>12,
     <1>13, <1>14, <1>15 DEF Next, Engine, Revoke

\* A revoke that lands after HEAD lets its instances into one more activity at
\* the most, however the sweep and other revokes interleave with it.
THEOREM RevokeStopsThm == Spec => []RevokeStopsWithinOneActivity
<1>1. Init => RevokeHolds
  BY DEF Init, RevokeHolds, Landed
<1>2. TypeOK /\ RevokeHolds => RevokeStopsWithinOneActivity
  <2> SUFFICES ASSUME TypeOK, RevokeHolds, NEW r \in Revokers,
                      revoke[r].pc \in {"written", "done"},
                      NEW i \in revoke[r].ids, NEW k \in Acts, k > revoke[r].at + 1
               PROVE  detail[k][i] = NoDetail
    BY DEF RevokeStopsWithinOneActivity
  <2>1. revoke[r].at \in 0..NumActs /\ k \in 1..NumActs
    BY DEF TypeOK, Acts
  <2>2. Landed(r)
    BY <2>1 DEF Landed
  <2> QED
    BY <2>2 DEF RevokeHolds
<1> QED
  BY <1>1, <1>2, Invariance, RevokeHoldsStep, PTL DEF Spec
=============================================================================
