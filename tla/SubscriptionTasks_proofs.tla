---------------------- MODULE SubscriptionTasks_proofs ----------------------
(***************************************************************************)
(* Proofs about SubscriptionTasks, for any number of calls and instances.  *)
(***************************************************************************)
EXTENDS SubscriptionTasks, TLAPS

Early == {"idle", "begun", "unset", "inserted"}

\* A call that has not ended is known by what it was, and its task is not ready
\* before SetReady.
CallsInv ==
    \A c \in Calls :
        /\ pc[c] # "idle" => kind[c] # "none"
        /\ pc[c] \in Early \union {"saved"} => ~ready[c]

\* Before it inserts them a call has no records; it binds a pipeline when it has
\* read them back, and inserts them only for instances it acts on.
RecordsInv ==
    \A c \in Calls :
        /\ pc[c] \in Early => \A i \in Instances : member[c][i] = NoCall
        /\ pc[c] \in {"unset", "inserted"} => created[c] \subseteq actions[c]

\* Latest records that no pipeline has are about to be read back by a call that
\* acts on the instance, unless some call came to a bad end.
ServedInv ==
    \A i \in Instances : LatestOf(i) # {} =>
        \/ \E c \in Calls : member[c][i] \in LatestOf(i)
        \/ \E c \in Calls : pc[c] = "inserted" /\ i \in actions[c]
        \/ \E c \in Calls : pc[c] \in {"failed", "crashed"}

\* Before it inserts them a call has no latest records.
FreshInv ==
    \A c \in Calls : pc[c] \in {"idle", "begun", "unset"} => \A i \in Instances : ~latest[c][i]

IInv == TypeOK /\ CallsInv /\ RecordsInv /\ FreshInv /\ ServedInv
-----------------------------------------------------------------------------
\* The choice create_pipeline makes is a call or none for each instance.
LEMMA MembersType ==
    ASSUME NEW c \in Calls, NEW m \in Members(c)
    PROVE  m \in [Instances -> Calls \union {NoCall}]
BY DEF Members

\* TypeOK holds initially.
LEMMA TypeInit == Init => TypeOK
BY DEF Init, TypeOK, Creating, Ended, NoRecord, Unfinished, EndStatus

\* TypeOK is inductive: no step of a call, a pipeline or the sweep leaves the types.
LEMMA TypeStep == TypeOK /\ [Next]_vars => TypeOK'
<1> SUFFICES ASSUME TypeOK, [Next]_vars PROVE TypeOK'
  OBVIOUS
<1> USE DEF TypeOK, Creating, Ended, Goto, taskVars, recordVars, pipelineVars
<1>1. ASSUME NEW c \in Calls, Request(c) PROVE TypeOK'
  BY <1>1 DEF Request
<1>2. ASSUME NEW c \in Calls, Retry(c) PROVE TypeOK'
  BY <1>2 DEF Retry
<1>3. ASSUME NEW c \in Calls, UnsetLatest(c) PROVE TypeOK'
  <2>1. PICK A \in SUBSET Targets(c) : \E R \in SUBSET A :
          /\ actions' = [actions EXCEPT ![c] = A]
          /\ created' = [created EXCEPT ![c] = R]
          /\ latest' = [d \in Calls |-> [i \in Instances |-> latest[d][i] /\ i \notin A]]
    BY <1>3 DEF UnsetLatest
  <2>2. A \subseteq Instances
    BY DEF Targets
  <2>3. latest' \in [Calls -> [Instances -> BOOLEAN]]
    BY <2>1
  <2> QED
    BY <1>3, <2>1, <2>2, <2>3 DEF UnsetLatest
<1>4. ASSUME NEW c \in Calls, NothingToDo(c) PROVE TypeOK'
  BY <1>4 DEF NothingToDo
<1>5. ASSUME NEW c \in Calls, BulkCreate(c) PROVE TypeOK'
  BY <1>5 DEF BulkCreate, Unfinished
<1>6. ASSUME NEW c \in Calls, Requery(c) PROVE TypeOK'
  BY <1>6, MembersType DEF Requery, Return
<1>7. ASSUME NEW c \in Calls, SetReady(c) PROVE TypeOK'
  BY <1>7 DEF SetReady
<1>8. ASSUME NEW c \in Calls, RunPipeline(c) PROVE TypeOK'
  BY <1>8 DEF RunPipeline
<1>9. ASSUME NEW c \in Calls, CreateFails(c) PROVE TypeOK'
  BY <1>9 DEF CreateFails, Return
<1>10. ASSUME NEW c \in Calls, RunFails(c) PROVE TypeOK'
  BY <1>10 DEF RunFails
<1>11. ASSUME NEW c \in Calls, Crash(c) PROVE TypeOK'
  BY <1>11 DEF Crash, Return
<1>12. ASSUME NEW c \in Calls, NEW S \in SUBSET Instances, StartRecords(c, S) PROVE TypeOK'
  BY <1>12 DEF StartRecords, Unfinished
<1>13. ASSUME NEW c \in Calls, NEW i \in Instances, EndRecord(c, i) PROVE TypeOK'
  BY <1>13 DEF EndRecord
<1>14. CASE CheckZombies
  BY <1>14 DEF CheckZombies
<1>15. CASE UNCHANGED vars
  BY <1>15 DEF vars
<1> QED
  BY <1>1, <1>2, <1>3, <1>4, <1>5, <1>6, <1>7, <1>8, <1>9, <1>10, <1>11, <1>12, <1>13,
     <1>14, <1>15 DEF Next, Proceed, Work
-----------------------------------------------------------------------------
\* The steps of pipelines and of the sweep touch neither calls nor what is latest.
LEMMA WorkKeeps ==
    ASSUME NEW c \in Calls, Work(c) \/ CheckZombies \/ UNCHANGED vars
    PROVE  UNCHANGED <<pc, kind, taskVars, actions, created, latest, member>>
BY DEF Work, StartRecords, EndRecord, CheckZombies, vars, taskVars, recordVars, pipelineVars

\* A step is of one call, or keeps all that the invariant is about.
LEMMA NextCases ==
    ASSUME [Next]_vars
    PROVE  \/ \E c \in Calls :
                \/ Request(c) \/ Retry(c) \/ UnsetLatest(c) \/ NothingToDo(c) \/ BulkCreate(c)
                \/ Requery(c) \/ SetReady(c) \/ RunPipeline(c)
                \/ CreateFails(c) \/ RunFails(c) \/ Crash(c)
           \/ UNCHANGED <<pc, kind, taskVars, actions, created, latest, member>>
<1>1. ASSUME NEW c \in Calls, Work(c)
      PROVE  UNCHANGED <<pc, kind, taskVars, actions, created, latest, member>>
  BY <1>1, WorkKeeps
<1>2. CASE CheckZombies
  BY <1>2 DEF CheckZombies, taskVars, pipelineVars
<1>3. CASE UNCHANGED vars
  BY <1>3 DEF vars, taskVars, recordVars, pipelineVars
<1> QED
  BY <1>1, <1>2, <1>3 DEF Next, Proceed

\* CallsInv is inductive.
LEMMA CallsStep == TypeOK /\ CallsInv /\ [Next]_vars => CallsInv'
<1> SUFFICES ASSUME TypeOK, CallsInv, [Next]_vars, NEW c \in Calls
             PROVE  /\ pc'[c] # "idle" => kind'[c] # "none"
                    /\ pc'[c] \in Early \union {"saved"} => ~ready'[c]
  BY DEF CallsInv
<1> USE DEF TypeOK, CallsInv, Early, Goto, taskVars, recordVars
<1>1. ASSUME NEW d \in Calls, Request(d) \/ Retry(d)
      PROVE  /\ pc'[c] # "idle" => kind'[c] # "none"
             /\ pc'[c] \in Early \union {"saved"} => ~ready'[c]
  BY <1>1 DEF Request, Retry
<1>2. ASSUME NEW d \in Calls, \/ UnsetLatest(d) \/ NothingToDo(d) \/ BulkCreate(d)
                              \/ Requery(d) \/ SetReady(d) \/ RunPipeline(d)
      PROVE  /\ pc'[c] # "idle" => kind'[c] # "none"
             /\ pc'[c] \in Early \union {"saved"} => ~ready'[c]
  BY <1>2 DEF UnsetLatest, NothingToDo, BulkCreate, Requery, SetReady, RunPipeline
<1>3. ASSUME NEW d \in Calls, CreateFails(d) \/ RunFails(d) \/ Crash(d)
      PROVE  /\ pc'[c] # "idle" => kind'[c] # "none"
             /\ pc'[c] \in Early \union {"saved"} => ~ready'[c]
  BY <1>3 DEF CreateFails, RunFails, Crash, Creating
<1>4. CASE UNCHANGED <<pc, kind, taskVars, actions, created, latest, member>>
  BY <1>4
<1> QED
  BY <1>1, <1>2, <1>3, <1>4, NextCases

\* RecordsInv is inductive.
LEMMA RecordsStep == TypeOK /\ RecordsInv /\ [Next]_vars => RecordsInv'
<1> SUFFICES ASSUME TypeOK, RecordsInv, [Next]_vars, NEW c \in Calls
             PROVE  /\ pc'[c] \in Early => \A i \in Instances : member'[c][i] = NoCall
                    /\ pc'[c] \in {"unset", "inserted"} => created'[c] \subseteq actions'[c]
  BY DEF RecordsInv
<1> DEFINE Goal == /\ pc'[c] \in Early => \A i \in Instances : member'[c][i] = NoCall
                   /\ pc'[c] \in {"unset", "inserted"} => created'[c] \subseteq actions'[c]
<1> USE DEF TypeOK, RecordsInv, Early, Goto, recordVars, pipelineVars, Return
<1>1. ASSUME NEW d \in Calls, \/ Request(d) \/ Retry(d) \/ NothingToDo(d) \/ BulkCreate(d)
                              \/ SetReady(d) \/ RunPipeline(d) \/ RunFails(d)
      PROVE  Goal
  BY <1>1 DEF Request, Retry, NothingToDo, BulkCreate, SetReady, RunPipeline, RunFails
<1>2. ASSUME NEW d \in Calls, UnsetLatest(d) PROVE Goal
  BY <1>2 DEF UnsetLatest
<1>3. ASSUME NEW d \in Calls, Requery(d) PROVE Goal
  BY <1>3 DEF Requery
<1>4. ASSUME NEW d \in Calls, CreateFails(d) \/ Crash(d) PROVE Goal
  BY <1>4 DEF CreateFails, Crash, Creating
<1>5. CASE UNCHANGED <<pc, kind, taskVars, actions, created, latest, member>>
  BY <1>5
<1> QED
  BY <1>1, <1>2, <1>3, <1>4, <1>5, NextCases

\* FreshInv is inductive.
LEMMA FreshStep == TypeOK /\ FreshInv /\ [Next]_vars => FreshInv'
<1> SUFFICES ASSUME TypeOK, FreshInv, [Next]_vars, NEW c \in Calls, NEW i \in Instances
             PROVE  pc'[c] \in {"idle", "begun", "unset"} => ~latest'[c][i]
  BY DEF FreshInv
<1> USE DEF TypeOK, FreshInv, Goto, recordVars, pipelineVars
<1>1. ASSUME NEW d \in Calls, \/ Request(d) \/ Retry(d) \/ UnsetLatest(d) \/ NothingToDo(d)
                              \/ BulkCreate(d)
      PROVE  pc'[c] \in {"idle", "begun", "unset"} => ~latest'[c][i]
  BY <1>1 DEF Request, Retry, UnsetLatest, NothingToDo, BulkCreate
<1>2. ASSUME NEW d \in Calls, \/ Requery(d) \/ SetReady(d) \/ RunPipeline(d)
                              \/ CreateFails(d) \/ RunFails(d) \/ Crash(d)
      PROVE  pc'[c] \in {"idle", "begun", "unset"} => ~latest'[c][i]
  BY <1>2 DEF Requery, SetReady, RunPipeline, CreateFails, RunFails, Crash
<1>3. CASE UNCHANGED <<pc, kind, taskVars, actions, created, latest, member>>
  BY <1>3
<1> QED
  BY <1>1, <1>2, <1>3, NextCases
-----------------------------------------------------------------------------
\* A call that comes to a bad end makes ServedInv true of everything.
LEMMA BadEndServes ==
    ASSUME NEW c \in Calls, pc'[c] \in {"failed", "crashed"}
    PROVE  ServedInv'
BY DEF ServedInv

\* A step that keeps what is latest and what pipelines have keeps an instance served,
\* if no call ceases to be about to read back.
LEMMA KeepServes ==
    ASSUME ServedInv, latest' = latest, member' = member,
           \A c \in Calls : pc[c] = "inserted" => pc'[c] = "inserted" /\ actions'[c] = actions[c],
           \A c \in Calls : pc[c] \in {"failed", "crashed"} => pc'[c] = pc[c]
    PROVE  ServedInv'
BY DEF ServedInv, LatestOf

\* An instance stays served whose latest records stay, if a step leaves alone who
\* serves it.
LEMMA StillServed ==
    ASSUME ServedInv, NEW i \in Instances, LatestOf(i)' = LatestOf(i), LatestOf(i)' # {},
           \A c \in Calls : member[c][i] \in LatestOf(i) => member'[c][i] = member[c][i],
           \A c \in Calls : pc[c] = "inserted" /\ i \in actions[c] =>
                pc'[c] = pc[c] /\ actions'[c] = actions[c],
           \A c \in Calls : pc[c] \in {"failed", "crashed"} => pc'[c] = pc[c]
    PROVE  \/ \E c \in Calls : member'[c][i] \in LatestOf(i)'
           \/ \E c \in Calls : pc'[c] = "inserted" /\ i \in actions'[c]
           \/ \E c \in Calls : pc'[c] \in {"failed", "crashed"}
<1>1. \/ \E c \in Calls : member[c][i] \in LatestOf(i)
      \/ \E c \in Calls : pc[c] = "inserted" /\ i \in actions[c]
      \/ \E c \in Calls : pc[c] \in {"failed", "crashed"}
  BY DEF ServedInv
<1>2. ASSUME NEW c \in Calls, member[c][i] \in LatestOf(i)
      PROVE  member'[c][i] \in LatestOf(i)'
  BY <1>2
<1>3. ASSUME NEW c \in Calls, pc[c] = "inserted" /\ i \in actions[c]
      PROVE  pc'[c] = "inserted" /\ i \in actions'[c]
  BY <1>3
<1>4. ASSUME NEW c \in Calls, pc[c] \in {"failed", "crashed"}
      PROVE  pc'[c] \in {"failed", "crashed"}
  BY <1>4
<1> QED
  BY <1>1, <1>2, <1>3, <1>4

\* ServedInv is inductive, relative to the other parts.
LEMMA ServedStep == IInv /\ [Next]_vars => ServedInv'
<1> SUFFICES ASSUME IInv, [Next]_vars PROVE ServedInv'
  OBVIOUS
<1> USE DEF IInv, TypeOK, Goto, recordVars, pipelineVars
<1>1. ASSUME NEW d \in Calls, \/ Request(d) \/ Retry(d) \/ NothingToDo(d)
                              \/ SetReady(d) \/ RunPipeline(d)
      PROVE  ServedInv'
  BY <1>1, KeepServes DEF Request, Retry, NothingToDo, SetReady, RunPipeline
<1>2. ASSUME NEW d \in Calls, CreateFails(d) \/ RunFails(d) \/ Crash(d)
      PROVE  ServedInv'
  BY <1>2, BadEndServes DEF CreateFails, RunFails, Crash
<1>3. ASSUME NEW d \in Calls, UnsetLatest(d) PROVE ServedInv'
  \* an instance in actions[d] has no latest record left, others are as before
  <2> SUFFICES ASSUME NEW i \in Instances, LatestOf(i)' # {}
               PROVE  \/ \E c \in Calls : member'[c][i] \in LatestOf(i)'
                      \/ \E c \in Calls : pc'[c] = "inserted" /\ i \in actions'[c]
                      \/ \E c \in Calls : pc'[c] \in {"failed", "crashed"}
    BY DEF ServedInv
  <2>1. PICK A \in SUBSET Targets(d) : \E R \in SUBSET A :
          /\ actions' = [actions EXCEPT ![d] = A]
          /\ latest' = [e \in Calls |-> [k \in Instances |-> latest[e][k] /\ k \notin A]]
    BY <1>3 DEF UnsetLatest
  <2>2. i \notin A /\ LatestOf(i)' = LatestOf(i)
    <3>1. LatestOf(i)' = {c \in Calls : latest'[c][i]} /\ LatestOf(i) = {c \in Calls : latest[c][i]}
      BY DEF LatestOf
    <3>2. \A c \in Calls : latest'[c][i] = (latest[c][i] /\ i \notin A)
      BY <2>1
    <3>3. i \notin A
      BY <3>1, <3>2
    <3> QED
      BY <3>1, <3>2, <3>3
  <2>3. \A c \in Calls : pc[c] # "begun" => pc'[c] = pc[c] /\ actions'[c] = actions[c]
    BY <1>3, <2>1 DEF UnsetLatest
  <2>4. member' = member
    BY <1>3 DEF UnsetLatest
  <2> QED
    BY <2>2, <2>3, <2>4, StillServed
<1>4. ASSUME NEW d \in Calls, BulkCreate(d) PROVE ServedInv'
  \* d is about to read back for the instances it has made records of
  <2> SUFFICES ASSUME NEW i \in Instances, LatestOf(i)' # {}
               PROVE  \/ \E c \in Calls : member'[c][i] \in LatestOf(i)'
                      \/ \E c \in Calls : pc'[c] = "inserted" /\ i \in actions'[c]
                      \/ \E c \in Calls : pc'[c] \in {"failed", "crashed"}
    BY DEF ServedInv
  <2>1. pc'[d] = "inserted" /\ pc[d] = "unset" /\ actions' = actions /\ member' = member
    BY <1>4 DEF BulkCreate
  <2>2. CASE i \in created[d]
    BY <2>1, <2>2 DEF RecordsInv
  <2>3. CASE i \notin created[d]
    <3>1. LatestOf(i)' = LatestOf(i)
      BY <1>4, <2>1, <2>3 DEF LatestOf, FreshInv, BulkCreate
    <3>2. \A c \in Calls : pc[c] # "unset" => pc'[c] = pc[c]
      BY <1>4 DEF BulkCreate
    <3> QED
      BY <2>1, <3>1, <3>2, StillServed
  <2> QED
    BY <2>2, <2>3
<1>5. ASSUME NEW d \in Calls, Requery(d) PROVE ServedInv'
  \* d takes a latest record for each of its instances; it had none before
  <2> SUFFICES ASSUME NEW i \in Instances, LatestOf(i)' # {}
               PROVE  \/ \E c \in Calls : member'[c][i] \in LatestOf(i)'
                      \/ \E c \in Calls : pc'[c] = "inserted" /\ i \in actions'[c]
                      \/ \E c \in Calls : pc'[c] \in {"failed", "crashed"}
    BY DEF ServedInv
  <2>1. pc[d] = "inserted" /\ LatestOf(i)' = LatestOf(i)
    BY <1>5 DEF Requery, LatestOf
  <2>2. PICK m \in Members(d) : member' = [member EXCEPT ![d] = m]
    BY <1>5 DEF Requery
  <2>3. CASE i \in actions[d]
    <3>1. m[i] \in LatestOf(i)
      BY <2>1, <2>2, <2>3 DEF Members
    <3> QED
      BY <2>1, <2>2, <3>1
  <2>4. CASE i \notin actions[d]
    <3>1. member[d][i] = NoCall
      BY <2>1 DEF RecordsInv, Early
    <3>2. NoCall \notin LatestOf(i)
      BY NoCallAssumption DEF LatestOf
    <3>3. \A c \in Calls : c # d => /\ pc'[c] = pc[c] /\ actions'[c] = actions[c]
                                    /\ member'[c] = member[c]
      BY <1>5, <2>2 DEF Requery, Return
    <3> QED
      BY <2>1, <2>4, <3>1, <3>2, <3>3, StillServed
  <2> QED
    BY <2>3, <2>4
<1>6. CASE UNCHANGED <<pc, kind, taskVars, actions, created, latest, member>>
  BY <1>6 DEF ServedInv, LatestOf
<1> QED
  BY <1>1, <1>2, <1>3, <1>4, <1>5, <1>6, NextCases
-----------------------------------------------------------------------------
\* IInv holds in every reachable state.
THEOREM Inductive == Spec => []IInv
<1>1. Init => IInv
  <2> SUFFICES ASSUME Init PROVE IInv
    OBVIOUS
  <2>1. CallsInv /\ RecordsInv /\ FreshInv
    BY DEF Init, CallsInv, RecordsInv, FreshInv
  <2>2. ServedInv
    BY DEF Init, ServedInv, LatestOf
  <2> QED
    BY <2>1, <2>2, TypeInit DEF IInv
<1>2. IInv /\ [Next]_vars => IInv'
  BY TypeStep, CallsStep, RecordsStep, FreshStep, ServedStep DEF IInv
<1> QED
  BY <1>1, <1>2, PTL DEF Spec

\* The tables and the calls keep their types, whatever the calls, pipelines and
\* sweeps interleave to.
THEOREM TypeCorrect == Spec => []TypeOK
<1>1. IInv => TypeOK
  BY DEF IInv
<1> QED
  BY <1>1, Inductive, PTL

\* FailureIsReported as an inductive invariant, next to CallsInv.
LEMMA ReportedStep == TypeOK /\ CallsInv /\ FailureIsReported /\ [Next]_vars => FailureIsReported'
<1> SUFFICES ASSUME TypeOK, CallsInv, FailureIsReported, [Next]_vars, NEW c \in Calls,
                    pc'[c] = "failed", kind'[c] # "retry"
             PROVE  IF kind'[c] = "auto" THEN row'[c] = "deleted" ELSE err'[c] /\ ~ready'[c]
  BY DEF FailureIsReported
<1> DEFINE Goal == IF kind'[c] = "auto" THEN row'[c] = "deleted" ELSE err'[c] /\ ~ready'[c]
<1> USE DEF TypeOK, Goto, taskVars, FailureIsReported
<1>1. ASSUME NEW d \in Calls, CreateFails(d) PROVE Goal
  BY <1>1 DEF CreateFails, CallsInv, Creating, Early
<1>2. ASSUME NEW d \in Calls, RunFails(d) PROVE Goal
  BY <1>2 DEF RunFails, CallsInv
<1>3. ASSUME NEW d \in Calls, \/ Request(d) \/ Retry(d) \/ UnsetLatest(d) \/ NothingToDo(d)
                              \/ BulkCreate(d) \/ Requery(d)
      PROVE  Goal
  BY <1>3 DEF Request, Retry, UnsetLatest, NothingToDo, BulkCreate, Requery
<1>4. ASSUME NEW d \in Calls, SetReady(d) \/ RunPipeline(d) \/ Crash(d) PROVE Goal
  BY <1>4 DEF SetReady, RunPipeline, Crash
<1>5. CASE UNCHANGED <<pc, kind, taskVars, actions, created, latest, member>>
  BY <1>5
<1> QED
  BY <1>1, <1>2, <1>3, <1>4, <1>5, NextCases

\* A failed call that the outer decorator watched is seen to have failed, however
\* the calls interleave.
THEOREM FailureReported == Spec => []FailureIsReported
<1>1. Init => FailureIsReported
  BY DEF Init, FailureIsReported
<1>2. IInv /\ FailureIsReported /\ [Next]_vars => FailureIsReported'
  BY ReportedStep DEF IInv
<1> QED
  BY <1>1, <1>2, Inductive, PTL DEF Spec

\* Once every call came to a good end, no instance is left with latest records that
\* no pipeline has, for any number of calls that interleave.
THEOREM LatestServed == Spec => []LatestIsServed
<1>1. IInv => LatestIsServed
  BY DEF IInv, ServedInv, LatestIsServed, Ended
<1> QED
  BY <1>1, Inductive, PTL
=============================================================================
