------------------------ MODULE PipelineCalm_proofs -------------------------
(***************************************************************************)
(* Proofs about PipelineProcess while no revoke is under way and no retry  *)
(* has overtaken a worker: each branch has one worker that goes through    *)
(* its activities in order, and a pipeline that stands still says why.     *)
(***************************************************************************)
EXTENDS PipelineProcess_proofs

\* No revoke is under way, and no retry has overtaken a worker.
Calm == api = "idle" /\ ~hasty

\* On the way to sleep.
Resting(b, s) == loop[b][s].pc \in {"adjust", "block", "sleep"}
NoResting(b) == \A s \in Slots : ~Resting(b, s)

\* Whatever blocks the pipeline, now or soon, has a failed node to show for it; so
\* the root is not blocked once all have arrived.
Blocking ==
    \/ pipeline = "BLOCKED"
    \/ \E b \in Branches, s \in Slots : loop[b][s].pc \in {"block", "fence"}
    \/ \E p \in polls : p.at = "failed"
BlockOK ==
    /\ Blocking => Failed
    /\ Regular /\ (root.pc = "sleep" => root.at = "gateway" /\ pipeline = "RUNNING")
    /\ Before => /\ root.pc \in {"start", "loop"}
                 /\ root.pc = "start" => pipeline = "READY"
                 /\ root.pc = "loop" => pipeline = "RUNNING"
                 /\ rootRow.alive

\* The row of a branch under way says which activity it is at, and whoever is on the
\* way to sleep leaves nobody awake.
InStep(b) ==
    LET k == row[b].k
    IN  /\ row[b].alive /\ k \in Acts(b)
        /\ \A j \in Acts(b) : (j < k => node[b][j] = "FINISHED") /\ (Sore(b, j) => j = k)
        /\ \A m \in queue : m.to = b /\ m.as = "wake_from_schedule" => m.k = k /\ node[b][k] = "FINISHED"
        /\ \A p \in polls : p.s[1] = b =>
              /\ Live(p) => p.s[2] = k /\ (p.at = "done" => node[b][k] = "FINISHED")
              /\ p.at = "failed" => node[b][k] = "FAILED"
        /\ \A s \in Slots : At(b, s, "loop") =>
              loop[b][s].k = k \/ (loop[b][s].k = k + 1 /\ node[b][k] = "FINISHED")
        /\ \A s \in Slots : Resting(b, s) =>
              /\ loop[b][s].k = k /\ Sore(b, k) /\ NoMessage(b) /\ NoActive(b)
              /\ \A t \in Slots : Resting(b, t) => t = s
              /\ \A p \in polls : p.s[1] = b /\ Live(p) => p.at = "sent"
Through(b) ==
    /\ NoResting(b) /\ \A k \in Acts(b) : node[b][k] = "FINISHED"
    /\ \A p \in polls : p.s[1] = b => p.at # "failed"
StepOK == ~Before => \A b \in Branches : (b \in arrived => Through(b)) /\ (b \notin arrived => InStep(b))

CalmOK == Calm => BlockOK /\ StepOK

-----------------------------------------------------------------------------
\* What TokensOK says of a calm state.
LEMMA CalmFacts ==
    ASSUME Typed, Rooted, TokensOK, Calm
    PROVE  /\ CountOK /\ pipeline # "REVOKED" /\ todo = {}
           /\ \A b \in Branches : /\ BranchOK(b) /\ Excl(b) /\ Focus(b)
                                  /\ Regular /\ b \in arrived => Gone(b) /\ Healthy(b)
  BY DEF Calm, TokensOK, BranchOK, Rooted, StatusOK

LEMMA CalmSteps ==
    ASSUME Typed, Rooted, [Next]_vars, Calm'
    PROVE  /\ Calm
           /\ \/ Root \/ \E b \in Branches : BranchStep(b)
              \/ UNCHANGED vars
<1>1. Root => UNCHANGED <<api, hasty>>
  BY DEF Root, Start, Fork, Sync, End, RootLoop, RootSleep, RootWakeUp, callVars
<1>2. \A b \in Branches : BranchStep(b) => UNCHANGED api
  BY BranchFrame
<1>3. ASSUME NEW b \in Branches, BranchStep(b) PROVE hasty' = FALSE => hasty = FALSE
  <2>1. CASE Take(b)
    BY <2>1 DEF Take, callVars
  <2>2. ASSUME NEW s \in Slots,
               \/ SeeRevoked(b, s) \/ Go(b, s) \/ Execute(b, s) \/ Adjust(b, s) \/ Block(b, s) \/ Sleep(b, s)
               \/ BlockParent(b, s) \/ Destroy(b, s) \/ Die(b, s) \/ Ack(b, s) \/ WakeParent(b, s)
        PROVE  UNCHANGED hasty
    BY <2>2 DEF SeeRevoked, Go, Execute, Succeed, Fail, SetSchedule, Adjust, Block, Sleep, BlockParent, Destroy,
                Die, Ack, WakeParent, callVars
  <2>3. Schedules(b) => UNCHANGED hasty
    BY SchedulesEffect DEF callVars
  <2>4. Cure(b) => UNCHANGED hasty
    BY CureEffect DEF callVars
  <2>5. Retry(b) => hasty' = (hasty \/ Unsettled(b))
    BY RetryEffect
  <2>6. hasty \in BOOLEAN
    BY TypeParts DEF Typed, SharedType
  <2>7. Retry(b) /\ hasty' = FALSE => hasty = FALSE
    BY <2>5, <2>6
  <2>8. CASE UNCHANGED hasty
    BY <2>8
  <2>9. CASE Retry(b)
    BY <2>7, <2>9
  <2> QED
    BY <1>3, <2>1, <2>2, <2>3, <2>4, <2>8, <2>9, ProcessSteps DEF BranchStep, callVars
<1>4. ~Revoke /\ ~RevokePipeline /\ ~DestroyAll
  BY DEF Revoke, RevokePipeline, DestroyAll, Calm
<1>5. ~ForcedFail
  <2>1. ForcedFail => todo # {} /\ UNCHANGED api
    BY ForcedFailEffect
  <2> QED
    BY <2>1 DEF Rooted, StatusOK, Calm
<1>6. hasty \in BOOLEAN /\ hasty' = FALSE
  BY TypeParts DEF Typed, SharedType, Calm
<1>7. UNCHANGED vars => UNCHANGED <<api, hasty>>
  BY DEF vars, callVars
<1> QED
  BY <1>1, <1>2, <1>3, <1>4, <1>5, <1>6, <1>7, Steps DEF Calm

\* A branch moves only after the root has sent it off and gone to sleep.
LEMMA BranchWhen ==
    ASSUME Typed, Rooted, NEW b \in Branches, BranchStep(b)
    PROVE  ~Before /\ ~Before' /\ ~(need # -1 /\ root.pc = "sleep")
<1>1. ~Nothing
  BY NothingHappens
<1>2. RootOK
  BY DEF Rooted
<1>3. ~Before /\ ~(need # -1 /\ root.pc = "sleep")
  BY <1>1, <1>2 DEF RootOK
<1>4. UNCHANGED <<need, arrived>> \/ arrived' # {}
  <2>1. ASSUME NEW s \in Slots, Ack(b, s) \/ WakeParent(b, s) PROVE arrived' # {}
    BY <2>1 DEF Ack, WakeParent, At, Typed, WorkersOK
  <2> QED
    BY <2>1, BranchFrame
<1> QED
  BY <1>3, <1>4 DEF Before

\* No node has failed once all branches have arrived.
LEMMA AllIn ==
    ASSUME Typed, Rooted, TokensOK, Calm, BlockOK, need = -1, ~Before
    PROVE  arrived = Branches /\ ~Failed /\ ~Blocking /\ pipeline \in {"READY", "RUNNING", "FINISHED"}
<1>1. arrived = Branches
  BY CalmFacts DEF CountOK, Before
<1>2. ~Failed
  BY <1>1, CalmFacts DEF BlockOK, Failed, Healthy, Sore
<1>3. ~Blocking
  BY <1>2 DEF BlockOK
<1> QED
  BY <1>1, <1>2, <1>3, CalmFacts, TypeParts DEF Typed, SharedType, Blocking

LEMMA BlockRoot ==
    ASSUME Typed, Rooted, TokensOK, Calm, BlockOK, Root
    PROVE  BlockOK'
<1>1. SharedType /\ root = [pc |-> root.pc, at |-> root.at]
  BY TypeParts DEF Typed, SharedType
<1>2. RootOK
  BY DEF Rooted
<1>3. UNCHANGED <<node, loop, polls, arrived>>
  BY DEF Root, Start, Fork, RootLoop, RootSleep, RootWakeUp, Sync, End, statusVars, scheduleVars
<1>4. /\ Failed' <=> Failed
      /\ pipeline' # "BLOCKED" \/ pipeline' = pipeline => (Blocking' => Blocking)
  BY <1>3 DEF Failed, Blocking
<1>5. CASE Start
  <2>1. Before /\ pipeline = "READY" /\ rootRow.alive /\ root.at = "gateway"
    BY <1>2, <1>5 DEF Start, RootOK, BlockOK
  <2>2. /\ pipeline' = "RUNNING" /\ root'.pc = "loop" /\ root'.at = "gateway" /\ rootRow'.alive
    BY <1>1, <1>5, <2>1, PipelineMoves DEF Start, PipelineTransition, rootVars
  <2>3. (Blocking' => Failed') /\ Regular'
    BY <1>4, <2>1, <2>2 DEF BlockOK, Regular
  <2> QED
    BY <2>2, <2>3 DEF BlockOK
<1>6. CASE Fork
  <2>1. Before /\ pipeline = "RUNNING"
    BY <1>2, <1>6 DEF Fork, RootLoop, RootOK, BlockOK
  <2>2. /\ UNCHANGED pipeline /\ root'.pc = "sleep" /\ root'.at = "gateway" /\ need' = Cardinality(Branches)
    BY <1>1, <1>6, <2>1 DEF Fork, RootLoop
  <2>3. ~Before'
    BY <2>2, Count DEF Before
  <2> QED
    BY <1>4, <2>1, <2>2, <2>3 DEF BlockOK, Regular
<1>7. CASE Sync \/ End
  <2>1. root.pc = "loop" /\ root.at # "gateway" /\ UNCHANGED need
    BY <1>7 DEF Sync, End, RootLoop
  <2>2. need = -1 /\ ~Before
    BY <1>2, <2>1 DEF RootOK, Before
  <2>3. pipeline \in {"READY", "RUNNING", "FINISHED"} /\ ~Blocking
    BY <2>2, AllIn
  <2>4. /\ pipeline' \in {pipeline, "FINISHED"} /\ root'.pc # "sleep" /\ root'.at = "end"
    BY <1>1, <1>7, <2>3, PipelineMoves DEF Sync, End, RootLoop
  <2>5. ~Before'
    BY <1>3, <2>1, <2>2 DEF Before
  <2> QED
    BY <1>4, <2>3, <2>4, <2>5 DEF BlockOK, Regular
<1>8. CASE RootSleep
  <2>1. root.at = "gateway" /\ ~Before
    BY <1>2, <1>8 DEF RootSleep, RootOK, BlockOK
  <2>2. UNCHANGED <<pipeline, need>> /\ root'.pc = "idle" /\ root'.at = "gateway"
    BY <1>1, <1>8, <2>1 DEF RootSleep, statusVars
  <2>3. ~Before'
    BY <1>3, <2>1, <2>2 DEF Before
  <2> QED
    BY <1>4, <2>2, <2>3 DEF BlockOK, Regular
<1>9. CASE RootWakeUp
  <2>1. UNCHANGED <<pipeline, need>> /\ (UNCHANGED root \/ (root'.pc = "loop" /\ root'.at = "converge"))
    BY <1>9 DEF RootWakeUp, statusVars
  <2>2. ~Before /\ ~Before'
    BY <1>2, <1>3, <1>9, <2>1 DEF RootWakeUp, RootOK, Before
  <2> QED
    BY <1>4, <2>1, <2>2 DEF BlockOK, Regular
<1> QED
  BY <1>5, <1>6, <1>7, <1>8, <1>9 DEF Root

\* Only a retry makes a failed node another.
LEMMA FailedStays ==
    ASSUME Typed, NEW b \in Branches, BranchStep(b), ~Retry(b), NEW c \in Branches, NEW j \in Acts(c),
           node[c][j] = "FAILED"
    PROVE  node'[c][j] = "FAILED"
<1>1. CASE UNCHANGED node
  BY <1>1
<1>2. ASSUME NEW s \in Slots, Go(b, s) PROVE node'[c][j] = "FAILED"
  <2>1. UNCHANGED node \/ (node[b][loop[b][s].k] # "FAILED" /\ NodeIs(b, loop[b][s].k, "RUNNING"))
    BY <1>2, GoEffect
  <2> QED
    BY <2>1 DEF NodeIs
<1>3. ASSUME NEW s \in Slots, Execute(b, s) PROVE node'[c][j] = "FAILED"
  <2> DEFINE k == loop[b][s].k
  <2>1. \/ UNCHANGED node
        \/ NodeIs(b, k, IF node[b][k] = "RUNNING" THEN "FINISHED" ELSE node[b][k])
        \/ NodeIs(b, k, IF node[b][k] \in {"RUNNING", "FINISHED"} THEN "FAILED" ELSE node[b][k])
    BY <1>3, ExecuteEffect
  <2> HIDE DEF k
  <2> QED
    BY <2>1 DEF NodeIs
<1>4. CASE Schedules(b)
  <2>1. PICK p \in polls :
          \/ UNCHANGED node
          \/ node[b][p.s[2]] = "RUNNING" /\ NodeIs(b, p.s[2], "FINISHED")
          \/ NodeIs(b, p.s[2], "FAILED")
    BY <1>4, SchedulesEffect
  <2> QED
    BY <2>1 DEF NodeIs
<1>5. CASE Cure(b)
  <2>1. NodeIs(b, row[b].k, "FAILED")
    BY <1>5, CureEffect, FailEffect
  <2> QED
    BY <2>1 DEF NodeIs
<1>6. Take(b) => UNCHANGED node
  BY DEF Take
<1>7. ASSUME NEW s \in Slots,
             \/ SeeRevoked(b, s) \/ Adjust(b, s) \/ Block(b, s) \/ Sleep(b, s)
             \/ BlockParent(b, s) \/ Destroy(b, s) \/ Die(b, s) \/ Ack(b, s) \/ WakeParent(b, s)
      PROVE  UNCHANGED node
  BY <1>7 DEF SeeRevoked, Adjust, Block, Sleep, BlockParent, Destroy, Die, Ack, WakeParent, statusVars
<1> QED
  BY <1>1, <1>2, <1>3, <1>4, <1>5, <1>6, <1>7, ProcessSteps DEF BranchStep

\* A step that makes something block the pipeline that was not before finds a
\* failed node, or makes one.
LEMMA NewBlocking ==
    ASSUME Typed, NEW b \in Branches, BranchStep(b), ~Retry(b), ~Blocking, Blocking'
    PROVE  Failed'
<1>1. SharedType
  BY TypeParts DEF Typed
<1>2. Failed => Failed'
  BY FailedStays DEF Failed
<1>3. pipeline # "BLOCKED" /\ (\A c \in Branches, t \in Slots : loop[c][t].pc \notin {"block", "fence"})
      /\ \A p \in polls : p.at # "failed"
  BY DEF Blocking
<1>4. ASSUME NEW s \in Slots, NEW w, Worker(b, s, w), w.pc \notin {"block", "fence"},
             pipeline' # "BLOCKED", \A p \in polls' : p.at # "failed"
      PROVE  FALSE
  BY <1>3, <1>4 DEF Blocking, Worker
<1>5. CASE Take(b)
  <2>1. /\ pipeline' = pipeline \/ pipeline' = Pipeline("RUNNING")
        /\ UNCHANGED polls
        /\ UNCHANGED loop \/ \E s \in Slots : \E k : Worker(b, s, [pc |-> "loop", k |-> k, v |-> 0])
    <3>1. PICK m \in queue :
            /\ pipeline' = IF m.as = "process_wake_up" /\ row[b].alive THEN Pipeline("RUNNING") ELSE pipeline
            /\ UNCHANGED polls
            /\ UNCHANGED loop \/ \E s \in Slots : Worker(b, s, [pc |-> "loop", k |-> EntersAt(b, m), v |-> 0])
      BY <1>5, TakeEffect DEF scheduleVars
    <3> QED
      BY <3>1
  <2>2. pipeline' # "BLOCKED"
    BY <1>1, <1>3, <2>1, PipelineMoves
  <2>3. CASE UNCHANGED loop
    BY <1>3, <2>1, <2>2, <2>3 DEF Blocking
  <2>4. ASSUME NEW s \in Slots, NEW k, Worker(b, s, [pc |-> "loop", k |-> k, v |-> 0]) PROVE FALSE
    BY <1>3, <1>4, <2>1, <2>2, <2>4
  <2> QED
    BY <2>1, <2>3, <2>4
<1>6. ASSUME NEW s \in Slots, Go(b, s) PROVE FALSE
  <2>1. UNCHANGED <<pipeline, polls>>
    BY <1>6, GoEffect DEF scheduleVars
  <2>2. PICK pc \in {"execute", "adjust"} : \E k, v : Worker(b, s, [pc |-> pc, k |-> k, v |-> v])
    BY <1>6, GoEffect
  <2>3. PICK k, v : Worker(b, s, [pc |-> pc, k |-> k, v |-> v])
    BY <2>2
  <2> QED
    BY <1>3, <1>4, <2>1, <2>2, <2>3
<1>7. ASSUME NEW s \in Slots, Execute(b, s) PROVE FALSE
  <2>1. /\ UNCHANGED pipeline /\ \A p \in polls' : p \in polls \/ p.at = "sent"
    <3>1. /\ UNCHANGED pipeline
          /\ UNCHANGED polls \/ polls' = polls \union {[s |-> <<b, loop[b][s].k, loop[b][s].v>>, at |-> "sent"]}
      BY <1>7, ExecuteEffect
    <3> QED
      BY <3>1
  <2>2. PICK pc \in {"loop", "adjust"} : \E k, v : Worker(b, s, [pc |-> pc, k |-> k, v |-> v])
    BY <1>7, ExecuteEffect
  <2>3. PICK k, v : Worker(b, s, [pc |-> pc, k |-> k, v |-> v])
    BY <2>2
  <2> QED
    BY <1>3, <1>4, <2>1, <2>2, <2>3
<1>8. ASSUME NEW s \in Slots, SeeRevoked(b, s) \/ Die(b, s) \/ Sleep(b, s) \/ Destroy(b, s) PROVE FALSE
  <2>1. UNCHANGED <<pipeline, polls>>
    BY <1>8 DEF SeeRevoked, Die, Sleep, Destroy, statusVars, scheduleVars
  <2>2. Worker(b, s, NoWorker) /\ NoWorker.pc = "idle"
    BY <1>8, WorkerEffect DEF NoWorker
  <2> QED
    BY <1>3, <1>4, <2>1, <2>2
<1>9. ASSUME NEW s \in Slots, Adjust(b, s) PROVE Failed'
  <2>1. UNCHANGED <<pipeline, polls>> /\ loop[b][s].k \in Acts(b)
    BY <1>9, TypedWorker DEF Adjust, At, statusVars, scheduleVars
  <2>2. CASE node[b][loop[b][s].k] = "FAILED"
    BY <1>2, <2>1, <2>2 DEF Failed
  <2>3. CASE node[b][loop[b][s].k] # "FAILED"
    <3>1. Worker(b, s, [pc |-> "sleep", k |-> loop[b][s].k, v |-> loop[b][s].v])
      BY <1>9, <2>3, WorkerEffect
    <3> QED
      BY <1>3, <1>4, <2>1, <3>1
  <2> QED
    BY <2>2, <2>3
<1>10. ASSUME NEW s \in Slots, Ack(b, s) PROVE FALSE
  <2>1. UNCHANGED <<pipeline, polls>> /\ Worker(b, s, [pc |-> "wake", k |-> loop[b][s].k, v |-> loop[b][s].v])
    BY <1>10, WorkerEffect DEF Ack, statusVars, scheduleVars
  <2> QED
    BY <1>3, <1>4, <2>1
<1>11. ASSUME NEW s \in Slots, Block(b, s) \/ BlockParent(b, s) PROVE FALSE
  BY <1>3, <1>11 DEF Block, BlockParent, At
<1>12. ASSUME NEW s \in Slots, WakeParent(b, s) PROVE Failed'
  <2>1. UNCHANGED <<pipeline, polls>>
    BY <1>12 DEF WakeParent, statusVars, scheduleVars
  <2>2. CASE BlockedByFailure
    BY <1>2, <2>2 DEF BlockedByFailure, Failed
  <2>3. CASE ~BlockedByFailure
    <3>1. Worker(b, s, [pc |-> "destroy", k |-> loop[b][s].k, v |-> loop[b][s].v])
      BY <1>12, <2>3, WorkerEffect
    <3> QED
      BY <1>3, <1>4, <2>1, <3>1
  <2> QED
    BY <2>2, <2>3
<1>13. CASE Schedules(b)
  <2>1. PICK p \in polls :
          /\ p.s[2] \in Acts(b) /\ UNCHANGED loop
          /\ \/ p.at = "failed"
             \/ NodeIs(b, p.s[2], "FAILED")
             \/ UNCHANGED pipeline /\ \A q \in polls' : q \in polls \/ q.at # "failed"
    <3>1. PICK p \in polls :
            /\ p.s[2] \in Acts(b) /\ UNCHANGED loop
            /\ \/ p.at = "failed"
               \/ NodeIs(b, p.s[2], "FAILED")
               \/ UNCHANGED pipeline /\ (PollLeaves(p) \/ PollGoes(p, "polling") \/ PollGoes(p, "sent") \/ PollGoes(p, "done"))
      BY <1>13, SchedulesEffect
    <3> QED
      BY <3>1 DEF PollLeaves, PollGoes
  <2>2. NodeIs(b, p.s[2], "FAILED") => Failed'
    BY <2>1 DEF NodeIs, Failed
  <2>3. CASE UNCHANGED pipeline /\ \A q \in polls' : q \in polls \/ q.at # "failed"
    BY <1>3, <2>1, <2>3 DEF Blocking
  <2> QED
    BY <1>3, <2>1, <2>2, <2>3
<1>14. CASE Cure(b)
  <2>1. row[b].k \in Acts(b) /\ NodeIs(b, row[b].k, "FAILED")
    BY <1>14, CureEffect, FailEffect
  <2> QED
    BY <2>1 DEF NodeIs, Failed
<1> QED
  BY <1>5, <1>6, <1>7, <1>8, <1>9, <1>10, <1>11, <1>12, <1>13, <1>14, ProcessSteps DEF BranchStep

LEMMA BlockBranch ==
    ASSUME Typed, Rooted, TokensOK, Calm, Calm', BlockOK, NEW b \in Branches, BranchStep(b)
    PROVE  BlockOK'
<1>1. SharedType
  BY TypeParts DEF Typed
<1>2. ~Before /\ ~Before' /\ UNCHANGED <<root, rootRow>>
  BY BranchWhen, BranchFrame
<1>3. root.pc # "sleep"
  <2>1. root.pc = "sleep" => need # -1
    BY <1>2 DEF BlockOK, Rooted, RootOK, Before
  <2> QED
    BY <2>1, BranchWhen
<1>4. CASE Retry(b)
  <2>1. UNCHANGED <<loop, polls>> /\ ~Unsettled(b) /\ pipeline' = Pipeline("READY")
    <3>1. hasty' = (hasty \/ Unsettled(b)) /\ ~hasty'
      BY <1>4, RetryEffect DEF Calm
    <3> QED
      BY <1>4, <3>1, RetryEffect DEF scheduleVars
  <2>2. pipeline' # "BLOCKED"
    BY <1>1, <2>1, PipelineMoves
  <2>3. ~Blocking'
    BY <2>1, <2>2 DEF Blocking, Unsettled
  <2> QED
    BY <1>2, <1>3, <2>3 DEF BlockOK, Regular
<1>5. CASE ~Retry(b)
  <2>1. Failed => Failed'
    BY <1>5, FailedStays DEF Failed
  <2>2. Blocking' => Failed'
    BY <1>5, <2>1, NewBlocking DEF BlockOK
  <2> QED
    BY <1>2, <1>3, <2>2 DEF BlockOK, Regular
<1> QED
  BY <1>4, <1>5

-----------------------------------------------------------------------------
\* A step that leaves a branch alone, but for less to do, leaves it in step.
LEMMA StepElsewhere ==
    ASSUME Typed, NEW c \in Branches, Same(c), row'[c].alive = row[c].alive, row'[c].k = row[c].k
    PROVE  /\ InStep(c) => InStep(c)'
           /\ Through(c) => Through(c)'
<1>1. \A p \in polls' : p.s[1] = c => p \in polls /\ (Live(p)' <=> Live(p))
  BY TypedPoll DEF Same, Live
<1>2. \A s \in Slots : (Resting(c, s)' <=> Resting(c, s)) /\ \A pc : At(c, s, pc)' <=> At(c, s, pc)
  BY DEF Same, Resting, At
<1>3. (NoMessage(c) => NoMessage(c)') /\ (NoActive(c) => NoActive(c)')
  BY DEF Same, NoMessage, NoActive, Active
<1>4. \A j \in Acts(c) : Sore(c, j)' <=> Sore(c, j)
  BY DEF Same, Sore
<1>5. ASSUME InStep(c) PROVE InStep(c)'
  <2> DEFINE k == row[c].k
  <2>1. row'[c].alive /\ row'[c].k = k /\ k \in Acts(c)
    BY <1>5 DEF InStep
  <2>2. \A j \in Acts(c) : (j < k => node'[c][j] = "FINISHED") /\ (Sore(c, j)' => j = k)
    BY <1>4, <1>5 DEF InStep, Same
  <2>3. \A m \in queue' : m.to = c /\ m.as = "wake_from_schedule" => m.k = k /\ node'[c][k] = "FINISHED"
    BY <1>5 DEF InStep, Same
  <2>4. \A p \in polls' : p.s[1] = c =>
          /\ Live(p)' => p.s[2] = k /\ (p.at = "done" => node'[c][k] = "FINISHED")
          /\ p.at = "failed" => node'[c][k] = "FAILED"
    BY <1>1, <1>5 DEF InStep, Same
  <2>5. \A s \in Slots : At(c, s, "loop")' =>
          loop'[c][s].k = k \/ (loop'[c][s].k = k + 1 /\ node'[c][k] = "FINISHED")
    BY <1>2, <1>5 DEF InStep, Same
  <2>6. ASSUME NEW s \in Slots, Resting(c, s)'
        PROVE  /\ loop'[c][s].k = k /\ Sore(c, k)' /\ NoMessage(c)' /\ NoActive(c)'
               /\ \A t \in Slots : Resting(c, t)' => t = s
               /\ \A p \in polls' : p.s[1] = c /\ Live(p)' => p.at = "sent"
    BY <1>1, <1>2, <1>3, <1>4, <1>5, <2>6 DEF InStep, Same
  <2> QED
    BY <2>1, <2>2, <2>3, <2>4, <2>5, <2>6 DEF InStep
<1>6. ASSUME Through(c) PROVE Through(c)'
  BY <1>1, <1>2, <1>6 DEF Through, NoResting, Same
<1> QED
  BY <1>5, <1>6

LEMMA StepRoot ==
    ASSUME Typed, Rooted, TokensOK, Calm, BlockOK, StepOK, Root
    PROVE  StepOK'
<1>1. SharedType /\ root = [pc |-> root.pc, at |-> root.at]
  BY TypeParts DEF Typed, SharedType
<1>2. RootOK
  BY DEF Rooted
<1>3. UNCHANGED <<node, ver, loop, polls, arrived>>
  BY DEF Root, Start, Fork, RootLoop, RootSleep, RootWakeUp, Sync, End, statusVars, scheduleVars
<1>4. CASE UNCHANGED <<row, need>> /\ queue' \subseteq queue
  <2>1. Before' <=> Before
    BY <1>3, <1>4 DEF Before
  <2>2. \A c \in Branches : Same(c) /\ row'[c] = row[c]
    BY <1>3, <1>4 DEF Same
  <2> QED
    BY <1>3, <2>1, <2>2, StepElsewhere DEF StepOK
<1>5. CASE Fork
  <2>1. Before /\ pipeline = "RUNNING" /\ Nothing
    BY <1>2, <1>5 DEF Fork, RootLoop, RootOK, BlockOK
  <2>2. /\ row' = [b \in Branches |-> [alive |-> TRUE, asleep |-> FALSE, k |-> 1]]
        /\ UNCHANGED queue
    BY <1>5, <2>1 DEF Fork, RootLoop
  <2>3. ASSUME NEW b \in Branches PROVE InStep(b)'
    <3>1. row'[b].alive /\ row'[b].k = 1 /\ 1 \in Acts(b) /\ \A j \in Acts(b) : ~(j < 1)
      BY <2>2, LastNat DEF Acts
    <3>2. /\ \A j \in Acts(b) : ~Sore(b, j)'
          /\ \A s \in Slots : ~Resting(b, s)' /\ ~At(b, s, "loop")'
          /\ queue' = {} /\ polls' = {}
      BY <1>3, <2>1, <2>2 DEF Nothing, Sore, Resting, At
    <3> QED
      BY <3>1, <3>2 DEF InStep
  <2>4. arrived' = {}
    BY <1>3, <2>1 DEF Before
  <2> QED
    BY <2>3, <2>4 DEF StepOK
<1>6. CASE RootSleep
  <2>1. root.at = "gateway" /\ ~Before /\ Nothing
    BY <1>2, <1>6 DEF RootSleep, RootOK, BlockOK, Before
  <2>2. /\ UNCHANGED <<row, need>>
        /\ \A m \in queue' : m \in queue \/ m.as = "dispatch"
    BY <1>6 DEF RootSleep
  <2>3. ASSUME NEW b \in Branches PROVE InStep(b)'
    <3>1. InStep(b)
      BY <2>1 DEF StepOK, Nothing
    <3>2. /\ \A j \in Acts(b) : node'[b][j] = node[b][j] /\ (Sore(b, j)' <=> Sore(b, j))
          /\ \A s \in Slots : ~Resting(b, s)' /\ ~At(b, s, "loop")'
          /\ \A m \in queue' : m.as = "dispatch"
          /\ polls' = {} /\ row' = row
      BY <1>3, <2>1, <2>2 DEF Nothing, Sore, Resting, At
    <3> QED
      BY <3>1, <3>2 DEF InStep
  <2>4. arrived' = {}
    BY <1>3, <2>1 DEF Nothing
  <2> QED
    BY <2>3, <2>4 DEF StepOK
<1>7. ~Fork /\ ~RootSleep => UNCHANGED <<row, need, queue>>
  BY DEF Root, Start, Sync, End, RootLoop, RootWakeUp
<1> QED
  BY <1>4, <1>5, <1>6, <1>7

\* A branch that has arrived stays as it is.
LEMMA ThroughStep ==
    ASSUME Typed, NEW b \in Branches, b \in arrived, Gone(b), Through(b), BranchStep(b), pipeline # "REVOKED"
    PROVE  Through(b)'
<1>1. NoMessage(b) /\ NoActive(b) /\ NoLive(b)
  BY DEF Gone
<1>2. NoResting(b) /\ \A k \in Acts(b) : node[b][k] = "FINISHED"
  BY DEF Through
<1>3. ~Take(b)
  BY <1>1 DEF Take, NoMessage
<1>4. ASSUME NEW s \in Slots
      PROVE  /\ ~Go(b, s) /\ ~Execute(b, s) /\ ~SeeRevoked(b, s) /\ ~Ack(b, s) /\ ~Die(b, s)
             /\ ~Adjust(b, s) /\ ~Block(b, s) /\ ~Sleep(b, s)
  <2>1. loop[b][s].pc \notin {"loop", "execute", "adjust", "block", "sleep"}
    BY <1>1, <1>2 DEF NoActive, Active, NoResting, Resting
  <2> QED
    BY <2>1 DEF Go, Execute, Succeed, Fail, SetSchedule, SeeRevoked, Ack, Die, Adjust, Block, Sleep, At
<1>5. ~Cure(b) /\ ~Retry(b)
  BY <1>2, CureEffect, RetryEffect
<1>6. ASSUME NEW s \in Slots, WakeParent(b, s) \/ BlockParent(b, s) \/ Destroy(b, s) PROVE Through(b)'
  <2>1. UNCHANGED <<node, polls>>
    BY <1>6 DEF WakeParent, BlockParent, Destroy, statusVars, scheduleVars
  <2>2. PICK pc \in {"fence", "destroy", "idle"} : \E k, v : Worker(b, s, [pc |-> pc, k |-> k, v |-> v])
    BY <1>6, WorkerEffect DEF NoWorker
  <2>3. PICK k, v : Worker(b, s, [pc |-> pc, k |-> k, v |-> v])
    BY <2>2
  <2>4. NoResting(b)'
    BY <1>2, <2>2, <2>3 DEF NoResting, Resting, Worker
  <2> QED
    BY <2>1, <2>4 DEF Through
<1>7. CASE Schedules(b)
  <2>1. PICK p \in polls :
          /\ p.s[1] = b /\ p.s[2] \in Acts(b) /\ UNCHANGED loop
          /\ \/ p.at = "sent" /\ ver[b][p.s[2]] = p.s[3]
             \/ p.at = "polling" /\ ver[b][p.s[2]] = p.s[3]
             \/ p.at = "done"
             \/ p.at = "failed"
             \/ UNCHANGED node /\ (PollLeaves(p) \/ PollGoes(p, "sent"))
    BY <1>7, SchedulesEffect
  <2>2. ~Live(p) /\ p.at # "failed"
    BY <1>1, <2>1 DEF NoLive, Through
  <2>3. UNCHANGED node /\ (PollLeaves(p) \/ PollGoes(p, "sent"))
    BY <2>1, <2>2 DEF Live
  <2>4. \A q \in polls' : q.s[1] = b => q.at # "failed"
    BY <2>3 DEF PollLeaves, PollGoes, Through
  <2> QED
    BY <1>2, <2>1, <2>3, <2>4 DEF Through, NoResting, Resting
<1> QED
  BY <1>3, <1>4, <1>5, <1>6, <1>7, ProcessSteps DEF BranchStep

\* A worker that leaves run_loop, or goes on to put its process to sleep.
LEMMA StepLess ==
    ASSUME Typed, NEW b \in Branches, InStep(b), NEW s \in Slots, NEW w, Worker(b, s, w),
           w.pc \notin {"loop", "execute"},
           w.pc \in {"adjust", "block", "sleep"} => Resting(b, s) /\ w.k = loop[b][s].k,
           row'[b].alive, row'[b].k = row[b].k, UNCHANGED <<node, ver, queue, polls>>
    PROVE  InStep(b)'
<1>1. \A t \in Slots : /\ At(b, t, "loop")' => At(b, t, "loop") /\ loop'[b][t] = loop[b][t]
                       /\ Active(b, t)' => Active(b, t)
                       /\ Resting(b, t)' => Resting(b, t) /\ loop'[b][t].k = loop[b][t].k
  BY DEF Worker, At, Active, Resting
<1>2. /\ NoMessage(b)' <=> NoMessage(b)
      /\ NoActive(b) => NoActive(b)'
      /\ \A p \in polls : Live(p)' <=> Live(p)
      /\ \A j \in Acts(b) : Sore(b, j)' <=> Sore(b, j)
  BY <1>1 DEF NoMessage, NoActive, Live, Sore
<1>3. row'[b].alive /\ row'[b].k \in Acts(b)
  BY DEF InStep
<1>4. \A t \in Slots : Resting(b, t)' =>
        /\ loop'[b][t].k = row[b].k /\ Sore(b, row[b].k)' /\ NoMessage(b)' /\ NoActive(b)'
        /\ \A u \in Slots : Resting(b, u)' => u = t
        /\ \A p \in polls' : p.s[1] = b /\ Live(p)' => p.at = "sent"
  BY <1>1, <1>2 DEF InStep
<1>5. \A p \in polls' : p.s[1] = b =>
        /\ Live(p)' => p.s[2] = row[b].k /\ (p.at = "done" => node'[b][row[b].k] = "FINISHED")
        /\ p.at = "failed" => node'[b][row[b].k] = "FAILED"
  BY <1>2 DEF InStep
<1>6. /\ \A j \in Acts(b) : (j < row[b].k => node'[b][j] = "FINISHED") /\ (Sore(b, j)' => j = row[b].k)
      /\ \A m \in queue' : m.to = b /\ m.as = "wake_from_schedule" =>
            m.k = row[b].k /\ node'[b][row[b].k] = "FINISHED"
      /\ \A t \in Slots : At(b, t, "loop")' =>
            loop'[b][t].k = row[b].k \/ (loop'[b][t].k = row[b].k + 1 /\ node'[b][row[b].k] = "FINISHED")
  BY <1>1, <1>2 DEF InStep
<1> QED
  BY <1>3, <1>4, <1>5, <1>6 DEF InStep

LEMMA StepWorkers ==
    ASSUME Typed, NEW b \in Branches, InStep(b), NEW s \in Slots,
           SeeRevoked(b, s) \/ Die(b, s) \/ Adjust(b, s) \/ Block(b, s) \/ Sleep(b, s)
    PROVE  InStep(b)'
<1>1. UNCHANGED <<node, ver, queue, polls>>
  BY DEF SeeRevoked, Die, Adjust, Block, Sleep, statusVars, scheduleVars
<1>2. CASE SeeRevoked(b, s) \/ Die(b, s)
  <2>1. Worker(b, s, NoWorker) /\ NoWorker.pc = "idle"
    BY <1>2, WorkerEffect DEF NoWorker
  <2>2. UNCHANGED row /\ row[b].alive
    BY <1>2 DEF SeeRevoked, Die, InStep
  <2> QED
    BY <1>1, <2>1, <2>2, StepLess
<1>3. CASE Adjust(b, s) \/ Block(b, s)
  <2>1. PICK pc \in {"block", "sleep"} : Worker(b, s, [pc |-> pc, k |-> loop[b][s].k, v |-> loop[b][s].v])
    BY <1>3, WorkerEffect
  <2>2. UNCHANGED row /\ row[b].alive /\ Resting(b, s)
    BY <1>3 DEF Adjust, Block, InStep, At, Resting
  <2> QED
    BY <1>1, <2>1, <2>2, StepLess
<1>4. CASE Sleep(b, s)
  <2>1. Worker(b, s, NoWorker) /\ NoWorker.pc = "idle"
    BY <1>4, WorkerEffect DEF NoWorker
  <2>2. RowIs(b, [alive |-> TRUE, asleep |-> TRUE, k |-> loop[b][s].k])
    BY <1>4, WorkerEffect
  <2>3. loop[b][s].k = row[b].k
    BY <1>4 DEF InStep, Sleep, At, Resting
  <2>4. row'[b].alive /\ row'[b].k = row[b].k
    BY <2>2, <2>3 DEF RowIs
  <2> QED
    BY <1>1, <2>1, <2>4, StepLess
<1> QED
  BY <1>2, <1>3, <1>4

LEMMA StepTake ==
    ASSUME Typed, NEW b \in Branches, InStep(b), Excl(b), Take(b)
    PROVE  InStep(b)'
<1>1. PICK m \in queue, asleep \in BOOLEAN :
        /\ m.to = b /\ queue' = queue \ {m}
        /\ RowIs(b, [alive |-> row[b].alive, asleep |-> asleep, k |-> row[b].k])
        /\ UNCHANGED loop \/ \E s \in Slots : Worker(b, s, [pc |-> "loop", k |-> EntersAt(b, m), v |-> 0])
        /\ UNCHANGED <<node, ver, polls>>
  BY TakeEffect DEF scheduleVars
<1> DEFINE k == row[b].k
<1>2. NoActive(b) /\ NoLive(b) /\ ~NoMessage(b)
  BY <1>1 DEF Excl, NoMessage
<1>3. NoMessage(b)'
  BY <1>1 DEF Excl, NoMessage
<1>4. NoResting(b)
  BY <1>2 DEF InStep, NoResting
<1>5. row'[b].alive /\ row'[b].k = k /\ k \in Acts(b)
  BY <1>1 DEF RowIs, InStep
<1>6. EntersAt(b, m) = k \/ (EntersAt(b, m) = k + 1 /\ node[b][k] = "FINISHED")
  BY <1>1 DEF EntersAt, InStep
<1>7. \A t \in Slots : /\ loop'[b][t].pc = "loop" => loop'[b][t].k = EntersAt(b, m)
                       /\ loop'[b][t].pc \notin {"adjust", "block", "sleep"}
  <2>1. \A t \in Slots : loop[b][t].pc \notin {"loop", "adjust", "block", "sleep"}
    BY <1>2, <1>4 DEF NoActive, Active, NoResting, Resting
  <2>2. CASE UNCHANGED loop
    BY <2>1, <2>2
  <2>3. ASSUME NEW s \in Slots, Worker(b, s, [pc |-> "loop", k |-> EntersAt(b, m), v |-> 0])
        PROVE  \A t \in Slots : /\ loop'[b][t].pc = "loop" => loop'[b][t].k = EntersAt(b, m)
                                /\ loop'[b][t].pc \notin {"adjust", "block", "sleep"}
    BY <2>1, <2>3 DEF Worker
  <2> QED
    BY <1>1, <2>2, <2>3
<1>8. \A j \in Acts(b) : Sore(b, j)' <=> Sore(b, j)
  BY <1>1 DEF Sore
<1>9. \A p \in polls' : p.s[1] = b => ~Live(p)' /\ (p.at = "failed" => node'[b][k] = "FAILED")
  BY <1>1, <1>2 DEF NoLive, Live, InStep
<1>10. \A j \in Acts(b) : (j < k => node'[b][j] = "FINISHED") /\ (Sore(b, j)' => j = k)
  BY <1>1, <1>8 DEF InStep
<1>11. \A t \in Slots : /\ At(b, t, "loop")' =>
                             loop'[b][t].k = k \/ (loop'[b][t].k = k + 1 /\ node'[b][k] = "FINISHED")
                        /\ ~Resting(b, t)'
  BY <1>1, <1>6, <1>7 DEF At, Resting
<1> QED
  BY <1>3, <1>5, <1>9, <1>10, <1>11 DEF InStep, NoMessage

LEMMA StepGo ==
    ASSUME Typed, NEW b \in Branches, InStep(b), Excl(b), Focus(b), NEW s \in Slots, Go(b, s)
    PROVE  InStep(b)'
<1> DEFINE k == row[b].k
           l == loop[b][s].k
<1>1. At(b, s, "loop") /\ l \in Acts(b) /\ UNCHANGED <<queue, polls>>
  BY GoEffect DEF scheduleVars
<1>2. Healthy(b) /\ Active(b, s)
  BY <1>1 DEF Focus, Active, At
<1>3. NoMessage(b) /\ NoLive(b) /\ \A t \in Slots : Active(b, t) => t = s
  BY <1>2 DEF Excl, NoActive
<1>4. /\ NodeIs(b, l, "RUNNING")
      /\ VersionIs(b, l, ver[b][l]) \/ VersionIs(b, l, ver[b][l] + 1)
      /\ RowIs(b, [alive |-> row[b].alive, asleep |-> row[b].asleep, k |-> l])
      /\ Worker(b, s, [pc |-> "execute", k |-> l, v |-> ver'[b][l]])
  BY <1>1, <1>2, GoEffect DEF Healthy, Sore
<1>5. NoResting(b)
  BY <1>2 DEF InStep, NoResting, NoActive
<1>6. row[b].alive /\ k \in Acts(b) /\ (l = k \/ (l = k + 1 /\ node[b][k] = "FINISHED"))
      /\ \A j \in Acts(b) : j < k => node[b][j] = "FINISHED"
  BY <1>1 DEF InStep
<1>7. row'[b].alive /\ row'[b].k = l
  BY <1>4, <1>6 DEF RowIs
<1>8. \A j \in Acts(b) : (j < l => node'[b][j] = "FINISHED") /\ (Sore(b, j)' => j = l)
  <2>1. \A j \in Acts(b) : j < l => j < k \/ j = k
    BY <1>1, <1>6 DEF Acts
  <2>2. \A j \in Acts(b) : j < l => j # l
    BY DEF Acts
  <2> HIDE DEF k, l
  <2> QED
    BY <1>2, <1>4, <1>6, <2>1, <2>2 DEF NodeIs, Sore, Healthy
<1>9. NoMessage(b)'
  BY <1>1, <1>3 DEF NoMessage
<1>10. \A p \in polls' : p.s[1] = b => ~Live(p)' /\ p.at # "failed"
  <2>1. \A p \in polls : Live(p)' => Live(p)
    BY <1>1, <1>4, DeadStays
  <2>2. \A p \in polls : p.s[1] = b => p.at # "failed"
    BY <1>2, <1>6 DEF InStep, Healthy, Sore
  <2> QED
    BY <1>1, <1>3, <2>1, <2>2 DEF NoLive
<1>11. \A t \in Slots : ~At(b, t, "loop")' /\ ~Resting(b, t)'
  BY <1>3, <1>4, <1>5 DEF Worker, At, Active, NoResting, Resting
<1> QED
  BY <1>1, <1>7, <1>8, <1>9, <1>10, <1>11 DEF InStep, NoMessage

LEMMA StepExecute ==
    ASSUME Typed, NEW b \in Branches, InStep(b), Excl(b), Focus(b), NEW s \in Slots, Execute(b, s)
    PROVE  InStep(b)'
<1> DEFINE k == row[b].k
           v == loop[b][s].v
           id == <<b, k, v>>
<1>1. At(b, s, "execute") /\ loop[b][s].k \in Acts(b) /\ UNCHANGED <<ver, row, queue>>
  BY ExecuteEffect
<1>2. loop[b][s].k = k /\ node[b][k] = "RUNNING" /\ Active(b, s)
  BY <1>1 DEF Focus, InStep, Sore, Active, At
<1>3. NoMessage(b) /\ NoLive(b) /\ \A t \in Slots : Active(b, t) => t = s
  BY <1>2 DEF Excl, NoActive
<1>4. NoResting(b)
  BY <1>2 DEF InStep, NoResting, NoActive
<1>5. \/ NodeIs(b, k, "FINISHED") /\ Worker(b, s, [pc |-> "loop", k |-> k + 1, v |-> 0]) /\ UNCHANGED polls
      \/ NodeIs(b, k, "FAILED") /\ Worker(b, s, [pc |-> "adjust", k |-> k, v |-> v]) /\ UNCHANGED polls
      \/ /\ polls' = polls \union {[s |-> id, at |-> "sent"]}
         /\ Worker(b, s, [pc |-> "adjust", k |-> k, v |-> v])
         /\ UNCHANGED node
  BY <1>2, ExecuteEffect
<1>6. row[b].alive /\ k \in Acts(b) /\ UNCHANGED row
  BY <1>1 DEF InStep
<1>7. \A p \in polls : p.s[1] = b => ~Live(p)' /\ p.at # "failed"
  BY <1>1, <1>2, <1>3 DEF NoLive, Live, InStep
<1>8. NoMessage(b)'
  BY <1>1, <1>3 DEF NoMessage
<1>9. id[1] = b /\ id[2] = k
  OBVIOUS
<1>10. \A j \in Acts(b) : ~(j < j)
  BY DEF Acts
<1>11. \A j \in Acts(b) : (j < k => node[b][j] = "FINISHED") /\ (Sore(b, j) => j = k)
  BY DEF InStep
<1> HIDE DEF k, v, id
<1>12. CASE NodeIs(b, k, "FINISHED") /\ Worker(b, s, [pc |-> "loop", k |-> k + 1, v |-> 0]) /\ UNCHANGED polls
  <2>1. \A j \in Acts(b) : (j < k => node'[b][j] = "FINISHED") /\ ~Sore(b, j)'
    BY <1>11, <1>12 DEF NodeIs, Sore
  <2>2. \A t \in Slots : (At(b, t, "loop")' => loop'[b][t].k = k + 1) /\ ~Resting(b, t)'
    BY <1>3, <1>4, <1>12 DEF Worker, At, Active, NoResting, Resting
  <2>3. node'[b][k] = "FINISHED" /\ \A p \in polls' : p.s[1] = b => ~Live(p)' /\ p.at # "failed"
    BY <1>6, <1>7, <1>12 DEF NodeIs
  <2> QED
    BY <1>6, <1>8, <2>1, <2>2, <2>3 DEF InStep, NoMessage, k
<1>13. CASE Worker(b, s, [pc |-> "adjust", k |-> k, v |-> v]) /\ (NodeIs(b, k, "FAILED") \/ UNCHANGED node)
  <2>1. \A j \in Acts(b) : (j < k => node'[b][j] = "FINISHED") /\ (Sore(b, j)' => j = k)
    BY <1>10, <1>11, <1>13 DEF NodeIs, Sore
  <2>2. \A t \in Slots : ~At(b, t, "loop")' /\ ~Active(b, t)' /\ (Resting(b, t)' => t = s /\ loop'[b][t].k = k)
    BY <1>3, <1>4, <1>13 DEF Worker, At, Active, NoResting, Resting
  <2>3. \A p \in polls' : p.s[1] = b => p.at # "failed" /\ (Live(p)' => p.s[2] = k /\ p.at = "sent")
    BY <1>5, <1>7, <1>9
  <2>4. node'[b][k] \in {"RUNNING", "FAILED"}
    <3>1. UNCHANGED node => node'[b][k] = "RUNNING"
      BY <1>2
    <3>2. NodeIs(b, k, "FAILED") => node'[b][k] = "FAILED"
      BY <1>6 DEF NodeIs
    <3> QED
      BY <1>13, <3>1, <3>2
  <2> QED
    BY <1>6, <1>8, <2>1, <2>2, <2>3, <2>4 DEF InStep, NoMessage, NoActive, Sore, k
<1> QED
  BY <1>5, <1>12, <1>13

\* The last activity has finished when the branch acknowledges.
LEMMA StepAck ==
    ASSUME Typed, NEW b \in Branches, InStep(b), NEW s \in Slots, Ack(b, s)
    PROVE  Through(b)'
<1> DEFINE k == row[b].k
<1>1. /\ At(b, s, "loop") /\ loop[b][s].k = Converge(b) /\ UNCHANGED <<node, polls>>
      /\ Worker(b, s, [pc |-> "wake", k |-> loop[b][s].k, v |-> loop[b][s].v])
  BY WorkerEffect DEF Ack, statusVars, scheduleVars
<1>2. k \in Acts(b) /\ (loop[b][s].k = k \/ (loop[b][s].k = k + 1 /\ node[b][k] = "FINISHED"))
  BY <1>1 DEF InStep
<1>3. k = Last[b] /\ node[b][k] = "FINISHED" /\ \A j \in Acts(b) : j = k \/ j < k
  BY <1>1, <1>2, LastNat DEF Converge, Acts
<1>4. \A j \in Acts(b) : node[b][j] = "FINISHED"
  BY <1>3 DEF InStep
<1>5. NoResting(b)
  BY <1>1 DEF InStep, NoResting, NoActive, Active, At
<1>6. NoResting(b)'
  BY <1>1, <1>5 DEF NoResting, Resting, Worker
<1>7. \A p \in polls' : p.s[1] = b => p.at # "failed"
  BY <1>1, <1>2, <1>3 DEF InStep
<1> QED
  BY <1>1, <1>4, <1>6, <1>7 DEF Through

\* A poll that ends finds the branch at its activity, and the process asleep.
LEMMA StepSchedules ==
    ASSUME Typed, NEW b \in Branches, InStep(b), Excl(b), Focus(b), Schedules(b)
    PROVE  InStep(b)'
<1> DEFINE k == row[b].k
<1>1. PICK p \in polls :
        /\ p.s[1] = b /\ p.s[2] \in Acts(b)
        /\ \/ /\ p.at = "sent" /\ CountdownOver(b) /\ PollGoes(p, "polling")
              /\ ver[b][p.s[2]] = p.s[3] /\ UNCHANGED <<node, queue>>
           \/ /\ p.at = "polling" /\ PollGoes(p, "sent") /\ UNCHANGED <<node, queue>>
           \/ /\ p.at = "polling" /\ ver[b][p.s[2]] = p.s[3]
              /\ NodeIs(b, p.s[2], "FINISHED") /\ PollGoes(p, "done") /\ UNCHANGED queue
           \/ /\ p.at = "polling" /\ ver[b][p.s[2]] = p.s[3]
              /\ NodeIs(b, p.s[2], "FAILED") /\ PollGoes(p, "failed") /\ UNCHANGED queue
           \/ /\ p.at = "done" /\ PollLeaves(p) /\ UNCHANGED node
              /\ queue' = queue \union {[to |-> b, as |-> "wake_from_schedule", k |-> p.s[2]]}
           \/ PollLeaves(p) /\ UNCHANGED <<node, queue>>
        /\ UNCHANGED <<ver, row, loop>>
  BY SchedulesEffect
<1>2. row[b].alive /\ k \in Acts(b)
  BY DEF InStep
<1>3. \A q \in polls : Live(q)' <=> Live(q)
  BY <1>1 DEF Live
<1>4. \A t \in Slots : (Resting(b, t)' <=> Resting(b, t)) /\ (Active(b, t)' <=> Active(b, t))
                       /\ (At(b, t, "loop")' <=> At(b, t, "loop"))
  BY <1>1 DEF Resting, Active, At
<1>5. \A j \in Acts(b) : (j < k => node[b][j] = "FINISHED") /\ (Sore(b, j) => j = k)
  BY DEF InStep
<1>6. \A q \in polls : q.s[1] = b => (q.at = "failed" => node[b][k] = "FAILED") /\ (Live(q) => q.s[2] = k)
  BY DEF InStep
<1>7. \A j \in Acts(b) : ~(j < j)
  BY DEF Acts
<1>20. \A at \in {"sent", "polling", "done", "failed"} : LET q == [s |-> p.s, at |-> at] IN q.s = p.s /\ q.at = at
  OBVIOUS
<1> HIDE DEF k
\* a poll that goes on, of the same version
<1>8. CASE PollLeaves(p) /\ UNCHANGED <<node, queue>>
  <2>1. Same(b)
    BY <1>1, <1>8 DEF Same, PollLeaves
  <2> QED
    BY <1>1, <2>1, StepElsewhere
<1>9. CASE \/ p.at = "sent" /\ CountdownOver(b) /\ PollGoes(p, "polling") /\ ver[b][p.s[2]] = p.s[3] /\ UNCHANGED <<node, queue>>
           \/ p.at = "polling" /\ PollGoes(p, "sent") /\ UNCHANGED <<node, queue>>
  <2>1. PICK at \in {"sent", "polling"} :
          /\ polls' = (polls \ {p}) \union {[s |-> p.s, at |-> at]} /\ UNCHANGED <<node, queue>>
          /\ at = "polling" => NoResting(b)
    BY <1>9 DEF PollGoes, CountdownOver, NoResting, Resting
  <2>2. Live([s |-> p.s, at |-> at])' => Live(p)
    BY <1>1, <1>9, <2>1 DEF Live
  <2>3. \A q \in polls' : q.s[1] = b =>
          /\ Live(q)' => q.s[2] = k /\ (q.at = "done" => node'[b][k] = "FINISHED")
          /\ q.at = "failed" => node'[b][k] = "FAILED"
    BY <1>1, <1>3, <1>6, <2>1, <2>2 DEF InStep, k
  <2>4. \A t \in Slots : Resting(b, t) => \A q \in polls' : q.s[1] = b /\ Live(q)' => q.at = "sent"
    BY <1>3, <2>1 DEF InStep, NoResting
  <2>5. /\ \A j \in Acts(b) : Sore(b, j)' <=> Sore(b, j)
        /\ NoMessage(b)' <=> NoMessage(b)
        /\ NoActive(b)' <=> NoActive(b)
    BY <1>4, <2>1 DEF Sore, NoMessage, NoActive
  <2>6. \A t \in Slots : Resting(b, t)' =>
          /\ loop'[b][t].k = k /\ Sore(b, k)' /\ NoMessage(b)' /\ NoActive(b)'
          /\ \A u \in Slots : Resting(b, u)' => u = t
          /\ \A q \in polls' : q.s[1] = b /\ Live(q)' => q.at = "sent"
    BY <1>1, <1>2, <1>4, <2>4, <2>5 DEF InStep, k
  <2>7. \A m \in queue' : m.to = b /\ m.as = "wake_from_schedule" => m.k = k /\ node'[b][k] = "FINISHED"
    BY <2>1 DEF InStep, k
  <2>8. \A t \in Slots : At(b, t, "loop")' =>
          loop'[b][t].k = k \/ (loop'[b][t].k = k + 1 /\ node'[b][k] = "FINISHED")
    BY <1>1, <1>4, <2>1 DEF InStep, k
  <2>9. \A j \in Acts(b) : (j < k => node'[b][j] = "FINISHED") /\ (Sore(b, j)' => j = k)
    BY <1>5, <2>1, <2>5
  <2> QED
    BY <1>1, <1>2, <2>3, <2>6, <2>7, <2>8, <2>9 DEF InStep, k
\* a poll that ends
<1>10. ASSUME Live(p), p.at # "sent"
       PROVE  /\ p.s[2] = k /\ NoMessage(b) /\ NoActive(b) /\ NoResting(b)
              /\ \A q \in polls : q.s[1] = b /\ Live(q) => q = p
              /\ p.at # "done" => node[b][k] = "RUNNING"
              /\ p.at = "done" => Healthy(b)
              /\ \A t \in Slots : ~At(b, t, "loop")' /\ ~Resting(b, t)'
  <2>1. NoMessage(b) /\ NoActive(b) /\ \A q \in polls : q.s[1] = b /\ Live(q) => q = p
    BY <1>1, <1>10 DEF Excl, NoLive
  <2>2. NoResting(b)
    BY <1>1, <1>10 DEF InStep, NoResting
  <2>3. \A t \in Slots : ~At(b, t, "loop")' /\ ~Resting(b, t)'
    BY <1>4, <2>1, <2>2 DEF NoActive, Active, At, NoResting
  <2>4. /\ p.at # "done" => node[b][k] = "RUNNING"
        /\ p.at = "done" => Healthy(b)
    BY <1>1, <1>6, <1>10 DEF Focus
  <2> QED
    BY <1>1, <1>6, <1>10, <2>1, <2>2, <2>3, <2>4
<1>11. CASE \E at \in {"done", "failed"} :
              /\ p.at = "polling" /\ ver[b][p.s[2]] = p.s[3] /\ PollGoes(p, at) /\ UNCHANGED queue
              /\ NodeIs(b, p.s[2], IF at = "done" THEN "FINISHED" ELSE "FAILED")
  <2>1. PICK at \in {"done", "failed"} :
          /\ p.at = "polling" /\ ver[b][p.s[2]] = p.s[3] /\ PollGoes(p, at) /\ UNCHANGED queue
          /\ NodeIs(b, p.s[2], IF at = "done" THEN "FINISHED" ELSE "FAILED")
    BY <1>11
  <2>2. Live(p)
    BY <1>1, <2>1 DEF Live
  <2>3. p.s[2] = k /\ NoMessage(b) /\ node[b][k] = "RUNNING"
        /\ (\A q \in polls : q.s[1] = b /\ Live(q) => q = p) /\ \A t \in Slots : ~At(b, t, "loop")' /\ ~Resting(b, t)'
    BY <1>10, <2>1, <2>2
  <2>4. NoMessage(b)' /\ node'[b][k] = IF at = "done" THEN "FINISHED" ELSE "FAILED"
    BY <1>2, <2>1, <2>3 DEF NoMessage, NodeIs
  <2>5. \A q \in polls' : (q \in polls /\ q # p) \/ q = [s |-> p.s, at |-> at]
    BY <2>1 DEF PollGoes
  <2>6. \A q \in polls' : q.s[1] = b =>
          /\ Live(q)' => q.s[2] = k /\ (q.at = "done" => node'[b][k] = "FINISHED")
          /\ q.at = "failed" => node'[b][k] = "FAILED"
    <3>1. \A q \in polls : q.s[1] = b => q.at # "failed"
      BY <1>6, <2>3
    <3>2. \A q \in polls : q.s[1] = b /\ q # p => ~Live(q)'
      BY <1>3, <2>3
    <3> QED
      BY <2>3, <2>4, <2>5, <3>1, <3>2
  <2>7. \A j \in Acts(b) : (j < k => node'[b][j] = "FINISHED") /\ (Sore(b, j)' => j = k)
    BY <1>5, <1>7, <2>1, <2>3 DEF NodeIs, Sore
  <2> QED
    BY <1>1, <1>2, <2>3, <2>4, <2>6, <2>7 DEF InStep, k, NoMessage
<1>12. CASE /\ p.at = "done" /\ PollLeaves(p) /\ UNCHANGED node
            /\ queue' = queue \union {[to |-> b, as |-> "wake_from_schedule", k |-> p.s[2]]}
  <2>1. Live(p)
    BY <1>12 DEF Live
  <2>2. p.s[2] = k /\ NoMessage(b) /\ Healthy(b)
        /\ (\A q \in polls : q.s[1] = b /\ Live(q) => q = p) /\ \A t \in Slots : ~At(b, t, "loop")' /\ ~Resting(b, t)'
    BY <1>10, <1>12, <2>1
  <2>3. node[b][k] = "FINISHED"
    BY <1>1, <1>12, <2>1 DEF InStep, k
  <2>4. \A q \in polls' : q.s[1] = b => ~Live(q)' /\ q.at # "failed"
    BY <1>3, <1>6, <1>12, <2>2, <2>3 DEF PollLeaves
  <2>5. \A m \in queue' : m.to = b => m.k = k
    BY <1>12, <2>2 DEF NoMessage
  <2>6. \A j \in Acts(b) : (j < k => node'[b][j] = "FINISHED") /\ (Sore(b, j)' => j = k)
    BY <1>5, <1>12 DEF Sore
  <2> QED
    BY <1>1, <1>2, <1>12, <2>2, <2>3, <2>4, <2>5, <2>6 DEF InStep, k
<1>13. CASE /\ p.at = "polling" /\ ver[b][p.s[2]] = p.s[3]
            /\ NodeIs(b, p.s[2], "FINISHED") /\ PollGoes(p, "done") /\ UNCHANGED queue
  BY <1>11, <1>13
<1>14. CASE /\ p.at = "polling" /\ ver[b][p.s[2]] = p.s[3]
            /\ NodeIs(b, p.s[2], "FAILED") /\ PollGoes(p, "failed") /\ UNCHANGED queue
  BY <1>11, <1>14
<1> QED
  BY <1>1, <1>8, <1>9, <1>12, <1>13, <1>14

\* The doctor and a retry find no worker under way, and a retry that overtakes none
\* finds none on the way to sleep.
LEMMA StepCure ==
    ASSUME Typed, NEW b \in Branches, InStep(b), Focus(b), Cure(b)
    PROVE  InStep(b)'
<1> DEFINE k == row[b].k
<1>1. /\ row[b].alive /\ k \in Acts(b) /\ node[b][k] = "RUNNING" /\ UNCHANGED <<loop, polls>>
      /\ NodeIs(b, k, "FAILED") /\ VersionIs(b, k, ver[b][k] + 1)
      /\ RowIs(b, [alive |-> TRUE, asleep |-> TRUE, k |-> k]) /\ queue' = {m \in queue : m.to # b}
  BY CureEffect, FailEffect DEF scheduleVars
<1>2. row'[b].alive /\ row'[b].k = k
  BY <1>1 DEF RowIs
<1>3. /\ \A j \in Acts(b) : (j < k => node[b][j] = "FINISHED") /\ (Sore(b, j) => j = k)
      /\ \A p \in polls : p.s[1] = b /\ Live(p) => p.s[2] = k /\ (p.at = "done" => node[b][k] = "FINISHED")
      /\ \A s \in Slots : Resting(b, s) => loop[b][s].k = k /\ NoActive(b) /\ \A t \in Slots : Resting(b, t) => t = s
  BY DEF InStep
<1>4. \A j \in Acts(b) : ~(j < j)
  BY DEF Acts
<1>5. \A t \in Slots : ~At(b, t, "loop")
  BY <1>1 DEF Focus, Healthy, Sore
<1>6. \A p \in polls' : p.s[1] = b => ~Live(p)'
  BY <1>1, <1>3, DeadStays
<1> HIDE DEF k
<1>7. node'[b][k] = "FAILED" /\ \A j \in Acts(b) : (j < k => node'[b][j] = "FINISHED") /\ (Sore(b, j)' => j = k)
  BY <1>1, <1>3, <1>4 DEF NodeIs, Sore
<1>8. \A t \in Slots : ~At(b, t, "loop")' /\ (Resting(b, t)' <=> Resting(b, t))
  BY <1>1, <1>5 DEF At, Resting
<1>9. NoMessage(b)' /\ (NoActive(b)' <=> NoActive(b))
  BY <1>1 DEF NoMessage, NoActive, Active
<1>10. \A t \in Slots : Resting(b, t)' =>
        loop'[b][t].k = k /\ NoActive(b)' /\ \A u \in Slots : Resting(b, u)' => u = t
  BY <1>1, <1>3, <1>8, <1>9
<1> QED
  BY <1>1, <1>2, <1>6, <1>7, <1>8, <1>9, <1>10 DEF InStep, NoMessage, Sore, k

LEMMA StepRetry ==
    ASSUME Typed, NEW b \in Branches, InStep(b), Focus(b), Retry(b), ~Unsettled(b)
    PROVE  InStep(b)'
<1> DEFINE k == row[b].k
<1>1. /\ k \in Acts(b) /\ node[b][k] = "FAILED" /\ UNCHANGED <<row, loop, polls>>
      /\ NodeIs(b, k, "READY") /\ VersionIs(b, k, ver[b][k] + 1)
      /\ queue' = queue \union {[to |-> b, as |-> "process_wake_up", k |-> NoNode]}
  BY RetryEffect DEF scheduleVars
<1>2. row'[b].alive /\ row'[b].k = k
  BY <1>1 DEF InStep
<1>3. /\ \A j \in Acts(b) : (j < k => node[b][j] = "FINISHED") /\ (Sore(b, j) => j = k)
      /\ \A p \in polls : p.s[1] = b /\ Live(p) => p.s[2] = k /\ (p.at = "done" => node[b][k] = "FINISHED")
      /\ \A m \in queue : m.to = b => m.as # "wake_from_schedule"
  BY <1>1 DEF InStep
<1>4. \A j \in Acts(b) : ~(j < j)
  BY DEF Acts
<1>5. \A t \in Slots : ~At(b, t, "loop")' /\ ~Resting(b, t)'
  BY <1>1 DEF Focus, Healthy, Sore, Unsettled, At, Resting
<1>6. \A p \in polls' : p.s[1] = b => ~Live(p)' /\ p.at # "failed"
  BY <1>1, <1>3, DeadStays DEF Unsettled
<1> HIDE DEF k
<1>7. \A j \in Acts(b) : (j < k => node'[b][j] = "FINISHED") /\ ~Sore(b, j)'
  BY <1>1, <1>3, <1>4 DEF NodeIs, Sore
<1>8. \A m \in queue' : m.to = b => m.as # "wake_from_schedule"
  BY <1>1, <1>3
<1> QED
  BY <1>1, <1>2, <1>5, <1>6, <1>7, <1>8 DEF InStep, k

LEMMA StepBranch ==
    ASSUME Typed, Rooted, TokensOK, Calm, Calm', BlockOK, StepOK, NEW b \in Branches, BranchStep(b)
    PROVE  StepOK'
<1>1. ~Before /\ ~Before'
  BY BranchWhen
<1>2. /\ Excl(b) /\ Focus(b) /\ (b \in arrived => Gone(b)) /\ pipeline # "REVOKED"
      /\ b \in arrived => Through(b)
      /\ b \notin arrived => InStep(b)
  BY <1>1, CalmFacts DEF BlockOK, StepOK
<1>3. ASSUME NEW c \in Branches, c # b
      PROVE  (c \in arrived' => Through(c)') /\ (c \notin arrived' => InStep(c)')
  <2>1. Same(c) /\ row'[c] = row[c] /\ (c \in arrived' => c \in arrived)
    BY <1>3, SameElsewhere
  <2>2. c \in arrived => c \in arrived'
    <3>1. ASSUME NEW s \in Slots, Ack(b, s) \/ WakeParent(b, s) PROVE arrived \subseteq arrived'
      BY <3>1 DEF Ack, WakeParent
    <3> QED
      BY <3>1, BranchFrame
  <2> QED
    BY <1>1, <2>1, <2>2, StepElsewhere DEF StepOK
<1>4. CASE b \in arrived
  <2>1. Through(b)'
    BY <1>2, <1>4, ThroughStep
  <2>2. b \in arrived'
    <3>1. ASSUME NEW s \in Slots, Ack(b, s) \/ WakeParent(b, s) PROVE arrived \subseteq arrived'
      BY <3>1 DEF Ack, WakeParent
    <3> QED
      BY <1>4, <3>1, BranchFrame
  <2> QED
    BY <1>3, <2>1, <2>2 DEF StepOK
<1>5. CASE b \notin arrived
  <2>1. InStep(b)
    BY <1>2, <1>5
  <2>2. ASSUME NEW s \in Slots PROVE ~WakeParent(b, s) /\ ~BlockParent(b, s) /\ ~Destroy(b, s)
    BY <1>5 DEF Typed, WorkersOK, WakeParent, BlockParent, Destroy, At
  <2>3. ASSUME NEW s \in Slots, Ack(b, s) PROVE Through(b)' /\ b \in arrived'
    BY <2>1, <2>3, StepAck DEF Ack
  <2>4. Retry(b) => ~Unsettled(b)
    BY RetryEffect DEF Calm
  <2>5. (\E s \in Slots : Ack(b, s)) \/ InStep(b)'
    BY <1>2, <2>1, <2>2, <2>4, StepTake, StepGo, StepExecute, StepWorkers, StepSchedules, StepCure, StepRetry,
       ProcessSteps DEF BranchStep
  <2>6. CASE \E s \in Slots : Ack(b, s)
    BY <1>3, <2>3, <2>6 DEF StepOK
  <2>7. CASE ~\E s \in Slots : Ack(b, s)
    <3>1. UNCHANGED arrived
      <4>1. UNCHANGED arrived
        BY <2>2, <2>7, BranchFrame
      <4> QED
        BY <4>1
    <3> QED
      BY <1>3, <1>5, <2>5, <2>7, <3>1 DEF StepOK
  <2> QED
    BY <2>6, <2>7
<1> QED
  BY <1>4, <1>5

LEMMA CalmInit == Init => CalmOK
<1> SUFFICES ASSUME Init PROVE CalmOK
  OBVIOUS
<1>1. /\ Before /\ root.pc = "start" /\ root.at = "gateway" /\ pipeline = "READY" /\ rootRow.alive /\ polls = {}
      /\ \A b \in Branches, s \in Slots : loop[b][s].pc = "idle"
  BY DEF Init, Before, NoWorker
<1> QED
  BY <1>1 DEF CalmOK, BlockOK, StepOK, Blocking, Regular

LEMMA CalmStep == Typed /\ Rooted /\ TokensOK /\ CalmOK /\ [Next]_vars => CalmOK'
<1> SUFFICES ASSUME Typed, Rooted, TokensOK, CalmOK, [Next]_vars, Calm' PROVE BlockOK' /\ StepOK'
  BY DEF CalmOK
<1>1. Calm /\ BlockOK /\ StepOK
  BY CalmSteps DEF CalmOK
<1>2. CASE UNCHANGED vars
  <2>1. UNCHANGED <<pipeline, node, ver, row, need, rootRow, root, loop, queue, polls, arrived>>
    BY <1>2 DEF vars, statusVars, rootVars, scheduleVars
  <2>2. BlockOK'
    BY <1>1, <2>1 DEF BlockOK, Blocking, Failed, Regular, Before
  <2>3. \A c \in Branches : Same(c) /\ row'[c] = row[c]
    BY <2>1 DEF Same
  <2>4. StepOK'
    BY <1>1, <2>1, <2>3, StepElsewhere DEF StepOK, Before
  <2> QED
    BY <2>2, <2>4
<1>3. CASE Root
  BY <1>1, <1>3, BlockRoot, StepRoot
<1>4. ASSUME NEW b \in Branches, BranchStep(b) PROVE BlockOK' /\ StepOK'
  BY <1>1, <1>4, BlockBranch, StepBranch
<1> QED
  BY <1>2, <1>3, <1>4, CalmSteps

LEMMA CalmAlways == Spec => []CalmOK
  BY TypedAlways, RootedAlways, TokensAlways, CalmInit, CalmStep, PTL DEF Spec
-----------------------------------------------------------------------------
\* A node starts when a worker in run_loop comes to it.
LEMMA OnlyGoStarts ==
    ASSUME Typed, Next, NEW b \in Branches, NEW k \in Acts(b), node'[b][k] = "RUNNING", node[b][k] # "RUNNING"
    PROVE  \E s \in Slots : Go(b, s) /\ loop[b][s].k = k
<1>1. ~ UNCHANGED node
  OBVIOUS
<1>2. PICK c \in Branches : BranchStep(c)
  <2>1. ~Root /\ ~Revoke /\ ~RevokePipeline /\ ~DestroyAll
    BY <1>1 DEF Root, Start, Fork, Sync, End, RootLoop, RootSleep, RootWakeUp, Revoke, RevokePipeline, DestroyAll,
                statusVars
  <2>2. ~ForcedFail
    <3>1. ASSUME ForcedFail PROVE FALSE
      <4>1. PICK c \in Branches : \E j \in Acts(c) : FailNode(c, j) \/ UNCHANGED node
        BY <3>1, ForcedFailEffect DEF statusVars
      <4>2. PICK j \in Acts(c) : FailNode(c, j)
        BY <1>1, <4>1
      <4>3. NodeIs(c, j, "FAILED")
        BY <4>2, FailEffect
      <4> QED
        BY <4>3 DEF NodeIs
    <3> QED
      BY <3>1
  <2> QED
    BY <1>1, <2>1, <2>2, Steps DEF vars, statusVars
<1>3. ASSUME NEW j, NEW x, NodeIs(c, j, x) PROVE c = b /\ k = j /\ x = "RUNNING"
  BY <1>3 DEF NodeIs
<1>4. \/ \E s \in Slots : Go(c, s)
      \/ (\E s \in Slots : Execute(c, s)) \/ Schedules(c) \/ Cure(c) \/ Retry(c)
  <2>1. ASSUME NEW s \in Slots,
               \/ SeeRevoked(c, s) \/ Adjust(c, s) \/ Block(c, s) \/ Sleep(c, s)
               \/ BlockParent(c, s) \/ Destroy(c, s) \/ Die(c, s) \/ Ack(c, s) \/ WakeParent(c, s)
        PROVE  UNCHANGED node
    BY <2>1 DEF SeeRevoked, Adjust, Block, Sleep, BlockParent, Destroy, Die, Ack, WakeParent, statusVars
  <2>2. Take(c) => UNCHANGED node
    BY DEF Take
  <2> QED
    BY <1>1, <1>2, <2>1, <2>2, ProcessSteps DEF BranchStep
<1>5. ASSUME NEW s \in Slots, Execute(c, s) PROVE FALSE
  <2> DEFINE l == loop[c][s].k
  <2>1. \/ NodeIs(c, l, IF node[c][l] = "RUNNING" THEN "FINISHED" ELSE node[c][l])
        \/ NodeIs(c, l, IF node[c][l] \in {"RUNNING", "FINISHED"} THEN "FAILED" ELSE node[c][l])
    BY <1>1, <1>5, ExecuteEffect
  <2> HIDE DEF l
  <2> QED
    BY <2>1 DEF NodeIs
<1>6. ~Schedules(c)
  <2>1. ASSUME Schedules(c) PROVE FALSE
    <3>1. PICK p \in polls : NodeIs(c, p.s[2], "FINISHED") \/ NodeIs(c, p.s[2], "FAILED") \/ UNCHANGED node
      BY <2>1, SchedulesEffect
    <3> QED
      BY <1>1, <1>3, <3>1
  <2> QED
    BY <2>1
<1>7. ~Cure(c) /\ ~Retry(c)
  <2>1. Cure(c) => NodeIs(c, row[c].k, "FAILED")
    BY CureEffect, FailEffect
  <2>2. Retry(c) => NodeIs(c, row[c].k, "READY")
    BY RetryEffect
  <2> QED
    BY <1>3, <2>1, <2>2
<1>8. PICK s \in Slots : Go(c, s)
  BY <1>4, <1>5, <1>6, <1>7
<1>9. NodeIs(c, loop[c][s].k, "RUNNING")
  BY <1>1, <1>8, GoEffect
<1> QED
  BY <1>3, <1>8, <1>9

\* However retries, polls and the doctor interleave, no two workers advance one
\* branch, while no revoke is under way and no retry has overtaken a worker.
THEOREM NoTwinsEver == Spec => []NoTwins
<1>1. ASSUME Typed, Rooted, TokensOK, CalmOK, Calm, NEW b \in Branches,
             \A s \in Slots : loop[b][s].pc \in Advancing
      PROVE  FALSE
  <2>1. \A s \in Slots : Active(b, s) \/ Leaving(b, s)
    BY <1>1 DEF Advancing, Active, Leaving
  <2>2. \A s \in Slots : Leaving(b, s) => b \in arrived
    BY <1>1 DEF Typed, WorkersOK, Leaving
  <2>3. Excl(b) /\ (b \in arrived => Gone(b))
    BY <1>1, CalmFacts DEF CalmOK, BlockOK
  <2>4. 1 \in Slots /\ 2 \in Slots /\ 1 # 2
    BY DEF Slots
  <2> QED
    BY <2>1, <2>2, <2>3, <2>4 DEF Excl, Gone, NoActive
<1>2. Typed /\ Rooted /\ TokensOK /\ CalmOK => NoTwins
  BY <1>1 DEF NoTwins, Calm
<1> QED
  BY <1>2, TypedAlways, RootedAlways, TokensAlways, CalmAlways, PTL

\* No activity starts before the one it follows has finished, with the same exceptions.
THEOREM InOrderEver == Spec => InOrder
<1> DEFINE Ordered == \A b \in Branches : \A k \in Acts(b) \ {1} :
             node'[b][k] = "RUNNING" /\ node[b][k] # "RUNNING" =>
                 node[b][k - 1] = "FINISHED" \/ api # "idle" \/ hasty
<1>1. ASSUME Typed, Rooted, TokensOK, CalmOK, Next PROVE Ordered
  <2> SUFFICES ASSUME NEW b \in Branches, NEW k \in Acts(b) \ {1}, node'[b][k] = "RUNNING", node[b][k] # "RUNNING", Calm
               PROVE  node[b][k - 1] = "FINISHED"
    <3>1. hasty \in BOOLEAN
      BY <1>1, TypeParts DEF Typed, SharedType
    <3> QED
      BY <3>1 DEF Calm
  <2>1. PICK s \in Slots : Go(b, s) /\ loop[b][s].k = k
    BY <1>1, OnlyGoStarts
  <2>2. InStep(b)
    <3>1. BranchStep(b) /\ StepOK /\ At(b, s, "loop")
      BY <1>1, <2>1 DEF CalmOK, BranchStep, Process, Go
    <3>2. b \in arrived => Gone(b)
      BY <1>1, CalmFacts DEF CalmOK, BlockOK
    <3>3. b \notin arrived
      BY <3>1, <3>2 DEF Gone, NoActive, Active, At
    <3> QED
      BY <1>1, <3>1, <3>3, BranchWhen DEF StepOK
  <2>3. At(b, s, "loop")
    BY <2>1 DEF Go
  <2>4. k - 1 \in Acts(b) /\ k - 1 < k /\ row[b].k \in Nat
    BY <2>2, LastNat DEF InStep, Acts
  <2>5. CASE k = row[b].k
    BY <2>2, <2>4, <2>5 DEF InStep
  <2>6. CASE k = row[b].k + 1 /\ node[b][row[b].k] = "FINISHED"
    <3>1. k - 1 = row[b].k
      BY <2>4, <2>6
    <3> QED
      BY <2>6, <3>1
  <2>7. loop[b][s].k = row[b].k \/ (loop[b][s].k = row[b].k + 1 /\ node[b][row[b].k] = "FINISHED")
    BY <2>2, <2>3 DEF InStep
  <2> QED
    BY <2>1, <2>5, <2>6, <2>7
<1>2. Typed /\ Rooted /\ TokensOK /\ CalmOK /\ [Next]_vars => [Ordered]_vars
  BY <1>1
<1> HIDE DEF Ordered
<1>3. Spec => [][Ordered]_vars
  BY <1>2, TypedAlways, RootedAlways, TokensAlways, CalmAlways, PTL DEF Spec
<1> QED
  BY <1>3 DEF InOrder, Ordered
-----------------------------------------------------------------------------
(***************************************************************************)
(* A pipeline that stands still says why.                                  *)
(***************************************************************************)
\* Something of the branch is on its way, or was when its worker died.
Busy(b) ==
    \/ ~NoMessage(b) \/ ~NoActive(b) \/ ~NoLive(b) \/ ~NoResting(b)
    \/ \E s \in Slots : Leaving(b, s)
    \/ \E p \in polls : p.s[1] = b /\ p.at = "failed"
    \/ \E k \in Acts(b) : node[b][k] = "RUNNING"
\* It waits for a retry.
Asleep(b) == row[b].asleep /\ node[b][row[b].k] = "FAILED"

\* A branch under way is busy or asleep; a process sleeps while its activity is
\* polled, and with a failed one only when the pipeline is blocked.
WatchBranch(b) ==
    /\ Busy(b) \/ Asleep(b)
    /\ \A p \in polls : p.s[1] = b /\ (p.at = "failed" \/ (Live(p) /\ NoResting(b))) => row[b].asleep
    /\ \A s \in Slots : At(b, s, "sleep") /\ node[b][row[b].k] = "FAILED" => pipeline = "BLOCKED"

\* The root sleeps until its branches have arrived, is woken once, and whoever
\* leaves the pipeline READY or a failure unblocked is still about.
RootAsleep == need # -1 => rootRow.asleep
RootAlive == rootRow.alive \/ pipeline = "FINISHED"
WakeDue == need # -1 /\ arrived = Branches => \E b \in Branches, s \in Slots : At(b, s, "wake")
WokenUp == need = -1 /\ calls = 0 => root.pc = "loop" \/ pipeline = "FINISHED"
ReadyFor == pipeline = "READY" => \E m \in queue : m.as = "process_wake_up"
FailureSeen == Failed /\ pipeline # "BLOCKED" => \E b \in Branches : Busy(b)

WatchRoot == RootAsleep /\ RootAlive /\ WakeDue /\ WokenUp /\ ReadyFor /\ FailureSeen

Watched == WatchRoot /\ \A b \in Branches \ arrived : WatchBranch(b)
WatchOK == Calm /\ ~Before /\ root.pc # "sleep" => Watched

\* A step of branch b takes nothing away from another.
LEMMA NothingTaken ==
    ASSUME Typed, NEW b \in Branches, BranchStep(b), NEW c \in Branches, c # b
    PROVE  /\ \A m \in queue : m.to = c => m \in queue'
           /\ \A p \in polls : p.s[1] = c => p \in polls'
<1>1. CASE Take(b)
  <2>1. PICK m \in queue : m.to = b /\ queue' = queue \ {m} /\ UNCHANGED polls
    BY <1>1, TakeEffect DEF scheduleVars
  <2> QED
    BY <2>1
<1>2. ASSUME NEW s \in Slots, Go(b, s) PROVE UNCHANGED <<queue, polls>>
  BY <1>2, GoEffect DEF scheduleVars
<1>3. ASSUME NEW s \in Slots, Execute(b, s)
      PROVE  UNCHANGED queue /\ \A p \in polls : p \in polls'
  <2>1. UNCHANGED queue
        /\ (UNCHANGED polls \/ polls' = polls \union {[s |-> <<b, loop[b][s].k, loop[b][s].v>>, at |-> "sent"]})
    BY <1>3, ExecuteEffect
  <2> QED
    BY <2>1
<1>4. ASSUME NEW s \in Slots,
             \/ SeeRevoked(b, s) \/ Adjust(b, s) \/ Block(b, s) \/ Sleep(b, s)
             \/ Ack(b, s) \/ WakeParent(b, s) \/ BlockParent(b, s) \/ Destroy(b, s) \/ Die(b, s)
      PROVE  UNCHANGED <<queue, polls>>
  BY <1>4 DEF SeeRevoked, Adjust, Block, Sleep, Ack, WakeParent, BlockParent, Destroy, Die, statusVars, scheduleVars
<1>5. CASE Schedules(b)
  <2>1. PICK p \in polls :
          /\ p.s[1] = b
          /\ PollLeaves(p) \/ \E at \in PollAt : PollGoes(p, at)
          /\ UNCHANGED queue \/ queue' = queue \union {[to |-> b, as |-> "wake_from_schedule", k |-> p.s[2]]}
    BY <1>5, SchedulesEffect, ZenonT(60) DEF PollAt
  <2>2. \A q \in polls : q.s[1] = c => q \in polls'
    BY <2>1 DEF PollLeaves, PollGoes
  <2> QED
    BY <2>1, <2>2
<1>6. CASE Cure(b)
  <2>1. UNCHANGED polls /\ queue' = {m \in queue : m.to # b}
    BY <1>6, CureEffect DEF FailNode, scheduleVars
  <2> QED
    BY <2>1
<1>7. CASE Retry(b)
  <2>1. UNCHANGED polls /\ queue' = queue \union {[to |-> b, as |-> "process_wake_up", k |-> NoNode]}
    BY <1>7, RetryEffect DEF scheduleVars
  <2> QED
    BY <2>1
<1> QED
  BY <1>1, <1>2, <1>3, <1>4, <1>5, <1>6, <1>7, ProcessSteps DEF BranchStep

LEMMA WatchElsewhere ==
    ASSUME Typed, NEW b \in Branches, BranchStep(b), NEW c \in Branches, c # b
    PROVE  /\ Busy(c)' <=> Busy(c)
           /\ /\ WatchBranch(c) /\ InStep(c)
              /\ pipeline = "BLOCKED" => pipeline' = "BLOCKED" \/ \A s \in Slots : ~At(c, s, "sleep")
              => WatchBranch(c)'
<1>1. /\ \A s \in Slots : loop'[c][s] = loop[c][s]
      /\ \A k \in Acts(c) : node'[c][k] = node[c][k] /\ ver'[c][k] = ver[c][k]
      /\ \A m : m.to = c => (m \in queue' <=> m \in queue)
      /\ \A p : p.s[1] = c => (p \in polls' <=> p \in polls)
      /\ row'[c] = row[c]
  BY SameElsewhere, NothingTaken DEF Same
<1>2. \A p \in polls : p.s[1] = c => (Live(p)' <=> Live(p))
  BY <1>1, TypedPoll DEF Live
<1>3. /\ NoMessage(c)' <=> NoMessage(c)
      /\ NoActive(c)' <=> NoActive(c)
      /\ NoLive(c)' <=> NoLive(c)
      /\ NoResting(c)' <=> NoResting(c)
      /\ \A s \in Slots : Leaving(c, s)' <=> Leaving(c, s)
  BY <1>1, <1>2 DEF NoMessage, NoActive, Active, NoLive, NoResting, Resting, Leaving
<1>4. Busy(c)' <=> Busy(c)
  BY <1>1, <1>3 DEF Busy
<1>5. ASSUME WatchBranch(c), InStep(c),
             pipeline = "BLOCKED" => pipeline' = "BLOCKED" \/ \A s \in Slots : ~At(c, s, "sleep")
      PROVE  WatchBranch(c)'
  <2>1. node'[c][row'[c].k] = node[c][row[c].k]
    BY <1>1, <1>5 DEF InStep
  <2>2. Asleep(c)' <=> Asleep(c)
    BY <1>1, <2>1 DEF Asleep
  <2>3. \A s \in Slots : At(c, s, "sleep")' <=> At(c, s, "sleep")
    BY <1>1 DEF At
  <2> QED
    BY <1>1, <1>2, <1>3, <1>4, <1>5, <2>1, <2>2, <2>3 DEF WatchBranch
<1> QED
  BY <1>4, <1>5

\* A pipeline whose branches are under way is not finished.
LEMMA NotOver ==
    ASSUME Typed, Rooted, TokensOK, Calm, NEW b \in Branches, b \notin arrived
    PROVE  /\ pipeline \in {"READY", "RUNNING", "BLOCKED"} /\ Pipeline("BLOCKED") = "BLOCKED"
           /\ ~Before => need # -1
<1>1. SharedType
  BY TypeParts DEF Typed
<1>2. ~Before => need # -1
  BY CalmFacts DEF Before, CountOK
<1>3. pipeline = "FINISHED" => need = -1 /\ arrived # {}
  BY DEF Rooted, StatusOK, RootOK, Calm
<1>4. pipeline # "FINISHED" /\ pipeline # "REVOKED"
  BY <1>3, CalmFacts DEF CountOK
<1> QED
  BY <1>1, <1>2, <1>4, PipelineMoves DEF SharedType

\* What a branch under way does: it stays busy, blocks the pipeline, or changes
\* nothing of that.
Quiet(b) == UNCHANGED <<pipeline, node>> /\ (Busy(b) => Busy(b)')
Outcome(b) == WatchBranch(b)' /\ (Busy(b)' \/ pipeline' = "BLOCKED" \/ Quiet(b))

\* A worker in run_loop finds nobody else about.
LEMMA AloneInLoop ==
    ASSUME Typed, NEW b \in Branches, InStep(b), Excl(b), Focus(b), NEW s \in Slots, Active(b, s)
    PROVE  /\ NoMessage(b) /\ NoLive(b) /\ NoResting(b) /\ \A t \in Slots : Active(b, t) => t = s
           /\ \A p \in polls : p.s[1] = b => p.at # "failed"
           /\ At(b, s, "execute") => loop[b][s].k = row[b].k /\ node[b][row[b].k] = "RUNNING"
<1>1. NoMessage(b) /\ NoLive(b) /\ \A t \in Slots : Active(b, t) => t = s
  BY DEF Excl, NoActive
<1>2. NoResting(b)
  BY DEF InStep, NoResting, NoActive
<1>3. At(b, s, "execute") => loop[b][s].k = row[b].k /\ node[b][row[b].k] = "RUNNING"
  BY TypedWorker DEF Focus, InStep, Sore, At
<1>4. At(b, s, "loop") => node[b][row[b].k] # "FAILED"
  BY DEF Focus, InStep, Healthy, Sore
<1>5. At(b, s, "loop") \/ At(b, s, "execute")
  BY DEF Active, At
<1> QED
  BY <1>1, <1>2, <1>3, <1>4, <1>5 DEF InStep

LEMMA OutcomeTake ==
    ASSUME Typed, NEW b \in Branches, InStep(b), Excl(b), Focus(b), Take(b),
           pipeline \in {"READY", "RUNNING", "BLOCKED"}
    PROVE  Outcome(b)
<1>1. PICK m \in queue :
        /\ m.to = b /\ UNCHANGED <<node, ver, polls>>
        /\ pipeline' = IF m.as = "process_wake_up" /\ row[b].alive THEN Pipeline("RUNNING") ELSE pipeline
        /\ \/ ~(row[b].alive /\ (m.as = "process_wake_up" => pipeline' \in {"RUNNING", "BLOCKED"}))
           \/ \E s \in Slots : Worker(b, s, [pc |-> "loop", k |-> EntersAt(b, m), v |-> 0])
  BY TakeEffect DEF scheduleVars
<1>2. row[b].alive /\ row[b].k \in Acts(b)
  BY DEF InStep
<1>3. SharedType
  BY TypeParts DEF Typed
<1>4. m.as = "process_wake_up" => pipeline' \in {"RUNNING", "BLOCKED"}
  BY <1>1, <1>2, <1>3, PipelineMoves
<1>5. PICK s \in Slots : Worker(b, s, [pc |-> "loop", k |-> EntersAt(b, m), v |-> 0])
  BY <1>1, <1>2, <1>4
<1>6. ~NoActive(b)'
  BY <1>5 DEF NoActive, Active, Worker
<1>7. NoActive(b) /\ NoLive(b) /\ ~NoMessage(b) /\ Healthy(b)
  BY <1>1 DEF Excl, NoMessage, Focus
<1>8. NoResting(b)
  BY <1>7 DEF InStep, NoResting
<1>9. \A t \in Slots : ~At(b, t, "sleep")'
  BY <1>5, <1>8 DEF NoResting, Resting, At, Worker
<1>10. \A p \in polls' : p.s[1] = b => p.at # "failed" /\ ~Live(p)'
  BY <1>1, <1>2, <1>7 DEF InStep, Healthy, Sore, NoLive, Live
<1>11. Busy(b)'
  BY <1>6 DEF Busy
<1> QED
  BY <1>9, <1>10, <1>11 DEF Outcome, WatchBranch

LEMMA OutcomeGo ==
    ASSUME Typed, NEW b \in Branches, InStep(b), Excl(b), Focus(b), NEW s \in Slots, Go(b, s)
    PROVE  Outcome(b)
<1> DEFINE l == loop[b][s].k
<1>1. At(b, s, "loop") /\ l \in Acts(b) /\ UNCHANGED polls
  BY GoEffect DEF scheduleVars
<1>2. Healthy(b) /\ Active(b, s)
  BY <1>1 DEF Focus, Active, At
<1>3. NoLive(b) /\ NoResting(b) /\ \A p \in polls : p.s[1] = b => p.at # "failed"
  BY <1>2, AloneInLoop
<1>4. /\ VersionIs(b, l, ver[b][l]) \/ VersionIs(b, l, ver[b][l] + 1)
      /\ Worker(b, s, [pc |-> "execute", k |-> l, v |-> ver'[b][l]])
  BY <1>1, <1>2, GoEffect DEF Healthy, Sore
<1>5. \A p \in polls : Live(p)' => Live(p)
  BY <1>1, <1>4, DeadStays
<1>6. \A p \in polls' : p.s[1] = b => p.at # "failed" /\ ~Live(p)'
  BY <1>1, <1>3, <1>5 DEF NoLive
<1>7. Busy(b)' /\ \A t \in Slots : ~At(b, t, "sleep")'
  BY <1>3, <1>4 DEF Busy, NoActive, Active, NoResting, Resting, At, Worker
<1> QED
  BY <1>6, <1>7 DEF Outcome, WatchBranch

LEMMA OutcomeExecute ==
    ASSUME Typed, NEW b \in Branches, InStep(b), Excl(b), Focus(b), NEW s \in Slots, Execute(b, s) \/ Die(b, s)
    PROVE  Outcome(b)
<1> DEFINE k == loop[b][s].k
           v == loop[b][s].v
           id == <<b, k, v>>
<1>1. At(b, s, "execute") /\ Active(b, s) /\ UNCHANGED ver
  BY ExecuteEffect DEF Die, Active, At, statusVars
<1>2. /\ NoLive(b) /\ NoResting(b) /\ \A p \in polls : p.s[1] = b => p.at # "failed"
      /\ k \in Acts(b) /\ node[b][k] = "RUNNING"
  BY <1>1, AloneInLoop DEF InStep
<1>3. \A p \in polls : p.s[1] = b => p.at # "failed" /\ ~Live(p)'
  BY <1>1, <1>2 DEF NoLive, Live
<1>4. CASE Die(b, s)
  <2>1. Worker(b, s, NoWorker) /\ NoWorker.pc = "idle" /\ UNCHANGED <<node, polls>>
    BY <1>4, WorkerEffect DEF NoWorker, Die, statusVars, scheduleVars
  <2>2. Busy(b)'
    BY <1>2, <2>1 DEF Busy
  <2>3. \A t \in Slots : ~At(b, t, "sleep")'
    BY <1>2, <2>1 DEF NoResting, Resting, At, Worker
  <2> QED
    BY <1>3, <2>1, <2>2, <2>3 DEF Outcome, WatchBranch
<1>5. CASE Execute(b, s)
  <2>1. /\ \/ /\ Worker(b, s, [pc |-> "loop", k |-> k + 1, v |-> 0])
              /\ UNCHANGED polls
           \/ /\ Worker(b, s, [pc |-> "adjust", k |-> k, v |-> v])
              /\ UNCHANGED polls \/ polls' = polls \union {[s |-> id, at |-> "sent"]}
    BY <1>5, ExecuteEffect
  <2>2. PICK pc \in {"loop", "adjust"} : \E j, u : Worker(b, s, [pc |-> pc, k |-> j, v |-> u])
    BY <2>1
  <2>3. PICK j, u : Worker(b, s, [pc |-> pc, k |-> j, v |-> u])
    BY <2>2
  <2>4. Busy(b)' /\ (pc = "adjust" => ~NoResting(b)') /\ \A t \in Slots : ~At(b, t, "sleep")'
    BY <1>2, <2>2, <2>3 DEF Busy, NoActive, Active, NoResting, Resting, At, Worker
  <2>5. pc = "loop" => UNCHANGED polls
    BY <2>1, <2>3 DEF Worker
  <2>6. \A p \in polls' : p.s[1] = b => p.at # "failed" /\ (Live(p)' => pc = "adjust")
    <3>1. CASE UNCHANGED polls
      BY <1>3, <3>1
    <3>2. CASE pc = "adjust" /\ polls' = polls \union {[s |-> id, at |-> "sent"]}
      BY <1>3, <3>2
    <3> QED
      BY <2>1, <2>2, <2>5, <3>1, <3>2
  <2> QED
    BY <2>4, <2>6 DEF Outcome, WatchBranch
<1> QED
  BY <1>4, <1>5

LEMMA OutcomeRest ==
    ASSUME Typed, NEW b \in Branches, InStep(b), WatchBranch(b), NEW s \in Slots, Pipeline("BLOCKED") = "BLOCKED",
           Adjust(b, s) \/ Block(b, s) \/ Sleep(b, s)
    PROVE  Outcome(b)
<1> DEFINE k == row[b].k
<1>1. UNCHANGED <<node, ver, queue, polls>> /\ Resting(b, s)
  BY DEF Adjust, Block, Sleep, At, Resting, statusVars, scheduleVars
<1>2. loop[b][s].k = k /\ k \in Acts(b) /\ Sore(b, k) /\ \A t \in Slots : Resting(b, t) => t = s
  BY <1>1 DEF InStep
<1>3. \A p \in polls : Live(p)' <=> Live(p)
  BY <1>1 DEF Live
<1>4. CASE Adjust(b, s) \/ Block(b, s)
  <2>1. PICK pc \in {"block", "sleep"} :
          /\ Worker(b, s, [pc |-> pc, k |-> k, v |-> loop[b][s].v])
          /\ pc = "sleep" /\ node[b][k] = "FAILED" => pipeline' = "BLOCKED"
    <3>1. CASE Adjust(b, s)
      BY <1>2, <3>1, WorkerEffect
    <3>2. CASE Block(b, s)
      <4>1. pipeline' = "BLOCKED"
        BY <3>2 DEF Block
      <4> QED
        BY <1>2, <3>2, <4>1, WorkerEffect
    <3> QED
      BY <1>4, <3>1, <3>2
  <2>2. UNCHANGED row
    BY <1>4 DEF Adjust, Block
  <2>3. ~NoResting(b)' /\ \A t \in Slots : At(b, t, "sleep")' => t = s /\ pc = "sleep"
    BY <1>2, <2>1 DEF NoResting, Resting, At, Worker
  <2>4. \A p \in polls' : p.s[1] = b /\ (p.at = "failed" \/ (Live(p) /\ NoResting(b))') => row'[b].asleep
    BY <1>1, <2>2, <2>3 DEF WatchBranch
  <2>5. \A t \in Slots : At(b, t, "sleep")' /\ node'[b][row'[b].k] = "FAILED" => pipeline' = "BLOCKED"
    BY <1>1, <2>1, <2>2, <2>3
  <2> QED
    BY <2>3, <2>4, <2>5 DEF Outcome, WatchBranch, Busy
<1>5. CASE Sleep(b, s)
  <2>1. /\ Worker(b, s, NoWorker) /\ NoWorker.pc = "idle" /\ UNCHANGED pipeline
        /\ RowIs(b, [alive |-> TRUE, asleep |-> TRUE, k |-> k])
    BY <1>2, <1>5, WorkerEffect DEF NoWorker, Sleep, statusVars
  <2>2. row'[b].asleep /\ row'[b].k = k
    BY <2>1 DEF RowIs
  <2>3. \A t \in Slots : ~At(b, t, "sleep")'
    BY <1>2, <2>1 DEF Resting, At, Worker
  <2>4. node[b][k] = "FAILED" => pipeline = "BLOCKED"
    BY <1>5 DEF WatchBranch, Sleep
  <2>5. node[b][k] = "RUNNING" => Busy(b)'
    BY <1>1, <1>2 DEF Busy
  <2>6. node[b][k] = "FAILED" => Asleep(b)'
    BY <1>1, <2>2 DEF Asleep
  <2>7. node[b][k] \in {"RUNNING", "FAILED"}
    BY <1>2 DEF Sore
  <2> QED
    BY <2>1, <2>2, <2>3, <2>4, <2>5, <2>6, <2>7 DEF Outcome, WatchBranch
<1> QED
  BY <1>4, <1>5

\* A poll that gives up was of an older version, or leaves its node RUNNING.
LEMMA OutcomeSchedules ==
    ASSUME Typed, NEW b \in Branches, InStep(b), Excl(b), Focus(b), WatchBranch(b), Schedules(b),
           Pipeline("BLOCKED") = "BLOCKED"
    PROVE  Outcome(b)
<1>1. PICK p \in polls :
        /\ p.s[1] = b /\ p.s[2] \in Acts(b)
        /\ \/ \E at \in {"sent", "polling", "done", "failed"} :
                 /\ PollGoes(p, at) /\ (at \in {"sent", "polling"} => UNCHANGED <<pipeline, node, queue>>)
                 /\ at = "done" => ver[b][p.s[2]] = p.s[3]
                 /\ at = "polling" => ver[b][p.s[2]] = p.s[3] /\ CountdownOver(b)
                 /\ at = "failed" => ver[b][p.s[2]] = p.s[3]
                 /\ p.at = IF at = "polling" THEN "sent" ELSE "polling"
           \/ p.at = "sent" /\ PollLeaves(p) /\ UNCHANGED <<pipeline, node, queue>>
           \/ /\ p.at = "polling" /\ PollLeaves(p) /\ UNCHANGED <<pipeline, node, queue>>
              /\ ~(ver[b][p.s[2]] = p.s[3] /\ node[b][p.s[2]] = "RUNNING")
           \/ /\ p.at = "done" /\ PollLeaves(p) /\ UNCHANGED <<pipeline, node>>
              /\ queue' = IF row[b].alive
                          THEN queue \union {[to |-> b, as |-> "wake_from_schedule", k |-> p.s[2]]}
                          ELSE queue
           \/ /\ p.at = "failed" /\ PollLeaves(p) /\ UNCHANGED <<node, queue>>
              /\ pipeline' = IF row[b].alive /\ row[b].k \in Acts(b) /\ node[b][row[b].k] = "FAILED"
                             THEN Pipeline("BLOCKED") ELSE pipeline
        /\ UNCHANGED <<ver, row, loop>>
  <2>1. PICK p \in polls :
        /\ p.s[1] = b /\ p.s[2] \in Acts(b)
        /\ \/ /\ p.at = "sent" /\ CountdownOver(b) /\ PollGoes(p, "polling")
              /\ ver[b][p.s[2]] = p.s[3] /\ UNCHANGED <<pipeline, node, queue>>
           \/ p.at = "sent" /\ PollLeaves(p) /\ UNCHANGED <<pipeline, node, queue>>
           \/ p.at = "polling" /\ PollGoes(p, "sent") /\ UNCHANGED <<pipeline, node, queue>>
           \/ p.at = "polling" /\ ver[b][p.s[2]] = p.s[3] /\ PollGoes(p, "done")
           \/ p.at = "polling" /\ ver[b][p.s[2]] = p.s[3] /\ PollGoes(p, "failed")
           \/ /\ p.at = "polling" /\ PollLeaves(p) /\ UNCHANGED <<pipeline, node, queue>>
              /\ ~(ver[b][p.s[2]] = p.s[3] /\ node[b][p.s[2]] = "RUNNING")
           \/ /\ p.at = "done" /\ PollLeaves(p) /\ UNCHANGED <<pipeline, node>>
              /\ queue' = IF row[b].alive
                          THEN queue \union {[to |-> b, as |-> "wake_from_schedule", k |-> p.s[2]]}
                          ELSE queue
           \/ /\ p.at = "failed" /\ PollLeaves(p) /\ UNCHANGED <<node, queue>>
              /\ pipeline' = IF row[b].alive /\ row[b].k \in Acts(b) /\ node[b][row[b].k] = "FAILED"
                             THEN Pipeline("BLOCKED") ELSE pipeline
        /\ UNCHANGED <<ver, row, loop>>
    BY SchedulesEffect
  <2> QED
    BY <2>1
<1> DEFINE k == row[b].k
<1>2. row[b].alive /\ k \in Acts(b)
  BY DEF InStep
<1>3. \A q \in polls : Live(q)' <=> Live(q)
  BY <1>1 DEF Live
<1>4. /\ NoResting(b)' <=> NoResting(b)
      /\ NoActive(b)' <=> NoActive(b)
      /\ \A t \in Slots : (Leaving(b, t)' <=> Leaving(b, t)) /\ (At(b, t, "sleep")' <=> At(b, t, "sleep"))
  BY <1>1 DEF NoResting, Resting, NoActive, Active, Leaving, At
<1>5. /\ Live(p) => p.s[2] = k /\ (p.at # "done" => node[b][k] = "RUNNING")
      /\ p.at = "failed" => node[b][k] = "FAILED"
      /\ Live(p) /\ p.at # "sent" => NoResting(b)
  BY <1>1 DEF InStep, Focus, NoResting
<1>6. \A q \in polls : q.s[1] = b /\ (q.at = "failed" \/ (Live(q) /\ NoResting(b))) => row[b].asleep
  BY DEF WatchBranch
<1>7. ASSUME UNCHANGED <<pipeline, node>> \/ ~\E t \in Slots : At(b, t, "sleep")
      PROVE  \A t \in Slots : At(b, t, "sleep")' /\ node'[b][row'[b].k] = "FAILED" => pipeline' = "BLOCKED"
  BY <1>1, <1>4, <1>7 DEF WatchBranch
\* a poll that goes on
<1>8. ASSUME NEW at \in {"sent", "polling", "done", "failed"}, PollGoes(p, at),
             at \in {"sent", "polling"} => UNCHANGED <<pipeline, node, queue>>,
             at \in {"done", "failed", "polling"} => ver[b][p.s[2]] = p.s[3],
             at = "polling" => CountdownOver(b),
             p.at = IF at = "polling" THEN "sent" ELSE "polling"
      PROVE  Outcome(b)
  <2> DEFINE new == [s |-> p.s, at |-> at]
  <2>1. new \in polls' /\ new.s = p.s /\ new.at = at /\ \A q \in polls' : (q \in polls /\ q # p) \/ q = new
    BY <1>8 DEF PollGoes
  <2> HIDE DEF new
  <2>2. at # "sent" => Live(p)
    BY <1>1, <1>8 DEF Live
  <2>3. at = "sent" => (Live(new)' <=> Live(p))
    BY <1>1, <1>8, <2>1 DEF Live
  <2>4. at \in {"polling", "done"} => Live(new)'
    BY <1>1, <1>8, <2>1 DEF Live
  <2>5. \A q \in polls' : q.s[1] = b /\ (q.at = "failed" \/ (Live(q) /\ NoResting(b))') => row'[b].asleep
    <3>1. at = "failed" \/ (Live(new) /\ NoResting(b))' => row[b].asleep
      BY <1>1, <1>4, <1>5, <1>6, <1>8, <2>2, <2>3
    <3> QED
      BY <1>1, <1>3, <1>4, <1>6, <2>1, <3>1
  <2>6. at # "sent" => Busy(b)'
    <3>1. at = "failed" => \E q \in polls' : q.s[1] = b /\ q.at = "failed"
      BY <1>1, <2>1
    <3>2. at # "failed" /\ at # "sent" => ~NoLive(b)'
      BY <1>1, <1>8, <2>1, <2>4 DEF NoLive
    <3> QED
      BY <3>1, <3>2 DEF Busy
  <2>7. at = "sent" => UNCHANGED <<pipeline, node>> /\ (Busy(b) => Busy(b)')
    <3> SUFFICES ASSUME at = "sent" PROVE UNCHANGED <<pipeline, node>> /\ (Busy(b) => Busy(b)')
      OBVIOUS
    <3>1. UNCHANGED <<pipeline, node, queue>>
      BY <1>8
    <3>2. NoLive(b)' => NoLive(b)
      <4>1. \A q \in polls : q = p \/ q \in polls'
        BY <1>8 DEF PollGoes
      <4> QED
        BY <1>1, <1>3, <2>1, <2>3, <4>1 DEF NoLive
    <3>3. (\E q \in polls : q.s[1] = b /\ q.at = "failed") => (\E q \in polls' : q.s[1] = b /\ q.at = "failed")
      BY <1>8, <2>1 DEF PollGoes
    <3>4. NoMessage(b)' <=> NoMessage(b)
      BY <3>1 DEF NoMessage
    <3> QED
      BY <1>4, <3>1, <3>2, <3>3, <3>4 DEF Busy
  <2>8. at = "sent" => Asleep(b)' = Asleep(b)
    BY <1>1, <1>8 DEF Asleep
  <2>9. at \in {"done", "failed"} => ~\E t \in Slots : At(b, t, "sleep")
    <3>1. at \in {"done", "failed"} => NoResting(b)
      BY <1>5, <1>8, <2>2
    <3> QED
      BY <3>1 DEF NoResting, Resting, At
  <2>10. \A t \in Slots : At(b, t, "sleep")' /\ node'[b][row'[b].k] = "FAILED" => pipeline' = "BLOCKED"
    BY <1>7, <1>8, <2>9
  <2>11. Busy(b)' \/ Asleep(b)'
    BY <2>6, <2>7, <2>8 DEF WatchBranch
  <2>12. WatchBranch(b)'
    BY <2>5, <2>10, <2>11 DEF WatchBranch
  <2>13. Busy(b)' \/ Quiet(b)
    BY <2>6, <2>7 DEF Quiet
  <2> QED
    BY <2>12, <2>13 DEF Outcome
\* a poll that is gone
<1>9. ASSUME PollLeaves(p)
      PROVE  /\ \A q \in polls' : q.s[1] = b /\ (q.at = "failed" \/ (Live(q) /\ NoResting(b))') => row'[b].asleep
             /\ ~Live(p) /\ p.at # "failed" /\ UNCHANGED <<node, queue>> => (Busy(b) <=> Busy(b)')
  <2>1. \A q \in polls' : q.s[1] = b /\ (q.at = "failed" \/ (Live(q) /\ NoResting(b))') => row'[b].asleep
    BY <1>1, <1>3, <1>4, <1>6, <1>9 DEF PollLeaves
  <2>2. ASSUME ~Live(p), p.at # "failed", UNCHANGED <<node, queue>> PROVE Busy(b) <=> Busy(b)'
    <3>1. NoLive(b)' <=> NoLive(b)
      BY <1>3, <1>9, <2>2 DEF NoLive, PollLeaves
    <3>2. (\E q \in polls' : q.s[1] = b /\ q.at = "failed") <=> (\E q \in polls : q.s[1] = b /\ q.at = "failed")
      BY <1>9, <2>2 DEF PollLeaves
    <3>3. NoMessage(b)' <=> NoMessage(b)
      BY <2>2 DEF NoMessage
    <3> QED
      BY <1>4, <2>2, <3>1, <3>2, <3>3 DEF Busy
  <2> QED
    BY <2>1, <2>2
<1>10. CASE p.at \in {"sent", "polling"} /\ PollLeaves(p) /\ UNCHANGED <<pipeline, node, queue>>
  <2>1. Live(p) => Busy(b)'
    BY <1>2, <1>5, <1>10 DEF Busy
  <2>2. ~Live(p) => (Busy(b) <=> Busy(b)')
    BY <1>9, <1>10
  <2>3. Asleep(b)' = Asleep(b)
    BY <1>1, <1>10 DEF Asleep
  <2>4. Busy(b)' \/ Asleep(b)'
    BY <2>1, <2>2, <2>3 DEF WatchBranch
  <2>5. WatchBranch(b)'
    BY <1>7, <1>9, <1>10, <2>4 DEF WatchBranch
  <2> QED
    BY <1>10, <2>1, <2>2, <2>5 DEF Outcome, Quiet
<1>11. CASE /\ p.at = "done" /\ PollLeaves(p) /\ UNCHANGED <<pipeline, node>>
            /\ queue' = IF row[b].alive
                        THEN queue \union {[to |-> b, as |-> "wake_from_schedule", k |-> p.s[2]]}
                        ELSE queue
  <2>1. ~NoMessage(b)'
    <3>1. PICK m : m = [to |-> b, as |-> "wake_from_schedule", k |-> p.s[2]]
      OBVIOUS
    <3>2. m \in queue' /\ m.to = b
      BY <1>2, <1>11, <3>1
    <3> QED
      BY <3>2 DEF NoMessage
  <2> QED
    BY <1>7, <1>9, <1>11, <2>1 DEF Outcome, WatchBranch, Busy
<1>12. CASE /\ p.at = "failed" /\ PollLeaves(p) /\ UNCHANGED <<node, queue>>
            /\ pipeline' = IF row[b].alive /\ row[b].k \in Acts(b) /\ node[b][row[b].k] = "FAILED"
                           THEN Pipeline("BLOCKED") ELSE pipeline
  <2>1. pipeline' = "BLOCKED" /\ node[b][k] = "FAILED"
    BY <1>2, <1>5, <1>12
  <2>2. Asleep(b)'
    BY <1>1, <1>6, <1>12, <2>1 DEF Asleep
  <2> QED
    BY <1>9, <1>12, <2>1, <2>2 DEF Outcome, WatchBranch
<1>13. CASE \E at \in {"sent", "polling", "done", "failed"} :
              /\ PollGoes(p, at) /\ (at \in {"sent", "polling"} => UNCHANGED <<pipeline, node, queue>>)
              /\ at = "done" => ver[b][p.s[2]] = p.s[3]
              /\ at = "polling" => ver[b][p.s[2]] = p.s[3] /\ CountdownOver(b)
              /\ at = "failed" => ver[b][p.s[2]] = p.s[3]
              /\ p.at = IF at = "polling" THEN "sent" ELSE "polling"
  <2>1. PICK at \in {"sent", "polling", "done", "failed"} :
              /\ PollGoes(p, at) /\ (at \in {"sent", "polling"} => UNCHANGED <<pipeline, node, queue>>)
              /\ at = "done" => ver[b][p.s[2]] = p.s[3]
              /\ at = "polling" => ver[b][p.s[2]] = p.s[3] /\ CountdownOver(b)
              /\ at = "failed" => ver[b][p.s[2]] = p.s[3]
              /\ p.at = IF at = "polling" THEN "sent" ELSE "polling"
    BY <1>13
  <2> QED
    BY <1>8, <2>1
<1> QED
  BY <1>1, <1>10, <1>11, <1>12, <1>13

LEMMA OutcomeCure ==
    ASSUME Typed, NEW b \in Branches, InStep(b), Cure(b), Pipeline("BLOCKED") = "BLOCKED"
    PROVE  Outcome(b) /\ pipeline' = "BLOCKED"
<1>1. /\ row[b].k \in Acts(b) /\ pipeline' = Pipeline("BLOCKED")
      /\ NodeIs(b, row[b].k, "FAILED") /\ RowIs(b, [alive |-> TRUE, asleep |-> TRUE, k |-> row[b].k])
  BY CureEffect, FailEffect
<1>2. pipeline' = "BLOCKED" /\ row'[b].asleep /\ node'[b][row'[b].k] = "FAILED"
  BY <1>1 DEF NodeIs, RowIs
<1> QED
  BY <1>2 DEF Outcome, WatchBranch, Asleep

LEMMA OutcomeRetry ==
    ASSUME Typed, NEW b \in Branches, InStep(b), Retry(b), ~Unsettled(b)
    PROVE  Outcome(b)
<1> DEFINE k == row[b].k
           m == [to |-> b, as |-> "process_wake_up", k |-> NoNode]
<1>1. /\ k \in Acts(b) /\ node[b][k] = "FAILED" /\ UNCHANGED <<row, loop, polls>>
      /\ VersionIs(b, k, ver[b][k] + 1) /\ queue' = queue \union {m}
  BY RetryEffect DEF scheduleVars
<1>2. m \in queue' /\ m.to = b
  BY <1>1
<1>3. \A p \in polls : p.s[1] = b /\ Live(p) => p.s[2] = k /\ (p.at = "done" => node[b][k] = "FINISHED")
  BY DEF InStep
<1>4. \A p \in polls' : p.s[1] = b => ~Live(p)' /\ p.at # "failed"
  BY <1>1, <1>3, DeadStays DEF Unsettled
<1>5. \A t \in Slots : ~At(b, t, "sleep")'
  BY <1>1 DEF Unsettled, At
<1>6. ~NoMessage(b)'
  BY <1>2 DEF NoMessage
<1> QED
  BY <1>4, <1>5, <1>6 DEF Outcome, WatchBranch, Busy

LEMMA OutcomeBranch ==
    ASSUME Typed, Rooted, TokensOK, Calm, Calm', BlockOK, StepOK, NEW b \in Branches, b \notin arrived,
           WatchBranch(b), BranchStep(b), \A s \in Slots : ~Ack(b, s)
    PROVE  Outcome(b)
<1>1. InStep(b) /\ Excl(b) /\ Focus(b) /\ pipeline # "REVOKED"
  BY BranchWhen, CalmFacts DEF StepOK
<1>2. pipeline \in {"READY", "RUNNING", "BLOCKED"} /\ Pipeline("BLOCKED") = "BLOCKED"
  BY NotOver
<1>3. ASSUME NEW s \in Slots PROVE ~WakeParent(b, s) /\ ~BlockParent(b, s) /\ ~Destroy(b, s) /\ ~SeeRevoked(b, s)
  BY <1>1 DEF Typed, WorkersOK, WakeParent, BlockParent, Destroy, SeeRevoked, At
<1>4. Retry(b) => ~Unsettled(b)
  BY RetryEffect DEF Calm
<1> QED
  BY <1>1, <1>2, <1>3, <1>4, OutcomeTake, OutcomeGo, OutcomeExecute, OutcomeRest, OutcomeSchedules, OutcomeCure,
     OutcomeRetry, ProcessSteps DEF BranchStep

\* Only a worker that wakes the parent ceases to be about to.
LEMMA WakeStays ==
    ASSUME Typed, NEW b \in Branches, BranchStep(b), \A s \in Slots : ~WakeParent(b, s),
           NEW c \in Branches, NEW t \in Slots, At(c, t, "wake")
    PROVE  At(c, t, "wake")'
<1>1. ASSUME NEW s \in Slots, NEW w, Worker(b, s, w), ~At(b, s, "wake") PROVE At(c, t, "wake")'
  BY <1>1 DEF Worker, At
<1>2. CASE UNCHANGED loop
  BY <1>2 DEF At
<1>3. CASE Take(b)
  <2>1. UNCHANGED loop \/ \E s \in Slots : At(b, s, "idle") /\ \E k : Worker(b, s, [pc |-> "loop", k |-> k, v |-> 0])
    <3>1. PICK m \in queue :
            UNCHANGED loop \/ \E s \in Slots : At(b, s, "idle") /\ Worker(b, s, [pc |-> "loop", k |-> EntersAt(b, m), v |-> 0])
      BY <1>3, TakeEffect
    <3> QED
      BY <3>1
  <2>2. ASSUME NEW s \in Slots, At(b, s, "idle"), NEW k, Worker(b, s, [pc |-> "loop", k |-> k, v |-> 0])
        PROVE  At(c, t, "wake")'
    BY <1>1, <2>2 DEF At
  <2> QED
    BY <1>2, <2>1, <2>2
<1>4. ASSUME NEW s \in Slots,
             \/ SeeRevoked(b, s) \/ Go(b, s) \/ Execute(b, s) \/ Adjust(b, s) \/ Block(b, s) \/ Sleep(b, s)
             \/ BlockParent(b, s) \/ Destroy(b, s) \/ Die(b, s) \/ Ack(b, s)
      PROVE  At(c, t, "wake")'
  <2>1. ~At(b, s, "wake")
    BY <1>4 DEF SeeRevoked, Go, Execute, Succeed, Fail, SetSchedule, Adjust, Block, Sleep, BlockParent, Destroy, Die,
                Ack, At
  <2>2. \E w : Worker(b, s, w)
    <3>1. Go(b, s) => \E w : Worker(b, s, w)
      BY GoEffect
    <3>2. Execute(b, s) => \E w : Worker(b, s, w)
      BY ExecuteEffect
    <3> QED
      BY <1>4, <3>1, <3>2, WorkerEffect
  <2> QED
    BY <1>1, <2>1, <2>2
<1>5. Schedules(b) \/ Cure(b) \/ Retry(b) => UNCHANGED loop
  BY SchedulesEffect, CureEffect, RetryEffect
<1> QED
  BY <1>2, <1>3, <1>4, <1>5, ProcessSteps DEF BranchStep

\* A READY pipeline has a retry's message under way.
LEMMA ReadyStays ==
    ASSUME Typed, NEW b \in Branches, BranchStep(b), ReadyFor, InStep(b) \/ NoMessage(b)
    PROVE  ReadyFor'
<1>1. SharedType
  BY TypeParts DEF Typed
<1>2. CASE Take(b)
  <2>1. PICK m \in queue :
          /\ m.to = b /\ queue' = queue \ {m}
          /\ pipeline' = IF m.as = "process_wake_up" /\ row[b].alive THEN Pipeline("RUNNING") ELSE pipeline
    BY <1>2, TakeEffect
  <2>2. row[b].alive
    BY <2>1 DEF InStep, NoMessage
  <2>3. m.as = "process_wake_up" => pipeline' # "READY"
    BY <1>1, <2>1, <2>2, PipelineMoves
  <2>4. m.as # "process_wake_up" => pipeline' = pipeline /\ \A n \in queue : n.as = "process_wake_up" => n \in queue'
    BY <2>1
  <2> QED
    BY <2>3, <2>4 DEF ReadyFor
<1>3. ASSUME NEW s \in Slots,
             \/ SeeRevoked(b, s) \/ Go(b, s) \/ Execute(b, s) \/ Adjust(b, s) \/ Block(b, s) \/ Sleep(b, s)
             \/ Ack(b, s) \/ WakeParent(b, s) \/ BlockParent(b, s) \/ Destroy(b, s) \/ Die(b, s)
      PROVE  UNCHANGED queue /\ (pipeline' = "READY" => pipeline = "READY")
  <2>1. pipeline' = pipeline \/ pipeline' = Pipeline("BLOCKED")
    BY <1>3 DEF SeeRevoked, Go, Execute, Succeed, Fail, SetSchedule, Adjust, Block, Sleep, BlockParent, Destroy, Die,
                Ack, WakeParent, statusVars
  <2>2. UNCHANGED queue
    BY <1>3 DEF SeeRevoked, Go, Execute, Succeed, Fail, SetSchedule, Adjust, Block, Sleep, BlockParent, Destroy, Die,
                Ack, WakeParent
  <2> QED
    BY <1>1, <2>1, <2>2, PipelineMoves
<1>4. CASE Schedules(b)
  <2>1. /\ pipeline' = pipeline \/ pipeline' = Pipeline("BLOCKED")
        /\ UNCHANGED queue \/ \E m : queue' = queue \union {m}
    BY <1>4, SchedulesEffect
  <2>2. (pipeline' = "READY" => pipeline = "READY") /\ \A m \in queue : m \in queue'
    BY <1>1, <2>1, PipelineMoves
  <2> QED
    BY <2>2 DEF ReadyFor
<1>5. CASE Cure(b)
  <2>1. pipeline' = Pipeline("BLOCKED") /\ row[b].alive
    BY <1>5, CureEffect, FailEffect
  <2>2. pipeline' = "READY" => pipeline = "READY"
    BY <1>1, <2>1, PipelineMoves
  <2>3. pipeline = "READY" => pipeline' = "BLOCKED"
    BY <1>1, <2>1, PipelineMoves
  <2> QED
    BY <2>2, <2>3 DEF ReadyFor
<1>6. CASE Retry(b)
  <2>1. PICK m : m = [to |-> b, as |-> "process_wake_up", k |-> NoNode]
    OBVIOUS
  <2>2. m \in queue' /\ m.as = "process_wake_up"
    BY <1>6, <2>1, RetryEffect
  <2> QED
    BY <2>2 DEF ReadyFor
<1> QED
  BY <1>2, <1>3, <1>4, <1>5, <1>6, ProcessSteps DEF BranchStep, ReadyFor

\* Someone is about to block the pipeline for a failure, or has.
LEMMA SeenStays ==
    ASSUME Typed, NEW b \in Branches, BranchStep(b), FailureSeen,
           \/ Busy(b)' \/ pipeline' = "BLOCKED" \/ ~Failed' \/ Quiet(b)
           \/ \E c \in Branches : c # b /\ Busy(c)
    PROVE  FailureSeen'
<1>1. \A c \in Branches : c # b /\ Busy(c) => Busy(c)'
  BY WatchElsewhere
<1>2. CASE Quiet(b)
  <2>1. UNCHANGED pipeline /\ (Failed' <=> Failed) /\ (Busy(b) => Busy(b)')
    BY <1>2 DEF Quiet, Failed
  <2> QED
    BY <1>1, <2>1 DEF FailureSeen
<1> QED
  BY <1>1, <1>2 DEF FailureSeen

\* Only a retry unblocks the pipeline.
LEMMA BlockedStays ==
    ASSUME Typed, NEW b \in Branches, BranchStep(b), ~Retry(b), pipeline = "BLOCKED"
    PROVE  pipeline' = "BLOCKED"
<1>1. SharedType
  BY TypeParts DEF Typed
<1>2. pipeline' \in {pipeline, Pipeline("RUNNING"), Pipeline("BLOCKED")}
  <2>1. CASE Take(b)
    BY <2>1, TakeEffect
  <2>2. ASSUME NEW s \in Slots,
               \/ SeeRevoked(b, s) \/ Go(b, s) \/ Execute(b, s) \/ Adjust(b, s) \/ Block(b, s) \/ Sleep(b, s)
               \/ Ack(b, s) \/ WakeParent(b, s) \/ BlockParent(b, s) \/ Destroy(b, s) \/ Die(b, s)
        PROVE  pipeline' \in {pipeline, Pipeline("BLOCKED")}
    BY <2>2 DEF SeeRevoked, Go, Execute, Succeed, Fail, SetSchedule, Adjust, Block, Sleep, BlockParent, Destroy, Die,
                Ack, WakeParent, statusVars
  <2>3. Schedules(b) => pipeline' \in {pipeline, Pipeline("BLOCKED")}
    BY SchedulesEffect
  <2>4. Cure(b) => pipeline' = Pipeline("BLOCKED")
    BY CureEffect, FailEffect
  <2> QED
    BY <2>1, <2>2, <2>3, <2>4, ProcessSteps DEF BranchStep
<1> QED
  BY <1>1, <1>2, PipelineMoves

\* What a branch that has arrived does: its worker wakes the root, blocks the
\* pipeline for another that has failed, and goes.
LEMMA ArrivedSeen ==
    ASSUME Typed, Rooted, TokensOK, Calm, BlockOK, StepOK, Watched, NEW b \in Branches, b \in arrived, BranchStep(b)
    PROVE  /\ \/ Busy(b)' \/ pipeline' = "BLOCKED" \/ ~Failed' \/ Quiet(b)
              \/ \E c \in Branches : c # b /\ Busy(c)
           /\ NoMessage(b)
<1>1. ~Before /\ Gone(b) /\ Through(b) /\ Healthy(b) /\ CountOK /\ pipeline # "REVOKED"
  BY BranchWhen, CalmFacts DEF StepOK, BlockOK
<1>2. NoMessage(b) /\ NoActive(b) /\ NoLive(b) /\ NoResting(b)
  BY <1>1 DEF Gone, Through
<1>3. need = -1 => ~Failed /\ ~Blocking
  BY <1>1, AllIn
<1>4. SharedType /\ TypeOK
  BY TypeParts DEF Typed
<1>5. ASSUME NEW s \in Slots, WakeParent(b, s)
      PROVE  Busy(b)' \/ ~Failed' \/ \E c \in Branches : c # b /\ Busy(c)
  <2>1. Failed' <=> Failed
    BY <1>5 DEF WakeParent, Failed, statusVars
  <2>2. CASE need = -1
    BY <1>3, <2>1, <2>2
  <2>3. CASE need # -1 /\ ack = need
    <3>1. arrived = Branches
      BY <1>1, <1>4, <2>3, AllArrived DEF CountOK, SharedType
    <3>2. ~Failed
      BY <3>1, CalmFacts DEF Failed, Healthy, Sore, BlockOK
    <3> QED
      BY <2>1, <3>2
  <2>4. CASE need # -1 /\ ack # need /\ BlockedByFailure
    <3>1. Worker(b, s, [pc |-> "fence", k |-> loop[b][s].k, v |-> loop[b][s].v])
      BY <1>5, <2>4, WorkerEffect
    <3> QED
      BY <3>1 DEF Worker, Busy, Leaving
  <2>5. CASE need # -1 /\ ~BlockedByFailure
    <3>1. ASSUME Failed PROVE \E c \in Branches : c # b /\ Busy(c)
      <4>1. PICK c \in Branches : \E j \in Acts(c) : node[c][j] = "FAILED"
        BY <3>1 DEF Failed
      <4>2. PICK j \in Acts(c) : node[c][j] = "FAILED"
        BY <4>1
      <4>3. c \notin arrived
        BY <4>2, CalmFacts DEF Healthy, Sore, BlockOK
      <4>4. InStep(c) /\ WatchBranch(c)
        BY <1>1, <4>3 DEF StepOK, Watched
      <4>5. j = row[c].k
        BY <4>2, <4>4 DEF InStep, Sore
      <4>6. ~row[c].asleep
        BY <2>5, <4>2, <4>5 DEF BlockedByFailure, Watched, WatchRoot, RootAsleep
      <4> QED
        BY <4>3, <4>4, <4>6 DEF WatchBranch, Asleep
    <3> QED
      BY <2>1, <3>1
  <2> QED
    BY <2>2, <2>3, <2>4, <2>5
<1>6. ASSUME NEW s \in Slots, BlockParent(b, s) PROVE pipeline' = "BLOCKED"
  <2>1. Blocking
    BY <1>6 DEF BlockParent, At, Blocking
  <2>2. need # -1
    BY <1>3, <2>1
  <2>3. pipeline # "FINISHED"
    BY <2>2 DEF Rooted, StatusOK, RootOK, Calm
  <2> QED
    BY <1>1, <1>4, <1>6, <2>3, PipelineMoves DEF BlockParent, SharedType
<1>7. Busy(b) => \E t \in Slots : Leaving(b, t)
  BY <1>1, <1>2 DEF Busy, Through
<1>8. ASSUME NEW s \in Slots, Destroy(b, s) PROVE Quiet(b)
  <2>1. /\ At(b, s, "destroy") /\ Worker(b, s, NoWorker) /\ UNCHANGED <<pipeline, node>>
    BY <1>8, WorkerEffect DEF Destroy, statusVars
  <2>2. \A t \in Slots : Leaving(b, t) => Leaving(b, t)'
    BY <2>1 DEF At, Leaving, Worker
  <2> QED
    BY <1>7, <2>1, <2>2 DEF Quiet, Busy
<1>9. CASE Schedules(b)
  <2>1. PICK p \in polls :
          /\ p.s[1] = b /\ UNCHANGED loop
          /\ \/ p.at \in {"sent", "polling"} /\ ver[b][p.s[2]] = p.s[3]
             \/ p.at \in {"done", "failed"}
             \/ UNCHANGED <<pipeline, node>>
    BY <1>9, SchedulesEffect
  <2>2. UNCHANGED <<pipeline, node>>
    BY <1>1, <1>2, <2>1 DEF NoLive, Live, Through
  <2>3. \A t \in Slots : Leaving(b, t) => Leaving(b, t)'
    BY <2>1 DEF Leaving
  <2> QED
    BY <1>2, <1>7, <2>2, <2>3 DEF Quiet, Busy
<1>10. ~Take(b) /\ ~Cure(b) /\ ~Retry(b)
  BY <1>1, <1>2, CureEffect, RetryEffect DEF Take, NoMessage, Through
<1>11. ASSUME NEW s \in Slots
       PROVE  /\ ~Go(b, s) /\ ~Execute(b, s) /\ ~SeeRevoked(b, s) /\ ~Ack(b, s) /\ ~Die(b, s)
              /\ ~Adjust(b, s) /\ ~Block(b, s) /\ ~Sleep(b, s)
  <2>1. loop[b][s].pc \notin {"loop", "execute", "adjust", "block", "sleep"}
    BY <1>2 DEF NoActive, Active, NoResting, Resting
  <2> QED
    BY <2>1 DEF Go, Execute, Succeed, Fail, SetSchedule, SeeRevoked, Ack, Die, Adjust, Block, Sleep, At
<1> QED
  BY <1>2, <1>5, <1>6, <1>8, <1>9, <1>10, <1>11, ProcessSteps DEF BranchStep

LEMMA WatchBranchStep ==
    ASSUME Typed, Rooted, TokensOK, Calm, Calm', BlockOK, StepOK, Watched, NEW b \in Branches, BranchStep(b)
    PROVE  Watched'
<1>1. ~Before /\ UNCHANGED <<root, rootRow>> /\ pipeline # "REVOKED" /\ CountOK
  BY BranchWhen, BranchFrame, CalmFacts
<1>2. \/ UNCHANGED <<need, ack, calls, arrived>>
      \/ \E s \in Slots : Ack(b, s) \/ WakeParent(b, s)
  BY BranchFrame
<1>3. pipeline = "FINISHED" => pipeline' = "FINISHED"
  BY FinishedStays DEF Calm
<1>4. ASSUME NEW s \in Slots, Ack(b, s)
      PROVE  /\ At(b, s, "wake")' /\ Busy(b)' /\ b \in arrived' /\ arrived \subseteq arrived' /\ b \notin arrived
             /\ UNCHANGED <<need, calls>>
  <2>1. Worker(b, s, [pc |-> "wake", k |-> loop[b][s].k, v |-> loop[b][s].v])
    BY <1>4, WorkerEffect
  <2>2. At(b, s, "wake")' /\ Busy(b)'
    BY <2>1 DEF Worker, At, Busy, Leaving
  <2>3. b \notin arrived
    <3>1. b \in arrived => NoActive(b)
      BY CalmFacts DEF BlockOK, Gone
    <3> QED
      BY <1>4, <3>1 DEF Ack, NoActive, Active, At
  <2> QED
    BY <1>4, <2>2, <2>3 DEF Ack
<1>5. ASSUME NEW s \in Slots, WakeParent(b, s)
      PROVE  /\ b \in arrived /\ UNCHANGED arrived
             /\ \/ need' = -1 /\ calls' > 0
                \/ UNCHANGED <<need, ack, calls>> /\ (need # -1 => arrived # Branches)
  <2>1. b \in arrived /\ UNCHANGED arrived
    BY <1>5 DEF WakeParent, Typed, WorkersOK, At
  <2>2. calls \in Nat /\ need \in {-1, Cardinality(Branches)}
    BY TypeParts DEF Typed, SharedType
  <2>3. CASE need # -1 /\ ack = need
    BY <1>5, <2>1, <2>2, <2>3 DEF WakeParent
  <2>4. CASE ~(need # -1 /\ ack = need)
    BY <1>1, <1>5, <2>1, <2>2, <2>4 DEF WakeParent, CountOK
  <2> QED
    BY <2>3, <2>4
<1>6. arrived \subseteq arrived'
  BY <1>2, <1>4, <1>5
<1>7. ASSUME NEW c \in Branches \ arrived' PROVE WatchBranch(c)'
  <2>1. c \notin arrived /\ WatchBranch(c) /\ InStep(c)
    BY <1>1, <1>6 DEF Watched, StepOK
  <2>2. CASE c = b
    <3>1. \A s \in Slots : ~Ack(b, s)
      BY <1>4, <2>2
    <3> QED
      BY <2>1, <2>2, <3>1, OutcomeBranch DEF Outcome
  <2>3. CASE c # b
    <3>1. pipeline = "BLOCKED" => pipeline' = "BLOCKED" \/ \A s \in Slots : ~At(c, s, "sleep")
      <4>1. Retry(b) => \A s \in Slots : ~At(c, s, "sleep")
        BY RetryEffect DEF Calm, Unsettled, At
      <4> QED
        BY <4>1, BlockedStays
    <3> QED
      BY <2>1, <2>3, <3>1, WatchElsewhere
  <2> QED
    BY <2>2, <2>3
<1>8. RootAsleep' /\ RootAlive'
  <2>1. need' # -1 => need # -1
    BY <1>2, <1>4, <1>5
  <2> QED
    BY <1>1, <1>3, <2>1 DEF Watched, WatchRoot, RootAsleep, RootAlive
<1>9. WokenUp'
  <2>1. need' = -1 /\ calls' = 0 => need = -1 /\ calls = 0
    BY <1>2, <1>4, <1>5
  <2> QED
    BY <1>1, <1>3, <2>1 DEF Watched, WatchRoot, WokenUp
<1>10. WakeDue'
  <2>1. CASE \E s \in Slots : Ack(b, s)
    BY <1>4, <2>1 DEF WakeDue
  <2>2. CASE \E s \in Slots : WakeParent(b, s)
    BY <1>5, <2>2 DEF WakeDue
  <2>3. CASE UNCHANGED <<need, ack, calls, arrived>> /\ ~\E s \in Slots : WakeParent(b, s)
    <3>1. need # -1 /\ arrived = Branches => \E c \in Branches, t \in Slots : At(c, t, "wake")'
      BY <2>3, WakeStays DEF Watched, WatchRoot, WakeDue
    <3> QED
      BY <2>3, <3>1 DEF WakeDue
  <2> QED
    BY <1>2, <2>1, <2>2, <2>3
<1>11. ReadyFor'
  <2>1. InStep(b) \/ NoMessage(b)
    BY <1>1, ArrivedSeen DEF StepOK
  <2> QED
    BY <2>1, ReadyStays DEF Watched, WatchRoot
<1>12. FailureSeen'
  <2>1. \/ Busy(b)' \/ pipeline' = "BLOCKED" \/ ~Failed' \/ Quiet(b)
        \/ \E c \in Branches : c # b /\ Busy(c)
    <3>1. CASE b \in arrived
      BY <3>1, ArrivedSeen
    <3>2. CASE b \notin arrived /\ \A s \in Slots : ~Ack(b, s)
      BY <3>2, OutcomeBranch DEF Outcome, Watched
    <3> QED
      BY <1>4, <3>1, <3>2
  <2> QED
    BY <2>1, SeenStays DEF Watched, WatchRoot
<1> QED
  BY <1>7, <1>8, <1>9, <1>10, <1>11, <1>12 DEF Watched, WatchRoot

\* The root: its fork puts every branch under way, and nothing is left to see once
\* it is woken.
LEMMA WatchRootStep ==
    ASSUME Typed, Rooted, TokensOK, Calm, BlockOK, StepOK, WatchOK, Root
    PROVE  WatchOK'
<1>1. SharedType /\ RootOK /\ root = [pc |-> root.pc, at |-> root.at]
  BY TypeParts DEF Typed, SharedType, Rooted
<1>2. UNCHANGED <<node, ver, loop, polls, arrived>> /\ (Failed' <=> Failed)
  BY DEF Root, Start, Fork, RootLoop, RootSleep, RootWakeUp, Sync, End, statusVars, scheduleVars, Failed
<1>3. ASSUME need = -1, ~Before, UNCHANGED <<need, queue>>,
             rootRow'.alive \/ pipeline' = "FINISHED", root'.pc = "loop" \/ pipeline' = "FINISHED" \/ calls' # 0,
             pipeline' = "READY" => \E m \in queue : m.as = "process_wake_up"
      PROVE  Watched'
  <2>1. arrived = Branches /\ ~Failed
    BY <1>3, AllIn
  <2> QED
    BY <1>2, <1>3, <2>1 DEF Watched, WatchRoot, RootAsleep, RootAlive, WakeDue, WokenUp, ReadyFor, FailureSeen
<1>4. CASE Start
  <2>1. Before
    BY <1>1, <1>4 DEF Start, RootOK
  <2>2. Before'
    BY <1>2, <1>4, <2>1 DEF Start, Before
  <2> QED
    BY <2>2 DEF WatchOK
<1>5. CASE Fork
  <2>1. Before /\ pipeline = "RUNNING"
    BY <1>1, <1>5 DEF Fork, RootLoop, RootOK, BlockOK
  <2>2. root'.pc = "sleep"
    BY <1>1, <1>5, <2>1 DEF Fork, RootLoop
  <2> QED
    BY <2>2 DEF WatchOK
<1>6. CASE RootSleep
  <2>1. root.at = "gateway" /\ ~Before /\ Nothing /\ pipeline = "RUNNING" /\ need # -1
    BY <1>1, <1>6 DEF RootSleep, RootOK, BlockOK, Before
  <2>2. /\ rootRow' = [alive |-> TRUE, asleep |-> TRUE] /\ UNCHANGED <<pipeline, need, row>>
        /\ \A b \in Branches : [to |-> b, as |-> "dispatch", k |-> NoNode] \in queue'
    BY <1>6, <2>1 DEF RootSleep, statusVars
  <2>3. rootRow'.alive /\ rootRow'.asleep
    BY <2>2
  <2>4. ASSUME NEW b \in Branches PROVE Busy(b)'
    <3>1. PICK m : m = [to |-> b, as |-> "dispatch", k |-> NoNode]
      OBVIOUS
    <3>2. m \in queue' /\ m.to = b
      BY <2>2, <3>1
    <3> QED
      BY <3>2 DEF Busy, NoMessage
  <2>5. polls' = {} /\ arrived' = {} /\ \A b \in Branches, s \in Slots : ~At(b, s, "sleep")'
    BY <1>2, <2>1 DEF Nothing, At
  <2>6. \A b \in Branches : \A k \in Acts(b) : node[b][k] = "none"
    BY <2>1 DEF Nothing
  <2>7. ~Failed
    BY <2>6 DEF Failed
  <2>8. \A b \in Branches : WatchBranch(b)'
    BY <2>4, <2>5 DEF WatchBranch
  <2>9. RootAsleep' /\ RootAlive' /\ WokenUp' /\ ReadyFor' /\ FailureSeen'
    BY <1>2, <2>1, <2>2, <2>3, <2>7 DEF RootAsleep, RootAlive, WokenUp, ReadyFor, FailureSeen
  <2>10. WakeDue'
    BY <2>5, BranchesAssumption DEF WakeDue
  <2> QED
    BY <2>8, <2>9, <2>10 DEF WatchOK, Watched, WatchRoot
<1>7. CASE RootWakeUp
  <2>1. need = -1 /\ ~Before /\ calls = 1 /\ root.pc = "idle" /\ root.at = "gateway"
    BY <1>1, <1>7 DEF RootWakeUp, RootOK, Before
  <2>2. Watched
    BY <2>1 DEF WatchOK
  <2>3. /\ UNCHANGED <<pipeline, need, queue>>
        /\ rootRow.alive => rootRow'.alive /\ root'.pc = "loop"
        /\ ~rootRow.alive => UNCHANGED rootRow
    BY <1>1, <1>7 DEF RootWakeUp, statusVars, SharedType
  <2>4. rootRow.alive \/ pipeline = "FINISHED"
    BY <2>2 DEF Watched, WatchRoot, RootAlive
  <2>5. pipeline' = "READY" => \E m \in queue : m.as = "process_wake_up"
    BY <2>2, <2>3 DEF Watched, WatchRoot, ReadyFor
  <2>6. Watched'
    BY <1>3, <2>1, <2>3, <2>4, <2>5
  <2> QED
    BY <2>6 DEF WatchOK
<1>8. CASE Sync \/ End
  <2>1. /\ root.pc = "loop" /\ root.at # "gateway" /\ UNCHANGED <<need, queue>>
        /\ (Sync /\ root.at = "converge") \/ (End /\ root.at = "end")
    BY <1>8 DEF Sync, End, RootLoop
  <2>2. need = -1 /\ ~Before
    BY <1>1, <2>1 DEF RootOK, Before
  <2>3. Watched
    BY <2>1, <2>2 DEF WatchOK
  <2>4. pipeline \in {"READY", "RUNNING", "FINISHED"} /\ arrived = Branches
    BY <2>2, AllIn
  <2>5. pipeline # "FINISHED"
    BY <2>1 DEF Rooted, StatusOK, Calm
  <2>6. pipeline # "READY"
    <3>1. \A m \in queue : m.to \in Branches
      BY <1>1 DEF SharedType, Message
    <3>2. \A b \in Branches : NoMessage(b)
      BY <2>4, CalmFacts DEF BlockOK, Gone
    <3>3. queue = {}
      BY <3>1, <3>2 DEF NoMessage
    <3> QED
      BY <2>3, <3>3 DEF Watched, WatchRoot, ReadyFor
  <2>7. pipeline = "RUNNING" /\ rootRow.alive
    BY <2>3, <2>4, <2>5, <2>6 DEF Watched, WatchRoot, RootAlive
  <2>8. CASE Sync
    <3>1. UNCHANGED <<pipeline, rootRow>> /\ root'.pc = "loop"
      BY <1>1, <2>1, <2>7, <2>8 DEF Sync, RootLoop
    <3>2. Watched'
      BY <1>3, <2>1, <2>2, <2>7, <3>1
    <3> QED
      BY <3>2 DEF WatchOK
  <2>9. CASE End
    <3>1. pipeline' = "FINISHED"
      BY <1>1, <2>1, <2>7, <2>9, PipelineMoves DEF End, RootLoop
    <3>2. Watched'
      BY <1>3, <2>1, <2>2, <3>1
    <3> QED
      BY <3>2 DEF WatchOK
  <2> QED
    BY <1>8, <2>8, <2>9
<1> QED
  BY <1>4, <1>5, <1>6, <1>7, <1>8 DEF Root

LEMMA WatchStep ==
    ASSUME Typed, Rooted, TokensOK, CalmOK, WatchOK, [Next]_vars
    PROVE  WatchOK'
<1> SUFFICES ASSUME Calm' PROVE WatchOK'
  BY DEF WatchOK
<1>1. Calm /\ BlockOK /\ StepOK
  BY CalmSteps DEF CalmOK
<1>2. CASE UNCHANGED vars
  <2>1. UNCHANGED <<pipeline, node, ver, row, need, rootRow, root, calls, loop, queue, polls, arrived>>
    BY <1>2 DEF vars, statusVars, rootVars, scheduleVars
  <2>2. \A b \in Branches : (Busy(b)' <=> Busy(b)) /\ (WatchBranch(b)' <=> WatchBranch(b))
    BY <2>1 DEF WatchBranch, Busy, Asleep, NoMessage, NoActive, Active, NoLive, Live, NoResting, Resting, Leaving, At
  <2>3. Failed' <=> Failed
    BY <2>1 DEF Failed
  <2>4. WakeDue' <=> WakeDue
    BY <2>1 DEF WakeDue, At
  <2>5. WatchRoot' <=> WatchRoot
    BY <2>1, <2>2, <2>3, <2>4 DEF WatchRoot, RootAsleep, RootAlive, WokenUp, ReadyFor, FailureSeen
  <2>6. (Before' <=> Before) /\ (Watched' <=> Watched)
    BY <2>1, <2>2, <2>5 DEF Watched, Before
  <2> QED
    BY <1>1, <2>1, <2>6 DEF WatchOK
<1>3. CASE Root
  BY <1>1, <1>3, WatchRootStep
<1>4. ASSUME NEW b \in Branches, BranchStep(b) PROVE WatchOK'
  <2>1. ~Before /\ ~(need # -1 /\ root.pc = "sleep")
    BY <1>4, BranchWhen
  <2>2. root.pc # "sleep"
    BY <1>1, <2>1 DEF BlockOK, Rooted, RootOK, Before
  <2>3. Watched
    BY <1>1, <2>1, <2>2 DEF WatchOK
  <2> QED
    BY <1>1, <1>4, <2>3, WatchBranchStep DEF WatchOK
<1> QED
  BY <1>2, <1>3, <1>4, CalmSteps

LEMMA WatchAlways == Spec => []WatchOK
<1>1. Init => WatchOK
  BY DEF Init, WatchOK, Before
<1>2. Typed /\ Rooted /\ TokensOK /\ CalmOK /\ WatchOK /\ [Next]_vars => WatchOK'
  BY WatchStep
<1> QED
  BY TypedAlways, RootedAlways, TokensAlways, CalmAlways, <1>1, <1>2, PTL DEF Spec

\* A pipeline that stands still is over or blocked by a failed node, unless a
\* worker died, a retry overtook another or a revoke came too late.
THEOREM StillSaysWhyEver == Spec => []StillSaysWhy
<1>1. ASSUME Typed, Rooted, TokensOK, CalmOK, WatchOK, Still, pipeline \notin {"FINISHED", "REVOKED"},
             ~Lost, ~hasty, ~TooLate
      PROVE  pipeline = "BLOCKED" /\ Failed
  <2>1. Calm /\ BlockOK /\ StepOK
    BY <1>1 DEF Still, TooLate, Calm, CalmOK
  <2>2. root.pc = "idle" /\ calls = 0 /\ queue = {} /\ polls = {} /\ \A b \in Branches, s \in Slots : At(b, s, "idle")
    BY <1>1 DEF Still
  <2>3. ~Before
    BY <2>1, <2>2 DEF BlockOK
  <2>4. Watched
    BY <1>1, <2>1, <2>2, <2>3 DEF WatchOK
  <2>5. need # -1
    BY <1>1, <2>2, <2>4 DEF Watched, WatchRoot, WokenUp
  <2>6. ASSUME NEW b \in Branches PROVE ~Busy(b)
    <3>1. NoMessage(b) /\ NoLive(b) /\ NoActive(b) /\ NoResting(b) /\ \A s \in Slots : ~Leaving(b, s)
      BY <2>2 DEF NoMessage, NoLive, NoActive, Active, NoResting, Resting, Leaving, At
    <3>2. \A k \in Acts(b) : node[b][k] # "RUNNING"
      BY <1>1 DEF Lost
    <3> QED
      BY <2>2, <3>1, <3>2 DEF Busy
  <2>7. PICK b \in Branches : b \notin arrived
    <3>1. arrived # Branches
      BY <2>2, <2>4, <2>5 DEF Watched, WatchRoot, WakeDue, At
    <3> QED
      BY <1>1, <3>1, TypeParts DEF Typed, SharedType
  <2>8. node[b][row[b].k] = "FAILED" /\ row[b].k \in Acts(b)
    BY <2>1, <2>3, <2>4, <2>6, <2>7 DEF Watched, WatchBranch, Asleep, StepOK, InStep
  <2>9. Failed
    BY <2>8 DEF Failed
  <2> QED
    BY <2>4, <2>6, <2>9 DEF Watched, WatchRoot, FailureSeen
<1>2. Typed /\ Rooted /\ TokensOK /\ CalmOK /\ WatchOK => StillSaysWhy
  BY <1>1 DEF StillSaysWhy
<1> QED
  BY <1>2, TypedAlways, RootedAlways, TokensAlways, CalmAlways, WatchAlways, PTL

\* The converge gateway is passed, and the pipeline finishes, only when every activity
\* of every branch has finished, with the exceptions of NoTwins.
THEOREM FinishedIsCompleteEver == Spec => []FinishedIsComplete
<1>1. ASSUME Typed, Rooted, TokensOK, CalmOK, Calm, pipeline = "FINISHED" \/ root.at # "gateway"
      PROVE  \A b \in Branches : \A k \in Acts(b) : node[b][k] = "FINISHED"
  <2>1. root.at # "gateway"
    BY <1>1 DEF Rooted, StatusOK, Calm
  <2>2. need = -1 /\ arrived # {} /\ ~Before
    BY <1>1, <2>1 DEF Rooted, RootOK, Before
  <2>3. arrived = Branches
    BY <1>1, <2>2, CalmFacts DEF CountOK
  <2> QED
    BY <1>1, <2>2, <2>3 DEF CalmOK, StepOK, Through
<1>2. Typed /\ Rooted /\ TokensOK /\ CalmOK => FinishedIsComplete
  BY <1>1 DEF FinishedIsComplete, Calm
<1> QED
  BY <1>2, TypedAlways, RootedAlways, TokensAlways, CalmAlways, PTL
=============================================================================
