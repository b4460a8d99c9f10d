----------------------- MODULE PipelineProcess_proofs -----------------------
(***************************************************************************)
(* Proofs about PipelineProcess, for any branches, activities, polled      *)
(* services and number of mishaps: types, one worker or message at a time  *)
(* for each branch, and the barrier ForkJoin.                              *)
(***************************************************************************)
EXTENDS PipelineProcess, FiniteSetTheorems, TLAPS

\* What a worker has in hand, by where it is.
WorkersOK ==
    \A b \in Branches, s \in Slots :
        LET w == loop[b][s]
        IN  /\ w.pc = "loop" => w.k \in 1 .. Converge(b)
            /\ w.pc \in {"execute", "adjust", "block", "sleep"} => w.k \in Acts(b)
            /\ w.pc = "execute" => w.v <= ver[b][w.k]
            /\ w.pc \in {"wake", "fence", "destroy"} => b \in arrived

\* Schedules and messages are about activities, no version is ahead of its
\* node's, and a process that is alive is at an activity.
RowsOK ==
    \A b \in Branches : row[b].k \in Acts(b) \union {NoNode} /\ (row[b].alive => row[b].k # NoNode)
PollsOK == \A p \in polls : p.s[3] <= ver[p.s[1]][p.s[2]]
MessagesOK == \A m \in queue : m.as = "wake_from_schedule" => m.k \in Acts(m.to)

Typed == TypeOK /\ WorkersOK /\ RowsOK /\ PollsOK /\ MessagesOK
-----------------------------------------------------------------------------
\* What an assignment to the state of one branch does, branch by branch.
Worker(b, s, w) ==
    \A c \in Branches, t \in Slots : loop'[c][t] = IF c = b /\ t = s THEN w ELSE loop[c][t]
NodeIs(b, k, x) ==
    \A c \in Branches : \A j \in Acts(c) : node'[c][j] = IF c = b /\ j = k THEN x ELSE node[c][j]
VersionIs(b, k, x) ==
    \A c \in Branches : \A j \in Acts(c) : ver'[c][j] = IF c = b /\ j = k THEN x ELSE ver[c][j]
RowIs(b, r) == \A c \in Branches : row'[c] = IF c = b THEN r ELSE row[c]

LoopType == loop \in [Branches -> [Slots -> [pc : WorkerPC, k : Nat, v : Nat]]]
NodeState == {"none", "READY", "RUNNING", "FINISHED", "FAILED"}
NodeType ==
    /\ DOMAIN node = Branches
    /\ \A b \in Branches : node[b] \in [Acts(b) -> NodeState]
VersionType ==
    /\ DOMAIN ver = Branches
    /\ \A b \in Branches : ver[b] \in [Acts(b) -> Nat]
RowType == row \in [Branches -> [alive : BOOLEAN, asleep : BOOLEAN, k : Nat]]

LEMMA WorkerSet ==
    ASSUME LoopType, NEW b \in Branches, NEW s \in Slots,
           NEW w \in [pc : WorkerPC, k : Nat, v : Nat], loop' = [loop EXCEPT ![b][s] = w]
    PROVE  LoopType' /\ Worker(b, s, w)
<1>1. loop[b] \in [Slots -> [pc : WorkerPC, k : Nat, v : Nat]]
  BY DEF LoopType
<1>2. [loop[b] EXCEPT ![s] = w] \in [Slots -> [pc : WorkerPC, k : Nat, v : Nat]]
  BY <1>1
<1>3. loop' = [loop EXCEPT ![b] = [loop[b] EXCEPT ![s] = w]]
  OBVIOUS
<1>4. LoopType'
  BY <1>2, <1>3 DEF LoopType
<1>5. \A c \in Branches : loop'[c] = IF c = b THEN [loop[b] EXCEPT ![s] = w] ELSE loop[c]
  BY <1>3 DEF LoopType
<1> QED
  BY <1>1, <1>4, <1>5 DEF Worker

\* Goto keeps what the worker has in hand.
LEMMA WorkerGoes ==
    ASSUME LoopType, NEW b \in Branches, NEW s \in Slots, NEW pc \in WorkerPC, Goto(b, s, pc)
    PROVE  LoopType' /\ Worker(b, s, [pc |-> pc, k |-> loop[b][s].k, v |-> loop[b][s].v])
<1>1. loop[b][s] \in [pc : WorkerPC, k : Nat, v : Nat]
  BY DEF LoopType
<1>2. [loop[b][s] EXCEPT !.pc = pc] = [pc |-> pc, k |-> loop[b][s].k, v |-> loop[b][s].v]
  BY <1>1
<1>3. loop' = [loop EXCEPT ![b][s] = [pc |-> pc, k |-> loop[b][s].k, v |-> loop[b][s].v]]
  BY <1>2 DEF Goto
<1> QED
  BY <1>1, <1>3, WorkerSet

LEMMA WorkerLeaves ==
    ASSUME LoopType, NEW b \in Branches, NEW s \in Slots, Leave(b, s)
    PROVE  LoopType' /\ Worker(b, s, NoWorker)
<1>1. NoWorker \in [pc : WorkerPC, k : Nat, v : Nat]
  BY DEF NoWorker, NoNode, WorkerPC
<1> QED
  BY <1>1, WorkerSet DEF Leave

LEMMA WorkerEnters ==
    ASSUME LoopType, NEW b \in Branches, NEW k \in Nat, Enter(b, k)
    PROVE  LoopType' /\ \E s \in Slots : At(b, s, "idle") /\ Worker(b, s, [pc |-> "loop", k |-> k, v |-> 0])
<1>1. PICK s \in Slots : At(b, s, "idle") /\ loop' = [loop EXCEPT ![b][s] = [pc |-> "loop", k |-> k, v |-> 0]]
  BY DEF Enter
<1>2. [pc |-> "loop", k |-> k, v |-> 0] \in [pc : WorkerPC, k : Nat, v : Nat]
  BY DEF WorkerPC
<1> QED
  BY <1>1, <1>2, WorkerSet

LEMMA NodeSet ==
    ASSUME NodeType, NEW b \in Branches, NEW k \in Acts(b), NEW x \in NodeState,
           node' = [node EXCEPT ![b][k] = x]
    PROVE  NodeType' /\ NodeIs(b, k, x)
<1>1. [node[b] EXCEPT ![k] = x] \in [Acts(b) -> NodeState]
  BY DEF NodeType
<1>2. node' = [node EXCEPT ![b] = [node[b] EXCEPT ![k] = x]]
  OBVIOUS
<1>3. DOMAIN node' = Branches /\ \A c \in Branches : node'[c] = IF c = b THEN [node[b] EXCEPT ![k] = x] ELSE node[c]
  BY <1>2 DEF NodeType
<1>4. NodeType'
  BY <1>1, <1>3 DEF NodeType
<1> QED
  BY <1>3, <1>4 DEF NodeType, NodeIs

LEMMA VersionSet ==
    ASSUME VersionType, NEW b \in Branches, NEW k \in Acts(b), ver' = [ver EXCEPT ![b][k] = @ + 1]
    PROVE  VersionType' /\ VersionIs(b, k, ver[b][k] + 1)
<1>1. ver[b][k] \in Nat
  BY DEF VersionType
<1>2. [ver[b] EXCEPT ![k] = ver[b][k] + 1] \in [Acts(b) -> Nat]
  BY <1>1 DEF VersionType
<1>3. ver' = [ver EXCEPT ![b] = [ver[b] EXCEPT ![k] = ver[b][k] + 1]]
  OBVIOUS
<1>4. DOMAIN ver' = Branches /\ \A c \in Branches : ver'[c] = IF c = b THEN [ver[b] EXCEPT ![k] = ver[b][k] + 1] ELSE ver[c]
  BY <1>3 DEF VersionType
<1>5. VersionType'
  BY <1>2, <1>4 DEF VersionType
<1> QED
  BY <1>4, <1>5 DEF VersionType, VersionIs

LEMMA RowSet ==
    ASSUME RowType, NEW b \in Branches, NEW r \in [alive : BOOLEAN, asleep : BOOLEAN, k : Nat],
           row' = [row EXCEPT ![b] = r]
    PROVE  RowType' /\ RowIs(b, r)
  BY DEF RowType, RowIs
-----------------------------------------------------------------------------
\* What remains of the types.
SharedType ==
    /\ pipeline \in {"READY", "RUNNING", "BLOCKED", "FINISHED", "REVOKED"}
    /\ ack \in Nat /\ need \in {-1, Cardinality(Branches)}
    /\ rootRow \in [alive : BOOLEAN, asleep : BOOLEAN]
    /\ root \in [pc : RootPC, at : {"gateway", "converge", "end"}]
    /\ calls \in Nat
    /\ queue \subseteq Message
    /\ scheds \subseteq ScheduleIds
    /\ polls \subseteq [s : ScheduleIds, at : {"sent", "polling", "failed", "done"}]
    /\ api \in {"idle", "failing", "destroying", "done"}
    /\ todo \subseteq Activities
    /\ mishaps \in 0 .. MaxMishaps
    /\ arrived \subseteq Branches /\ hasty \in BOOLEAN

LEMMA TypeParts ==
    /\ TypeOK <=> SharedType /\ LoopType /\ NodeType /\ VersionType /\ RowType
    /\ TypeOK' <=> SharedType' /\ LoopType' /\ NodeType' /\ VersionType' /\ RowType'
  BY DEF TypeOK, SharedType, LoopType, NodeType, VersionType, RowType, NodeState

LEMMA LastNat == ASSUME NEW b \in Branches PROVE Last[b] \in Nat /\ Last[b] > 0
  BY LastAssumption

\* A number of branches, at least one.
LEMMA Count == Cardinality(Branches) \in Nat \ {0}
  BY BranchesAssumption, FS_CardinalityType, FS_EmptySet

\* The transitions of the engine stay within the states.
LEMMA PipelineMoves ==
    ASSUME SharedType, NEW to \in {"READY", "RUNNING", "BLOCKED", "FINISHED"}
    PROVE  /\ Pipeline(to) \in {"READY", "RUNNING", "BLOCKED", "FINISHED", "REVOKED"}
           /\ Pipeline(to) \in {pipeline, to}
           /\ pipeline = "REVOKED" => Pipeline(to) = "REVOKED"
           /\ to = "BLOCKED" /\ pipeline \in {"READY", "RUNNING", "BLOCKED"} => Pipeline(to) = "BLOCKED"
           /\ to = "BLOCKED" /\ pipeline = "FINISHED" => Pipeline(to) = "FINISHED"
           /\ to = "RUNNING" => Pipeline(to) = IF pipeline \in {"READY", "FINISHED"} THEN "RUNNING" ELSE pipeline
           /\ to = "READY" => Pipeline(to) = IF pipeline = "BLOCKED" THEN "READY" ELSE pipeline
           /\ to = "FINISHED" => Pipeline(to) = IF pipeline = "RUNNING" THEN "FINISHED" ELSE pipeline
  BY DEF SharedType, Pipeline, PipelineTransition

LEMMA NodeMoves ==
    ASSUME NodeType, NEW b \in Branches, NEW k \in Acts(b)
    PROVE  /\ node[b][k] \in NodeState
           /\ Node(b, k, "FINISHED") = IF node[b][k] = "RUNNING" THEN "FINISHED" ELSE node[b][k]
           /\ Node(b, k, "FAILED") = IF node[b][k] \in {"RUNNING", "FINISHED"} THEN "FAILED" ELSE node[b][k]
           /\ "RUNNING" \in NodeTransition[node[b][k]] <=> node[b][k] \in {"none", "READY", "FINISHED"}
           /\ "FINISHED" \in NodeTransition[node[b][k]] <=> node[b][k] = "RUNNING"
           /\ "FAILED" \in NodeTransition[node[b][k]] <=> node[b][k] \in {"RUNNING", "FINISHED"}
           /\ "READY" \in AppointNodeTransition[node[b][k]] <=> node[b][k] = "FAILED"
<1>1. node[b][k] \in NodeState
  BY DEF NodeType
<1> QED
  BY <1>1 DEF NodeState, Node, NodeTransition, AppointNodeTransition
-----------------------------------------------------------------------------
\* What each action that moves a worker does, branch by branch.
LEMMA TypedRow ==
    ASSUME Typed, NEW b \in Branches
    PROVE  /\ row[b] \in [alive : BOOLEAN, asleep : BOOLEAN, k : Nat]
           /\ row[b] = [alive |-> row[b].alive, asleep |-> row[b].asleep, k |-> row[b].k]
           /\ row[b].k \in Acts(b) \union {NoNode} /\ (row[b].alive => row[b].k \in Acts(b))
  BY TypeParts DEF Typed, RowType, RowsOK

LEMMA TypedWorker ==
    ASSUME Typed, NEW b \in Branches, NEW s \in Slots
    PROVE  /\ loop[b][s].pc \in WorkerPC /\ loop[b][s].k \in Nat /\ loop[b][s].v \in Nat
           /\ loop[b][s].pc = "loop" => loop[b][s].k \in 1 .. Converge(b)
           /\ loop[b][s].pc = "loop" /\ loop[b][s].k # Converge(b) => loop[b][s].k \in Acts(b)
           /\ loop[b][s].pc \in {"execute", "adjust", "block", "sleep"} => loop[b][s].k \in Acts(b)
<1>1. loop[b][s] \in [pc : WorkerPC, k : Nat, v : Nat]
  BY TypeParts DEF Typed, LoopType
<1>2. /\ loop[b][s].pc = "loop" => loop[b][s].k \in 1 .. Converge(b)
      /\ loop[b][s].pc \in {"execute", "adjust", "block", "sleep"} => loop[b][s].k \in Acts(b)
  BY DEF Typed, WorkersOK
<1> QED
  BY <1>1, <1>2, LastNat DEF Converge, Acts

LEMMA RowExcept ==
    ASSUME NEW r \in [alive : BOOLEAN, asleep : BOOLEAN, k : Nat], NEW x
    PROVE  /\ [r EXCEPT !.asleep = x] = [alive |-> r.alive, asleep |-> x, k |-> r.k]
           /\ [r EXCEPT !.k = x] = [alive |-> r.alive, asleep |-> r.asleep, k |-> x]
  OBVIOUS

\* A message says where the worker enters run_loop.
EntersAt(b, m) == IF m.as = "wake_from_schedule" THEN m.k + 1 ELSE row[b].k

LEMMA TakeEffect ==
    ASSUME Typed, NEW b \in Branches, Take(b)
    PROVE  \E m \in queue, asleep \in BOOLEAN :
        /\ m.to = b /\ queue' = queue \ {m}
        /\ pipeline' = IF m.as = "process_wake_up" /\ row[b].alive THEN Pipeline("RUNNING") ELSE pipeline
        /\ m.as = "dispatch" => asleep = row[b].asleep
        /\ RowType' /\ RowIs(b, [alive |-> row[b].alive, asleep |-> asleep, k |-> row[b].k])
        /\ LoopType'
        /\ \/ /\ UNCHANGED loop
              /\ ~(row[b].alive /\ (m.as = "process_wake_up" => pipeline' \in {"RUNNING", "BLOCKED"}))
           \/ /\ row[b].alive /\ EntersAt(b, m) \in 1 .. Converge(b)
              /\ \E s \in Slots : /\ At(b, s, "idle")
                                  /\ Worker(b, s, [pc |-> "loop", k |-> EntersAt(b, m), v |-> 0])
        /\ UNCHANGED <<node, ver, rootVars, scheduleVars, callVars, arrived>>
<1>1. PICK m \in queue :
        /\ m.to = b
        /\ queue' = queue \ {m}
        /\ pipeline' = IF m.as = "process_wake_up" /\ row[b].alive THEN Pipeline("RUNNING") ELSE pipeline
        /\ row' = IF m.as = "dispatch" THEN row ELSE [row EXCEPT ![b].asleep = FALSE]
        /\ IF row[b].alive /\ (m.as = "process_wake_up" => pipeline' \in {"RUNNING", "BLOCKED"})
           THEN Enter(b, EntersAt(b, m))
           ELSE UNCHANGED loop
        /\ UNCHANGED <<node, ver, rootVars, scheduleVars, callVars, arrived>>
  BY DEF Take, EntersAt
<1>2. LoopType /\ RowType
  BY TypeParts DEF Typed
<1>3. \E asleep \in BOOLEAN :
        /\ m.as = "dispatch" => asleep = row[b].asleep
        /\ RowType' /\ RowIs(b, [alive |-> row[b].alive, asleep |-> asleep, k |-> row[b].k])
  <2>1. CASE m.as = "dispatch"
    BY <1>1, <1>2, <2>1, TypedRow DEF RowIs, RowType
  <2>2. CASE m.as # "dispatch"
    <3>1. [row[b] EXCEPT !.asleep = FALSE] = [alive |-> row[b].alive, asleep |-> FALSE, k |-> row[b].k]
      BY TypedRow, RowExcept
    <3>2. row' = [row EXCEPT ![b] = [alive |-> row[b].alive, asleep |-> FALSE, k |-> row[b].k]]
      BY <1>1, <2>2, <3>1
    <3>3. [alive |-> row[b].alive, asleep |-> FALSE, k |-> row[b].k] \in [alive : BOOLEAN, asleep : BOOLEAN, k : Nat]
      BY TypedRow
    <3> QED
      BY <1>2, <2>2, <3>2, <3>3, RowSet
  <2> QED
    BY <2>1, <2>2
<1>4. row[b].alive => EntersAt(b, m) \in 1 .. Converge(b)
  <2>1. m.as = "wake_from_schedule" => m.k \in Acts(b)
    BY <1>1 DEF Typed, MessagesOK
  <2>2. row[b].alive => row[b].k \in Acts(b)
    BY TypedRow
  <2>3. CASE m.as = "wake_from_schedule"
    BY <2>1, <2>3, LastNat DEF EntersAt, Acts, Converge
  <2>4. CASE m.as # "wake_from_schedule"
    BY <2>2, <2>4, LastNat DEF EntersAt, Acts, Converge
  <2> QED
    BY <2>3, <2>4
<1>5. LoopType' /\ ( \/ /\ UNCHANGED loop
                       /\ ~(row[b].alive /\ (m.as = "process_wake_up" => pipeline' \in {"RUNNING", "BLOCKED"}))
                    \/ /\ row[b].alive /\ EntersAt(b, m) \in 1 .. Converge(b)
                       /\ \E s \in Slots : /\ At(b, s, "idle")
                                           /\ Worker(b, s, [pc |-> "loop", k |-> EntersAt(b, m), v |-> 0]) )
  <2>1. CASE row[b].alive /\ (m.as = "process_wake_up" => pipeline' \in {"RUNNING", "BLOCKED"})
    <3>1. Enter(b, EntersAt(b, m)) /\ EntersAt(b, m) \in Nat
      BY <1>1, <1>4, <2>1, LastNat DEF Converge
    <3> QED
      BY <1>2, <1>4, <2>1, <3>1, WorkerEnters
  <2>2. CASE ~(row[b].alive /\ (m.as = "process_wake_up" => pipeline' \in {"RUNNING", "BLOCKED"}))
    BY <1>1, <1>2, <2>2 DEF LoopType
  <2> QED
    BY <2>1, <2>2
<1> QED
  BY <1>1, <1>3, <1>5

LEMMA GoEffect ==
    ASSUME Typed, NEW b \in Branches, NEW s \in Slots, Go(b, s)
    PROVE  LET k == loop[b][s].k
           IN  /\ At(b, s, "loop") /\ k \in Acts(b) /\ pipeline # "REVOKED"
               /\ LoopType' /\ NodeType' /\ VersionType' /\ RowType'
               /\ \/ /\ node[b][k] \in {"none", "READY", "FINISHED"}
                     /\ NodeIs(b, k, "RUNNING")
                     /\ VersionIs(b, k, IF node[b][k] = "FINISHED" THEN ver[b][k] + 1 ELSE ver[b][k])
                     /\ RowIs(b, [alive |-> row[b].alive, asleep |-> row[b].asleep, k |-> k])
                     /\ Worker(b, s, [pc |-> "execute", k |-> k, v |-> ver'[b][k]])
                  \/ /\ node[b][k] \in {"RUNNING", "FAILED"}
                     /\ Worker(b, s, [pc |-> "adjust", k |-> k, v |-> loop[b][s].v])
                     /\ UNCHANGED <<node, ver, row>>
               /\ UNCHANGED <<pipeline, rootVars, queue, scheduleVars, callVars, arrived>>
<1> DEFINE k == loop[b][s].k
<1>1. At(b, s, "loop") /\ k # Converge(b) /\ pipeline # "REVOKED"
      /\ UNCHANGED <<pipeline, rootVars, queue, scheduleVars, callVars, arrived>>
  BY DEF Go
<1>2. k \in Acts(b)
  BY <1>1, TypedWorker DEF At
<1>3. LoopType /\ NodeType /\ VersionType /\ RowType
  BY TypeParts DEF Typed
<1>4. CASE node[b][k] \in {"none", "READY", "FINISHED"}
  <2>1. /\ node' = [node EXCEPT ![b][k] = "RUNNING"]
        /\ ver' = IF node[b][k] = "FINISHED" THEN [ver EXCEPT ![b][k] = @ + 1] ELSE ver
        /\ row' = [row EXCEPT ![b].k = k]
        /\ loop' = [loop EXCEPT ![b][s] = [pc |-> "execute", k |-> k, v |-> ver'[b][k]]]
    BY <1>2, <1>3, <1>4, NodeMoves DEF Go
  <2>2. NodeType' /\ NodeIs(b, k, "RUNNING")
    BY <1>2, <1>3, <2>1, NodeSet DEF NodeState
  <2>3. VersionType' /\ VersionIs(b, k, IF node[b][k] = "FINISHED" THEN ver[b][k] + 1 ELSE ver[b][k])
    <3>1. CASE node[b][k] = "FINISHED"
      BY <1>2, <1>3, <2>1, <3>1, VersionSet
    <3>2. CASE node[b][k] # "FINISHED"
      BY <1>2, <1>3, <2>1, <3>2 DEF VersionType, VersionIs
    <3> QED
      BY <3>1, <3>2
  <2>4. RowType' /\ RowIs(b, [alive |-> row[b].alive, asleep |-> row[b].asleep, k |-> k])
    <3>1. [row[b] EXCEPT !.k = k] = [alive |-> row[b].alive, asleep |-> row[b].asleep, k |-> k]
      BY TypedRow, RowExcept
    <3>2. [alive |-> row[b].alive, asleep |-> row[b].asleep, k |-> k] \in [alive : BOOLEAN, asleep : BOOLEAN, k : Nat]
      BY TypedRow, TypedWorker
    <3>3. row' = [row EXCEPT ![b] = [alive |-> row[b].alive, asleep |-> row[b].asleep, k |-> k]]
      BY <2>1, <3>1
    <3> QED
      BY <1>3, <3>2, <3>3, RowSet
  <2>5. LoopType' /\ Worker(b, s, [pc |-> "execute", k |-> k, v |-> ver'[b][k]])
    <3>1. ver'[b][k] \in Nat /\ k \in Nat
      BY <1>2, <2>3, TypedWorker DEF VersionType
    <3>2. [pc |-> "execute", k |-> k, v |-> ver'[b][k]] \in [pc : WorkerPC, k : Nat, v : Nat]
      BY <3>1 DEF WorkerPC
    <3> HIDE DEF k
    <3> QED
      BY <1>3, <2>1, <3>2, WorkerSet
  <2> QED
    BY <1>1, <1>2, <1>4, <2>2, <2>3, <2>4, <2>5
<1>5. CASE node[b][k] \notin {"none", "READY", "FINISHED"}
  <2>1. Goto(b, s, "adjust") /\ UNCHANGED <<node, ver, row>> /\ node[b][k] \in {"RUNNING", "FAILED"}
    BY <1>2, <1>3, <1>5, NodeMoves DEF Go, NodeState
  <2>2. LoopType' /\ Worker(b, s, [pc |-> "adjust", k |-> k, v |-> loop[b][s].v])
    BY <1>3, <2>1, WorkerGoes DEF WorkerPC
  <2>3. NodeType' /\ VersionType' /\ RowType'
    BY <1>3, <2>1 DEF NodeType, VersionType, RowType
  <2> QED
    BY <1>1, <1>2, <2>1, <2>2, <2>3
<1> QED
  BY <1>4, <1>5

LEMMA ExecuteEffect ==
    ASSUME Typed, NEW b \in Branches, NEW s \in Slots, Execute(b, s)
    PROVE  LET k == loop[b][s].k  v == loop[b][s].v
           IN  /\ At(b, s, "execute") /\ k \in Acts(b) /\ LoopType' /\ NodeType'
               /\ \/ /\ NodeIs(b, k, IF node[b][k] = "RUNNING" THEN "FINISHED" ELSE node[b][k])
                     /\ Worker(b, s, [pc |-> "loop", k |-> k + 1, v |-> 0])
                     /\ UNCHANGED <<scheds, polls>>
                  \/ /\ NodeIs(b, k, IF node[b][k] \in {"RUNNING", "FINISHED"} THEN "FAILED" ELSE node[b][k])
                     /\ Worker(b, s, [pc |-> "adjust", k |-> k, v |-> v])
                     /\ UNCHANGED <<scheds, polls>>
                  \/ /\ <<b, k>> \in Polled
                     /\ scheds' = scheds \union {<<b, k, v>>}
                     /\ polls' = polls \union {[s |-> <<b, k, v>>, at |-> "sent"]}
                     /\ Worker(b, s, [pc |-> "adjust", k |-> k, v |-> v])
                     /\ UNCHANGED node
               /\ UNCHANGED <<pipeline, ver, row, rootVars, queue, callVars, arrived>>
<1> DEFINE k == loop[b][s].k
           v == loop[b][s].v
<1>1. At(b, s, "execute") /\ UNCHANGED <<pipeline, ver, row, rootVars, queue, callVars, arrived>>
  BY DEF Execute, Succeed, Fail, SetSchedule, statusVars
<1>2. k \in Acts(b) /\ k \in Nat
  BY <1>1, TypedWorker DEF At
<1>3. LoopType /\ NodeType
  BY TypeParts DEF Typed
<1>4. CASE Succeed(b, s)
  <2>1. /\ node' = [node EXCEPT ![b][k] = Node(b, k, "FINISHED")]
        /\ loop' = [loop EXCEPT ![b][s] = [pc |-> "loop", k |-> k + 1, v |-> 0]]
        /\ UNCHANGED <<scheds, polls>>
    BY <1>4 DEF Succeed, scheduleVars
  <2>2. Node(b, k, "FINISHED") \in NodeState
    BY <1>2, <1>3, NodeMoves DEF NodeState
  <2>3. NodeType' /\ NodeIs(b, k, Node(b, k, "FINISHED"))
    BY <1>2, <1>3, <2>1, <2>2, NodeSet
  <2>4. NodeIs(b, k, IF node[b][k] = "RUNNING" THEN "FINISHED" ELSE node[b][k])
    BY <1>2, <1>3, <2>3, NodeMoves
  <2>5. [pc |-> "loop", k |-> k + 1, v |-> 0] \in [pc : WorkerPC, k : Nat, v : Nat]
    BY <1>2 DEF WorkerPC
  <2>6. LoopType' /\ Worker(b, s, [pc |-> "loop", k |-> k + 1, v |-> 0])
    BY <1>3, <2>1, <2>5, WorkerSet
  <2> QED
    BY <1>1, <1>2, <2>1, <2>3, <2>4, <2>6
<1>5. CASE Fail(b, s)
  <2>1. /\ node' = [node EXCEPT ![b][k] = Node(b, k, "FAILED")]
        /\ Goto(b, s, "adjust")
        /\ UNCHANGED <<scheds, polls>>
    BY <1>5 DEF Fail, scheduleVars
  <2>2. Node(b, k, "FAILED") \in NodeState
    BY <1>2, <1>3, NodeMoves DEF NodeState
  <2>3. NodeType' /\ NodeIs(b, k, Node(b, k, "FAILED"))
    BY <1>2, <1>3, <2>1, <2>2, NodeSet
  <2>4. NodeIs(b, k, IF node[b][k] \in {"RUNNING", "FINISHED"} THEN "FAILED" ELSE node[b][k])
    BY <1>2, <1>3, <2>3, NodeMoves
  <2>5. LoopType' /\ Worker(b, s, [pc |-> "adjust", k |-> k, v |-> v])
    BY <1>3, <2>1, WorkerGoes DEF WorkerPC
  <2> QED
    BY <1>1, <1>2, <2>1, <2>3, <2>4, <2>5
<1>6. CASE SetSchedule(b, s)
  <2>1. /\ <<b, k>> \in Polled
        /\ scheds' = scheds \union {<<b, k, v>>}
        /\ polls' = polls \union {[s |-> <<b, k, v>>, at |-> "sent"]}
        /\ Goto(b, s, "adjust")
        /\ UNCHANGED node
    BY <1>6 DEF SetSchedule, statusVars
  <2>2. LoopType' /\ Worker(b, s, [pc |-> "adjust", k |-> k, v |-> v])
    BY <1>3, <2>1, WorkerGoes DEF WorkerPC
  <2>3. NodeType'
    BY <1>3, <2>1 DEF NodeType
  <2> QED
    BY <1>1, <1>2, <2>1, <2>2, <2>3
<1> QED
  BY <1>4, <1>5, <1>6 DEF Execute

\* The steps that merely move a worker on, out of run_loop.
LEMMA WorkerEffect ==
    ASSUME Typed, NEW b \in Branches, NEW s \in Slots
    PROVE  LET w == loop[b][s]
               Moved(pc) == LoopType' /\ Worker(b, s, [pc |-> pc, k |-> w.k, v |-> w.v])
           IN  /\ SeeRevoked(b, s) => LoopType' /\ Worker(b, s, NoWorker)
               /\ Die(b, s) => LoopType' /\ Worker(b, s, NoWorker)
               /\ Adjust(b, s) => Moved(IF node[b][w.k] = "FAILED" THEN "block" ELSE "sleep")
               /\ Block(b, s) => Moved("sleep")
               /\ Sleep(b, s) => /\ LoopType' /\ Worker(b, s, NoWorker)
                                 /\ RowType' /\ RowIs(b, [alive |-> TRUE, asleep |-> TRUE, k |-> w.k])
               /\ Ack(b, s) => Moved("wake")
               /\ WakeParent(b, s) =>
                    \/ /\ need # -1 /\ ack = need /\ need' = -1 /\ ack' = 0 /\ calls' = calls + 1
                       /\ Moved("destroy")
                    \/ /\ ~(need # -1 /\ ack = need) /\ UNCHANGED <<need, ack, calls>>
                       /\ Moved(IF need # -1 /\ BlockedByFailure THEN "fence" ELSE "destroy")
               /\ BlockParent(b, s) => Moved("destroy")
               /\ Destroy(b, s) => /\ LoopType' /\ Worker(b, s, NoWorker)
                                   /\ RowType' /\ RowIs(b, [alive |-> FALSE, asleep |-> FALSE, k |-> NoNode])
<1>1. LoopType /\ RowType
  BY TypeParts DEF Typed
<1>2. loop[b][s].k \in Nat
  BY TypedWorker
<1>3. SeeRevoked(b, s) \/ Die(b, s) \/ Sleep(b, s) \/ Destroy(b, s) => LoopType' /\ Worker(b, s, NoWorker)
  BY <1>1, WorkerLeaves DEF SeeRevoked, Die, Sleep, Destroy
<1>4. /\ Sleep(b, s) => RowType' /\ RowIs(b, [alive |-> TRUE, asleep |-> TRUE, k |-> loop[b][s].k])
      /\ Destroy(b, s) => RowType' /\ RowIs(b, [alive |-> FALSE, asleep |-> FALSE, k |-> NoNode])
  BY <1>1, <1>2, RowSet DEF Sleep, Destroy, NoNode
<1>5. ASSUME NEW pc \in WorkerPC, Goto(b, s, pc)
      PROVE  LoopType' /\ Worker(b, s, [pc |-> pc, k |-> loop[b][s].k, v |-> loop[b][s].v])
  BY <1>1, <1>5, WorkerGoes
<1>6. /\ Adjust(b, s) => Goto(b, s, IF node[b][loop[b][s].k] = "FAILED" THEN "block" ELSE "sleep")
      /\ Block(b, s) => Goto(b, s, "sleep")
      /\ Ack(b, s) => Goto(b, s, "wake")
      /\ BlockParent(b, s) => Goto(b, s, "destroy")
      /\ WakeParent(b, s) =>
           \/ /\ need # -1 /\ ack = need /\ need' = -1 /\ ack' = 0 /\ calls' = calls + 1
              /\ Goto(b, s, "destroy")
           \/ /\ ~(need # -1 /\ ack = need) /\ UNCHANGED <<need, ack, calls>>
              /\ Goto(b, s, IF need # -1 /\ BlockedByFailure THEN "fence" ELSE "destroy")
  BY DEF Adjust, Block, Ack, BlockParent, WakeParent
<1>7. {"block", "sleep", "wake", "destroy", "fence"} \subseteq WorkerPC
  BY DEF WorkerPC
<1> QED
  BY <1>3, <1>4, <1>5, <1>6, <1>7
-----------------------------------------------------------------------------
PollGoes(p, at) == polls' = (polls \ {p}) \union {[s |-> p.s, at |-> at]}
PollLeaves(p) == polls' = polls \ {p}
PollAt == {"sent", "polling", "failed", "done"}

LEMMA TypedPoll ==
    ASSUME Typed, NEW p \in polls
    PROVE  /\ p = [s |-> p.s, at |-> p.at] /\ p.at \in PollAt /\ p.s \in ScheduleIds
           /\ p.s = <<p.s[1], p.s[2], p.s[3]>>
           /\ p.s[1] \in Branches /\ p.s[2] \in Acts(p.s[1]) /\ p.s[3] \in Nat
           /\ \A at : [p EXCEPT !.at = at] = [s |-> p.s, at |-> at]
<1>1. p \in [s : ScheduleIds, at : {"sent", "polling", "failed", "done"}]
  BY DEF Typed, TypeOK
<1>2. p.s \in Branches \X Nat \X Nat /\ p.s[2] \in Acts(p.s[1])
  BY <1>1 DEF ScheduleIds
<1> QED
  BY <1>1, <1>2 DEF PollAt

LEMMA SchedulesEffect ==
    ASSUME Typed, NEW b \in Branches, Schedules(b)
    PROVE  \E p \in polls :
        /\ p.s[1] = b /\ p.s[2] \in Acts(b) /\ NodeType' /\ scheds' \subseteq scheds \union {p.s}
        /\ LET k == p.s[2]
           IN  \/ /\ p.at = "sent" /\ CountdownOver(b) /\ PollGoes(p, "polling")
                  /\ ver[b][k] = p.s[3] /\ UNCHANGED <<pipeline, node, queue>>
               \/ /\ p.at = "sent" /\ PollLeaves(p) /\ UNCHANGED <<pipeline, node, queue>>
               \/ /\ p.at = "polling" /\ PollGoes(p, "sent") /\ UNCHANGED <<pipeline, node, queue>>
               \/ /\ p.at = "polling" /\ ver[b][k] = p.s[3] /\ node[b][k] = "RUNNING"
                  /\ NodeIs(b, k, "FINISHED") /\ PollGoes(p, "done") /\ UNCHANGED <<pipeline, queue>>
               \/ /\ p.at = "polling" /\ ver[b][k] = p.s[3] /\ node[b][k] \in {"RUNNING", "FINISHED"}
                  /\ NodeIs(b, k, "FAILED") /\ PollGoes(p, "failed") /\ UNCHANGED <<pipeline, queue>>
               \/ /\ p.at = "polling" /\ PollLeaves(p) /\ UNCHANGED <<pipeline, node, queue>>
                  /\ ~(ver[b][k] = p.s[3] /\ node[b][k] = "RUNNING")
               \/ /\ p.at = "done" /\ PollLeaves(p)
                  /\ queue' = IF row[b].alive
                              THEN queue \union {[to |-> b, as |-> "wake_from_schedule", k |-> k]}
                              ELSE queue
                  /\ UNCHANGED <<pipeline, node>>
               \/ /\ p.at = "failed" /\ PollLeaves(p)
                  /\ pipeline' = IF row[b].alive /\ row[b].k \in Acts(b) /\ node[b][row[b].k] = "FAILED"
                                 THEN Pipeline("BLOCKED") ELSE pipeline
                  /\ UNCHANGED <<node, queue>>
        /\ UNCHANGED <<ver, row, rootVars, loop, callVars, arrived>>
<1>1. UNCHANGED <<ver, row, rootVars, loop, callVars, arrived>>
  BY DEF Schedules, Poll, PollAgain, PollEnd, WakeFromSchedule, ScheduleFailed, statusVars
<1>2. NodeType
  BY TypeParts DEF Typed
<1>3. CASE Poll(b)
  <2>1. PICK p \in polls :
          /\ p.at = "sent" /\ p.s[1] = b /\ CountdownOver(b)
          /\ IF p.s \in scheds /\ ver[b][p.s[2]] = p.s[3]
             THEN polls' = (polls \ {p}) \union {[p EXCEPT !.at = "polling"]} /\ UNCHANGED scheds
             ELSE polls' = polls \ {p} /\ scheds' = scheds \ {p.s}
          /\ UNCHANGED <<pipeline, node, queue>>
    BY <1>3 DEF Poll, statusVars
  <2>2. p.s[2] \in Acts(b) /\ [p EXCEPT !.at = "polling"] = [s |-> p.s, at |-> "polling"]
    BY <2>1, TypedPoll
  <2>3. NodeType'
    BY <1>2, <2>1 DEF NodeType
  <2>4. CASE p.s \in scheds /\ ver[b][p.s[2]] = p.s[3]
    BY <1>1, <2>1, <2>2, <2>3, <2>4 DEF PollGoes
  <2>5. CASE ~(p.s \in scheds /\ ver[b][p.s[2]] = p.s[3])
    BY <1>1, <2>1, <2>2, <2>3, <2>5 DEF PollLeaves
  <2> QED
    BY <2>4, <2>5
<1>4. CASE PollAgain(b)
  <2>1. PICK p \in polls :
          /\ p.at = "polling" /\ p.s[1] = b
          /\ polls' = (polls \ {p}) \union {[p EXCEPT !.at = "sent"]}
          /\ scheds' = scheds \union {p.s}
          /\ UNCHANGED <<pipeline, node, queue>>
    BY <1>4 DEF PollAgain, statusVars
  <2>2. p.s[2] \in Acts(b) /\ [p EXCEPT !.at = "sent"] = [s |-> p.s, at |-> "sent"]
    BY <2>1, TypedPoll
  <2>3. NodeType'
    BY <1>2, <2>1 DEF NodeType
  <2> QED
    BY <1>1, <2>1, <2>2, <2>3 DEF PollGoes
<1>5. CASE PollEnd(b)
  <2>1. PICK p \in polls, to \in {"FINISHED", "FAILED"} :
          /\ p.at = "polling" /\ p.s[1] = b
          /\ IF ver[b][p.s[2]] = p.s[3] /\ to \in NodeTransition[node[b][p.s[2]]]
             THEN /\ node' = [node EXCEPT ![b][p.s[2]] = to]
                  /\ polls' = (polls \ {p}) \union
                          {[p EXCEPT !.at = IF to = "FINISHED" THEN "done" ELSE "failed"]}
                  /\ UNCHANGED scheds
             ELSE node' = node /\ polls' = polls \ {p} /\ scheds' = scheds \ {p.s}
          /\ UNCHANGED <<pipeline, queue>>
    BY <1>5 DEF PollEnd
  <2>2. /\ p.s[2] \in Acts(b) /\ [p EXCEPT !.at = "done"] = [s |-> p.s, at |-> "done"]
        /\ [p EXCEPT !.at = "failed"] = [s |-> p.s, at |-> "failed"]
    BY <2>1, TypedPoll
  <2>3. /\ "FINISHED" \in NodeTransition[node[b][p.s[2]]] <=> node[b][p.s[2]] = "RUNNING"
        /\ "FAILED" \in NodeTransition[node[b][p.s[2]]] <=> node[b][p.s[2]] \in {"RUNNING", "FINISHED"}
    BY <1>2, <2>2, NodeMoves
  <2>4. CASE ver[b][p.s[2]] = p.s[3] /\ to = "FINISHED" /\ node[b][p.s[2]] = "RUNNING"
    <3>1. node' = [node EXCEPT ![b][p.s[2]] = "FINISHED"] /\ PollGoes(p, "done") /\ UNCHANGED scheds
      BY <2>1, <2>2, <2>3, <2>4 DEF PollGoes
    <3>2. NodeType' /\ NodeIs(b, p.s[2], "FINISHED")
      BY <1>2, <2>2, <3>1, NodeSet DEF NodeState
    <3> QED
      BY <1>1, <2>1, <2>2, <2>4, <3>1, <3>2
  <2>5. CASE ver[b][p.s[2]] = p.s[3] /\ to = "FAILED" /\ node[b][p.s[2]] \in {"RUNNING", "FINISHED"}
    <3>1. node' = [node EXCEPT ![b][p.s[2]] = "FAILED"] /\ PollGoes(p, "failed") /\ UNCHANGED scheds
      BY <2>1, <2>2, <2>3, <2>5 DEF PollGoes
    <3>2. NodeType' /\ NodeIs(b, p.s[2], "FAILED")
      BY <1>2, <2>2, <3>1, NodeSet DEF NodeState
    <3> QED
      BY <1>1, <2>1, <2>2, <2>5, <3>1, <3>2
  <2>6. CASE ~(ver[b][p.s[2]] = p.s[3] /\ to \in NodeTransition[node[b][p.s[2]]])
    <3>1. /\ UNCHANGED node /\ PollLeaves(p) /\ scheds' = scheds \ {p.s}
          /\ ~(ver[b][p.s[2]] = p.s[3] /\ node[b][p.s[2]] = "RUNNING")
      BY <2>1, <2>3, <2>6 DEF PollLeaves
    <3>2. NodeType'
      BY <1>2, <3>1 DEF NodeType
    <3> QED
      BY <1>1, <2>1, <2>2, <3>1, <3>2
  <2> QED
    BY <2>1, <2>3, <2>4, <2>5, <2>6
<1>6. CASE WakeFromSchedule(b)
  <2>1. PICK p \in polls :
          /\ p.at = "done" /\ p.s[1] = b
          /\ polls' = polls \ {p} /\ scheds' = scheds \ {p.s}
          /\ queue' = IF row[b].alive
                      THEN queue \union {[to |-> b, as |-> "wake_from_schedule", k |-> p.s[2]]}
                      ELSE queue
          /\ UNCHANGED <<pipeline, node>>
    BY <1>6 DEF WakeFromSchedule, statusVars
  <2>2. p.s[2] \in Acts(b)
    BY <2>1, TypedPoll
  <2>3. NodeType'
    BY <1>2, <2>1 DEF NodeType
  <2> QED
    BY <1>1, <2>1, <2>2, <2>3 DEF PollLeaves
<1>7. CASE ScheduleFailed(b)
  <2>1. PICK p \in polls :
          /\ p.at = "failed" /\ p.s[1] = b
          /\ polls' = polls \ {p}
          /\ pipeline' = IF row[b].alive /\ row[b].k \in Acts(b) /\ node[b][row[b].k] = "FAILED"
                         THEN Pipeline("BLOCKED") ELSE pipeline
          /\ UNCHANGED <<node, queue, scheds>>
    BY <1>7 DEF ScheduleFailed
  <2>2. p.s[2] \in Acts(b)
    BY <2>1, TypedPoll
  <2>3. NodeType'
    BY <1>2, <2>1 DEF NodeType
  <2> QED
    BY <1>1, <2>1, <2>2, <2>3 DEF PollLeaves
<1> QED
  BY <1>3, <1>4, <1>5, <1>6, <1>7 DEF Schedules

LEMMA FailEffect ==
    ASSUME Typed, NEW b \in Branches, NEW k \in Acts(b), FailNode(b, k)
    PROVE  /\ NodeType' /\ NodeIs(b, k, "FAILED")
           /\ VersionType' /\ VersionIs(b, k, ver[b][k] + 1)
           /\ pipeline' = Pipeline("BLOCKED")
           /\ RowType' /\ RowIs(b, [alive |-> TRUE, asleep |-> TRUE, k |-> k])
           /\ queue' = {m \in queue : m.to # b}
<1>1. NodeType /\ VersionType /\ RowType
  BY TypeParts DEF Typed
<1>2. k \in Nat
  BY DEF Acts
<1> QED
  BY <1>1, <1>2, NodeSet, VersionSet, RowSet DEF FailNode, NodeState

LEMMA RetryEffect ==
    ASSUME Typed, NEW b \in Branches, Retry(b)
    PROVE  LET k == row[b].k
           IN  /\ api \in {"idle", "done"} /\ k \in Acts(b) /\ node[b][k] = "FAILED"
               /\ mishaps' \in 0 .. MaxMishaps
               /\ NodeType' /\ NodeIs(b, k, "READY")
               /\ VersionType' /\ VersionIs(b, k, ver[b][k] + 1)
               /\ pipeline' = Pipeline("READY")
               /\ queue' = queue \union {[to |-> b, as |-> "process_wake_up", k |-> NoNode]}
               /\ hasty' = (hasty \/ Unsettled(b))
               /\ UNCHANGED <<row, rootVars, loop, scheduleVars, api, todo, arrived>>
<1>1. NodeType /\ VersionType /\ mishaps \in 0 .. MaxMishaps
  BY TypeParts DEF Typed, SharedType
<1>2. /\ api \in {"idle", "done"} /\ row[b].k \in Acts(b) /\ node[b][row[b].k] = "FAILED"
      /\ mishaps < MaxMishaps /\ mishaps' = mishaps + 1
      /\ node' = [node EXCEPT ![b][row[b].k] = "READY"]
      /\ ver' = [ver EXCEPT ![b][row[b].k] = @ + 1]
      /\ pipeline' = Pipeline("READY")
      /\ queue' = queue \union {[to |-> b, as |-> "process_wake_up", k |-> NoNode]}
      /\ hasty' = (hasty \/ Unsettled(b))
      /\ UNCHANGED <<row, rootVars, loop, scheduleVars, api, todo, arrived>>
  BY <1>1, NodeMoves DEF Retry
<1>3. mishaps' \in 0 .. MaxMishaps
  BY <1>1, <1>2, MaxMishapsAssumption
<1>4. NodeType' /\ NodeIs(b, row[b].k, "READY")
  BY <1>1, <1>2, NodeSet DEF NodeState
<1>5. VersionType' /\ VersionIs(b, row[b].k, ver[b][row[b].k] + 1)
  BY <1>1, <1>2, VersionSet
<1> QED
  BY <1>2, <1>3, <1>4, <1>5

LEMMA CureEffect ==
    ASSUME Typed, NEW b \in Branches, Cure(b)
    PROVE  LET k == row[b].k
           IN  /\ row[b].alive /\ k \in Acts(b) /\ node[b][k] = "RUNNING"
               /\ \A s \in Slots : ~(At(b, s, "execute") /\ loop[b][s].k = k)
               /\ FailNode(b, k)
               /\ UNCHANGED <<rootVars, loop, scheduleVars, callVars, arrived>>
  BY DEF Cure

LEMMA ForcedFailEffect ==
    ASSUME Typed, ForcedFail
    PROVE  \E b \in Branches : \E k \in Acts(b) :
        /\ <<b, k>> \in todo /\ todo' = todo \ {<<b, k>>}
        /\ \/ /\ row[b].k = k /\ node[b][k] \in {"RUNNING", "FINISHED"}
              /\ FailNode(b, k) /\ scheds' \subseteq scheds
           \/ UNCHANGED <<statusVars, row, queue, scheds>>
        /\ UNCHANGED <<rootVars, loop, polls, api, mishaps, hasty, arrived>>
<1>1. PICK t \in todo :
        /\ todo' = todo \ {t}
        /\ IF row[t[1]].k = t[2] /\ node[t[1]][t[2]] # "none" /\ "FAILED" \in NodeTransition[node[t[1]][t[2]]]
           THEN /\ FailNode(t[1], t[2])
                /\ scheds' = scheds \ {<<t[1], t[2], ver[t[1]][t[2]]>>}
           ELSE UNCHANGED <<statusVars, row, queue, scheds>>
        /\ UNCHANGED <<rootVars, loop, polls, api, mishaps, hasty, arrived>>
  BY DEF ForcedFail
<1>2. NodeType /\ t \in Activities
  BY TypeParts DEF Typed, SharedType
<1>3. PICK b \in Branches : \E k \in Acts(b) : t = <<b, k>>
  BY <1>2 DEF Activities
<1>6. PICK k \in Acts(b) : t = <<b, k>>
  BY <1>3
<1>4. "FAILED" \in NodeTransition[node[b][k]] <=> node[b][k] \in {"RUNNING", "FINISHED"}
  BY <1>2, NodeMoves
<1>5. t[1] = b /\ t[2] = k
  BY <1>6
<1> QED
  BY <1>1, <1>4, <1>5, <1>6
-----------------------------------------------------------------------------
\* Typed is inductive.  Versions only grow, so what workers and polls hold stays
\* behind them.
Grows == \A b \in Branches : \A k \in Acts(b) : ver[b][k] <= ver'[b][k]

LEMMA VersionGrows ==
    ASSUME VersionType
    PROVE  /\ UNCHANGED ver => VersionType' /\ Grows
           /\ \A b \in Branches : \A k \in Acts(b) :
                 VersionIs(b, k, ver[b][k] + 1) \/ VersionIs(b, k, ver[b][k]) => Grows
<1>1. \A b \in Branches : \A k \in Acts(b) : ver[b][k] \in Nat
  BY DEF VersionType
<1> QED
  BY <1>1 DEF VersionType, Grows, VersionIs

LEMMA WorkersKept ==
    ASSUME Typed, VersionType', Grows, arrived \subseteq arrived',
           UNCHANGED loop \/ \E b \in Branches, s \in Slots : \E w :
              /\ Worker(b, s, w)
              /\ w.pc = "loop" => w.k \in 1 .. Converge(b)
              /\ w.pc \in {"execute", "adjust", "block", "sleep"} => w.k \in Acts(b)
              /\ w.pc = "execute" => w.v <= ver'[b][w.k]
              /\ w.pc \in {"wake", "fence", "destroy"} => b \in arrived'
    PROVE  WorkersOK'
<1>1. ASSUME NEW c \in Branches, NEW t \in Slots, loop'[c][t] = loop[c][t]
      PROVE  /\ loop'[c][t].pc = "loop" => loop'[c][t].k \in 1 .. Converge(c)
             /\ loop'[c][t].pc \in {"execute", "adjust", "block", "sleep"} => loop'[c][t].k \in Acts(c)
             /\ loop'[c][t].pc = "execute" => loop'[c][t].v <= ver'[c][loop'[c][t].k]
             /\ loop'[c][t].pc \in {"wake", "fence", "destroy"} => c \in arrived'
  <2>1. /\ loop[c][t].pc = "loop" => loop[c][t].k \in 1 .. Converge(c)
        /\ loop[c][t].pc \in {"execute", "adjust", "block", "sleep"} => loop[c][t].k \in Acts(c)
        /\ loop[c][t].pc = "execute" => loop[c][t].v <= ver[c][loop[c][t].k]
        /\ loop[c][t].pc \in {"wake", "fence", "destroy"} => c \in arrived
    BY DEF Typed, WorkersOK
  <2>2. loop[c][t].pc = "execute" => loop[c][t].v <= ver'[c][loop[c][t].k]
    <3> SUFFICES ASSUME loop[c][t].pc = "execute" PROVE loop[c][t].v <= ver'[c][loop[c][t].k]
      OBVIOUS
    <3>1. loop[c][t].k \in Acts(c) /\ loop[c][t].v \in Nat
      BY <2>1, TypedWorker
    <3>2. ver[c][loop[c][t].k] \in Nat /\ ver'[c][loop[c][t].k] \in Nat
      BY <3>1, TypeParts DEF Typed, VersionType
    <3> QED
      BY <2>1, <3>1, <3>2 DEF Grows
  <2> QED
    BY <1>1, <2>1, <2>2
<1>2. CASE UNCHANGED loop
  BY <1>1, <1>2 DEF WorkersOK
<1>3. CASE ~ UNCHANGED loop
  <2>1. PICK b \in Branches, s \in Slots : \E w :
              /\ Worker(b, s, w)
              /\ w.pc = "loop" => w.k \in 1 .. Converge(b)
              /\ w.pc \in {"execute", "adjust", "block", "sleep"} => w.k \in Acts(b)
              /\ w.pc = "execute" => w.v <= ver'[b][w.k]
              /\ w.pc \in {"wake", "fence", "destroy"} => b \in arrived'
    BY <1>3
  <2>3. PICK w :
              /\ Worker(b, s, w)
              /\ w.pc = "loop" => w.k \in 1 .. Converge(b)
              /\ w.pc \in {"execute", "adjust", "block", "sleep"} => w.k \in Acts(b)
              /\ w.pc = "execute" => w.v <= ver'[b][w.k]
              /\ w.pc \in {"wake", "fence", "destroy"} => b \in arrived'
    BY <2>1
  <2>2. ASSUME NEW c \in Branches, NEW t \in Slots
        PROVE  loop'[c][t] = loop[c][t] \/ (c = b /\ loop'[c][t] = w)
    BY <2>3 DEF Worker
  <2> QED
    BY <1>1, <2>2, <2>3 DEF WorkersOK
<1> QED
  BY <1>2, <1>3

LEMMA PollsKept ==
    ASSUME Typed, VersionType', Grows,
           \A p \in polls' : (\E q \in polls : p.s = q.s) \/ p.s[3] <= ver'[p.s[1]][p.s[2]]
    PROVE  PollsOK'
<1> SUFFICES ASSUME NEW p \in polls', NEW q \in polls, p.s = q.s PROVE p.s[3] <= ver'[p.s[1]][p.s[2]]
  BY DEF PollsOK
<1>1. q.s[3] <= ver[q.s[1]][q.s[2]]
  BY DEF Typed, PollsOK
<1>2. q.s[1] \in Branches /\ q.s[2] \in Acts(q.s[1]) /\ q.s[3] \in Nat
  BY TypedPoll
<1>3. ver[q.s[1]][q.s[2]] \in Nat /\ ver'[q.s[1]][q.s[2]] \in Nat
  BY <1>2, TypeParts DEF Typed, VersionType
<1> QED
  BY <1>1, <1>2, <1>3 DEF Grows

LEMMA RowsKept ==
    ASSUME Typed,
           \/ UNCHANGED row
           \/ \E b \in Branches : \E r : /\ RowIs(b, r) /\ r.k \in Acts(b) \union {NoNode}
                                         /\ r.alive => r.k # NoNode
    PROVE  RowsOK'
  BY DEF Typed, RowsOK, RowIs

LEMMA MessagesKept ==
    ASSUME Typed, \A m \in queue' : m \in queue \/ m.as # "wake_from_schedule" \/ m.k \in Acts(m.to)
    PROVE  MessagesOK'
  BY DEF Typed, MessagesOK

LEMMA TypedInit == Init => Typed
<1> SUFFICES ASSUME Init PROVE Typed
  OBVIOUS
<1>1. SharedType
  <2>1. 0 \in 0 .. MaxMishaps
    BY MaxMishapsAssumption
  <2>2. root \in [pc : RootPC, at : {"gateway", "converge", "end"}]
    BY DEF Init, RootPC
  <2>3. rootRow \in [alive : BOOLEAN, asleep : BOOLEAN]
    BY DEF Init
  <2> QED
    BY <2>1, <2>2, <2>3 DEF Init, SharedType
<1>2. LoopType
  BY DEF Init, LoopType, NoWorker, NoNode, WorkerPC
<1>3. NodeType /\ VersionType
  BY DEF Init, NodeType, VersionType, NodeState
<1>4. RowType
  BY DEF Init, RowType, NoNode
<1>5. \A b \in Branches, s \in Slots : loop[b][s].pc = "idle"
  BY DEF Init, NoWorker
<1>6. WorkersOK
  BY <1>5 DEF WorkersOK
<1>7. \A b \in Branches : row[b].k = NoNode /\ ~row[b].alive
  BY DEF Init
<1>8. RowsOK
  BY <1>7 DEF RowsOK
<1>9. PollsOK /\ MessagesOK
  BY DEF Init, PollsOK, MessagesOK
<1> QED
  BY <1>1, <1>2, <1>3, <1>4, <1>6, <1>8, <1>9, TypeParts DEF Typed

\* What a step leaves alone.
LEMMA TypedSame ==
    ASSUME Typed
    PROVE  /\ UNCHANGED loop => LoopType'
           /\ UNCHANGED node => NodeType'
           /\ UNCHANGED ver => VersionType'
           /\ UNCHANGED row => RowType' /\ RowsOK'
           /\ UNCHANGED <<loop, ver, arrived>> => WorkersOK'
           /\ UNCHANGED <<polls, ver>> => PollsOK'
           /\ UNCHANGED queue => MessagesOK'
  BY TypeParts DEF Typed, LoopType, NodeType, VersionType, RowType, RowsOK, WorkersOK, PollsOK, MessagesOK

LEMMA TypedRoot == ASSUME Typed, Root PROVE Typed'
<1>1. SharedType /\ LoopType /\ NodeType /\ VersionType /\ RowType
  BY TypeParts DEF Typed
<1>2. UNCHANGED <<node, ver, loop, polls, scheds, arrived, api, todo, mishaps, hasty>>
  BY DEF Root, Start, Fork, RootLoop, RootSleep, RootWakeUp, Sync, End, statusVars, scheduleVars, callVars
<1>3. \A m \in queue' : m \in queue \/ (m \in Message /\ m.as = "dispatch")
  BY DEF Root, Start, Fork, RootLoop, RootSleep, RootWakeUp, Sync, End, Message, NoNode
<1>4. root' \in [pc : RootPC, at : {"gateway", "converge", "end"}]
  <2>1. root \in [pc : RootPC, at : {"gateway", "converge", "end"}]
    BY <1>1 DEF SharedType
  <2>2. ASSUME NEW x \in RootPC PROVE [root EXCEPT !.pc = x] \in [pc : RootPC, at : {"gateway", "converge", "end"}]
    BY <2>1
  <2>3. [root EXCEPT !.at = "end"] \in [pc : RootPC, at : {"gateway", "converge", "end"}]
    BY <2>1
  <2>4. {"loop", "idle", "sleep"} \subseteq RootPC
    BY DEF RootPC
  <2>5. CASE Start
    BY <2>2, <2>4, <2>5 DEF Start
  <2>6. CASE Fork \/ Sync \/ End
    BY <2>1, <2>2, <2>3, <2>4, <2>6 DEF Fork, Sync, End, RootLoop
  <2>7. CASE RootSleep
    BY <2>2, <2>4, <2>7 DEF RootSleep
  <2>8. CASE RootWakeUp
    BY <2>1, <2>4, <2>8 DEF RootWakeUp
  <2> QED
    BY <2>5, <2>6, <2>7, <2>8 DEF Root
<1>5. rootRow' \in [alive : BOOLEAN, asleep : BOOLEAN]
  <2>1. rootRow \in [alive : BOOLEAN, asleep : BOOLEAN]
    BY <1>1 DEF SharedType
  <2>2. /\ [rootRow EXCEPT !.alive = FALSE] \in [alive : BOOLEAN, asleep : BOOLEAN]
        /\ [rootRow EXCEPT !.asleep = FALSE] \in [alive : BOOLEAN, asleep : BOOLEAN]
    BY <2>1
  <2>3. CASE Start
    BY <2>1, <2>3 DEF Start
  <2>5. CASE RootSleep
    BY <2>5 DEF RootSleep
  <2>6. CASE RootWakeUp
    BY <2>1, <2>2, <2>6 DEF RootWakeUp
  <2>4. CASE Fork \/ Sync \/ End
    BY <2>1, <2>2, <2>4 DEF RootLoop, Fork, Sync, End
  <2> QED
    BY <2>3, <2>4, <2>5, <2>6 DEF Root
<1>6. /\ pipeline' \in {"READY", "RUNNING", "BLOCKED", "FINISHED", "REVOKED"}
      /\ ack' \in Nat /\ need' \in {-1, Cardinality(Branches)} /\ calls' \in Nat
  <2>1. /\ pipeline \in {"READY", "RUNNING", "BLOCKED", "FINISHED", "REVOKED"}
        /\ ack \in Nat /\ need \in {-1, Cardinality(Branches)} /\ calls \in Nat
    BY <1>1 DEF SharedType
  <2>2. \A to \in {"RUNNING", "FINISHED"} : Pipeline(to) \in {"READY", "RUNNING", "BLOCKED", "FINISHED", "REVOKED"}
    BY <1>1, PipelineMoves
  <2> QED
    BY <2>1, <2>2 DEF Root, Start, Fork, RootLoop, RootSleep, RootWakeUp, Sync, End, statusVars
<1>7. SharedType'
  BY <1>1, <1>2, <1>3, <1>4, <1>5, <1>6 DEF SharedType
<1>8. RowType' /\ RowsOK'
  <2>1. UNCHANGED row \/ row' = [b \in Branches |-> [alive |-> TRUE, asleep |-> FALSE, k |-> 1]]
    BY DEF Root, Start, Fork, RootLoop, RootSleep, RootWakeUp, Sync, End
  <2>2. CASE UNCHANGED row
    BY <2>2, TypedSame
  <2>3. CASE row' = [b \in Branches |-> [alive |-> TRUE, asleep |-> FALSE, k |-> 1]]
    <3>1. \A b \in Branches : 1 \in Acts(b)
      BY LastNat DEF Acts
    <3>2. \A b \in Branches : row'[b].alive /\ row'[b].k = 1
      BY <2>3
    <3> QED
      BY <2>3, <3>1, <3>2 DEF RowType, RowsOK, NoNode
  <2> QED
    BY <2>1, <2>2, <2>3
<1>9. MessagesOK'
  BY <1>3, MessagesKept
<1> QED
  BY <1>2, <1>7, <1>8, <1>9, TypedSame, TypeParts DEF Typed

LEMMA TypedTake == ASSUME Typed, NEW b \in Branches, Take(b) PROVE Typed'
<1>1. SharedType /\ LoopType /\ NodeType /\ VersionType /\ RowType
  BY TypeParts DEF Typed
<1>2. PICK m \in queue, asleep \in BOOLEAN :
        /\ m.to = b /\ queue' = queue \ {m}
        /\ pipeline' = IF m.as = "process_wake_up" /\ row[b].alive THEN Pipeline("RUNNING") ELSE pipeline
        /\ m.as = "dispatch" => asleep = row[b].asleep
        /\ RowType' /\ RowIs(b, [alive |-> row[b].alive, asleep |-> asleep, k |-> row[b].k])
        /\ LoopType'
        /\ \/ /\ UNCHANGED loop
              /\ ~(row[b].alive /\ (m.as = "process_wake_up" => pipeline' \in {"RUNNING", "BLOCKED"}))
           \/ /\ row[b].alive /\ EntersAt(b, m) \in 1 .. Converge(b)
              /\ \E s \in Slots : /\ At(b, s, "idle")
                                  /\ Worker(b, s, [pc |-> "loop", k |-> EntersAt(b, m), v |-> 0])
        /\ UNCHANGED <<node, ver, rootVars, scheduleVars, callVars, arrived>>
  BY TakeEffect
<1>3. pipeline' \in {"READY", "RUNNING", "BLOCKED", "FINISHED", "REVOKED"}
  <2>1. pipeline \in {"READY", "RUNNING", "BLOCKED", "FINISHED", "REVOKED"}
    BY <1>1 DEF SharedType
  <2>2. Pipeline("RUNNING") \in {"READY", "RUNNING", "BLOCKED", "FINISHED", "REVOKED"}
    BY <1>1, PipelineMoves
  <2> QED
    BY <1>2, <2>1, <2>2
<1>4. SharedType'
  BY <1>1, <1>2, <1>3 DEF SharedType, rootVars, scheduleVars, callVars
<1>5. WorkersOK'
  <2>1. Grows /\ VersionType'
    BY <1>1, <1>2, VersionGrows
  <2>2. CASE UNCHANGED loop
    BY <1>2, <2>1, <2>2, WorkersKept
  <2>3. CASE ~ UNCHANGED loop
    <3>1. PICK s \in Slots : Worker(b, s, [pc |-> "loop", k |-> EntersAt(b, m), v |-> 0])
      BY <1>2, <2>3
    <3>2. EntersAt(b, m) \in 1 .. Converge(b)
      BY <1>2, <2>3
    <3> DEFINE w == [pc |-> "loop", k |-> EntersAt(b, m), v |-> 0]
    <3>3. w.pc = "loop" /\ w.k \in 1 .. Converge(b)
      BY <3>2
    <3> HIDE DEF w
    <3>4. Worker(b, s, w)
      BY <3>1 DEF w
    <3> QED
      BY <1>2, <2>1, <3>3, <3>4, WorkersKept
  <2> QED
    BY <2>2, <2>3
<1>6. RowsOK'
  <2> DEFINE r == [alive |-> row[b].alive, asleep |-> asleep, k |-> row[b].k]
  <2>1. RowIs(b, r) /\ r.k = row[b].k /\ r.alive = row[b].alive
    BY <1>2
  <2>2. row[b].k \in Acts(b) \union {NoNode} /\ (row[b].alive => row[b].k # NoNode)
    BY DEF Typed, RowsOK
  <2> HIDE DEF r
  <2> QED
    BY <2>1, <2>2, RowsKept
<1>7. PollsOK' /\ MessagesOK' /\ NodeType' /\ VersionType'
  BY <1>2, MessagesKept, TypedSame DEF scheduleVars
<1> QED
  BY <1>2, <1>4, <1>5, <1>6, <1>7, TypeParts DEF Typed

LEMMA TypedGo == ASSUME Typed, NEW b \in Branches, NEW s \in Slots, Go(b, s) PROVE Typed'
<1> DEFINE k == loop[b][s].k
<1>1. SharedType /\ LoopType /\ NodeType /\ VersionType /\ RowType
  BY TypeParts DEF Typed
<1>2. /\ At(b, s, "loop") /\ k \in Acts(b) /\ pipeline # "REVOKED"
      /\ LoopType' /\ NodeType' /\ VersionType' /\ RowType'
      /\ \/ /\ node[b][k] \in {"none", "READY", "FINISHED"}
            /\ NodeIs(b, k, "RUNNING")
            /\ VersionIs(b, k, IF node[b][k] = "FINISHED" THEN ver[b][k] + 1 ELSE ver[b][k])
            /\ RowIs(b, [alive |-> row[b].alive, asleep |-> row[b].asleep, k |-> k])
            /\ Worker(b, s, [pc |-> "execute", k |-> k, v |-> ver'[b][k]])
         \/ /\ node[b][k] \in {"RUNNING", "FAILED"}
            /\ Worker(b, s, [pc |-> "adjust", k |-> k, v |-> loop[b][s].v])
            /\ UNCHANGED <<node, ver, row>>
      /\ UNCHANGED <<pipeline, rootVars, queue, scheduleVars, callVars, arrived>>
  BY GoEffect
<1> HIDE DEF k
<1>3. SharedType'
  BY <1>1, <1>2 DEF SharedType, rootVars, scheduleVars, callVars
<1>4. Grows
  BY <1>1, <1>2, VersionGrows
<1>5. \E w : /\ Worker(b, s, w)
             /\ w.pc \in {"execute", "adjust"} /\ w.k = k
             /\ w.pc = "execute" => w.v = ver'[b][k]
  BY <1>2
<1>6. ver'[b][k] \in Nat
  BY <1>2 DEF VersionType
<1>7. WorkersOK'
  BY <1>2, <1>4, <1>5, <1>6, WorkersKept
<1>8. RowsOK'
  <2>1. CASE UNCHANGED row
    BY <2>1, TypedSame
  <2>2. CASE ~ UNCHANGED row
    <3> DEFINE r == [alive |-> row[b].alive, asleep |-> row[b].asleep, k |-> k]
    <3>1. RowIs(b, r) /\ r.k = k
      BY <1>2, <2>2
    <3>2. k # NoNode
      BY <1>2 DEF Acts, NoNode
    <3> HIDE DEF r
    <3> QED
      BY <1>2, <3>1, <3>2, RowsKept
  <2> QED
    BY <2>1, <2>2
<1>9. PollsOK'
  BY <1>2, <1>4, PollsKept DEF scheduleVars
<1>10. MessagesOK'
  BY <1>2, MessagesKept
<1> QED
  BY <1>2, <1>3, <1>7, <1>8, <1>9, <1>10, TypeParts DEF Typed

LEMMA TypedExecute == ASSUME Typed, NEW b \in Branches, NEW s \in Slots, Execute(b, s) PROVE Typed'
<1> DEFINE k == loop[b][s].k
           v == loop[b][s].v
<1>1. SharedType /\ LoopType /\ NodeType /\ VersionType /\ RowType
  BY TypeParts DEF Typed
<1>2. /\ At(b, s, "execute") /\ k \in Acts(b) /\ LoopType' /\ NodeType'
      /\ \/ /\ Worker(b, s, [pc |-> "loop", k |-> k + 1, v |-> 0])
            /\ UNCHANGED <<scheds, polls>>
         \/ /\ Worker(b, s, [pc |-> "adjust", k |-> k, v |-> v])
            /\ UNCHANGED <<scheds, polls>>
         \/ /\ scheds' = scheds \union {<<b, k, v>>}
            /\ polls' = polls \union {[s |-> <<b, k, v>>, at |-> "sent"]}
            /\ Worker(b, s, [pc |-> "adjust", k |-> k, v |-> v])
      /\ UNCHANGED <<pipeline, ver, row, rootVars, queue, callVars, arrived>>
  BY ExecuteEffect
<1>3. k \in Nat /\ v \in Nat /\ v <= ver[b][k]
  BY <1>2, TypedWorker DEF At, Typed, WorkersOK
<1>4. <<b, k, v>> \in ScheduleIds
  BY <1>2, <1>3 DEF ScheduleIds
<1> HIDE DEF k, v
<1>5. scheds' \subseteq ScheduleIds /\ polls' \subseteq [s : ScheduleIds, at : {"sent", "polling", "failed", "done"}]
  BY <1>1, <1>2, <1>4 DEF SharedType
<1>6. SharedType'
  BY <1>1, <1>2, <1>5 DEF SharedType, rootVars, callVars
<1>7. VersionType' /\ Grows /\ RowType' /\ RowsOK' /\ MessagesOK'
  BY <1>1, <1>2, VersionGrows, TypedSame
<1>8. PollsOK'
  <2>1. \A p \in polls' : p \in polls \/ (p.s[1] = b /\ p.s[2] = k /\ p.s[3] = v)
    BY <1>2
  <2> QED
    BY <1>2, <1>3, <1>7, <2>1, PollsKept
<1>9. \E w : /\ Worker(b, s, w)
             /\ \/ w.pc = "loop" /\ w.k = k + 1
                \/ w.pc = "adjust" /\ w.k = k
  BY <1>2
<1>10. k + 1 \in 1 .. Converge(b)
  BY <1>2, <1>3, LastNat DEF Acts, Converge
<1>11. WorkersOK'
  BY <1>2, <1>7, <1>9, <1>10, WorkersKept
<1> QED
  BY <1>2, <1>6, <1>7, <1>8, <1>11, TypeParts DEF Typed

\* A worker is moved on or leaves.
LEMMA TypedWorkers ==
    ASSUME Typed, NEW b \in Branches, NEW s \in Slots,
           \/ SeeRevoked(b, s) \/ Adjust(b, s) \/ Block(b, s) \/ Sleep(b, s)
           \/ Ack(b, s) \/ WakeParent(b, s) \/ BlockParent(b, s) \/ Destroy(b, s) \/ Die(b, s)
    PROVE  Typed'
<1>1. SharedType /\ LoopType /\ NodeType /\ VersionType /\ RowType
  BY TypeParts DEF Typed
<1>2. UNCHANGED <<node, ver, queue, scheds, polls>> /\ arrived \subseteq arrived'
  BY DEF SeeRevoked, Adjust, Block, Sleep, Ack, WakeParent, BlockParent, Destroy, Die, statusVars, scheduleVars
<1>3. SharedType'
  <2>1. pipeline' \in {pipeline, Pipeline("BLOCKED")} /\ UNCHANGED <<rootRow, root, api, todo, hasty>>
    BY DEF SeeRevoked, Adjust, Block, Sleep, Ack, WakeParent, BlockParent, Destroy, Die, statusVars, rootVars, callVars
  <2>2. pipeline' \in {"READY", "RUNNING", "BLOCKED", "FINISHED", "REVOKED"}
    BY <1>1, <2>1, PipelineMoves DEF SharedType
  <2>3. mishaps' \in 0 .. MaxMishaps
    <3>1. mishaps \in 0 .. MaxMishaps
      BY <1>1 DEF SharedType
    <3>2. mishaps' = mishaps \/ (mishaps < MaxMishaps /\ mishaps' = mishaps + 1)
      BY DEF SeeRevoked, Adjust, Block, Sleep, Ack, WakeParent, BlockParent, Destroy, Die, callVars
    <3> QED
      BY <3>1, <3>2, MaxMishapsAssumption
  <2>4. ack' \in Nat /\ need' \in {-1, Cardinality(Branches)} /\ calls' \in Nat
    <3>1. ack \in Nat /\ need \in {-1, Cardinality(Branches)} /\ calls \in Nat
      BY <1>1 DEF SharedType
    <3>2. /\ ack' = ack \/ ack' = ack + 1 \/ ack' = 0
          /\ need' = need \/ need' = -1
          /\ calls' = calls \/ calls' = calls + 1
      BY DEF SeeRevoked, Adjust, Block, Sleep, Ack, WakeParent, BlockParent, Destroy, Die, rootVars
    <3> QED
      BY <3>1, <3>2
  <2>5. arrived' \subseteq Branches
    BY <1>1 DEF SharedType, SeeRevoked, Adjust, Block, Sleep, Ack, WakeParent, BlockParent, Destroy, Die
  <2> QED
    BY <1>1, <1>2, <2>1, <2>2, <2>3, <2>4, <2>5 DEF SharedType
<1>4. \E w : /\ Worker(b, s, w)
             /\ w.pc \in {"idle", "block", "sleep", "wake", "fence", "destroy"}
             /\ w.pc \in {"block", "sleep"} => w.k \in Acts(b)
             /\ w.pc \in {"wake", "fence", "destroy"} => b \in arrived'
  <2>1. CASE SeeRevoked(b, s) \/ Sleep(b, s) \/ Destroy(b, s) \/ Die(b, s)
    <3>1. Worker(b, s, NoWorker)
      BY <2>1, WorkerEffect
    <3>2. NoWorker.pc = "idle"
      BY DEF NoWorker
    <3> QED
      BY <3>1, <3>2
  <2>2. CASE Adjust(b, s) \/ Block(b, s)
    <3>1. loop[b][s].k \in Acts(b)
      BY <2>2, TypedWorker DEF Adjust, Block, At
    <3>2. PICK pc \in {"block", "sleep"} : Worker(b, s, [pc |-> pc, k |-> loop[b][s].k, v |-> loop[b][s].v])
      BY <2>2, WorkerEffect
    <3> QED
      BY <3>1, <3>2
  <2>3. CASE Ack(b, s) \/ WakeParent(b, s) \/ BlockParent(b, s)
    <3>1. b \in arrived'
      BY <2>3, <1>2 DEF Ack, WakeParent, BlockParent, At, Typed, WorkersOK
    <3>2. PICK pc \in {"wake", "fence", "destroy"} : Worker(b, s, [pc |-> pc, k |-> loop[b][s].k, v |-> loop[b][s].v])
      BY <2>3, WorkerEffect
    <3> QED
      BY <3>1, <3>2
  <2> QED
    BY <2>1, <2>2, <2>3
<1>5. LoopType'
  BY WorkerEffect
<1>6. NodeType' /\ VersionType' /\ Grows /\ PollsOK' /\ MessagesOK'
  BY <1>1, <1>2, VersionGrows, TypedSame
<1>7. WorkersOK'
  BY <1>2, <1>4, <1>6, WorkersKept
<1>8. RowType' /\ RowsOK'
  <2>1. CASE Sleep(b, s)
    <3>1. loop[b][s].k \in Acts(b) /\ loop[b][s].k # NoNode
      BY <2>1, TypedWorker DEF Sleep, At, Acts, NoNode
    <3>2. RowType' /\ RowIs(b, [alive |-> TRUE, asleep |-> TRUE, k |-> loop[b][s].k])
      BY <2>1, WorkerEffect
    <3> QED
      BY <3>1, <3>2, RowsKept
  <2>2. CASE Destroy(b, s)
    <3>1. RowType' /\ RowIs(b, [alive |-> FALSE, asleep |-> FALSE, k |-> NoNode])
      BY <2>2, WorkerEffect
    <3> QED
      BY <3>1, RowsKept
  <2>3. CASE ~(Sleep(b, s) \/ Destroy(b, s))
    <3>1. UNCHANGED row
      BY <2>3 DEF SeeRevoked, Adjust, Block, Ack, WakeParent, BlockParent, Die
    <3> QED
      BY <3>1, TypedSame
  <2> QED
    BY <2>1, <2>2, <2>3
<1> QED
  BY <1>3, <1>5, <1>6, <1>7, <1>8, TypeParts DEF Typed

LEMMA TypedSchedules == ASSUME Typed, NEW b \in Branches, Schedules(b) PROVE Typed'
<1>1. SharedType /\ LoopType /\ NodeType /\ VersionType /\ RowType
  BY TypeParts DEF Typed
<1>2. PICK p \in polls :
        /\ p.s[1] = b /\ p.s[2] \in Acts(b) /\ NodeType' /\ scheds' \subseteq scheds \union {p.s}
        /\ PollLeaves(p) \/ \E at \in PollAt : PollGoes(p, at)
        /\ UNCHANGED queue \/ queue' = queue \union {[to |-> b, as |-> "wake_from_schedule", k |-> p.s[2]]}
        /\ pipeline' \in {pipeline, Pipeline("BLOCKED")}
        /\ UNCHANGED <<ver, row, rootVars, loop, callVars, arrived>>
  BY SchedulesEffect, Zenon DEF PollAt
<1>3. p.s \in ScheduleIds
  BY TypedPoll
<1>4. \A q \in polls' : q \in polls \/ (q.s = p.s /\ q = [s |-> p.s, at |-> q.at] /\ q.at \in PollAt)
  BY <1>2 DEF PollLeaves, PollGoes
<1>5. polls' \subseteq [s : ScheduleIds, at : {"sent", "polling", "failed", "done"}]
  BY <1>1, <1>3, <1>4 DEF SharedType, PollAt
<1>6. pipeline' \in {"READY", "RUNNING", "BLOCKED", "FINISHED", "REVOKED"}
  BY <1>1, <1>2, PipelineMoves DEF SharedType
<1>7. p.s[2] \in Nat
  BY <1>2 DEF Acts
<1>8. queue' \subseteq Message
  BY <1>1, <1>2, <1>7 DEF SharedType, Message
<1>9. SharedType'
  BY <1>1, <1>2, <1>3, <1>5, <1>6, <1>8 DEF SharedType, rootVars, callVars
<1>10. LoopType' /\ VersionType' /\ Grows /\ RowType' /\ RowsOK' /\ WorkersOK'
  BY <1>1, <1>2, VersionGrows, TypedSame
<1>11. PollsOK'
  BY <1>4, <1>10, PollsKept
<1>12. MessagesOK'
  BY <1>2, MessagesKept
<1> QED
  BY <1>2, <1>9, <1>10, <1>11, <1>12, TypeParts DEF Typed

\* What FailNode changes, whoever calls it.
LEMMA TypedFailNode ==
    ASSUME Typed, NEW b \in Branches, NEW k \in Acts(b), FailNode(b, k),
           UNCHANGED <<rootVars, loop, polls, api, mishaps, hasty, arrived>>,
           todo' \subseteq todo, scheds' \subseteq scheds
    PROVE  Typed'
<1>1. SharedType /\ LoopType /\ NodeType /\ VersionType /\ RowType
  BY TypeParts DEF Typed
<1>2. /\ NodeType' /\ NodeIs(b, k, "FAILED")
      /\ VersionType' /\ VersionIs(b, k, ver[b][k] + 1)
      /\ pipeline' = Pipeline("BLOCKED")
      /\ RowType' /\ RowIs(b, [alive |-> TRUE, asleep |-> TRUE, k |-> k])
      /\ queue' = {m \in queue : m.to # b}
  BY FailEffect
<1>3. pipeline' \in {"READY", "RUNNING", "BLOCKED", "FINISHED", "REVOKED"}
  BY <1>1, <1>2, PipelineMoves DEF SharedType
<1>4. SharedType'
  BY <1>1, <1>2, <1>3 DEF SharedType, rootVars
<1>5. LoopType' /\ Grows
  BY <1>1, <1>2, VersionGrows, TypedSame
<1>6. WorkersOK' /\ PollsOK' /\ MessagesOK'
  BY <1>2, <1>5, WorkersKept, PollsKept, MessagesKept
<1>7. k # NoNode
  BY DEF Acts, NoNode
<1>8. RowsOK'
  BY <1>2, <1>7, RowsKept
<1> QED
  BY <1>2, <1>4, <1>5, <1>6, <1>8, TypeParts DEF Typed

LEMMA TypedRetry == ASSUME Typed, NEW b \in Branches, Retry(b) PROVE Typed'
<1> DEFINE k == row[b].k
<1>1. SharedType /\ LoopType /\ NodeType /\ VersionType /\ RowType
  BY TypeParts DEF Typed
<1>2. /\ api \in {"idle", "done"} /\ k \in Acts(b) /\ node[b][k] = "FAILED"
      /\ mishaps' \in 0 .. MaxMishaps
      /\ NodeType' /\ NodeIs(b, k, "READY")
      /\ VersionType' /\ VersionIs(b, k, ver[b][k] + 1)
      /\ pipeline' = Pipeline("READY")
      /\ queue' = queue \union {[to |-> b, as |-> "process_wake_up", k |-> NoNode]}
      /\ hasty' = (hasty \/ Unsettled(b))
      /\ UNCHANGED <<row, rootVars, loop, scheduleVars, api, todo, arrived>>
  BY RetryEffect
<1> HIDE DEF k
<1>3. pipeline' \in {"READY", "RUNNING", "BLOCKED", "FINISHED", "REVOKED"}
  BY <1>1, <1>2, PipelineMoves DEF SharedType
<1>4. queue' \subseteq Message
  BY <1>1, <1>2 DEF SharedType, Message, NoNode
<1>5. SharedType'
  BY <1>1, <1>2, <1>3, <1>4 DEF SharedType, rootVars, scheduleVars
<1>6. LoopType' /\ Grows /\ RowType' /\ RowsOK'
  BY <1>1, <1>2, VersionGrows, TypedSame
<1>7. WorkersOK' /\ PollsOK' /\ MessagesOK'
  BY <1>2, <1>6, WorkersKept, PollsKept, MessagesKept DEF scheduleVars
<1> QED
  BY <1>2, <1>5, <1>6, <1>7, TypeParts DEF Typed

LEMMA TypedCall == ASSUME Typed, Revoke \/ RevokePipeline \/ DestroyAll PROVE Typed'
<1>1. SharedType /\ LoopType /\ NodeType /\ VersionType /\ RowType
  BY TypeParts DEF Typed
<1>2. UNCHANGED <<node, ver, ack, need, root, calls, loop, queue, scheds, polls, hasty, arrived>>
  BY DEF Revoke, RevokePipeline, DestroyAll, statusVars, rootVars, scheduleVars
<1>3. SharedType'
  <2>1. pipeline' \in {pipeline, "REVOKED"} /\ api' \in {"failing", "destroying", "done"}
    BY DEF Revoke, RevokePipeline, DestroyAll, statusVars
  <2>2. rootRow' \in [alive : BOOLEAN, asleep : BOOLEAN]
    <3>1. rootRow \in [alive : BOOLEAN, asleep : BOOLEAN]
      BY <1>1 DEF SharedType
    <3>2. [rootRow EXCEPT !.alive = FALSE] \in [alive : BOOLEAN, asleep : BOOLEAN]
      BY <3>1
    <3> QED
      BY <3>1, <3>2 DEF Revoke, RevokePipeline, DestroyAll, rootVars
  <2>3. todo' \subseteq Activities
    <3>1. CASE Revoke
      <4>1. \A t \in todo' : \E b \in Branches : t = <<b, row[b].k>> /\ row[b].k \in Acts(b)
        BY <3>1 DEF Revoke
      <4>2. ASSUME NEW b \in Branches, NEW k \in Acts(b) PROVE <<b, k>> \in Activities
        BY DEF Activities
      <4> QED
        BY <4>1, <4>2
    <3>2. CASE RevokePipeline \/ DestroyAll
      BY <1>1, <3>2 DEF RevokePipeline, DestroyAll, SharedType
    <3> QED
      BY <3>1, <3>2
  <2>4. mishaps' \in 0 .. MaxMishaps
    <3>1. mishaps \in 0 .. MaxMishaps
      BY <1>1 DEF SharedType
    <3>2. mishaps' = mishaps \/ (mishaps < MaxMishaps /\ mishaps' = mishaps + 1)
      BY DEF Revoke, RevokePipeline, DestroyAll
    <3> QED
      BY <3>1, <3>2, MaxMishapsAssumption
  <2> QED
    BY <1>1, <1>2, <2>1, <2>2, <2>3, <2>4 DEF SharedType
<1>4. RowType' /\ RowsOK'
  <2>1. CASE UNCHANGED row
    BY <2>1, TypedSame
  <2>2. CASE row' = [b \in Branches |-> [alive |-> FALSE, asleep |-> row[b].asleep, k |-> NoNode]]
    <3>1. ASSUME NEW b \in Branches
          PROVE  /\ row'[b] \in [alive : BOOLEAN, asleep : BOOLEAN, k : Nat]
                 /\ ~row'[b].alive /\ row'[b].k = NoNode
      <4>2. row'[b] = [alive |-> FALSE, asleep |-> row[b].asleep, k |-> NoNode]
        BY <2>2
      <4>3. row[b].asleep \in BOOLEAN
        BY TypedRow
      <4> QED
        BY <4>2, <4>3 DEF NoNode
    <3> QED
      BY <2>2, <3>1 DEF RowType, RowsOK
  <2> QED
    BY <2>1, <2>2 DEF Revoke, RevokePipeline, DestroyAll
<1> QED
  BY <1>2, <1>3, <1>4, TypedSame, TypeParts DEF Typed

\* Types, and what workers, rows, polls and messages are about, hold whatever happens.
LEMMA TypedStep == Typed /\ [Next]_vars => Typed'
<1> SUFFICES ASSUME Typed, [Next]_vars PROVE Typed'
  OBVIOUS
<1>1. CASE UNCHANGED vars
  <2>1. SharedType
    BY TypeParts DEF Typed
  <2>2. SharedType'
    BY <1>1, <2>1 DEF vars, statusVars, rootVars, scheduleVars, callVars, SharedType
  <2> QED
    BY <1>1, <2>2, TypedSame, TypeParts DEF Typed, vars, statusVars, rootVars, scheduleVars, callVars
<1>2. CASE Root
  BY <1>2, TypedRoot
<1>3. CASE ForcedFail
  <2>1. PICK b \in Branches : \E k \in Acts(b) :
        /\ todo' = todo \ {<<b, k>>}
        /\ \/ FailNode(b, k) /\ scheds' \subseteq scheds
           \/ UNCHANGED <<statusVars, row, queue, scheds>>
        /\ UNCHANGED <<rootVars, loop, polls, api, mishaps, hasty, arrived>>
    BY <1>3, ForcedFailEffect
  <2>2. PICK k \in Acts(b) :
        /\ todo' = todo \ {<<b, k>>}
        /\ \/ FailNode(b, k) /\ scheds' \subseteq scheds
           \/ UNCHANGED <<statusVars, row, queue, scheds>>
        /\ UNCHANGED <<rootVars, loop, polls, api, mishaps, hasty, arrived>>
    BY <2>1
  <2>3. CASE FailNode(b, k) /\ scheds' \subseteq scheds
    BY <2>2, <2>3, TypedFailNode
  <2>4. CASE UNCHANGED <<statusVars, row, queue, scheds>>
    <3>1. SharedType'
      BY <2>2, <2>4, TypeParts DEF Typed, SharedType, statusVars, rootVars
    <3> QED
      BY <2>2, <2>4, <3>1, TypedSame, TypeParts DEF Typed, statusVars
  <2> QED
    BY <2>2, <2>3, <2>4
<1>4. CASE Revoke \/ RevokePipeline \/ DestroyAll
  BY <1>4, TypedCall
<1>5. ASSUME NEW b \in Branches, Process(b) PROVE Typed'
  BY <1>5, TypedTake, TypedGo, TypedExecute, TypedWorkers DEF Process
<1>6. ASSUME NEW b \in Branches, Schedules(b) PROVE Typed'
  BY <1>6, TypedSchedules
<1>7. ASSUME NEW b \in Branches, Cure(b) PROVE Typed'
  BY <1>7, CureEffect, TypedFailNode DEF scheduleVars, callVars
<1>8. ASSUME NEW b \in Branches, Retry(b) PROVE Typed'
  BY <1>8, TypedRetry
<1>9. ASSUME NEW b \in Branches, NEW s \in Slots, Die(b, s) PROVE Typed'
  BY <1>9, TypedWorkers
<1> QED
  BY <1>1, <1>2, <1>3, <1>4, <1>5, <1>6, <1>7, <1>8, <1>9 DEF Next, Caller

LEMMA TypedAlways == Spec => []Typed
<1> QED
  BY TypedInit, TypedStep, PTL DEF Spec

\* Types: every row, worker, message, schedule and count is what it should be.
THEOREM TypeCorrect == Spec => []TypeOK
<1>1. Typed => TypeOK
  BY DEF Typed
<1> QED
  BY TypedAlways, <1>1, PTL
-----------------------------------------------------------------------------
\* The root: before it forks, while it waits and after it has been woken.
Nothing ==
    /\ queue = {} /\ polls = {} /\ scheds = {} /\ arrived = {} /\ ack = 0 /\ calls = 0
    /\ \A b \in Branches, s \in Slots : At(b, s, "idle")
    /\ \A b \in Branches : \A k \in Acts(b) : node[b][k] = "none"
Before == need = -1 /\ arrived = {}
Unused == \A b \in Branches : ~row[b].alive /\ row[b].k = NoNode

RootOK ==
    /\ root.pc = "start" => root.at = "gateway"
    /\ root.at = "gateway" /\ root.pc \in {"start", "loop"} => Before
    /\ Before => /\ root.at = "gateway" /\ root.pc # "sleep" /\ Nothing /\ Unused
                 /\ pipeline \in {"READY", "RUNNING", "REVOKED"}
    /\ need # -1 => root.at = "gateway" /\ root.pc \in {"sleep", "idle"} /\ calls = 0
    /\ need # -1 /\ root.pc = "sleep" => Nothing
    /\ root.at # "gateway" => need = -1 /\ arrived # {} /\ calls = 0
    /\ calls > 0 => calls = 1 /\ root.pc = "idle" /\ root.at = "gateway" /\ need = -1 /\ arrived # {}
    /\ root.at = "gateway" /\ need = -1 /\ arrived # {} => root.pc = "idle"

\* The status of the pipeline, as the root and the revoke call leave it.
StatusOK ==
    /\ pipeline = "REVOKED" => api \in {"destroying", "done"}
    /\ api = "destroying" => pipeline = "REVOKED"
    /\ api # "done" /\ pipeline = "FINISHED" => root.pc = "idle" /\ root.at = "end"
    /\ todo # {} => api = "failing"

Rooted == RootOK /\ StatusOK

\* What a branch, its schedules or the node APIs do.
BranchStep(b) ==
    Process(b) \/ Schedules(b) \/ Cure(b) \/ Retry(b) \/ \E s \in Slots : Die(b, s)

LEMMA ProcessSteps ==
    ASSUME NEW b \in Branches, Process(b)
    PROVE  \/ Take(b)
           \/ \E s \in Slots :
                \/ SeeRevoked(b, s) \/ Go(b, s) \/ Execute(b, s) \/ Adjust(b, s) \/ Block(b, s) \/ Sleep(b, s)
                \/ Ack(b, s) \/ WakeParent(b, s) \/ BlockParent(b, s) \/ Destroy(b, s)
  BY DEF Process

LEMMA BranchFrame ==
    ASSUME Typed, NEW b \in Branches, BranchStep(b)
    PROVE  /\ UNCHANGED <<root, rootRow, api, todo>>
           /\ \/ pipeline' = pipeline \/ \E to \in {"RUNNING", "BLOCKED", "READY"} : pipeline' = Pipeline(to)
           /\ \/ UNCHANGED <<need, ack, calls, arrived>>
              \/ \E s \in Slots : Ack(b, s) \/ WakeParent(b, s)
<1>1. CASE Take(b)
  BY <1>1 DEF Take, rootVars, callVars
<1>2. ASSUME NEW s \in Slots,
             \/ SeeRevoked(b, s) \/ Go(b, s) \/ Adjust(b, s) \/ Block(b, s) \/ Sleep(b, s)
             \/ BlockParent(b, s) \/ Destroy(b, s) \/ Die(b, s)
      PROVE  /\ UNCHANGED <<root, rootRow, api, todo, need, ack, calls, arrived>>
             /\ pipeline' = pipeline \/ pipeline' = Pipeline("BLOCKED")
  BY <1>2 DEF SeeRevoked, Go, Adjust, Block, Sleep, BlockParent, Destroy, Die, statusVars, rootVars, callVars
<1>3. ASSUME NEW s \in Slots, Execute(b, s)
      PROVE  UNCHANGED <<pipeline, root, rootRow, api, todo, need, ack, calls, arrived>>
  BY <1>3, ExecuteEffect DEF rootVars, callVars
<1>4. ASSUME NEW s \in Slots, Ack(b, s) \/ WakeParent(b, s)
      PROVE  UNCHANGED <<pipeline, root, rootRow, api, todo>>
  BY <1>4 DEF Ack, WakeParent, statusVars, callVars
<1>5. CASE Schedules(b)
  BY <1>5, SchedulesEffect DEF rootVars, callVars
<1>6. CASE Cure(b)
  BY <1>6, CureEffect DEF FailNode, rootVars, callVars
<1>7. CASE Retry(b)
  BY <1>7, RetryEffect DEF rootVars
<1> QED
  BY <1>1, <1>2, <1>3, <1>4, <1>5, <1>6, <1>7, ProcessSteps DEF BranchStep

\* Before the branches are sent off none of them does anything.
LEMMA NothingHappens ==
    ASSUME Typed, NEW b \in Branches, Nothing
    PROVE  ~BranchStep(b)
<1>1. ~Take(b)
  BY DEF Take, Nothing
<1>2. ASSUME NEW s \in Slots
      PROVE  ~(\/ SeeRevoked(b, s) \/ Go(b, s) \/ Execute(b, s) \/ Adjust(b, s) \/ Block(b, s) \/ Sleep(b, s)
               \/ Ack(b, s) \/ WakeParent(b, s) \/ BlockParent(b, s) \/ Destroy(b, s) \/ Die(b, s))
  <2>1. loop[b][s].pc = "idle"
    BY DEF Nothing, At
  <2> QED
    BY <2>1 DEF At, SeeRevoked, Go, Execute, Succeed, Fail, SetSchedule, Adjust, Block, Sleep, Ack, WakeParent,
                BlockParent, Destroy, Die
<1>3. ~Schedules(b)
  BY SchedulesEffect DEF Nothing
<1>4. ~Cure(b) /\ ~Retry(b)
  BY CureEffect, RetryEffect DEF Nothing
<1> QED
  BY <1>1, <1>2, <1>3, <1>4, ProcessSteps DEF BranchStep

LEMMA NothingFailed ==
    ASSUME Typed, ForcedFail, Nothing
    PROVE  UNCHANGED <<statusVars, row, rootVars, loop, queue, scheduleVars, arrived, api>>
  BY ForcedFailEffect DEF Nothing, statusVars, scheduleVars

\* A step of anybody else does not disturb the root.
LEMMA RootAside ==
    ASSUME RootOK, UNCHANGED <<root, need, calls, arrived>>,
           Nothing => Nothing', Before => Unused' /\ pipeline' \in {"READY", "RUNNING", "REVOKED"}
    PROVE  RootOK'
  BY DEF RootOK, Before

LEMMA RootedInit == Init => Rooted
  BY DEF Init, Rooted, RootOK, StatusOK, Before, Unused, Nothing, At, NoWorker, NoNode

LEMMA RootedRoot == ASSUME Typed, Rooted, Root PROVE Rooted'
<1>1. SharedType
  BY TypeParts DEF Typed
<1>2. RootOK /\ StatusOK
  BY DEF Rooted
<1>3. root.pc \in RootPC /\ root.at \in {"gateway", "converge", "end"} /\ calls \in Nat
      /\ root = [pc |-> root.pc, at |-> root.at]
  BY <1>1 DEF SharedType
<1>4. Cardinality(Branches) # -1
  BY Count
<1>5. UNCHANGED <<node, ver, ack, loop, scheds, polls, arrived, api, todo>>
  BY DEF Root, Start, Fork, RootLoop, RootSleep, RootWakeUp, Sync, End, statusVars, scheduleVars, callVars
<1>6. UNCHANGED <<queue, calls>> /\ Nothing => Nothing'
  BY <1>5 DEF Nothing, At
<1>7. CASE Start
  <2>1. /\ root.pc = "start" /\ root'.pc \in {"loop", "idle"} /\ root'.at = root.at
        /\ pipeline' = pipeline \/ pipeline' = Pipeline("RUNNING")
        /\ UNCHANGED <<need, calls, queue, row>>
    BY <1>3, <1>7 DEF Start
  <2>2. Before /\ Nothing /\ root.at = "gateway" /\ Unused /\ pipeline \in {"READY", "RUNNING", "REVOKED"}
    BY <1>2, <2>1 DEF RootOK
  <2>3. Nothing' /\ Before' /\ Unused'
    BY <1>5, <1>6, <2>1, <2>2 DEF Before, Unused
  <2>4. pipeline' \in {"READY", "RUNNING", "REVOKED"} /\ (pipeline' = "REVOKED" <=> pipeline = "REVOKED")
    BY <1>1, <2>1, <2>2, PipelineMoves
  <2>5. RootOK'
    BY <2>1, <2>2, <2>3, <2>4 DEF RootOK, Before, Nothing
  <2>6. StatusOK'
    BY <1>2, <1>5, <2>4 DEF StatusOK
  <2> QED
    BY <2>5, <2>6 DEF Rooted
<1>8. CASE Fork
  <2>1. /\ root.pc = "loop" /\ root.at = "gateway" /\ UNCHANGED <<queue, calls, pipeline>>
        /\ \/ /\ pipeline \in {"REVOKED", "BLOCKED"} /\ UNCHANGED <<row, need>>
              /\ root'.at = root.at /\ root'.pc = IF pipeline = "REVOKED" THEN "idle" ELSE "sleep"
           \/ /\ pipeline \notin {"REVOKED", "BLOCKED"} /\ need' = Cardinality(Branches)
              /\ root'.at = root.at /\ root'.pc = "sleep"
    BY <1>3, <1>8 DEF Fork, RootLoop
  <2>2. Before /\ Nothing /\ root.at = "gateway" /\ Unused /\ pipeline \in {"READY", "RUNNING", "REVOKED"}
    BY <1>2, <2>1 DEF RootOK
  <2>3. Nothing'
    BY <1>6, <2>1, <2>2
  <2>4. StatusOK'
    BY <1>2, <1>5, <2>1, <2>2 DEF StatusOK
  <2>5. CASE pipeline = "REVOKED"
    BY <1>5, <2>1, <2>2, <2>3, <2>4, <2>5 DEF Rooted, RootOK, Before, Unused, Nothing
  <2>6. CASE pipeline # "REVOKED"
    BY <1>4, <1>5, <2>1, <2>2, <2>3, <2>4, <2>6 DEF Rooted, RootOK, Before, Nothing
  <2> QED
    BY <2>5, <2>6
<1>9. CASE Sync \/ End
  <2>1. /\ root.pc = "loop" /\ root.at # "gateway" /\ UNCHANGED <<queue, calls, row, need>>
        /\ \/ pipeline' = pipeline
           \/ pipeline' = Pipeline("FINISHED") /\ root'.pc = "idle" /\ root.at = "end"
        /\ root'.at # "gateway" /\ root'.pc # "start" /\ (root.at = "end" => root'.at = "end")
    BY <1>3, <1>9 DEF Sync, End, RootLoop
  <2>2. need = -1 /\ arrived # {} /\ calls = 0
    BY <1>2, <2>1 DEF RootOK
  <2>3. RootOK'
    BY <1>5, <2>1, <2>2 DEF RootOK, Before
  <2>4. StatusOK'
    <3>1. api # "done" => pipeline # "FINISHED"
      BY <1>2, <2>1 DEF StatusOK
    <3>2. \/ pipeline' = pipeline
          \/ pipeline' = "FINISHED" /\ root'.pc = "idle" /\ root'.at = "end" /\ pipeline = "RUNNING"
      BY <1>1, <2>1, PipelineMoves
    <3> QED
      BY <1>2, <1>5, <3>1, <3>2 DEF StatusOK
  <2> QED
    BY <2>3, <2>4 DEF Rooted
<1>10. CASE RootSleep
  <2>1. /\ root.pc = "sleep" /\ root'.pc = "idle" /\ root'.at = root.at
        /\ UNCHANGED <<pipeline, row, need, calls>>
    BY <1>3, <1>10 DEF RootSleep, statusVars
  <2>2. ~Before
    BY <1>2, <2>1 DEF RootOK
  <2>3. RootOK'
    BY <1>2, <1>3, <1>5, <2>1, <2>2 DEF RootOK, Before
  <2>4. StatusOK'
    BY <1>2, <1>5, <2>1 DEF StatusOK
  <2> QED
    BY <2>3, <2>4 DEF Rooted
<1>11. CASE RootWakeUp
  <2>1. /\ calls > 0 /\ calls' = calls - 1 /\ UNCHANGED <<pipeline, need, row>>
        /\ UNCHANGED root \/ (root'.pc = "loop" /\ root'.at = "converge")
    BY <1>11 DEF RootWakeUp, statusVars
  <2>2. calls = 1 /\ root.pc = "idle" /\ root.at = "gateway" /\ need = -1 /\ arrived # {}
    BY <1>2, <2>1 DEF RootOK
  <2>3. calls' = 0
    BY <2>1, <2>2
  <2>4. RootOK'
    BY <1>5, <2>1, <2>2, <2>3 DEF RootOK, Before
  <2>5. StatusOK'
    BY <1>2, <1>5, <2>1, <2>2 DEF StatusOK
  <2> QED
    BY <2>4, <2>5 DEF Rooted
<1> QED
  BY <1>7, <1>8, <1>9, <1>10, <1>11 DEF Root

LEMMA RootedBranch == ASSUME Typed, Rooted, NEW b \in Branches, BranchStep(b) PROVE Rooted'
<1>1. SharedType
  BY TypeParts DEF Typed
<1>2. RootOK /\ StatusOK
  BY DEF Rooted
<1>3. /\ UNCHANGED <<root, rootRow, api, todo>>
      /\ \/ pipeline' = pipeline \/ \E to \in {"RUNNING", "BLOCKED", "READY"} : pipeline' = Pipeline(to)
      /\ \/ UNCHANGED <<need, ack, calls, arrived>>
         \/ \E s \in Slots : Ack(b, s) \/ WakeParent(b, s)
  BY BranchFrame
<1>4. ~Nothing
  BY NothingHappens
<1>5. ~Before /\ ~(need # -1 /\ root.pc = "sleep")
  BY <1>2, <1>4 DEF RootOK
<1>6. RootOK'
  <2>1. CASE UNCHANGED <<need, ack, calls, arrived>>
    BY <1>2, <1>3, <1>4, <1>5, <2>1, RootAside
  <2>2. ASSUME NEW s \in Slots, Ack(b, s) PROVE RootOK'
    <3>1. UNCHANGED <<need, calls>> /\ arrived' # {}
      BY <2>2 DEF Ack
    <3> QED
      BY <1>2, <1>3, <1>5, <3>1 DEF RootOK, Before
  <2>3. ASSUME NEW s \in Slots, WakeParent(b, s) PROVE RootOK'
    <3>1. UNCHANGED arrived /\ (UNCHANGED <<need, calls>> \/ (need # -1 /\ need' = -1 /\ calls' = calls + 1))
      BY <2>3 DEF WakeParent
    <3>2. arrived # {}
      BY <2>3 DEF WakeParent, At, Typed, WorkersOK
    <3>3. CASE UNCHANGED <<need, calls>>
      BY <1>2, <1>3, <1>5, <3>1, <3>2, <3>3 DEF RootOK, Before
    <3>4. CASE need # -1 /\ need' = -1 /\ calls' = calls + 1
      <4>1. calls' = 1 /\ root.pc = "idle" /\ root.at = "gateway"
        BY <1>2, <1>5, <3>4 DEF RootOK
      <4> QED
        BY <1>3, <3>1, <3>2, <3>4, <4>1 DEF RootOK, Before
    <3> QED
      BY <3>1, <3>3, <3>4
  <2> QED
    BY <1>3, <2>1, <2>2, <2>3
<1>7. StatusOK'
  <2>1. (pipeline' = "REVOKED" <=> pipeline = "REVOKED") /\ (pipeline' = "FINISHED" => pipeline = "FINISHED")
    <3>1. ASSUME NEW to \in {"RUNNING", "BLOCKED", "READY"}, pipeline' = Pipeline(to)
          PROVE  (pipeline' = "REVOKED" <=> pipeline = "REVOKED") /\ (pipeline' = "FINISHED" => pipeline = "FINISHED")
      BY <1>1, <3>1, PipelineMoves
    <3> QED
      BY <1>3, <3>1
  <2> QED
    BY <1>2, <1>3, <2>1 DEF StatusOK
<1> QED
  BY <1>6, <1>7 DEF Rooted

LEMMA RootedCall ==
    ASSUME Typed, Rooted, Revoke \/ ForcedFail \/ RevokePipeline \/ DestroyAll
    PROVE  Rooted'
<1>1. SharedType
  BY TypeParts DEF Typed
<1>2. RootOK /\ StatusOK
  BY DEF Rooted
<1>3. CASE ForcedFail
  <2>1. /\ UNCHANGED <<rootVars, api, arrived, loop, polls>>
        /\ pipeline' = pipeline \/ pipeline' = Pipeline("BLOCKED")
    BY <1>3, ForcedFailEffect DEF FailNode, statusVars
  <2>2. Nothing => UNCHANGED <<statusVars, row, rootVars, loop, queue, scheduleVars, arrived, api>>
    BY <1>3, NothingFailed
  <2>3. Nothing => Nothing'
    BY <2>2 DEF Nothing, At, statusVars, rootVars, scheduleVars
  <2>4. Before => Nothing
    BY <1>2 DEF RootOK
  <2>5. Before => Unused' /\ pipeline' \in {"READY", "RUNNING", "REVOKED"}
    BY <1>2, <2>2, <2>4 DEF RootOK, Unused, statusVars
  <2>6. RootOK'
    BY <1>2, <2>1, <2>3, <2>5, RootAside DEF rootVars
  <2>7. (pipeline' = "REVOKED" <=> pipeline = "REVOKED") /\ (pipeline' = "FINISHED" => pipeline = "FINISHED")
    BY <1>1, <2>1, PipelineMoves
  <2>8. StatusOK'
    <3>1. todo' \subseteq todo /\ UNCHANGED <<root, api>>
      BY <1>3, <2>1, ForcedFailEffect DEF rootVars
    <3> QED
      BY <1>2, <2>7, <3>1 DEF StatusOK
  <2> QED
    BY <2>6, <2>8 DEF Rooted
<1>4. CASE Revoke
  <2>1. UNCHANGED <<statusVars, row, rootVars, loop, queue, scheduleVars, arrived>> /\ api = "idle" /\ api' = "failing"
    BY <1>4 DEF Revoke
  <2>2. Nothing => Nothing'
    BY <2>1 DEF Nothing, At, statusVars, rootVars, scheduleVars
  <2>3. Before => Unused' /\ pipeline' \in {"READY", "RUNNING", "REVOKED"}
    BY <1>2, <2>1 DEF RootOK, Unused, statusVars
  <2>4. RootOK'
    BY <1>2, <2>1, <2>2, <2>3, RootAside DEF rootVars
  <2>5. StatusOK'
    BY <1>2, <2>1 DEF StatusOK, rootVars, statusVars
  <2> QED
    BY <2>4, <2>5 DEF Rooted
<1>5. CASE RevokePipeline
  <2>1. /\ UNCHANGED <<node, ver, row, rootVars, loop, queue, scheduleVars, arrived>> /\ api = "failing" /\ todo = {} /\ todo' = {}
        /\ \/ pipeline' = "REVOKED" /\ api' = "destroying"
           \/ pipeline' = pipeline /\ api' = "done"
    BY <1>5 DEF RevokePipeline
  <2>2. Nothing => Nothing'
    BY <2>1 DEF Nothing, At, rootVars, scheduleVars
  <2>3. Before => Unused' /\ pipeline' \in {"READY", "RUNNING", "REVOKED"}
    BY <1>2, <2>1 DEF RootOK, Unused
  <2>4. RootOK'
    BY <1>2, <2>1, <2>2, <2>3, RootAside DEF rootVars
  <2>5. StatusOK'
    BY <1>2, <2>1 DEF StatusOK, rootVars
  <2> QED
    BY <2>4, <2>5 DEF Rooted
<1>6. CASE DestroyAll
  <2>1. /\ UNCHANGED <<statusVars, root, need, ack, calls, loop, queue, scheduleVars, arrived, todo>>
        /\ api = "destroying" /\ api' = "done"
    BY <1>6 DEF DestroyAll
  <2>2. Nothing => Nothing'
    BY <2>1 DEF Nothing, At, statusVars, scheduleVars
  <2>3. UNCHANGED row \/ Unused'
    BY <1>6 DEF DestroyAll, Unused
  <2>4. Before => Unused' /\ pipeline' \in {"READY", "RUNNING", "REVOKED"}
    BY <1>2, <2>1, <2>3 DEF RootOK, Unused, statusVars
  <2>5. RootOK'
    BY <1>2, <2>1, <2>2, <2>4, RootAside
  <2>6. StatusOK'
    BY <1>2, <2>1 DEF StatusOK, statusVars
  <2> QED
    BY <2>5, <2>6 DEF Rooted
<1> QED
  BY <1>3, <1>4, <1>5, <1>6

\* Next, sorted by what the proofs treat alike.
LEMMA Steps ==
    ASSUME [Next]_vars
    PROVE  \/ Root \/ Revoke \/ ForcedFail \/ RevokePipeline \/ DestroyAll
           \/ \E b \in Branches : BranchStep(b)
           \/ UNCHANGED vars
  BY DEF Next, Caller, BranchStep

LEMMA RootedStep == Typed /\ Rooted /\ [Next]_vars => Rooted'
<1> SUFFICES ASSUME Typed, Rooted, [Next]_vars PROVE Rooted'
  OBVIOUS
<1>1. CASE UNCHANGED vars
  BY <1>1 DEF Rooted, RootOK, StatusOK, Before, Unused, Nothing, At, vars, statusVars, rootVars, scheduleVars, callVars
<1> QED
  BY <1>1, RootedRoot, RootedBranch, RootedCall, Steps

LEMMA RootedAlways == Spec => []Rooted
  BY TypedAlways, RootedInit, RootedStep, PTL DEF Spec
-----------------------------------------------------------------------------
\* A branch goes on by a message, a worker in run_loop or a poll whose version is
\* still that of its node.
Active(b, s) == loop[b][s].pc \in {"loop", "execute"}
Leaving(b, s) == loop[b][s].pc \in {"wake", "fence"}
Live(p) == p.at = "done" \/ (p.at \in {"sent", "polling"} /\ ver[p.s[1]][p.s[2]] = p.s[3])
NoMessage(b) == \A m \in queue : m.to # b
NoActive(b) == \A s \in Slots : ~Active(b, s)
NoLive(b) == \A p \in polls : p.s[1] = b => ~Live(p)

\* At most one of them, and none in a branch that has arrived.
Excl(b) ==
    /\ \A m, n \in queue : m.to = b /\ n.to = b => m = n
    /\ \A s, t \in Slots : Active(b, s) /\ Active(b, t) => s = t
    /\ \A p, q \in polls : p.s[1] = b /\ q.s[1] = b /\ Live(p) /\ Live(q) => p = q
    /\ NoMessage(b) \/ (NoActive(b) /\ NoLive(b))
    /\ NoActive(b) \/ NoLive(b)
Gone(b) ==
    /\ NoMessage(b) /\ NoActive(b) /\ NoLive(b)
    /\ \A s, t \in Slots : Leaving(b, s) /\ Leaving(b, t) => s = t

\* A node that is RUNNING or FAILED is where the branch is, so that a retry finds
\* nobody under way; until a revoke fails nodes at random.
Sore(b, k) == node[b][k] \in {"RUNNING", "FAILED"}
Healthy(b) == \A k \in Acts(b) : ~Sore(b, k)
OnlySore(b, k) == \A j \in Acts(b) : Sore(b, j) => j = k
Focus(b) ==
    /\ \A j, k \in Acts(b) : Sore(b, j) /\ Sore(b, k) => j = k
    /\ NoMessage(b) \/ Healthy(b)
    /\ \A s \in Slots : At(b, s, "loop") => Healthy(b)
    /\ \A s \in Slots : At(b, s, "execute") =>
          /\ node[b][loop[b][s].k] = "RUNNING" /\ loop[b][s].v = ver[b][loop[b][s].k]
          /\ OnlySore(b, loop[b][s].k)
    /\ \A p \in polls : p.s[1] = b /\ Live(p) =>
          /\ p.at = "done" => Healthy(b)
          /\ p.at # "done" => node[b][p.s[2]] = "RUNNING"

\* Once at the converge gateway a root that found the pipeline blocked sleeps, and
\* sends the branches off again.
Regular == ~(root.pc = "idle" /\ root.at = "converge")

BranchOK(b) ==
    /\ Excl(b)
    /\ Regular /\ b \in arrived => Gone(b)
    /\ api = "idle" => Focus(b) /\ (Regular /\ b \in arrived => Healthy(b))

\* need_ack is taken back when the last branch has acknowledged.
CountOK ==
    /\ need # -1 => ack = Cardinality(arrived)
    /\ need = -1 /\ arrived # {} => arrived = Branches

TokensOK == api # "done" => CountOK /\ \A b \in Branches : BranchOK(b)

\* What concerns branch c but its row is as before, or there is less of it.
Same(c) ==
    /\ \A s \in Slots : loop'[c][s] = loop[c][s]
    /\ \A k \in Acts(c) : node'[c][k] = node[c][k] /\ ver'[c][k] = ver[c][k]
    /\ \A m \in queue' : m.to = c => m \in queue
    /\ \A p \in polls' : p.s[1] = c => p \in polls

LEMMA Elsewhere ==
    ASSUME Typed, Typed', NEW c \in Branches, BranchOK(c), Same(c),
           Regular' => Regular, c \in arrived' => c \in arrived, api' = "idle" => api = "idle"
    PROVE  BranchOK(c)'
<1>1. ASSUME NEW s \in Slots PROVE loop'[c][s] = loop[c][s]
  BY DEF Same
<1>2. \A s \in Slots : (Active(c, s)' <=> Active(c, s)) /\ (Leaving(c, s)' <=> Leaving(c, s))
                       /\ \A pc : At(c, s, pc)' <=> At(c, s, pc)
  BY <1>1 DEF Active, Leaving, At
<1>3. \A k \in Acts(c) : Sore(c, k)' <=> Sore(c, k)
  BY DEF Same, Sore
<1>4. (NoActive(c)' <=> NoActive(c)) /\ (NoMessage(c) => NoMessage(c)') /\ (Healthy(c)' <=> Healthy(c))
  BY <1>2, <1>3 DEF NoActive, NoMessage, Healthy, Same
<1>5. ASSUME NEW p \in polls', p.s[1] = c
      PROVE  p \in polls /\ (Live(p)' <=> Live(p)) /\ p.s[2] \in Acts(c)
  <2>1. p \in polls
    BY <1>5 DEF Same
  <2>2. p.s[2] \in Acts(c)
    BY <1>5, <2>1, TypedPoll
  <2> QED
    BY <1>5, <2>1, <2>2 DEF Same, Live
<1>6. NoLive(c) => NoLive(c)'
  BY <1>5 DEF NoLive
<1>7. Excl(c) => Excl(c)'
  <2> SUFFICES ASSUME Excl(c) PROVE Excl(c)'
    OBVIOUS
  <2>1. \A m, n \in queue' : m.to = c /\ n.to = c => m = n
    BY DEF Same, Excl
  <2>2. \A s, t \in Slots : Active(c, s)' /\ Active(c, t)' => s = t
    BY <1>2 DEF Excl
  <2>3. \A p, q \in polls' : p.s[1] = c /\ q.s[1] = c /\ Live(p)' /\ Live(q)' => p = q
    BY <1>5 DEF Excl
  <2> QED
    BY <1>4, <1>6, <2>1, <2>2, <2>3 DEF Excl
<1>8. Gone(c) => Gone(c)'
  BY <1>2, <1>4, <1>6 DEF Gone
<1>9. Focus(c) => Focus(c)'
  <2> SUFFICES ASSUME Focus(c) PROVE Focus(c)'
    OBVIOUS
  <2>1. \A j, k \in Acts(c) : Sore(c, j)' /\ Sore(c, k)' => j = k
    BY <1>3 DEF Focus
  <2>2. NoMessage(c)' \/ Healthy(c)'
    BY <1>4 DEF Focus
  <2>3. \A s \in Slots : At(c, s, "loop")' => Healthy(c)'
    BY <1>2, <1>4 DEF Focus
  <2>4. ASSUME NEW s \in Slots, At(c, s, "execute")'
        PROVE  /\ node'[c][loop'[c][s].k] = "RUNNING" /\ loop'[c][s].v = ver'[c][loop'[c][s].k]
               /\ \A j \in Acts(c) : Sore(c, j)' => j = loop'[c][s].k
    <3>1. At(c, s, "execute") /\ loop'[c][s] = loop[c][s]
      BY <1>1, <1>2, <2>4
    <3>2. loop[c][s].k \in Acts(c)
      BY <3>1, TypedWorker DEF At
    <3>3. node[c][loop[c][s].k] = "RUNNING" /\ loop[c][s].v = ver[c][loop[c][s].k] /\ OnlySore(c, loop[c][s].k)
      BY <3>1 DEF Focus
    <3>4. \A j \in Acts(c) : Sore(c, j)' => j = loop[c][s].k
      BY <1>3, <3>3 DEF OnlySore
    <3> QED
      BY <3>1, <3>2, <3>3, <3>4 DEF Same
  <2>5. \A p \in polls' : p.s[1] = c /\ Live(p)' =>
          /\ p.at = "done" => Healthy(c)'
          /\ p.at # "done" => node'[c][p.s[2]] = "RUNNING"
    BY <1>4, <1>5 DEF Focus, Same
  <2> QED
    BY <2>1, <2>2, <2>3, <2>4, <2>5 DEF Focus, OnlySore
<1> QED
  BY <1>4, <1>7, <1>8, <1>9 DEF BranchOK

\* A step of branch b does not touch another.
LEMMA SameElsewhere ==
    ASSUME Typed, NEW b \in Branches, BranchStep(b), NEW c \in Branches, c # b
    PROVE  Same(c) /\ row'[c] = row[c] /\ (c \in arrived' => c \in arrived)
<1>1. ASSUME NEW s \in Slots, NEW w, Worker(b, s, w)
      PROVE  \A t \in Slots : loop'[c][t] = loop[c][t]
  BY <1>1 DEF Worker
<1>2. ASSUME NEW k \in Acts(b), NEW x
      PROVE  /\ NodeIs(b, k, x) => \A j \in Acts(c) : node'[c][j] = node[c][j]
             /\ VersionIs(b, k, x) => \A j \in Acts(c) : ver'[c][j] = ver[c][j]
             /\ RowIs(b, x) => row'[c] = row[c]
  BY DEF NodeIs, VersionIs, RowIs
<1>3. CASE Take(b)
  <2>1. PICK m \in queue, asleep \in BOOLEAN :
          /\ queue' = queue \ {m}
          /\ RowIs(b, [alive |-> row[b].alive, asleep |-> asleep, k |-> row[b].k])
          /\ UNCHANGED loop \/ \E s \in Slots : \E w : Worker(b, s, w)
          /\ UNCHANGED <<node, ver, rootVars, scheduleVars, callVars, arrived>>
    BY <1>3, TakeEffect
  <2> QED
    BY <1>1, <2>1 DEF Same, RowIs, scheduleVars
<1>4. ASSUME NEW s \in Slots, Go(b, s)
      PROVE  Same(c) /\ row'[c] = row[c] /\ (c \in arrived' => c \in arrived)
  <2>1. PICK k \in Acts(b) :
          /\ UNCHANGED node \/ NodeIs(b, k, "RUNNING")
          /\ UNCHANGED ver \/ \E x : VersionIs(b, k, x)
          /\ UNCHANGED row \/ \E x : RowIs(b, x)
          /\ \E w : Worker(b, s, w)
          /\ UNCHANGED <<queue, scheduleVars, arrived>>
    BY <1>4, GoEffect
  <2> QED
    BY <1>1, <1>2, <2>1 DEF Same, RowIs, scheduleVars
<1>5. ASSUME NEW s \in Slots, Execute(b, s)
      PROVE  Same(c) /\ row'[c] = row[c] /\ (c \in arrived' => c \in arrived)
  <2> DEFINE k == loop[b][s].k
             v == loop[b][s].v
  <2>1. /\ k \in Acts(b)
        /\ UNCHANGED node \/ \E x : NodeIs(b, k, x)
        /\ UNCHANGED polls \/ polls' = polls \union {[s |-> <<b, k, v>>, at |-> "sent"]}
        /\ \E w : Worker(b, s, w)
        /\ UNCHANGED <<ver, row, queue, arrived>>
    BY <1>5, ExecuteEffect
  <2>2. \A p \in polls' : p.s[1] = c => p \in polls
    BY <2>1
  <2> QED
    BY <1>1, <1>2, <2>1, <2>2 DEF Same
<1>6. ASSUME NEW s \in Slots,
             \/ SeeRevoked(b, s) \/ Adjust(b, s) \/ Block(b, s) \/ Sleep(b, s)
             \/ Ack(b, s) \/ WakeParent(b, s) \/ BlockParent(b, s) \/ Destroy(b, s) \/ Die(b, s)
      PROVE  Same(c) /\ row'[c] = row[c] /\ (c \in arrived' => c \in arrived)
  <2>1. /\ UNCHANGED <<node, ver, queue, polls>> /\ arrived' \subseteq arrived \union {b}
        /\ Sleep(b, s) \/ Destroy(b, s) \/ UNCHANGED row
    BY <1>6 DEF SeeRevoked, Adjust, Block, Sleep, Ack, WakeParent, BlockParent, Destroy, Die, statusVars, scheduleVars
  <2>2. \E w : Worker(b, s, w)
    BY <1>6, WorkerEffect
  <2>3. row'[c] = row[c]
    <3>1. Sleep(b, s) \/ Destroy(b, s) => \E r : RowIs(b, r)
      BY WorkerEffect
    <3> QED
      BY <2>1, <3>1 DEF RowIs
  <2> QED
    BY <1>1, <2>1, <2>2, <2>3 DEF Same
<1>7. CASE Schedules(b)
  <2>1. PICK p \in polls :
          /\ p.s[1] = b /\ p.s[2] \in Acts(b)
          /\ UNCHANGED node \/ \E x : NodeIs(b, p.s[2], x)
          /\ PollLeaves(p) \/ \E at \in PollAt : PollGoes(p, at)
          /\ UNCHANGED queue \/ queue' = queue \union {[to |-> b, as |-> "wake_from_schedule", k |-> p.s[2]]}
          /\ UNCHANGED <<ver, row, loop, arrived>>
    BY <1>7, SchedulesEffect, ZenonT(60) DEF PollAt
  <2>2. \A q \in polls' : q.s[1] = c => q \in polls
    BY <2>1 DEF PollLeaves, PollGoes
  <2>3. \A m \in queue' : m.to = c => m \in queue
    BY <2>1
  <2> QED
    BY <1>2, <2>1, <2>2, <2>3 DEF Same
<1>8. CASE Cure(b)
  <2>1. PICK k \in Acts(b) : FailNode(b, k) /\ UNCHANGED <<loop, scheduleVars, arrived>>
    BY <1>8, CureEffect
  <2>2. /\ NodeIs(b, k, "FAILED") /\ VersionIs(b, k, ver[b][k] + 1)
        /\ RowIs(b, [alive |-> TRUE, asleep |-> TRUE, k |-> k]) /\ queue' \subseteq queue
    BY <2>1, FailEffect
  <2> QED
    BY <1>2, <2>1, <2>2 DEF Same, RowIs, scheduleVars
<1>9. CASE Retry(b)
  <2>1. PICK k \in Acts(b) :
          /\ NodeIs(b, k, "READY") /\ VersionIs(b, k, ver[b][k] + 1)
          /\ queue' = queue \union {[to |-> b, as |-> "process_wake_up", k |-> NoNode]}
          /\ UNCHANGED <<row, loop, scheduleVars, arrived>>
    BY <1>9, RetryEffect
  <2>2. \A m \in queue' : m.to = c => m \in queue
    BY <2>1
  <2> QED
    BY <1>2, <2>1, <2>2 DEF Same, scheduleVars
<1> QED
  BY <1>3, <1>4, <1>5, <1>6, <1>7, <1>8, <1>9, ProcessSteps DEF BranchStep

\* A new version makes no poll live again.
LEMMA DeadStays ==
    ASSUME Typed, NEW b \in Branches, NEW k \in Acts(b),
           \/ UNCHANGED ver
           \/ VersionIs(b, k, ver[b][k]) \/ VersionIs(b, k, ver[b][k] + 1),
           NEW p \in polls
    PROVE  /\ Live(p)' => Live(p)
           /\ VersionIs(b, k, ver[b][k] + 1) /\ p.s[1] = b /\ p.s[2] = k /\ Live(p)' => p.at = "done"
<1>1. p.s[1] \in Branches /\ p.s[2] \in Acts(p.s[1]) /\ p.s[3] \in Nat
  BY TypedPoll
<1>2. p.s[3] <= ver[p.s[1]][p.s[2]] /\ ver[p.s[1]][p.s[2]] \in Nat
  BY <1>1, TypeParts DEF Typed, PollsOK, VersionType
<1>3. ver'[p.s[1]][p.s[2]] = p.s[3] => ver[p.s[1]][p.s[2]] = p.s[3]
  <2>1. ver'[p.s[1]][p.s[2]] \in {ver[p.s[1]][p.s[2]], ver[p.s[1]][p.s[2]] + 1}
    BY <1>1 DEF VersionIs
  <2> QED
    BY <1>1, <1>2, <2>1
<1>4. VersionIs(b, k, ver[b][k] + 1) /\ p.s[1] = b /\ p.s[2] = k => ver'[p.s[1]][p.s[2]] # p.s[3]
  BY <1>1, <1>2 DEF VersionIs
<1> QED
  BY <1>3, <1>4 DEF Live

\* A worker of the branch is no longer active, and nothing else is different.
LEMMA BranchLess ==
    ASSUME Typed, NEW b \in Branches, BranchOK(b), NEW s \in Slots, NEW w, Worker(b, s, w),
           w.pc \notin {"loop", "execute"}, w.pc \in {"wake", "fence"} => Leaving(b, s),
           UNCHANGED <<node, ver, queue, polls, arrived, root, api>>
    PROVE  BranchOK(b)'
<1>1. /\ \A t \in Slots : Active(b, t)' => Active(b, t) /\ loop'[b][t] = loop[b][t]
      /\ \A t \in Slots : Leaving(b, t)' => Leaving(b, t)
      /\ \A t \in Slots : \A pc \in {"loop", "execute"} : At(b, t, pc)' => At(b, t, pc) /\ loop'[b][t] = loop[b][t]
  BY DEF Active, Leaving, Worker, At
<1>2. /\ \A k \in Acts(b) : Sore(b, k)' <=> Sore(b, k)
      /\ Healthy(b)' <=> Healthy(b)
      /\ \A k \in Acts(b) : OnlySore(b, k)' <=> OnlySore(b, k)
  BY DEF Sore, Healthy, OnlySore
<1>3. /\ NoMessage(b)' <=> NoMessage(b)
      /\ NoActive(b) => NoActive(b)'
      /\ NoLive(b)' <=> NoLive(b)
      /\ \A p \in polls : Live(p)' <=> Live(p)
  BY <1>1 DEF NoMessage, NoActive, NoLive, Live
<1>4. Excl(b) => Excl(b)'
  BY <1>1, <1>3 DEF Excl
<1>5. Gone(b) => Gone(b)'
  BY <1>1, <1>3 DEF Gone
<1>6. Focus(b) => Focus(b)'
  <2> SUFFICES ASSUME Focus(b) PROVE Focus(b)'
    OBVIOUS
  <2>1. /\ \A j, k \in Acts(b) : Sore(b, j)' /\ Sore(b, k)' => j = k
        /\ NoMessage(b)' \/ Healthy(b)'
        /\ \A t \in Slots : At(b, t, "loop")' => Healthy(b)'
    BY <1>1, <1>2, <1>3 DEF Focus
  <2>2. ASSUME NEW t \in Slots, At(b, t, "execute")'
        PROVE  /\ node'[b][loop'[b][t].k] = "RUNNING" /\ loop'[b][t].v = ver'[b][loop'[b][t].k]
               /\ \A j \in Acts(b) : Sore(b, j)' => j = loop'[b][t].k
    BY <1>1, <1>2, <2>2 DEF Focus, OnlySore
  <2>3. \A p \in polls' : p.s[1] = b /\ Live(p)' =>
          /\ p.at = "done" => Healthy(b)'
          /\ p.at # "done" => node'[b][p.s[2]] = "RUNNING"
    BY <1>2, <1>3 DEF Focus
  <2> QED
    BY <2>1, <2>2, <2>3 DEF Focus, OnlySore
<1>7. Regular' <=> Regular
  BY DEF Regular
<1> QED
  BY <1>2, <1>4, <1>5, <1>6, <1>7 DEF BranchOK

\* What may be assumed of a branch before it takes a step of its own.
Ready(b) == Typed /\ Typed' /\ Rooted /\ BranchOK(b)

LEMMA BranchWorkers ==
    ASSUME NEW b \in Branches, NEW s \in Slots, Ready(b),
           \/ SeeRevoked(b, s) \/ Adjust(b, s) \/ Block(b, s) \/ Sleep(b, s)
           \/ WakeParent(b, s) \/ BlockParent(b, s) \/ Destroy(b, s) \/ Die(b, s)
    PROVE  BranchOK(b)'
<1>1. UNCHANGED <<node, ver, queue, polls, arrived, root, api>>
  BY DEF SeeRevoked, Adjust, Block, Sleep, WakeParent, BlockParent, Destroy, Die, statusVars, rootVars, scheduleVars, callVars
<1>2. \E w : /\ Worker(b, s, w) /\ w.pc \notin {"loop", "execute"}
             /\ w.pc \in {"wake", "fence"} => Leaving(b, s)
  <2>1. CASE SeeRevoked(b, s) \/ Sleep(b, s) \/ Destroy(b, s) \/ Die(b, s)
    <3>1. Worker(b, s, NoWorker)
      BY <2>1, WorkerEffect DEF Ready
    <3>2. NoWorker.pc = "idle"
      BY DEF NoWorker
    <3> QED
      BY <3>1, <3>2
  <2>2. CASE Adjust(b, s) \/ Block(b, s) \/ BlockParent(b, s)
    <3>1. PICK pc \in {"block", "sleep", "destroy"} : Worker(b, s, [pc |-> pc, k |-> loop[b][s].k, v |-> loop[b][s].v])
      BY <2>2, WorkerEffect DEF Ready
    <3> QED
      BY <3>1
  <2>3. CASE WakeParent(b, s)
    <3>1. Leaving(b, s)
      BY <2>3 DEF WakeParent, At, Leaving
    <3>2. PICK pc \in {"fence", "destroy"} : Worker(b, s, [pc |-> pc, k |-> loop[b][s].k, v |-> loop[b][s].v])
      BY <2>3, WorkerEffect DEF Ready
    <3> QED
      BY <3>1, <3>2
  <2> QED
    BY <2>1, <2>2, <2>3
<1> QED
  BY <1>1, <1>2, BranchLess DEF Ready

LEMMA BranchAck ==
    ASSUME NEW b \in Branches, NEW s \in Slots, Ready(b), Ack(b, s)
    PROVE  BranchOK(b)'
<1>1. /\ At(b, s, "loop") /\ Worker(b, s, [pc |-> "wake", k |-> loop[b][s].k, v |-> loop[b][s].v])
      /\ UNCHANGED <<node, ver, queue, polls, root, api>> /\ arrived' = arrived \union {b}
  BY WorkerEffect DEF Ready, Ack, statusVars, scheduleVars, callVars
<1>2. Active(b, s)
  BY <1>1 DEF Active, At
<1>3. NoMessage(b) /\ NoLive(b) /\ \A t \in Slots : Active(b, t) => t = s
  BY <1>2 DEF Ready, BranchOK, Excl, NoActive
<1>4. ~(Regular /\ b \in arrived)
  BY <1>2 DEF Ready, BranchOK, Gone, NoActive
<1>5. NoMessage(b)' /\ NoLive(b)' /\ (Regular' <=> Regular) /\ \A p \in polls : Live(p)' <=> Live(p)
  BY <1>1, <1>3 DEF NoMessage, NoLive, Live, Regular
<1>6. NoActive(b)'
  BY <1>1, <1>3 DEF NoActive, Active, Worker
<1>7. Excl(b)'
  BY <1>1, <1>5, <1>6 DEF Excl, NoMessage, NoActive, NoLive
<1>8. Regular' => Gone(b)'
  <2> SUFFICES ASSUME Regular' PROVE Gone(b)'
    OBVIOUS
  <2>1. b \notin arrived
    BY <1>4, <1>5
  <2>2. \A t \in Slots : ~Leaving(b, t)
    BY <2>1 DEF Ready, Typed, WorkersOK, Leaving
  <2>3. \A t, u \in Slots : Leaving(b, t)' /\ Leaving(b, u)' => t = u
    BY <1>1, <2>2 DEF Leaving, Worker
  <2> QED
    BY <1>5, <1>6, <2>3 DEF Gone
<1>9. ASSUME api' = "idle" PROVE Focus(b)' /\ Healthy(b)'
  <2>1. Focus(b) /\ Healthy(b)
    BY <1>1, <1>9 DEF Ready, BranchOK, Focus
  <2>2. Healthy(b)'
    BY <1>1, <2>1 DEF Healthy, Sore
  <2>3. \A t \in Slots : ~At(b, t, "loop")' /\ ~At(b, t, "execute")'
    BY <1>6 DEF NoActive, Active, At
  <2> QED
    BY <1>5, <2>2, <2>3 DEF Focus, Healthy, NoLive
<1> QED
  BY <1>1, <1>7, <1>8, <1>9 DEF BranchOK

LEMMA BranchTake ==
    ASSUME NEW b \in Branches, Ready(b), Take(b)
    PROVE  BranchOK(b)'
<1>1. PICK m \in queue :
        /\ m.to = b /\ queue' = queue \ {m}
        /\ \/ UNCHANGED loop
           \/ \E s \in Slots : Worker(b, s, [pc |-> "loop", k |-> EntersAt(b, m), v |-> 0])
        /\ UNCHANGED <<node, ver, polls, root, api, arrived>>
  BY TakeEffect DEF Ready, rootVars, scheduleVars, callVars
<1>2. NoActive(b) /\ NoLive(b) /\ ~NoMessage(b)
  BY <1>1 DEF Ready, BranchOK, Excl, NoMessage
<1>3. ~(Regular /\ b \in arrived)
  BY <1>2 DEF Ready, BranchOK, Gone
<1>4. NoMessage(b)'
  BY <1>1 DEF Ready, BranchOK, Excl, NoMessage
<1>5. NoLive(b)' /\ (Regular' <=> Regular)
  BY <1>1, <1>2 DEF NoLive, Live, Regular
<1>6. PICK s \in Slots : \A t \in Slots : /\ Active(b, t)' => t = s
                                          /\ ~At(b, t, "execute")'
  <2>1. CASE UNCHANGED loop
    <3>1. \A t \in Slots : ~Active(b, t)' /\ ~At(b, t, "execute")'
      BY <1>2, <2>1 DEF NoActive, Active, At
    <3> QED
      BY <3>1 DEF Slots
  <2>2. CASE ~ UNCHANGED loop
    <3>1. PICK s \in Slots : Worker(b, s, [pc |-> "loop", k |-> EntersAt(b, m), v |-> 0])
      BY <1>1, <2>2
    <3>2. \A t \in Slots : loop'[b][t] = loop[b][t] \/ (t = s /\ loop'[b][t].pc = "loop")
      BY <3>1 DEF Worker
    <3> QED
      BY <1>2, <3>2 DEF NoActive, Active, At
  <2> QED
    BY <2>1, <2>2
<1>7. Excl(b)'
  BY <1>4, <1>5, <1>6 DEF Excl, NoMessage, NoLive
<1>8. ASSUME api' = "idle" PROVE Focus(b)'
  <2>1. Focus(b) /\ Healthy(b)
    BY <1>1, <1>2, <1>8 DEF Ready, BranchOK, Focus
  <2>2. Healthy(b)'
    BY <1>1, <2>1 DEF Healthy, Sore
  <2> QED
    BY <1>4, <1>5, <1>6, <2>2 DEF Focus, NoLive, Healthy
<1> QED
  BY <1>1, <1>3, <1>5, <1>7, <1>8 DEF BranchOK

LEMMA BranchGo ==
    ASSUME NEW b \in Branches, NEW s \in Slots, Ready(b), Go(b, s)
    PROVE  BranchOK(b)'
<1> DEFINE k == loop[b][s].k
<1>1. /\ At(b, s, "loop") /\ k \in Acts(b)
      /\ \/ /\ NodeIs(b, k, "RUNNING")
            /\ VersionIs(b, k, IF node[b][k] = "FINISHED" THEN ver[b][k] + 1 ELSE ver[b][k])
            /\ Worker(b, s, [pc |-> "execute", k |-> k, v |-> ver'[b][k]])
         \/ /\ node[b][k] \in {"RUNNING", "FAILED"}
            /\ Worker(b, s, [pc |-> "adjust", k |-> k, v |-> loop[b][s].v])
            /\ UNCHANGED <<node, ver>>
      /\ UNCHANGED <<queue, polls, root, api, arrived>>
  BY GoEffect DEF Ready, rootVars, scheduleVars, callVars
<1> HIDE DEF k
<1>2. Active(b, s)
  BY <1>1 DEF Active, At
<1>3. NoMessage(b) /\ NoLive(b) /\ \A t \in Slots : Active(b, t) => t = s
  BY <1>2 DEF Ready, BranchOK, Excl, NoActive
<1>4. ~(Regular /\ b \in arrived)
  BY <1>2 DEF Ready, BranchOK, Gone, NoActive
<1>5. \A p \in polls : Live(p)' => Live(p)
  BY <1>1, DeadStays DEF Ready
<1>6. NoMessage(b)' /\ NoLive(b)' /\ (Regular' <=> Regular)
  BY <1>1, <1>3, <1>5 DEF NoMessage, NoLive, Regular
<1>7. \A t \in Slots : /\ Active(b, t)' => t = s
                       /\ ~At(b, t, "loop")'
  BY <1>1, <1>3 DEF Active, Worker, At
<1>8. Excl(b)'
  BY <1>6, <1>7 DEF Excl, NoMessage, NoLive
<1>9. ASSUME api' = "idle" PROVE Focus(b)'
  <2>1. Healthy(b)
    BY <1>1, <1>9 DEF Ready, BranchOK, Focus
  <2>2. ~Sore(b, k)
    BY <1>1, <2>1 DEF Healthy
  <2>3. /\ NodeIs(b, k, "RUNNING")
        /\ Worker(b, s, [pc |-> "execute", k |-> k, v |-> ver'[b][k]])
    BY <1>1, <2>2 DEF Sore
  <2>4. \A j \in Acts(b) : Sore(b, j)' => j = k
    BY <2>1, <2>3 DEF NodeIs, Sore, Healthy
  <2>5. \A t \in Slots : At(b, t, "execute")' => t = s /\ loop'[b][t].k = k /\ loop'[b][t].v = ver'[b][k]
    BY <1>7, <2>3 DEF At, Active, Worker
  <2>6. node'[b][k] = "RUNNING"
    BY <1>1, <2>3 DEF NodeIs
  <2> QED
    BY <1>6, <1>7, <2>4, <2>5, <2>6 DEF Focus, NoLive, OnlySore
<1> QED
  BY <1>1, <1>4, <1>6, <1>8, <1>9 DEF BranchOK

LEMMA BranchExecute ==
    ASSUME NEW b \in Branches, NEW s \in Slots, Ready(b), Execute(b, s)
    PROVE  BranchOK(b)'
<1> DEFINE k == loop[b][s].k
           v == loop[b][s].v
           id == <<b, k, v>>
<1>1. /\ At(b, s, "execute") /\ k \in Acts(b)
      /\ \/ /\ NodeIs(b, k, IF node[b][k] = "RUNNING" THEN "FINISHED" ELSE node[b][k])
            /\ Worker(b, s, [pc |-> "loop", k |-> k + 1, v |-> 0])
            /\ UNCHANGED polls
         \/ /\ NodeIs(b, k, IF node[b][k] \in {"RUNNING", "FINISHED"} THEN "FAILED" ELSE node[b][k])
            /\ Worker(b, s, [pc |-> "adjust", k |-> k, v |-> v])
            /\ UNCHANGED polls
         \/ /\ polls' = polls \union {[s |-> id, at |-> "sent"]}
            /\ Worker(b, s, [pc |-> "adjust", k |-> k, v |-> v])
            /\ UNCHANGED node
      /\ UNCHANGED <<ver, root, queue, api, arrived>>
  BY ExecuteEffect DEF Ready, rootVars, callVars
<1>2. Active(b, s)
  BY <1>1 DEF Active, At
<1>3. NoMessage(b) /\ NoLive(b) /\ \A t \in Slots : Active(b, t) => t = s
  BY <1>2 DEF Ready, BranchOK, Excl, NoActive
<1>4. ~(Regular /\ b \in arrived)
  BY <1>2 DEF Ready, BranchOK, Gone, NoActive
<1>5. \A p \in polls : Live(p)' <=> Live(p)
  BY <1>1 DEF Live
<1>6. NoMessage(b)' /\ (Regular' <=> Regular)
  BY <1>1, <1>3 DEF NoMessage, Regular
<1>7. api' = "idle" => /\ node[b][k] = "RUNNING" /\ v = ver[b][k] /\ OnlySore(b, k)
  BY <1>1 DEF Ready, BranchOK, Focus
<1>8. id[1] = b /\ id[2] = k /\ id[3] = v
  OBVIOUS
<1> HIDE DEF k, v, id
<1>9. \A t \in Slots : (Active(b, t)' => t = s) /\ ~At(b, t, "execute")'
  BY <1>1, <1>3 DEF Active, Worker, At
<1>10. CASE UNCHANGED polls
  <2>1. NoLive(b)'
    BY <1>3, <1>5, <1>10 DEF NoLive
  <2>2. Excl(b)'
    BY <1>6, <1>9, <2>1 DEF Excl, NoMessage, NoLive
  <2>3. ASSUME api' = "idle" PROVE Focus(b)'
    <3>1. PICK x \in {"RUNNING", "FINISHED", "FAILED"} : NodeIs(b, k, x) /\ (x = "FINISHED" \/ \A t \in Slots : ~At(b, t, "loop")')
      <4>1. node[b][k] = "RUNNING"
        BY <1>7, <2>3
      <4>2. CASE Worker(b, s, [pc |-> "adjust", k |-> k, v |-> v])
        <5>1. \A t \in Slots : ~At(b, t, "loop")'
          BY <1>3, <4>2 DEF Worker, At, Active
        <5>2. NodeIs(b, k, "FAILED") \/ NodeIs(b, k, "FINISHED") \/ UNCHANGED node
          BY <1>1, <4>1
        <5>3. UNCHANGED node => NodeIs(b, k, "RUNNING")
          BY <1>1, <4>1 DEF NodeIs
        <5> QED
          BY <5>1, <5>2, <5>3
      <4>3. CASE NodeIs(b, k, "FINISHED")
        BY <4>3
      <4> QED
        BY <1>1, <4>1, <4>2, <4>3
    <3>2. \A j \in Acts(b) : Sore(b, j)' => j = k /\ x # "FINISHED"
      BY <1>1, <1>7, <2>3, <3>1 DEF NodeIs, Sore, OnlySore
    <3>3. \A t \in Slots : At(b, t, "loop")' => Healthy(b)'
      BY <3>1, <3>2 DEF Healthy
    <3> QED
      BY <1>6, <1>9, <2>1, <3>2, <3>3 DEF Focus, NoLive
  <2> QED
    BY <1>1, <1>4, <1>6, <2>2, <2>3 DEF BranchOK
<1>11. CASE ~ UNCHANGED polls
  <2>1. /\ polls' = polls \union {[s |-> id, at |-> "sent"]}
        /\ Worker(b, s, [pc |-> "adjust", k |-> k, v |-> v])
        /\ UNCHANGED node
    BY <1>1, <1>11
  <2>2. NoActive(b)'
    BY <1>3, <2>1 DEF NoActive, Active, Worker
  <2>3. \A p \in polls' : p.s[1] = b /\ Live(p)' => p = [s |-> id, at |-> "sent"]
    BY <1>3, <1>5, <2>1 DEF NoLive
  <2>4. Excl(b)'
    BY <1>6, <2>2, <2>3 DEF Excl, NoMessage, NoActive
  <2>5. ASSUME api' = "idle" PROVE Focus(b)'
    <3>1. \A j \in Acts(b) : Sore(b, j)' => j = k
      BY <1>7, <2>1, <2>5 DEF Sore, OnlySore
    <3>2. \A t \in Slots : ~At(b, t, "loop")'
      BY <2>2 DEF NoActive, Active, At
    <3>3. \A p \in polls' : p.s[1] = b /\ Live(p)' => p.at # "done" /\ node'[b][p.s[2]] = "RUNNING"
      BY <1>7, <1>8, <2>1, <2>3, <2>5
    <3> QED
      BY <1>6, <1>9, <3>1, <3>2, <3>3 DEF Focus
  <2> QED
    BY <1>1, <1>4, <1>6, <2>4, <2>5 DEF BranchOK
<1> QED
  BY <1>10, <1>11

LEMMA BranchSchedules ==
    ASSUME NEW b \in Branches, Ready(b), Schedules(b)
    PROVE  BranchOK(b)'
<1>1. PICK p \in polls :
        /\ p.s[1] = b /\ p.s[2] \in Acts(b)
        /\ LET k == p.s[2]
           IN  \/ /\ p.at = "sent" /\ PollGoes(p, "polling") /\ UNCHANGED <<node, queue>>
               \/ /\ p.at = "polling" /\ PollGoes(p, "sent") /\ UNCHANGED <<node, queue>>
               \/ /\ p.at = "polling" /\ ver[b][k] = p.s[3] /\ node[b][k] = "RUNNING"
                  /\ NodeIs(b, k, "FINISHED") /\ PollGoes(p, "done") /\ UNCHANGED queue
               \/ /\ p.at = "polling" /\ ver[b][k] = p.s[3] /\ node[b][k] \in {"RUNNING", "FINISHED"}
                  /\ NodeIs(b, k, "FAILED") /\ PollGoes(p, "failed") /\ UNCHANGED queue
               \/ PollLeaves(p) /\ UNCHANGED <<node, queue>>
               \/ /\ p.at = "done" /\ PollLeaves(p) /\ UNCHANGED node
                  /\ queue' = queue \union {[to |-> b, as |-> "wake_from_schedule", k |-> k]}
        /\ UNCHANGED <<ver, root, loop, api, arrived>>
  <2>1. UNCHANGED <<ver, root, loop, api, arrived>>
    BY SchedulesEffect DEF Ready, rootVars, callVars
  <2> QED
    BY <2>1, SchedulesEffect DEF Ready
<1> DEFINE k == p.s[2]
<1>11. \/ ((PollGoes(p, "polling") /\ p.at = "sent") \/ (PollGoes(p, "sent") /\ p.at = "polling")) /\ UNCHANGED <<node, queue>>
       \/ /\ p.at = "polling" /\ ver[b][k] = p.s[3] /\ node[b][k] = "RUNNING"
          /\ NodeIs(b, k, "FINISHED") /\ PollGoes(p, "done") /\ UNCHANGED queue
       \/ /\ p.at = "polling" /\ ver[b][k] = p.s[3] /\ NodeIs(b, k, "FAILED")
          /\ PollGoes(p, "failed") /\ UNCHANGED queue
       \/ PollLeaves(p) /\ UNCHANGED <<node, queue>>
       \/ /\ p.at = "done" /\ PollLeaves(p) /\ UNCHANGED node
          /\ queue' = queue \union {[to |-> b, as |-> "wake_from_schedule", k |-> k]}
  BY <1>1
<1>2. BranchOK(b) /\ Typed
  BY DEF Ready
<1>3. /\ Regular' <=> Regular
      /\ \A q \in polls : Live(q)' <=> Live(q)
      /\ \A t \in Slots : (Active(b, t)' <=> Active(b, t)) /\ (Leaving(b, t)' <=> Leaving(b, t))
      /\ NoActive(b)' <=> NoActive(b)
      /\ \A t \in Slots : \A pc : At(b, t, pc)' <=> At(b, t, pc)
  BY <1>1 DEF Regular, Live, Active, Leaving, NoActive, At
<1> HIDE DEF k
<1>4. \A t \in Slots : At(b, t, "loop") \/ At(b, t, "execute") => Active(b, t)
  BY DEF At, Active
\* a poll that was live comes back live, or one that was not as it was
<1>5. ASSUME NEW at \in {"sent", "polling", "done"}, PollGoes(p, at), Live([s |-> p.s, at |-> at])' => Live(p),
             UNCHANGED queue
      PROVE  /\ Excl(b)' /\ (Gone(b) => Gone(b)')
             /\ \A q \in polls' : q.s[1] = b /\ Live(q)' => (Live(p) /\ q = [s |-> p.s, at |-> at]) \/ (Live(q) /\ q \in polls)
             /\ Live(p) => \A q \in polls' : q.s[1] = b /\ Live(q)' => q = [s |-> p.s, at |-> at]
  <2>1. \A q \in polls' : (q \in polls /\ q # p) \/ q = [s |-> p.s, at |-> at]
    BY <1>5 DEF PollGoes
  <2>2. \A q \in polls' : q.s[1] = b /\ Live(q)' => (Live(p) /\ q = [s |-> p.s, at |-> at]) \/ (Live(q) /\ q \in polls)
    BY <1>3, <1>5, <2>1
  <2>3. Live(p) => \A q \in polls' : q.s[1] = b /\ Live(q)' => q = [s |-> p.s, at |-> at]
    BY <1>1, <1>2, <1>3, <2>1 DEF BranchOK, Excl
  <2>4. NoLive(b) => NoLive(b)'
    BY <1>1, <2>2 DEF NoLive
  <2>5. NoMessage(b)' <=> NoMessage(b)
    BY <1>5 DEF NoMessage
  <2>6. \A q, r \in polls' : q.s[1] = b /\ r.s[1] = b /\ Live(q)' /\ Live(r)' => q = r
    <3>1. CASE Live(p)
      BY <2>3, <3>1
    <3>2. CASE ~Live(p)
      <4>1. \A q \in polls' : q.s[1] = b /\ Live(q)' => Live(q) /\ q \in polls
        BY <2>2, <3>2
      <4> QED
        BY <1>2, <4>1 DEF BranchOK, Excl
    <3> QED
      BY <3>1, <3>2
  <2>7. Excl(b)'
    BY <1>2, <1>3, <1>5, <2>4, <2>5, <2>6 DEF BranchOK, Excl
  <2>8. Gone(b) => Gone(b)'
    BY <1>3, <2>4, <2>5 DEF Gone
  <2> QED
    BY <2>2, <2>3, <2>7, <2>8
<1>6. CASE ((PollGoes(p, "polling") /\ p.at = "sent") \/ (PollGoes(p, "sent") /\ p.at = "polling")) /\ UNCHANGED <<node, queue>>
  <2>1. PICK at \in {"sent", "polling"} : PollGoes(p, at) /\ p.at # "done" /\ p.at \in {"sent", "polling"}
    BY <1>6
  <2>2. Live([s |-> p.s, at |-> at])' => Live(p)
    BY <1>1, <2>1 DEF Live
  <2>3. /\ Excl(b)' /\ (Gone(b) => Gone(b)')
        /\ \A q \in polls' : q.s[1] = b /\ Live(q)' => (Live(p) /\ q = [s |-> p.s, at |-> at]) \/ (Live(q) /\ q \in polls)
    BY <1>5, <1>6, <2>1, <2>2
  <2>4. ASSUME Focus(b) PROVE Focus(b)'
    <3>1. (Healthy(b)' <=> Healthy(b)) /\ (NoMessage(b)' <=> NoMessage(b))
          /\ \A j \in Acts(b) : (Sore(b, j)' <=> Sore(b, j))
      BY <1>6 DEF Healthy, Sore, NoMessage
    <3>2. \A q \in polls' : q.s[1] = b /\ Live(q)' =>
            /\ q.at = "done" => Healthy(b)'
            /\ q.at # "done" => node'[b][q.s[2]] = "RUNNING"
      <4>1. Live(p) => node[b][p.s[2]] = "RUNNING"
        BY <1>1, <2>1, <2>4 DEF Focus
      <4> QED
        BY <1>6, <2>1, <2>3, <2>4, <3>1, <4>1 DEF Focus
    <3>3. \A t \in Slots : At(b, t, "execute")' =>
            /\ node'[b][loop'[b][t].k] = "RUNNING" /\ loop'[b][t].v = ver'[b][loop'[b][t].k]
            /\ \A j \in Acts(b) : Sore(b, j)' => j = loop'[b][t].k
      BY <1>1, <1>3, <1>6, <2>4, <3>1 DEF Focus, OnlySore
    <3> QED
      BY <1>3, <2>4, <3>1, <3>2, <3>3 DEF Focus, OnlySore
  <2>5. Healthy(b)' <=> Healthy(b)
    BY <1>6 DEF Healthy, Sore
  <2> QED
    BY <1>1, <1>2, <1>3, <2>3, <2>4, <2>5 DEF BranchOK
<1>7. CASE /\ p.at = "polling" /\ ver[b][k] = p.s[3] /\ node[b][k] = "RUNNING"
           /\ NodeIs(b, k, "FINISHED") /\ PollGoes(p, "done") /\ UNCHANGED queue
  <2>1. Live(p)
    BY <1>1, <1>7 DEF Live, k
  <2>2. /\ Excl(b)' /\ (Gone(b) => Gone(b)')
        /\ \A q \in polls' : q.s[1] = b /\ Live(q)' => q = [s |-> p.s, at |-> "done"]
    BY <1>5, <1>7, <2>1
  <2>3. NoMessage(b) /\ NoActive(b) /\ ~(Regular /\ b \in arrived)
    BY <1>1, <1>2, <2>1 DEF BranchOK, Excl, Gone, NoLive
  <2>4. ASSUME Focus(b) PROVE Focus(b)'
    <3>1. \A j \in Acts(b) : Sore(b, j) => j = k
      BY <1>1, <1>7, <2>4 DEF Focus, Sore, k
    <3>2. Healthy(b)'
      BY <1>7, <3>1 DEF NodeIs, Healthy, Sore
    <3>3. \A t \in Slots : ~At(b, t, "loop")' /\ ~At(b, t, "execute")'
      BY <1>3, <1>4, <2>3 DEF NoActive
    <3>4. \A q \in polls' : q.s[1] = b /\ Live(q)' => q.at = "done"
      BY <2>2
    <3> QED
      BY <3>2, <3>3, <3>4 DEF Focus, Healthy
  <2> QED
    BY <1>1, <1>2, <1>3, <2>2, <2>3, <2>4 DEF BranchOK
<1>8. CASE /\ p.at = "polling" /\ ver[b][k] = p.s[3] /\ NodeIs(b, k, "FAILED")
           /\ PollGoes(p, "failed") /\ UNCHANGED queue
  <2>1. Live(p)
    BY <1>1, <1>8 DEF Live, k
  <2>2. NoMessage(b) /\ NoActive(b) /\ ~(Regular /\ b \in arrived)
        /\ \A q \in polls : q.s[1] = b /\ Live(q) => q = p
    BY <1>1, <1>2, <2>1 DEF BranchOK, Excl, Gone, NoLive
  <2>3. \A q \in polls' : (q \in polls /\ q # p) \/ q.at = "failed"
    BY <1>8 DEF PollGoes
  <2>4. NoLive(b)'
    BY <1>3, <2>2, <2>3 DEF NoLive, Live
  <2>5. NoMessage(b)' /\ NoActive(b)'
    BY <1>3, <1>8, <2>2 DEF NoMessage
  <2>6. Excl(b)'
    BY <2>4, <2>5 DEF Excl, NoMessage, NoActive, NoLive
  <2>7. ASSUME Focus(b) PROVE Focus(b)'
    <3>1. node[b][k] = "RUNNING"
      BY <1>1, <1>8, <2>1, <2>7 DEF Focus, k
    <3>2. \A j \in Acts(b) : Sore(b, j)' => j = k
      BY <1>1, <1>8, <2>7, <3>1 DEF NodeIs, Focus, Sore, k
    <3>3. \A t \in Slots : ~At(b, t, "loop")' /\ ~At(b, t, "execute")'
      BY <1>3, <1>4, <2>2 DEF NoActive
    <3> QED
      BY <2>4, <2>5, <3>2, <3>3 DEF Focus, NoLive
  <2> QED
    BY <1>1, <1>2, <1>3, <2>2, <2>6, <2>7 DEF BranchOK
<1>9. CASE PollLeaves(p) /\ UNCHANGED <<node, queue>>
  <2>1. Same(b)
    BY <1>1, <1>9 DEF Same, PollLeaves
  <2> QED
    BY <1>1, <1>2, <1>3, <2>1, Elsewhere DEF Ready
<1>10. CASE /\ p.at = "done" /\ PollLeaves(p) /\ UNCHANGED node
            /\ queue' = queue \union {[to |-> b, as |-> "wake_from_schedule", k |-> k]}
  <2>1. Live(p)
    BY <1>10 DEF Live
  <2>2. NoMessage(b) /\ NoActive(b) /\ ~(Regular /\ b \in arrived)
        /\ \A q \in polls : q.s[1] = b /\ Live(q) => q = p
    BY <1>1, <1>2, <2>1 DEF BranchOK, Excl, Gone, NoLive
  <2>3. NoLive(b)' /\ NoActive(b)'
    BY <1>3, <1>10, <2>2 DEF NoLive, PollLeaves
  <2>4. \A m \in queue' : m.to = b => m = [to |-> b, as |-> "wake_from_schedule", k |-> k]
    BY <1>10, <2>2 DEF NoMessage
  <2>5. Excl(b)'
    BY <2>3, <2>4 DEF Excl, NoActive, NoLive
  <2>6. ASSUME Focus(b) PROVE Focus(b)'
    <3>1. Healthy(b)
      BY <1>1, <1>10, <2>1, <2>6 DEF Focus
    <3>2. Healthy(b)'
      BY <1>10, <3>1 DEF Healthy, Sore
    <3>3. \A t \in Slots : ~At(b, t, "loop")' /\ ~At(b, t, "execute")'
      BY <1>3, <1>4, <2>2 DEF NoActive
    <3> QED
      BY <2>3, <3>2, <3>3 DEF Focus, Healthy, NoLive
  <2> QED
    BY <1>1, <1>2, <1>3, <2>2, <2>5, <2>6 DEF BranchOK
<1> QED
  BY <1>6, <1>7, <1>8, <1>9, <1>10, <1>11

\* forced_fail and the zombie doctor leave nothing behind that could go on.
LEMMA BranchFailNode ==
    ASSUME NEW b \in Branches, NEW k \in Acts(b), Ready(b), FailNode(b, k),
           UNCHANGED <<root, loop, polls, api, arrived>>,
           api = "idle" => node[b][k] = "RUNNING" /\ \A s \in Slots : ~(At(b, s, "execute") /\ loop[b][s].k = k)
    PROVE  BranchOK(b)'
<1>1. /\ NodeIs(b, k, "FAILED") /\ VersionIs(b, k, ver[b][k] + 1) /\ queue' = {m \in queue : m.to # b}
  BY FailEffect DEF Ready
<1>2. BranchOK(b) /\ Typed
  BY DEF Ready
<1>3. /\ Regular' <=> Regular
      /\ \A t \in Slots : (Active(b, t)' <=> Active(b, t)) /\ (Leaving(b, t)' <=> Leaving(b, t))
      /\ NoActive(b)' <=> NoActive(b)
      /\ \A t \in Slots : \A pc : At(b, t, pc)' <=> At(b, t, pc)
  BY DEF Regular, Active, Leaving, NoActive, At
<1>4. \A q \in polls : /\ Live(q)' => Live(q)
                       /\ q.s[1] = b /\ q.s[2] = k /\ Live(q)' => q.at = "done"
  BY <1>1, <1>2, DeadStays
<1>5. NoMessage(b)' /\ (NoLive(b) => NoLive(b)')
  BY <1>1, <1>4 DEF NoMessage, NoLive
<1>6. Excl(b)'
  <2>1. \A s, t \in Slots : Active(b, s)' /\ Active(b, t)' => s = t
    BY <1>2, <1>3 DEF BranchOK, Excl
  <2>2. \A p, q \in polls' : p.s[1] = b /\ q.s[1] = b /\ Live(p)' /\ Live(q)' => p = q
    BY <1>2, <1>4 DEF BranchOK, Excl
  <2>3. NoActive(b)' \/ NoLive(b)'
    BY <1>2, <1>3, <1>5 DEF BranchOK, Excl
  <2> QED
    BY <1>5, <2>1, <2>2, <2>3 DEF Excl, NoMessage
<1>7. Gone(b) => Gone(b)'
  BY <1>3, <1>5 DEF Gone
<1>8. ASSUME api' = "idle" PROVE Focus(b)' /\ ~(Regular /\ b \in arrived)
  <2>1. Focus(b) /\ node[b][k] = "RUNNING" /\ (Regular /\ b \in arrived => Healthy(b))
        /\ \A s \in Slots : ~(At(b, s, "execute") /\ loop[b][s].k = k)
    BY <1>2, <1>8 DEF BranchOK
  <2>2. Sore(b, k) /\ ~Healthy(b)
    BY <2>1 DEF Sore, Healthy
  <2>3. \A j \in Acts(b) : Sore(b, j)' => j = k
    BY <1>1, <2>1, <2>2 DEF Focus, NodeIs, Sore
  <2>4. \A s \in Slots : ~At(b, s, "loop")' /\ ~At(b, s, "execute")'
    BY <1>3, <2>1, <2>2 DEF Focus, OnlySore
  <2>5. NoLive(b)'
    <3> SUFFICES ASSUME NEW p \in polls, p.s[1] = b, Live(p)' PROVE FALSE
      BY DEF NoLive
    <3>1. Live(p)
      BY <1>4
    <3>2. node[b][p.s[2]] = "RUNNING" /\ p.at # "done"
      BY <2>1, <2>2, <3>1 DEF Focus
    <3>3. p.s[2] \in Acts(b)
      BY <1>2, TypedPoll
    <3>4. p.s[2] = k
      BY <2>1, <2>2, <3>2, <3>3 DEF Focus, Sore
    <3> QED
      BY <1>4, <3>2, <3>4
  <2> QED
    BY <1>5, <2>1, <2>2, <2>3, <2>4, <2>5 DEF Focus, NoLive
<1> QED
  BY <1>2, <1>3, <1>6, <1>7, <1>8 DEF BranchOK

\* A retry finds nobody under way.
LEMMA BranchRetry ==
    ASSUME NEW b \in Branches, Ready(b), api # "done", Retry(b)
    PROVE  BranchOK(b)'
<1> DEFINE k == row[b].k
           wake == [to |-> b, as |-> "process_wake_up", k |-> NoNode]
<1>1. /\ api = "idle" /\ k \in Acts(b) /\ node[b][k] = "FAILED"
      /\ NodeIs(b, k, "READY") /\ VersionIs(b, k, ver[b][k] + 1)
      /\ queue' = queue \union {wake}
      /\ UNCHANGED <<root, loop, polls, api, arrived>>
  BY RetryEffect DEF Ready, rootVars, scheduleVars
<1> HIDE DEF k, wake
<1>2. BranchOK(b) /\ Focus(b) /\ Typed
  BY <1>1 DEF Ready, BranchOK
<1>3. Sore(b, k) /\ ~Healthy(b) /\ \A j \in Acts(b) : Sore(b, j) => j = k
  BY <1>1, <1>2 DEF Focus, Sore, Healthy
<1>4. NoMessage(b) /\ ~(Regular /\ b \in arrived)
  BY <1>1, <1>2, <1>3 DEF Focus, BranchOK
<1>5. NoActive(b)
  <2> SUFFICES ASSUME NEW s \in Slots, Active(b, s) PROVE FALSE
    BY DEF NoActive
  <2>1. At(b, s, "execute")
    BY <1>2, <1>3 DEF Focus, Active, At
  <2>2. loop[b][s].k \in Acts(b)
    BY <1>2, <2>1, TypedWorker DEF At
  <2> QED
    BY <1>1, <1>2, <1>3, <2>1, <2>2 DEF Focus, Sore
<1>6. NoLive(b)
  <2> SUFFICES ASSUME NEW p \in polls, p.s[1] = b, Live(p) PROVE FALSE
    BY DEF NoLive
  <2>1. node[b][p.s[2]] = "RUNNING"
    BY <1>2, <1>3 DEF Focus
  <2>2. p.s[2] \in Acts(b)
    BY <1>2, TypedPoll
  <2> QED
    BY <1>1, <1>3, <2>1, <2>2 DEF Sore
<1>7. NoLive(b)' /\ NoActive(b)' /\ (Regular' <=> Regular)
  <2>1. \A p \in polls : Live(p)' => Live(p)
    BY <1>1, <1>2, DeadStays
  <2> QED
    BY <1>1, <1>5, <1>6, <2>1 DEF NoLive, NoActive, Active, Regular
<1>8. \A m \in queue' : m.to = b => m = wake
  BY <1>1, <1>4 DEF NoMessage
<1>9. Excl(b)'
  BY <1>7, <1>8 DEF Excl, NoActive, NoLive
<1>10. Healthy(b)'
  BY <1>1, <1>3 DEF Healthy, Sore, NodeIs
<1>11. \A s \in Slots : ~At(b, s, "loop")' /\ ~At(b, s, "execute")'
  BY <1>7 DEF NoActive, Active, At
<1>12. Focus(b)'
  BY <1>7, <1>10, <1>11 DEF Focus, Healthy, NoLive
<1> QED
  BY <1>1, <1>4, <1>7, <1>9, <1>12 DEF BranchOK

LEMMA BranchStays ==
    ASSUME NEW b \in Branches, Ready(b), api # "done", BranchStep(b)
    PROVE  BranchOK(b)'
<1>1. CASE Cure(b)
  <2>1. /\ row[b].k \in Acts(b) /\ node[b][row[b].k] = "RUNNING"
        /\ \A s \in Slots : ~(At(b, s, "execute") /\ loop[b][s].k = row[b].k)
        /\ FailNode(b, row[b].k)
        /\ UNCHANGED <<root, loop, polls, api, arrived>>
    BY <1>1, CureEffect DEF Ready, rootVars, scheduleVars, callVars
  <2> QED
    BY <2>1, BranchFailNode
<1> QED
  BY <1>1, ProcessSteps, BranchWorkers, BranchAck, BranchTake, BranchGo, BranchExecute, BranchSchedules, BranchRetry
     DEF BranchStep

\* The root sends a branch off where nobody is.
LEMMA Dispatched ==
    ASSUME Typed, NEW c \in Branches, NoMessage(c), NoActive(c), NoLive(c), api = "idle" => Healthy(c),
           UNCHANGED <<node, ver, loop, polls, api>>, ~(Regular' /\ c \in arrived'),
           queue' = queue \union {[to |-> b, as |-> "dispatch", k |-> NoNode] : b \in Branches}
    PROVE  BranchOK(c)'
<1>1. NoActive(c)' /\ NoLive(c)'
  BY DEF NoActive, Active, NoLive, Live
<1>2. \A m \in queue' : m.to = c => m = [to |-> c, as |-> "dispatch", k |-> NoNode]
  BY DEF NoMessage
<1>3. Excl(c)'
  BY <1>1, <1>2 DEF Excl, NoActive, NoLive
<1>4. Healthy(c) => Healthy(c)'
  BY DEF Healthy, Sore
<1>5. \A s \in Slots : ~At(c, s, "loop")' /\ ~At(c, s, "execute")'
  BY <1>1 DEF NoActive, Active, At
<1>6. Healthy(c) => Focus(c)'
  BY <1>1, <1>4, <1>5 DEF Focus, Healthy, NoLive
<1> QED
  BY <1>3, <1>6 DEF BranchOK

LEMMA TokensInit == Init => TokensOK
<1> SUFFICES ASSUME Init PROVE TokensOK
  OBVIOUS
<1>1. CountOK
  BY DEF Init, CountOK
<1>2. ASSUME NEW b \in Branches PROVE BranchOK(b)
  <2>1. \A s \in Slots : loop[b][s].pc = "idle"
    BY DEF Init, NoWorker
  <2>2. Healthy(b)
    BY DEF Init, Healthy, Sore
  <2> QED
    BY <2>1, <2>2 DEF Init, BranchOK, Excl, Focus, NoMessage, NoActive, NoLive, Active, At, Healthy
<1> QED
  BY <1>1, <1>2 DEF TokensOK

LEMMA TokensRoot == ASSUME Typed, Typed', Rooted, TokensOK, Root PROVE TokensOK'
<1> SUFFICES ASSUME api' # "done" PROVE CountOK' /\ \A b \in Branches : BranchOK(b)'
  BY DEF TokensOK
<1>1. SharedType /\ root = [pc |-> root.pc, at |-> root.at]
  BY TypeParts DEF Typed, SharedType
<1>2. RootOK
  BY DEF Rooted
<1>3. UNCHANGED <<node, ver, ack, loop, polls, arrived, api>>
  BY DEF Root, Start, Fork, RootLoop, RootSleep, RootWakeUp, Sync, End, statusVars, scheduleVars, callVars
<1>4. CountOK /\ \A b \in Branches : BranchOK(b)
  BY <1>3 DEF TokensOK
<1>5. UNCHANGED need \/ (Fork /\ need' = Cardinality(Branches) /\ arrived = {} /\ ack = 0)
  <2>1. CASE Fork /\ ~ UNCHANGED need
    <3>1. root.pc = "loop" /\ root.at = "gateway" /\ need' = Cardinality(Branches)
      BY <1>1, <2>1 DEF Fork, RootLoop
    <3>2. Nothing
      BY <1>2, <3>1 DEF RootOK
    <3> QED
      BY <2>1, <3>1, <3>2 DEF Nothing
  <2> QED
    BY <2>1 DEF Root, Start, RootLoop, RootSleep, RootWakeUp, Sync, End
<1>6. CountOK'
  <2>1. Cardinality({}) = 0 /\ Cardinality(Branches) # -1
    BY FS_EmptySet, Count
  <2> QED
    BY <1>3, <1>4, <1>5, <2>1 DEF CountOK
<1>7. Regular' => Regular
  <2> SUFFICES ASSUME root.pc = "idle", root.at = "converge" PROVE FALSE
    BY <1>1 DEF Regular, Root
  <2>1. ~(calls > 0)
    BY <1>2 DEF RootOK
  <2> QED
    BY <1>1, <2>1 DEF Root, Start, Fork, Sync, End, RootLoop, RootSleep, RootWakeUp
<1>8. ASSUME NEW c \in Branches PROVE BranchOK(c)'
  <2>1. CASE UNCHANGED queue
    <3>1. Same(c)
      BY <1>3, <2>1 DEF Same
    <3> QED
      BY <1>3, <1>4, <1>7, <3>1, Elsewhere
  <2>2. CASE ~ UNCHANGED queue
    <3>1. /\ root.pc = "sleep" /\ root.at # "end" /\ root'.pc = "idle" /\ root'.at = root.at
          /\ queue' = queue \union {[to |-> b, as |-> "dispatch", k |-> NoNode] : b \in Branches}
      BY <1>1, <2>2 DEF Root, Start, Fork, Sync, End, RootLoop, RootSleep, RootWakeUp
    <3>2. CASE root.at = "gateway"
      <4>1. Nothing
        BY <1>2, <3>1, <3>2 DEF RootOK, Before
      <4>2. NoMessage(c) /\ NoActive(c) /\ NoLive(c) /\ Healthy(c) /\ arrived = {}
        BY <4>1 DEF Nothing, NoMessage, NoActive, NoLive, Healthy, Sore, Active, At
      <4> QED
        BY <1>3, <3>1, <4>2, Dispatched
    <3>3. CASE root.at = "converge"
      <4>1. arrived = Branches
        BY <1>2, <1>4, <3>3 DEF RootOK, CountOK
      <4>2. NoMessage(c) /\ NoActive(c) /\ NoLive(c) /\ (api = "idle" => Healthy(c)) /\ ~Regular'
        BY <1>4, <3>1, <3>3, <4>1 DEF BranchOK, Regular, Gone
      <4> QED
        BY <1>3, <3>1, <4>2, Dispatched
    <3> QED
      BY <1>1, <3>1, <3>2, <3>3 DEF SharedType
  <2> QED
    BY <2>1, <2>2
<1> QED
  BY <1>6, <1>8

\* Those who have acknowledged are counted; that all are means all have.
LEMMA AllArrived == ASSUME TypeOK, Cardinality(arrived) = Cardinality(Branches) PROVE arrived = Branches
<1>1. arrived \subseteq Branches
  BY DEF TypeOK
<1> SUFFICES ASSUME arrived # Branches PROVE FALSE
  OBVIOUS
<1>2. PICK b \in Branches : b \notin arrived
  BY <1>1
<1>3. IsFiniteSet(Branches \ {b}) /\ Cardinality(Branches \ {b}) = Cardinality(Branches) - 1
  BY BranchesAssumption, FS_RemoveElement
<1>4. arrived \subseteq Branches \ {b}
  BY <1>1, <1>2
<1>5. Cardinality(arrived) <= Cardinality(Branches \ {b})
  BY <1>3, <1>4, FS_Subset
<1> QED
  BY <1>3, <1>5, Count

LEMMA CountStays ==
    ASSUME Typed, Rooted, CountOK, NEW b \in Branches, BranchOK(b), BranchStep(b)
    PROVE  CountOK'
<1>1. SharedType /\ RootOK
  BY TypeParts DEF Typed, Rooted
<1>2. CASE UNCHANGED <<need, ack, arrived>>
  BY <1>2 DEF CountOK
<1>3. ASSUME NEW s \in Slots, Ack(b, s) PROVE CountOK'
  <2>1. At(b, s, "loop") /\ UNCHANGED need /\ ack' = ack + 1 /\ arrived' = arrived \union {b}
    BY <1>3 DEF Ack
  <2>2. ~(Regular /\ b \in arrived)
    BY <2>1 DEF BranchOK, Gone, NoActive, Active, At
  <2>3. ~Before
    BY <1>1, <2>1 DEF RootOK, Nothing, At
  <2>4. ASSUME need # -1 PROVE ack' = Cardinality(arrived')
    <3>1. b \notin arrived
      BY <1>1, <2>2, <2>4 DEF RootOK, Regular
    <3>2. IsFiniteSet(arrived)
      BY <1>1, BranchesAssumption, FS_Subset DEF SharedType
    <3>3. Cardinality(arrived') = Cardinality(arrived) + 1
      BY <2>1, <3>1, <3>2, FS_AddElement
    <3> QED
      BY <2>1, <2>4, <3>3 DEF CountOK
  <2>5. need = -1 => arrived' = Branches
    BY <1>1, <2>1, <2>3 DEF CountOK, Before, SharedType
  <2> QED
    BY <2>1, <2>4, <2>5 DEF CountOK
<1>4. ASSUME NEW s \in Slots, WakeParent(b, s) PROVE CountOK'
  <2>1. UNCHANGED arrived /\ \/ UNCHANGED <<need, ack>>
                             \/ need # -1 /\ ack = need /\ need' = -1
    BY <1>4 DEF WakeParent
  <2>2. need # -1 /\ ack = need => arrived = Branches
    BY <1>1, AllArrived DEF CountOK, SharedType, Typed
  <2> QED
    BY <2>1, <2>2 DEF CountOK
<1> QED
  BY <1>2, <1>3, <1>4, BranchFrame

LEMMA TokensBranch ==
    ASSUME Typed, Typed', Rooted, TokensOK, NEW b \in Branches, BranchStep(b)
    PROVE  TokensOK'
<1> SUFFICES ASSUME api' # "done" PROVE CountOK' /\ \A c \in Branches : BranchOK(c)'
  BY DEF TokensOK
<1>1. UNCHANGED <<root, api>>
  BY BranchFrame
<1>2. CountOK /\ \A c \in Branches : BranchOK(c)
  BY <1>1 DEF TokensOK
<1>3. BranchOK(b)'
  BY <1>1, <1>2, BranchStays DEF Ready
<1>4. ASSUME NEW c \in Branches, c # b PROVE BranchOK(c)'
  BY <1>1, <1>2, <1>4, SameElsewhere, Elsewhere DEF Regular
<1> QED
  BY <1>2, <1>3, <1>4, CountStays

LEMMA TokensCall ==
    ASSUME Typed, Typed', Rooted, TokensOK, Revoke \/ ForcedFail \/ RevokePipeline \/ DestroyAll
    PROVE  TokensOK'
<1> SUFFICES ASSUME api' # "done" PROVE CountOK' /\ \A b \in Branches : BranchOK(b)'
  BY DEF TokensOK
<1>1. UNCHANGED <<root, need, ack, arrived, loop, polls>> /\ api # "done" /\ (api' = "idle" => api = "idle")
  <2>1. ForcedFail => UNCHANGED <<root, need, ack, arrived, loop, polls, api>>
    BY ForcedFailEffect DEF rootVars
  <2> QED
    BY <2>1 DEF Revoke, RevokePipeline, DestroyAll, rootVars, scheduleVars
<1>2. CountOK /\ \A b \in Branches : BranchOK(b)
  BY <1>1 DEF TokensOK
<1>3. CountOK'
  BY <1>1, <1>2 DEF CountOK
<1>4. Regular' <=> Regular
  BY <1>1 DEF Regular
<1>5. CASE UNCHANGED <<node, ver, queue>>
  <2>1. \A c \in Branches : Same(c)
    BY <1>1, <1>5 DEF Same
  <2> QED
    BY <1>1, <1>2, <1>3, <1>4, <2>1, Elsewhere
<1>6. CASE ForcedFail /\ ~ UNCHANGED <<node, ver, queue>>
  <2>1. PICK b \in Branches : \E k \in Acts(b) : <<b, k>> \in todo /\ FailNode(b, k) /\ UNCHANGED api
    BY <1>6, ForcedFailEffect DEF statusVars
  <2>2. PICK k \in Acts(b) : <<b, k>> \in todo /\ FailNode(b, k) /\ UNCHANGED api
    BY <2>1
  <2>3. api = "failing"
    BY <2>2 DEF Rooted, StatusOK
  <2>4. BranchOK(b)'
    BY <1>1, <1>2, <2>2, <2>3, BranchFailNode DEF Ready
  <2>5. /\ NodeIs(b, k, "FAILED") /\ VersionIs(b, k, ver[b][k] + 1) /\ queue' = {m \in queue : m.to # b}
    BY <2>2, FailEffect
  <2>6. \A c \in Branches : c # b => Same(c)
    BY <1>1, <2>5 DEF Same, NodeIs, VersionIs
  <2> QED
    BY <1>1, <1>2, <1>3, <1>4, <2>4, <2>6, Elsewhere
<1> QED
  BY <1>5, <1>6 DEF Revoke, RevokePipeline, DestroyAll, statusVars

LEMMA TokensStep == Typed /\ Typed' /\ Rooted /\ TokensOK /\ [Next]_vars => TokensOK'
<1> SUFFICES ASSUME Typed, Typed', Rooted, TokensOK, [Next]_vars PROVE TokensOK'
  OBVIOUS
<1>1. CASE UNCHANGED vars
  <2>1. UNCHANGED <<node, ver, queue, loop, polls, root, api, arrived, need, ack>>
    BY <1>1 DEF vars, statusVars, rootVars, scheduleVars, callVars
  <2>2. \A c \in Branches : Same(c)
    BY <2>1 DEF Same
  <2>3. Regular' <=> Regular
    BY <2>1 DEF Regular
  <2>4. CountOK => CountOK'
    BY <2>1 DEF CountOK
  <2> QED
    BY <2>1, <2>2, <2>3, <2>4, Elsewhere DEF TokensOK
<1> QED
  BY <1>1, TokensRoot, TokensBranch, TokensCall, Steps

LEMMA TokensAlways == Spec => []TokensOK
  BY TypedAlways, RootedAlways, TokensInit, TokensStep, PTL DEF Spec
-----------------------------------------------------------------------------
(***************************************************************************)
(* PipelineProcess implements ForkJoin.                                    *)
(***************************************************************************)
LEMMA StageIs ==
    /\ pipeline = "REVOKED" => Stage = "stopped"
    /\ pipeline # "REVOKED" /\ (pipeline = "FINISHED" \/ api = "done") => Stage = "finished"
    /\ pipeline \notin {"REVOKED", "FINISHED"} /\ api # "done" =>
          Stage = IF need # -1 THEN "forked" ELSE IF arrived = {} THEN "before" ELSE "joined"
    /\ pipeline' = "REVOKED" => Stage' = "stopped"
    /\ pipeline' # "REVOKED" /\ (pipeline' = "FINISHED" \/ api' = "done") => Stage' = "finished"
    /\ pipeline' \notin {"REVOKED", "FINISHED"} /\ api' # "done" =>
          Stage' = IF need' # -1 THEN "forked" ELSE IF arrived' = {} THEN "before" ELSE "joined"
  BY DEF Stage, TooLate

\* A pipeline that has finished is not set going again by a branch, but for a retry
\* that a late revoke has made possible.
LEMMA FinishedStays ==
    ASSUME Typed, Rooted, TokensOK, NEW b \in Branches, BranchStep(b)
    PROVE  /\ pipeline' = "REVOKED" <=> pipeline = "REVOKED"
           /\ api # "done" => (pipeline' = "FINISHED" <=> pipeline = "FINISHED")
<1>1. SharedType
  BY TypeParts DEF Typed
<1>2. PICK to \in {"RUNNING", "BLOCKED", "READY"} : pipeline' = pipeline \/ pipeline' = Pipeline(to)
  BY BranchFrame
<1>3. pipeline' = "REVOKED" <=> pipeline = "REVOKED"
  BY <1>1, <1>2, PipelineMoves
<1>4. pipeline' = "FINISHED" => pipeline = "FINISHED"
  BY <1>1, <1>2, PipelineMoves
<1>5. ASSUME api # "done", pipeline = "FINISHED" PROVE pipeline' = "FINISHED"
  <2>1. root.pc = "idle" /\ root.at = "end" /\ need = -1 /\ arrived # {}
    BY <1>5 DEF Rooted, StatusOK, RootOK
  <2>2. arrived = Branches /\ BranchOK(b) /\ Regular
    BY <1>5, <2>1 DEF TokensOK, CountOK, Regular
  <2>3. NoMessage(b)
    BY <2>2 DEF BranchOK, Gone
  <2>4. ~Take(b)
    BY <2>3 DEF Take, NoMessage
  <2>5. pipeline' \in {pipeline, Pipeline("BLOCKED"), Pipeline("READY")}
    <3>1. ASSUME NEW s \in Slots,
                 \/ SeeRevoked(b, s) \/ Go(b, s) \/ Adjust(b, s) \/ Block(b, s) \/ Sleep(b, s)
                 \/ BlockParent(b, s) \/ Destroy(b, s) \/ Die(b, s) \/ Ack(b, s) \/ WakeParent(b, s)
          PROVE  pipeline' = pipeline \/ pipeline' = Pipeline("BLOCKED")
      BY <3>1 DEF SeeRevoked, Go, Adjust, Block, Sleep, BlockParent, Destroy, Die, Ack, WakeParent, statusVars
    <3>2. ASSUME NEW s \in Slots, Execute(b, s) PROVE pipeline' = pipeline
      BY <3>2, ExecuteEffect
    <3>3. Schedules(b) => pipeline' \in {pipeline, Pipeline("BLOCKED")}
      BY SchedulesEffect
    <3>4. Cure(b) \/ Retry(b) => pipeline' \in {Pipeline("BLOCKED"), Pipeline("READY")}
      BY CureEffect, RetryEffect DEF FailNode
    <3> QED
      BY <2>4, <3>1, <3>2, <3>3, <3>4, ProcessSteps DEF BranchStep
  <2> QED
    BY <1>1, <1>5, <2>5, PipelineMoves
<1> QED
  BY <1>3, <1>4, <1>5

LEMMA ForkJoinRoot == ASSUME Typed, Rooted, Root PROVE [FJ!Next]_(FJ!vars)
<1>1. SharedType /\ root = [pc |-> root.pc, at |-> root.at]
  BY TypeParts DEF Typed, SharedType
<1>2. RootOK /\ StatusOK
  BY DEF Rooted
<1>3. UNCHANGED <<arrived, api>>
  BY DEF Root, Start, Fork, RootLoop, RootSleep, RootWakeUp, Sync, End, callVars
<1>4. CASE UNCHANGED Stage
  BY <1>3, <1>4 DEF FJ!vars
<1>5. CASE Start
  <2>1. /\ pipeline \in {"READY", "RUNNING", "REVOKED"}
        /\ pipeline' = pipeline \/ pipeline' = Pipeline("RUNNING")
        /\ UNCHANGED need
    BY <1>1, <1>2, <1>5 DEF Start, RootOK
  <2>2. (pipeline' = "REVOKED" <=> pipeline = "REVOKED") /\ pipeline' # "FINISHED" /\ pipeline # "FINISHED"
    BY <1>1, <2>1, PipelineMoves
  <2>3. UNCHANGED Stage
    BY <1>3, <2>1, <2>2, StageIs
  <2> QED
    BY <1>4, <2>3
<1>6. CASE Fork
  <2>1. /\ Before /\ pipeline \in {"READY", "RUNNING", "REVOKED"}
        /\ UNCHANGED pipeline
        /\ UNCHANGED need \/ (pipeline # "REVOKED" /\ need' = Cardinality(Branches))
    BY <1>1, <1>2, <1>6 DEF Fork, RootLoop, RootOK
  <2>2. CASE UNCHANGED need
    BY <1>3, <1>4, <2>1, <2>2, StageIs
  <2>3. CASE api = "done"
    BY <1>3, <1>4, <2>1, <2>3, StageIs
  <2>4. CASE ~ UNCHANGED need /\ api # "done"
    <3>1. Stage = "before" /\ Stage' = "forked"
      BY <1>3, <2>1, <2>4, StageIs, Count DEF Before
    <3> QED
      BY <1>3, <3>1 DEF FJ!Next, FJ!Fork
  <2> QED
    BY <2>2, <2>3, <2>4
<1>7. CASE End
  <2>1. /\ root.pc = "loop" /\ need = -1 /\ arrived # {} /\ UNCHANGED need
        /\ pipeline' = pipeline \/ pipeline' = Pipeline("FINISHED")
    BY <1>1, <1>2, <1>7 DEF End, RootLoop, RootOK
  <2>2. pipeline' = pipeline \/ (pipeline = "RUNNING" /\ pipeline' = "FINISHED")
    BY <1>1, <2>1, PipelineMoves
  <2>3. CASE pipeline' = pipeline \/ api = "done"
    BY <1>3, <1>4, <2>1, <2>2, <2>3, StageIs
  <2>4. CASE pipeline = "RUNNING" /\ pipeline' = "FINISHED" /\ api # "done"
    <3>1. Stage = "joined" /\ Stage' = "finished"
      BY <1>3, <2>1, <2>4, StageIs
    <3> QED
      BY <1>3, <3>1 DEF FJ!Next, FJ!Finish
  <2> QED
    BY <2>2, <2>3, <2>4
<1>8. CASE Sync \/ RootSleep \/ RootWakeUp
  <2>1. UNCHANGED <<pipeline, need>>
    BY <1>8 DEF Sync, RootLoop, RootSleep, RootWakeUp, statusVars
  <2> QED
    BY <1>3, <1>4, <2>1 DEF Stage, TooLate
<1> QED
  BY <1>5, <1>6, <1>7, <1>8 DEF Root

LEMMA ForkJoinBranch ==
    ASSUME Typed, Rooted, TokensOK, NEW b \in Branches, BranchStep(b)
    PROVE  [FJ!Next]_(FJ!vars)
<1>1. /\ pipeline' = "REVOKED" <=> pipeline = "REVOKED"
      /\ api # "done" => (pipeline' = "FINISHED" <=> pipeline = "FINISHED")
      /\ UNCHANGED api
  BY FinishedStays, BranchFrame
<1>2. CASE UNCHANGED <<need, arrived>>
  <2>1. UNCHANGED Stage
    BY <1>1, <1>2, StageIs
  <2> QED
    BY <1>2, <2>1 DEF FJ!vars
<1>3. ASSUME NEW s \in Slots, Ack(b, s) PROVE [FJ!Next]_(FJ!vars)
  <2>1. At(b, s, "loop") /\ UNCHANGED <<need, pipeline>> /\ arrived' = arrived \union {b}
    BY <1>3 DEF Ack, statusVars
  <2>2. ~Before
    BY <2>1 DEF Rooted, RootOK, Nothing, At
  <2>3. UNCHANGED Stage /\ Stage # "before"
    BY <1>1, <2>1, <2>2, StageIs DEF Before
  <2>4. CASE b \in arrived
    BY <2>1, <2>3, <2>4 DEF FJ!vars
  <2>5. CASE b \notin arrived
    <3>1. Branches \ arrived' = (Branches \ arrived) \ {b} /\ b \in Branches \ arrived
      BY <2>1, <2>5
    <3>2. (Branches \ arrived)' = (Branches \ arrived) \ {b}
      BY <3>1
    <3> QED
      BY <2>3, <3>1, <3>2 DEF FJ!Next, FJ!Arrive
  <2> QED
    BY <2>4, <2>5
<1>4. ASSUME NEW s \in Slots, WakeParent(b, s) PROVE [FJ!Next]_(FJ!vars)
  <2>1. UNCHANGED <<arrived, pipeline>> /\ \/ UNCHANGED need
                                           \/ need # -1 /\ ack = need /\ need' = -1
    BY <1>4 DEF WakeParent, statusVars
  <2>2. CASE UNCHANGED need
    BY <1>2, <2>1, <2>2
  <2>3. CASE api = "done" \/ pipeline \in {"REVOKED", "FINISHED"}
    <3>1. UNCHANGED Stage
      BY <1>1, <2>1, <2>3, StageIs
    <3> QED
      BY <2>1, <3>1 DEF FJ!vars
  <2>4. CASE /\ need # -1 /\ ack = need /\ need' = -1
             /\ api # "done" /\ pipeline \notin {"REVOKED", "FINISHED"}
    <3>1. SharedType
      BY TypeParts DEF Typed
    <3>2. arrived = Branches
      BY <2>4, <3>1, AllArrived DEF TokensOK, CountOK, SharedType, Typed
    <3>3. Branches # {}
      BY BranchesAssumption
    <3>4. Stage = "forked" /\ Stage' = "joined"
      BY <1>1, <2>1, <2>4, <3>2, <3>3, StageIs
    <3> QED
      BY <2>1, <3>2, <3>4 DEF FJ!Next, FJ!Join
  <2> QED
    BY <2>1, <2>2, <2>3, <2>4
<1> QED
  BY <1>2, <1>3, <1>4, BranchFrame

LEMMA ForkJoinCall ==
    ASSUME Typed, Rooted, Revoke \/ ForcedFail \/ RevokePipeline \/ DestroyAll
    PROVE  [FJ!Next]_(FJ!vars)
<1>1. SharedType /\ StatusOK
  BY TypeParts DEF Typed, Rooted
<1>2. CASE ForcedFail
  <2>1. UNCHANGED <<need, arrived, api>> /\ (pipeline' = pipeline \/ pipeline' = Pipeline("BLOCKED"))
    BY <1>2, ForcedFailEffect DEF FailNode, statusVars, rootVars
  <2>2. (pipeline' = "REVOKED" <=> pipeline = "REVOKED") /\ (pipeline' = "FINISHED" <=> pipeline = "FINISHED")
    BY <1>1, <2>1, PipelineMoves DEF SharedType
  <2>3. UNCHANGED Stage
    BY <2>1, <2>2, StageIs
  <2> QED
    BY <2>1, <2>3 DEF FJ!vars
<1>3. CASE Revoke
  <2>1. UNCHANGED <<need, arrived, pipeline>> /\ api # "done" /\ api' # "done"
    BY <1>3 DEF Revoke, statusVars, rootVars
  <2>2. UNCHANGED Stage
    BY <2>1, StageIs
  <2> QED
    BY <2>1, <2>2 DEF FJ!vars
<1>4. CASE RevokePipeline
  <2>1. /\ UNCHANGED <<need, arrived>> /\ api = "failing"
        /\ \/ /\ "REVOKED" \in AppointPipelineTransition[pipeline]
              /\ pipeline' = "REVOKED" /\ api' = "destroying"
           \/ /\ "REVOKED" \notin AppointPipelineTransition[pipeline]
              /\ pipeline' = pipeline /\ api' = "done"
    BY <1>4 DEF RevokePipeline, rootVars
  <2>2. "REVOKED" \in AppointPipelineTransition[pipeline] <=> pipeline \in {"READY", "RUNNING", "BLOCKED"}
    BY <1>1 DEF SharedType, AppointPipelineTransition
  <2>3. CASE pipeline \in {"READY", "RUNNING", "BLOCKED"}
    <3>1. Stage \in {"before", "forked", "joined"} /\ Stage' = "stopped"
      BY <2>1, <2>2, <2>3, StageIs
    <3> QED
      BY <2>1, <3>1 DEF FJ!Next, FJ!Stop
  <2>4. CASE pipeline \notin {"READY", "RUNNING", "BLOCKED"}
    <3>1. pipeline = "FINISHED"
      BY <1>1, <2>1, <2>4 DEF SharedType, StatusOK
    <3>2. UNCHANGED Stage
      BY <2>1, <2>2, <3>1, StageIs
    <3> QED
      BY <2>1, <3>2 DEF FJ!vars
  <2> QED
    BY <2>3, <2>4
<1>5. CASE DestroyAll
  <2>1. UNCHANGED <<need, arrived, pipeline>> /\ api = "destroying"
    BY <1>5 DEF DestroyAll, statusVars
  <2>2. UNCHANGED Stage
    BY <1>1, <2>1, StageIs DEF StatusOK
  <2> QED
    BY <2>1, <2>2 DEF FJ!vars
<1> QED
  BY <1>2, <1>3, <1>4, <1>5

\* Every step is a step of the barrier, or none.
LEMMA ForkJoinStep == Typed /\ Rooted /\ TokensOK /\ [Next]_vars => [FJ!Next]_(FJ!vars)
<1> SUFFICES ASSUME Typed, Rooted, TokensOK, [Next]_vars PROVE [FJ!Next]_(FJ!vars)
  OBVIOUS
<1>1. CASE UNCHANGED vars
  BY <1>1 DEF vars, statusVars, rootVars, callVars, FJ!vars, Stage, TooLate
<1> QED
  BY <1>1, ForkJoinRoot, ForkJoinBranch, ForkJoinCall, Steps

\* Whatever fails, is retried, dies or is revoked: the gateway forks once, is passed
\* once, when every branch has arrived, and the pipeline finishes after that and is
\* revoked for good.
THEOREM PipelineImplementsForkJoin == Spec => ImplementsForkJoin
<1>1. Init => FJ!Init
  <2> SUFFICES ASSUME Init PROVE FJ!Init
    OBVIOUS
  <2>1. Stage = "before"
    BY StageIs DEF Init
  <2> QED
    BY <2>1 DEF Init, FJ!Init
<1> QED
  BY <1>1, TypedAlways, RootedAlways, TokensAlways, ForkJoinStep, PTL DEF Spec, ImplementsForkJoin, FJ!Spec
=============================================================================
