----------------------- MODULE ResourceWatch_proofs -----------------------
(***************************************************************************)
(* Proofs about ResourceWatch, for any number of watchers and appliers.    *)
(***************************************************************************)
EXTENDS ResourceWatch, SequenceTheorems, TLAPS

\* Unless one was late, who works in a loop, or is about to renew, has its lease.
LeaseInv ==
    ~late => \A p \in Procs : pc[p] \in Working \union {"renew"} => LeaseOf(p) = Owned(p)

\* Unless an event was missed, all up to a cursor that is or may come to be used
\* again are recorded: the one in the cache, those kept in the arguments, the one
\* about to be written, and the one to which a process without a cursor fetched.
CursorInv ==
    ~missed =>
        /\ 1 .. cursor \subseteq Recorded
        /\ \A p \in Procs : 1 .. kwargs[p] \subseteq Recorded
        /\ \A p \in Procs :
              pc[p] = "recorded" \/ (pc[p] = "fetched" /\ kwargs[p] = None)
                  => 1 .. have[p] \subseteq Recorded

IInv == TypeOK /\ LeaseInv /\ CursorInv
-----------------------------------------------------------------------------
\* What Record appends is the run of events from one cursor to another.
LEMMA RunOfEvents ==
    ASSUME NEW m \in Nat, NEW k \in 0 .. m, NEW h \in 0 .. m
    PROVE  \E t \in Seq(1 .. m) :
              /\ t = [i \in 1 .. (h - k) |-> k + i]
              /\ Len(t) \in Nat /\ h - k <= Len(t)
              /\ \A i \in 1 .. Len(t) : t[i] = k + i
<1>1. PICK n \in Nat : h - k <= n /\ 1 .. (h - k) = 1 .. n
  <2>1. CASE h <= k
    BY <2>1, 1 .. (h - k) = 1 .. 0
  <2>2. CASE h > k
    BY <2>2, h - k \in Nat
  <2> QED
    BY <2>1, <2>2
<1>2. \A i \in 1 .. n : k + i \in 1 .. m
  <2> SUFFICES ASSUME NEW i \in 1 .. n PROVE k + i \in 1 .. m
    OBVIOUS
  <2>1. i \in 1 .. (h - k)
    BY <1>1
  <2> QED
    BY <2>1
<1>3. [i \in 1 .. n |-> k + i] \in [1 .. n -> 1 .. m]
  BY <1>2
<1>4. [i \in 1 .. (h - k) |-> k + i] = [i \in 1 .. n |-> k + i]
  BY <1>1
<1>5. /\ [i \in 1 .. n |-> k + i] \in Seq(1 .. m)
      /\ Len([i \in 1 .. n |-> k + i]) = n
      /\ \A j \in 1 .. n : [i \in 1 .. n |-> k + i][j] = k + j
  BY <1>2, <1>3
<1> QED
  BY <1>1, <1>4, <1>5

\* To append such a run keeps what was there and adds the events of the run.
LEMMA Appended ==
    ASSUME NEW m \in Nat, NEW s \in Seq(1 .. m), NEW t \in Seq(1 .. m),
           NEW k \in 0 .. m, \A i \in 1 .. Len(t) : t[i] = k + i
    PROVE  /\ s \o t \in Seq(1 .. m)
           /\ Len(s \o t) >= Len(s)
           /\ \A i \in 1 .. Len(s) : (s \o t)[i] = s[i]
           /\ \A e \in (k + 1) .. (k + Len(t)) : \E i \in 1 .. Len(s \o t) : (s \o t)[i] = e
<1>1. Len(s) \in Nat /\ Len(t) \in Nat
  BY LenProperties
<1>2. /\ s \o t \in Seq(1 .. m)
      /\ Len(s \o t) = Len(s) + Len(t)
      /\ \A i \in 1 .. Len(s) + Len(t) : (s \o t)[i] = IF i <= Len(s) THEN s[i] ELSE t[i - Len(s)]
  BY ConcatProperties
<1>3. ASSUME NEW e \in (k + 1) .. (k + Len(t))
      PROVE  \E i \in 1 .. Len(s \o t) : (s \o t)[i] = e
  <2>1. Len(s) + (e - k) \in 1 .. Len(s \o t) /\ e - k \in 1 .. Len(t)
    BY <1>1, <1>2, <1>3
  <2>2. (s \o t)[Len(s) + (e - k)] = t[e - k]
    BY <1>1, <1>2, <2>1
  <2>3. t[e - k] = e
    <3>1. t[e - k] = k + (e - k)
      BY <2>1, Zenon
    <3> QED
      BY <1>3, <3>1
  <2> QED
    BY <2>1, <2>2, <2>3
<1>4. \A i \in 1 .. Len(s) : (s \o t)[i] = s[i]
  BY <1>1, <1>2
<1> QED
  BY <1>1, <1>2, <1>3, <1>4
-----------------------------------------------------------------------------
\* TypeOK in two parts: the leases, and the rest.
LeaseType ==
    /\ lease \in [Loops -> [key : Procs \union {Nobody}, stale : BOOLEAN]]
    /\ \A l \in Loops : lease[l].key = Nobody \/ LoopOf(lease[l].key) = l

PlaceType ==
    /\ pc \in [Procs -> Working \union {"loop", "renew", "delete", "asleep"}]
    /\ have \in [Procs -> Nat]
    /\ \A p \in Procs : pc[p] \in {"picked", "handled"} => have[p] \in 1 .. Len(records)
    /\ \A p \in Procs : pc[p] \in {"fetched", "recorded"} => have[p] \in 0 .. source

DataType ==
    /\ kwargs \in [Procs -> {None} \union 0 .. source]
    /\ cursor \in {None} \union 0 .. source
    /\ source \in 0 .. MaxEvents
    /\ records \in Seq(1 .. source)
    /\ applied \subseteq 1 .. Len(records)
    /\ mirror \in 0 .. source
    /\ mishaps \in 0 .. MaxMishaps /\ late \in BOOLEAN /\ missed \in BOOLEAN

\* The parts are all of it.
LEMMA TypeParts == TypeOK <=> LeaseType /\ PlaceType /\ DataType
BY DEF TypeOK, LeaseType, PlaceType, DataType

\* A process belongs to one of the two loops.
LEMMA LoopOfProc == \A p \in Procs : LoopOf(p) \in Loops
BY DEF LoopOf, Loops

\* Whatever a process writes to its lease is one of its own or none.
LEMMA LeaseWrite ==
    ASSUME LeaseType, NEW p \in Procs, NEW k \in {p, Nobody}, NEW b \in BOOLEAN,
           SetLease(p, [key |-> k, stale |-> b])
    PROVE  LeaseType'
<1>1. LoopOf(p) \in Loops
  BY LoopOfProc
<1>2. lease' \in [Loops -> [key : Procs \union {Nobody}, stale : BOOLEAN]]
  BY <1>1 DEF LeaseType, SetLease
<1>3. ASSUME NEW l \in Loops PROVE lease'[l].key = Nobody \/ LoopOf(lease'[l].key) = l
  <2>1. CASE l = LoopOf(p)
    BY <1>1, <2>1 DEF LeaseType, SetLease
  <2>2. CASE l # LoopOf(p)
    BY <1>1, <2>2 DEF LeaseType, SetLease
  <2> QED
    BY <2>1, <2>2
<1> QED
  BY <1>2, <1>3 DEF LeaseType

\* TypeOK holds initially.
LEMMA TypeInit == Init => TypeOK
<1> SUFFICES ASSUME Init PROVE TypeOK
  OBVIOUS
<1> PICK w \in Watchers, a \in Appliers :
        /\ lease = [l \in Loops |-> [key |-> IF l = "watch" THEN w ELSE a, stale |-> FALSE]]
        /\ pc = [p \in Procs |-> IF p \in {w, a} THEN "own" ELSE "loop"]
        /\ have = [p \in Procs |-> 0]
        /\ kwargs = [p \in Procs |-> IF p = w THEN 0 ELSE None]
  BY DEF Init
<1>1. LeaseType
  <2>1. w \in Procs /\ a \in Procs /\ LoopOf(w) = "watch" /\ LoopOf(a) = "apply"
    BY ProcessesAssumption DEF Procs, LoopOf
  <2> QED
    BY <2>1 DEF LeaseType, Loops
<1>2. PlaceType
  BY DEF PlaceType, Working
<1>3. DataType
  <2>1. kwargs \in [Procs -> {None} \union 0 .. 0]
    BY DEF None
  <2>2. /\ cursor = 0 /\ source = 0 /\ records = <<>> /\ applied = {} /\ mirror = 0
        /\ mishaps = 0 /\ late = FALSE /\ missed = FALSE
    BY DEF Init
  <2>3. records \in Seq(1 .. source)
    BY <2>2, EmptySeq
  <2>4. applied \subseteq 1 .. Len(records) /\ late \in BOOLEAN /\ missed \in BOOLEAN
    BY <2>2
  <2>5. cursor \in {None} \union 0 .. source /\ mirror \in 0 .. source /\ source \in 0 .. MaxEvents
        /\ mishaps \in 0 .. MaxMishaps
    BY <2>2, BoundsAssumption
  <2> QED
    BY <2>1, <2>2, <2>3, <2>4, <2>5 DEF DataType
<1> QED
  BY <1>1, <1>2, <1>3, TypeParts

\* Each step of a process keeps what is its own to write.
LEMMA LeaseTypeStep == TypeOK /\ [Next]_vars => LeaseType'
<1> SUFFICES ASSUME LeaseType, [Next]_vars PROVE LeaseType'
  BY TypeParts
<1>1. CASE UNCHANGED lease
  BY <1>1 DEF LeaseType
<1>2. ASSUME NEW p \in Procs, NEW k \in {p, Nobody}, NEW b \in BOOLEAN,
             SetLease(p, [key |-> k, stale |-> b])
      PROVE  LeaseType'
  BY <1>2, LeaseWrite
<1>3. ASSUME NEW p \in Procs, Look(p) PROVE LeaseType'
  BY <1>1, <1>2, <1>3 DEF Look, Owned
<1>4. ASSUME NEW p \in Procs, Delete(p) PROVE LeaseType'
  BY <1>2, <1>4 DEF Delete, NoLease
<1>5. ASSUME NEW p \in Procs, Wake(p) PROVE LeaseType'
  BY <1>1, <1>2, <1>5 DEF Wake, Owned
<1>6. ASSUME NEW p \in Procs, Renew(p) PROVE LeaseType'
  BY <1>1, <1>2, <1>6 DEF Renew, Owned
<1>7. ASSUME NEW p \in Procs, Restart(p) PROVE LeaseType'
  BY <1>1, <1>2, <1>7 DEF Restart
<1>8. ASSUME NEW p \in Procs, Overrun(p) PROVE LeaseType'
  BY <1>2, <1>8 DEF Overrun
<1>9. ASSUME NEW p \in Procs,
             \/ Fetch(p) \/ Record(p) \/ SetCursor(p) \/ Pick(p) \/ Handle(p) \/ DeleteEvent(p)
      PROVE  LeaseType'
  BY <1>1, <1>9 DEF Fetch, Record, SetCursor, Pick, Handle, DeleteEvent
<1>10. CASE Change \/ Forget \/ UNCHANGED vars
  BY <1>1, <1>10 DEF Change, Forget, vars
<1> QED
  BY <1>3, <1>4, <1>5, <1>6, <1>7, <1>8, <1>9, <1>10 DEF Next, Turn

\* The records only grow, and stay within the source.
LEMMA RecordsGrow ==
    ASSUME TypeOK, [Next]_vars
    PROVE  /\ source \in Nat /\ source' \in Nat /\ source <= source' /\ source' <= MaxEvents
           /\ records' \in Seq(1 .. source')
           /\ Len(records) \in Nat /\ Len(records') \in Nat /\ Len(records) <= Len(records')
           /\ \A i \in 1 .. Len(records) : records'[i] = records[i]
<1>1. source \in Nat /\ records \in Seq(1 .. source) /\ Len(records) \in Nat /\ source <= MaxEvents
  BY LenProperties, BoundsAssumption DEF TypeOK
<1>2. CASE UNCHANGED <<source, records>>
  BY <1>1, <1>2
<1>3. CASE Change
  <2>1. source' = source + 1 /\ source' <= MaxEvents /\ records' = records
    BY <1>1, <1>3, BoundsAssumption DEF Change
  <2>2. 1 .. source \subseteq 1 .. source'
    BY <1>1, <2>1
  <2>3. records \in Seq(1 .. source')
    BY <1>1, <2>2, SeqMonotonic
  <2> QED
    BY <1>1, <2>1, <2>3
<1>4. ASSUME NEW p \in Procs, Record(p), kwargs[p] # None
      PROVE  /\ UNCHANGED source
             /\ records' \in Seq(1 .. source)
             /\ Len(records') >= Len(records)
             /\ \A i \in 1 .. Len(records) : records'[i] = records[i]
  <2>1. kwargs[p] \in 0 .. source /\ have[p] \in 0 .. source
    BY <1>4 DEF TypeOK, Record
  <2>2. PICK t \in Seq(1 .. source) :
            /\ t = [i \in 1 .. (have[p] - kwargs[p]) |-> kwargs[p] + i]
            /\ \A i \in 1 .. Len(t) : t[i] = kwargs[p] + i
    <3>1. ASSUME NEW k \in 0 .. source, NEW h \in 0 .. source
          PROVE  \E t \in Seq(1 .. source) :
                    /\ t = [i \in 1 .. (h - k) |-> k + i]
                    /\ \A i \in 1 .. Len(t) : t[i] = k + i
      <4>1. source \in Nat
        BY <1>1
      <4> QED
        BY <4>1, RunOfEvents
    <3> QED
      BY <2>1, <3>1, Zenon
  <2>3. records' = records \o t /\ source' = source
    BY <1>4, <2>2, Zenon DEF Record
  <2> QED
    BY <1>1, <2>1, <2>2, <2>3, Appended
<1>5. ASSUME NEW p \in Procs, Turn(p) \/ Restart(p) \/ Overrun(p)
      PROVE  \/ UNCHANGED <<source, records>>
             \/ Record(p) /\ kwargs[p] # None
  BY <1>5 DEF Turn, Look, Delete, Wake, Renew, Fetch, Record, SetCursor, Pick, Handle,
              DeleteEvent, Restart, Overrun, data, faults
<1>6. CASE \E p \in Procs : Record(p) /\ kwargs[p] # None
  <2>1. /\ source' = source /\ records' \in Seq(1 .. source)
        /\ Len(records') >= Len(records)
        /\ \A i \in 1 .. Len(records) : records'[i] = records[i]
    BY <1>4, <1>6
  <2>2. Len(records') \in Nat
    BY <2>1, LenProperties
  <2> QED
    BY <1>1, <2>1, <2>2
<1>7. CASE Forget \/ UNCHANGED vars
  BY <1>2, <1>7 DEF Forget, vars, data
<1> QED
  BY <1>2, <1>3, <1>5, <1>6, <1>7 DEF Next

\* A process moves and holds what exists.
LEMMA PlaceTypeStep == TypeOK /\ [Next]_vars => PlaceType'
<1> SUFFICES ASSUME TypeOK, [Next]_vars PROVE PlaceType'
  OBVIOUS
<1>1. /\ source \in Nat /\ source' \in Nat /\ source <= source'
      /\ Len(records) \in Nat /\ Len(records') \in Nat /\ Len(records) <= Len(records')
  BY RecordsGrow
<1>2. PlaceType /\ DataType
  BY TypeParts
<1>3. ASSUME UNCHANGED <<pc, have>> PROVE PlaceType'
  BY <1>1, <1>2, <1>3 DEF PlaceType
<1>4. ASSUME NEW p \in Procs, NEW place \in Working \union {"loop", "renew", "delete", "asleep"},
             NEW h \in Nat, Goto(p, place), have' = [have EXCEPT ![p] = h],
             place \in {"picked", "handled"} => h \in 1 .. Len(records'),
             place \in {"fetched", "recorded"} => h \in 0 .. source'
      PROVE  PlaceType'
  <2>1. /\ pc' \in [Procs -> Working \union {"loop", "renew", "delete", "asleep"}]
        /\ have' \in [Procs -> Nat]
    BY <1>2, <1>4 DEF PlaceType, Goto
  <2>2. ASSUME NEW q \in Procs
        PROVE  /\ pc'[q] \in {"picked", "handled"} => have'[q] \in 1 .. Len(records')
               /\ pc'[q] \in {"fetched", "recorded"} => have'[q] \in 0 .. source'
    <3>1. CASE q = p
      BY <1>2, <1>4, <3>1 DEF PlaceType, Goto
    <3>2. CASE q # p
      BY <1>1, <1>2, <1>4, <3>2 DEF PlaceType, Goto
    <3> QED
      BY <3>1, <3>2
  <2> QED
    BY <2>1, <2>2 DEF PlaceType
<1>5. ASSUME NEW p \in Procs, NEW place \in Working \union {"loop", "renew", "delete", "asleep"},
             Goto(p, place), UNCHANGED have,
             place \in {"picked", "handled"} => have[p] \in 1 .. Len(records'),
             place \in {"fetched", "recorded"} => have[p] \in 0 .. source'
      PROVE  PlaceType'
  <2>1. have' = [have EXCEPT ![p] = have[p]] /\ have[p] \in Nat
    BY <1>2, <1>5 DEF PlaceType
  <2> QED
    BY <1>4, <1>5, <2>1
<1> USE DEF Working
<1>6. ASSUME NEW p \in Procs, Look(p) \/ Delete(p) \/ Wake(p) \/ Renew(p) PROVE PlaceType'
  BY <1>5, <1>6 DEF Look, Delete, Wake, Renew
<1>7. ASSUME NEW p \in Procs, Fetch(p) PROVE PlaceType'
  <2>1. /\ Goto(p, "fetched") /\ have' = [have EXCEPT ![p] = source]
        /\ source \in Nat /\ source \in 0 .. source'
    BY <1>1, <1>7 DEF Fetch
  <2> QED
    BY <1>4, <2>1
<1>8. ASSUME NEW p \in Procs, Record(p) PROVE PlaceType'
  <2>1. have[p] \in 0 .. source
    BY <1>2, <1>8 DEF PlaceType, Record
  <2> QED
    BY <1>1, <1>5, <1>8, <2>1 DEF Record
<1>9. ASSUME NEW p \in Procs, SetCursor(p) \/ DeleteEvent(p) PROVE PlaceType'
  BY <1>4, <1>9 DEF SetCursor, DeleteEvent, Drop
<1>10. ASSUME NEW p \in Procs, Pick(p) PROVE PlaceType'
  <2>1. CASE Goto(p, "loop") /\ UNCHANGED have
    BY <1>5, <2>1
  <2>2. ASSUME NEW i \in (1 .. Len(records)) \ applied,
               have' = [have EXCEPT ![p] = i], Goto(p, "picked")
        PROVE  PlaceType'
    <3>1. i \in 1 .. Len(records') /\ i \in Nat
      BY <1>1, <2>2
    <3> QED
      BY <1>4, <2>2, <3>1
  <2> QED
    BY <1>10, <2>1, <2>2 DEF Pick
<1>11. ASSUME NEW p \in Procs, Handle(p) PROVE PlaceType'
  <2>1. have[p] \in 1 .. Len(records)
    BY <1>2, <1>11 DEF PlaceType, Handle
  <2> QED
    BY <1>1, <1>5, <1>11, <2>1 DEF Handle
<1>12. ASSUME NEW p \in Procs, Restart(p) PROVE PlaceType'
  BY <1>4, <1>12 DEF Restart, Drop, Goto
<1>13. CASE Change \/ Forget \/ UNCHANGED vars \/ \E p \in Procs : Overrun(p)
  BY <1>3, <1>13 DEF Change, Forget, vars, Overrun
<1> QED
  BY <1>6, <1>7, <1>8, <1>9, <1>10, <1>11, <1>12, <1>13 DEF Next, Turn

\* The events that processes refer to exist.
LEMMA DataTypeStep == TypeOK /\ [Next]_vars => DataType'
<1> SUFFICES ASSUME TypeOK, [Next]_vars PROVE DataType'
  OBVIOUS
<1>1. /\ source \in Nat /\ source' \in Nat /\ source <= source' /\ source' <= MaxEvents
      /\ records' \in Seq(1 .. source')
      /\ Len(records) \in Nat /\ Len(records') \in Nat /\ Len(records) <= Len(records')
  BY RecordsGrow
<1>2. PlaceType /\ DataType
  BY TypeParts
<1>3. 0 .. source \subseteq 0 .. source' /\ 1 .. Len(records) \subseteq 1 .. Len(records')
      /\ source' \in 0 .. MaxEvents
  BY <1>1, BoundsAssumption
<1>4. kwargs' \in [Procs -> {None} \union 0 .. source']
  <2>1. \/ UNCHANGED kwargs
        \/ \E p \in Procs, k \in {None} \union 0 .. source : kwargs' = [kwargs EXCEPT ![p] = k]
    BY <1>2 DEF Next, Turn, Look, Delete, Wake, Renew, Fetch, Record, SetCursor, Pick, Handle,
              DeleteEvent, Restart, Overrun, Change, Forget, vars, data, faults, DataType
  <2> QED
    BY <1>2, <1>3, <2>1 DEF DataType
<1>5. cursor' \in {None} \union 0 .. source'
  <2>1. \/ cursor' \in {cursor, None}
        \/ \E p \in Procs : pc[p] = "recorded" /\ cursor' = have[p]
    BY DEF Next, Turn, Look, Delete, Wake, Renew, Fetch, Record, SetCursor, Pick, Handle,
              DeleteEvent, Restart, Overrun, Change, Forget, vars, data, faults
  <2>2. cursor' \in {None} \union 0 .. source
    BY <1>2, <2>1 DEF DataType, PlaceType
  <2> QED
    BY <1>3, <2>2
<1>6. applied' \subseteq 1 .. Len(records')
  <2>1. \/ applied' = applied
        \/ \E p \in Procs : pc[p] = "handled" /\ applied' = applied \union {have[p]}
    BY DEF Next, Turn, Look, Delete, Wake, Renew, Fetch, Record, SetCursor, Pick, Handle,
              DeleteEvent, Restart, Overrun, Change, Forget, vars, data, faults
  <2>2. \A p \in Procs : pc[p] = "handled" => have[p] \in 1 .. Len(records)
    BY <1>2 DEF PlaceType
  <2>3. applied \subseteq 1 .. Len(records)
    BY <1>2 DEF DataType
  <2>4. applied' \subseteq 1 .. Len(records)
    <3>1. CASE applied' = applied
      BY <2>3, <3>1
    <3>2. ASSUME NEW p \in Procs, pc[p] = "handled", applied' = applied \union {have[p]}
          PROVE  applied' \subseteq 1 .. Len(records)
      <4>1. have[p] \in 1 .. Len(records)
        BY <2>2, <3>2
      <4> QED
        BY <2>3, <3>2, <4>1, Zenon
    <3> QED
      BY <2>1, <3>1, <3>2, Zenon
  <2>5. 1 .. Len(records) \subseteq 1 .. Len(records')
    BY <1>3
  <2> QED
    BY <2>4, <2>5, Zenon
<1>7. mirror' \in 0 .. source'
  <2>1. \/ mirror' = mirror
        \/ \E p \in Procs : pc[p] = "picked" /\ mirror' = records[have[p]]
    BY DEF Next, Turn, Look, Delete, Wake, Renew, Fetch, Record, SetCursor, Pick, Handle,
              DeleteEvent, Restart, Overrun, Change, Forget, vars, data, faults
  <2>2. ASSUME NEW p \in Procs, pc[p] = "picked" PROVE records[have[p]] \in 0 .. source
    <3>1. have[p] \in 1 .. Len(records)
      BY <1>2, <2>2 DEF PlaceType
    <3>2. records[have[p]] \in 1 .. source
      BY <1>2, <3>1, ElementOfSeq DEF DataType
    <3> QED
      BY <1>1, <3>2
  <2>3. mirror' \in 0 .. source
    BY <1>2, <2>1, <2>2 DEF DataType
  <2> QED
    BY <1>3, <2>3
<1>8. mishaps' \in 0 .. MaxMishaps
  <2>1. UNCHANGED mishaps \/ Mishap
    BY DEF Next, Turn, Look, Delete, Wake, Renew, Fetch, Record, SetCursor, Pick, Handle,
              DeleteEvent, Restart, Overrun, Change, Forget, vars, data, faults
  <2> QED
    BY <1>2, <2>1, BoundsAssumption DEF DataType, Mishap
<1>9. late' \in BOOLEAN /\ missed' \in BOOLEAN
  BY <1>2 DEF Next, Turn, Look, Delete, Wake, Renew, Fetch, Record, SetCursor, Pick, Handle,
              DeleteEvent, Restart, Overrun, Change, Forget, vars, data, faults, DataType
<1> QED
  BY <1>1, <1>3, <1>4, <1>5, <1>6, <1>7, <1>8, <1>9 DEF DataType

\* TypeOK is inductive.
LEMMA TypeStep == TypeOK /\ [Next]_vars => TypeOK'
<1> SUFFICES ASSUME TypeOK, [Next]_vars PROVE TypeOK'
  OBVIOUS
<1>1. LeaseType' /\ PlaceType' /\ DataType'
  BY LeaseTypeStep, PlaceTypeStep, DataTypeStep
<1> QED
  BY <1>1 DEF TypeOK, LeaseType, PlaceType, DataType
-----------------------------------------------------------------------------
\* To write to the lease of one loop leaves that of the other alone.
LEMMA LeaseOther ==
    ASSUME TypeOK, NEW p \in Procs, NEW q \in Procs, NEW l, SetLease(p, l)
    PROVE  LeaseOf(q)' = IF LoopOf(q) = LoopOf(p) THEN l ELSE LeaseOf(q)
BY LoopOfProc DEF TypeOK, SetLease, LeaseOf

\* A step that moves one process and gives it the lease, or takes it from nobody
\* at work, keeps the others' leases.
LEMMA LeaseStep == TypeOK /\ LeaseInv /\ [Next]_vars => LeaseInv'
<1> SUFFICES ASSUME TypeOK, LeaseInv, [Next]_vars, ~late' PROVE
        \A p \in Procs : pc'[p] \in Working \union {"renew"} => LeaseOf(p)' = Owned(p)
  BY DEF LeaseInv, Owned
<1> DEFINE Busy(q) == pc[q] \in Working \union {"renew"}
           Kept(q) == pc'[q] \in Working \union {"renew"} => LeaseOf(q)' = Owned(q)
<1>1. ~late
  BY DEF Next, Turn, Look, Delete, Wake, Renew, Fetch, Record, SetCursor, Pick, Handle,
         DeleteEvent, Restart, Overrun, Change, Forget, vars, data, faults
<1>2. \A q \in Procs : Busy(q) => LeaseOf(q) = Owned(q)
  BY <1>1 DEF LeaseInv
<1>3. \A q \in Procs : Owned(q).key = q /\ Owned(q).key # Nobody /\ Owned(q).stale = FALSE
  BY ProcessesAssumption DEF Owned, Procs
<1>4. \A q \in Procs : pc[q] \in Working \union {"loop", "renew", "delete", "asleep"}
  BY DEF TypeOK
<1>5. ASSUME UNCHANGED <<lease, pc>> PROVE \A q \in Procs : Kept(q)
  BY <1>2, <1>5 DEF LeaseOf
<1>6. ASSUME NEW p \in Procs, NEW place, Goto(p, place), UNCHANGED lease,
             place \in Working \union {"renew"} => LeaseOf(p) = Owned(p)
      PROVE  \A q \in Procs : Kept(q)
  BY <1>2, <1>6 DEF Goto, LeaseOf, TypeOK
<1>7. ASSUME NEW p \in Procs, NEW place, NEW l, Goto(p, place), SetLease(p, l),
             place \in Working \union {"renew"} => l = Owned(p),
             \A q \in Procs \ {p} : ~(LoopOf(q) = LoopOf(p) /\ Busy(q))
      PROVE  \A q \in Procs : Kept(q)
  <2> SUFFICES ASSUME NEW q \in Procs PROVE Kept(q)
    OBVIOUS
  <2>1. LeaseOf(q)' = IF LoopOf(q) = LoopOf(p) THEN l ELSE LeaseOf(q)
    BY <1>7, LeaseOther
  <2>2. CASE q = p
    BY <1>7, <2>1, <2>2 DEF Goto, TypeOK
  <2>3. CASE q # p
    <3>1. pc'[q] = pc[q]
      BY <1>7, <2>3 DEF Goto, TypeOK
    <3> QED
      BY <1>2, <1>7, <2>1, <2>3, <3>1
  <2> QED
    BY <2>2, <2>3
\* Nobody else of the loop is at work when the lease is free, stale or one's own.
<1>8. ASSUME NEW p \in Procs,
             LeaseOf(p).key = Nobody \/ LeaseOf(p).stale \/ LeaseOf(p).key = p
      PROVE  \A q \in Procs \ {p} : ~(LoopOf(q) = LoopOf(p) /\ Busy(q))
  <2> SUFFICES ASSUME NEW q \in Procs, q # p, LoopOf(q) = LoopOf(p), Busy(q) PROVE FALSE
    OBVIOUS
  <2>1. LeaseOf(p) = Owned(q)
    BY <1>2 DEF LeaseOf
  <2> QED
    BY <1>3, <1>8, <2>1
<1>9. ASSUME NEW p \in Procs, Look(p) PROVE \A q \in Procs : Kept(q)
  <2>1. CASE LeaseOf(p).key = Nobody /\ SetLease(p, Owned(p)) /\ Goto(p, "own")
    BY <1>7, <1>8, <2>1
  <2>2. CASE LeaseOf(p).stale /\ Goto(p, "delete") /\ UNCHANGED lease
    BY <1>6, <2>2 DEF Working
  <2>3. CASE LeaseOf(p) = Owned(p) /\ Goto(p, "renew") /\ UNCHANGED lease
    BY <1>6, <2>3
  <2> QED
    BY <1>9, <2>1, <2>2, <2>3 DEF Look
<1>10. ASSUME NEW p \in Procs, Delete(p) PROVE \A q \in Procs : Kept(q)
  <2>1. LeaseOf(p).key = Nobody \/ LeaseOf(p).stale
    BY <1>10 DEF Delete
  <2> QED
    BY <1>7, <1>8, <1>10, <2>1 DEF Delete, Working
<1>11. ASSUME NEW p \in Procs, Wake(p) PROVE \A q \in Procs : Kept(q)
  <2>1. CASE LeaseOf(p).key = Nobody
    BY <1>7, <1>8, <1>11, <2>1 DEF Wake
  <2>2. CASE LeaseOf(p).key # Nobody
    BY <1>6, <1>11, <2>2 DEF Wake, Working
  <2> QED
    BY <2>1, <2>2
<1>12. ASSUME NEW p \in Procs, Renew(p) PROVE \A q \in Procs : Kept(q)
  <2>1. LeaseOf(p) = Owned(p)
    BY <1>2, <1>12 DEF Renew
  <2>2. SetLease(p, Owned(p)) /\ Goto(p, "own")
    BY <1>3, <1>12, <2>1 DEF Renew
  <2> QED
    BY <1>3, <1>7, <1>8, <2>1, <2>2
<1>13. ASSUME NEW p \in Procs, Fetch(p) \/ Record(p) \/ Pick(p) \/ Handle(p)
       PROVE  \A q \in Procs : Kept(q)
  <2>1. LeaseOf(p) = Owned(p)
    BY <1>2, <1>13 DEF Fetch, Record, Pick, Handle, Working
  <2>2. UNCHANGED lease /\ \E place : Goto(p, place)
    BY <1>13 DEF Fetch, Record, Pick, Handle
  <2> QED
    BY <1>6, <2>1, <2>2
<1>14. ASSUME NEW p \in Procs, SetCursor(p) \/ DeleteEvent(p) PROVE \A q \in Procs : Kept(q)
  BY <1>6, <1>14 DEF SetCursor, DeleteEvent, Working
<1>15. ASSUME NEW p \in Procs, Restart(p) PROVE \A q \in Procs : Kept(q)
  <2>1. Goto(p, "loop") /\ "loop" \notin Working \union {"renew"}
    BY <1>15 DEF Restart, Goto, Working
  <2>2. CASE LeaseOf(p).key = p
    BY <1>7, <1>8, <1>15, <2>1, <2>2 DEF Restart
  <2>3. CASE LeaseOf(p).key # p
    BY <1>6, <1>15, <2>1, <2>3 DEF Restart
  <2> QED
    BY <2>2, <2>3
<1>16. ~\E p \in Procs : Overrun(p)
  BY DEF Overrun
<1>17. CASE Change \/ Forget \/ UNCHANGED vars
  BY <1>5, <1>17 DEF Change, Forget, vars
<1> QED
  BY <1>9, <1>10, <1>11, <1>12, <1>13, <1>14, <1>15, <1>16, <1>17 DEF Next, Turn

\* Records are added where the cursor ends, and cursors are moved to what is recorded.
LEMMA CursorStep == TypeOK /\ CursorInv /\ [Next]_vars => CursorInv'
<1> SUFFICES ASSUME TypeOK, CursorInv, [Next]_vars, ~missed' PROVE CursorInv'
  BY DEF CursorInv
<1> USE DEF Recorded
<1> DEFINE Open(q) == pc[q] = "recorded" \/ (pc[q] = "fetched" /\ kwargs[q] = None)
<1>1. ~missed
  BY DEF Next, Turn, Look, Delete, Wake, Renew, Fetch, Record, SetCursor, Pick, Handle,
         DeleteEvent, Restart, Overrun, Change, Forget, vars, data, faults
<1>2. /\ 1 .. cursor \subseteq Recorded
      /\ \A q \in Procs : 1 .. kwargs[q] \subseteq Recorded
      /\ \A q \in Procs : Open(q) => 1 .. have[q] \subseteq Recorded
  BY <1>1 DEF CursorInv
<1>3. Recorded \subseteq Recorded'
  <2> SUFFICES ASSUME NEW i \in 1 .. Len(records) PROVE records[i] \in Recorded'
    OBVIOUS
  <2>1. i \in 1 .. Len(records') /\ records'[i] = records[i]
    BY RecordsGrow
  <2> QED
    BY <2>1
<1>4. 1 .. None = {} /\ source \in Nat
  BY BoundsAssumption DEF None, TypeOK
<1>5. ASSUME UNCHANGED kwargs, cursor' \in {cursor, None},
             \A q \in Procs : Open(q)' => Open(q) /\ have'[q] = have[q]
      PROVE  CursorInv'
  BY <1>2, <1>3, <1>4, <1>5 DEF CursorInv
<1>6. ASSUME NEW p \in Procs, Look(p) \/ Delete(p) \/ Wake(p) \/ Renew(p)
      PROVE  CursorInv'
  <2>1. UNCHANGED <<kwargs, cursor, have>> /\ \E place \in {"own", "delete", "renew", "asleep", "loop"} : Goto(p, place)
    BY <1>6 DEF Look, Delete, Wake, Renew, data
  <2>2. \A q \in Procs : Open(q)' => Open(q) /\ have'[q] = have[q]
    BY <2>1 DEF Goto, TypeOK
  <2> QED
    BY <1>5, <2>1, <2>2
<1>7. ASSUME NEW p \in Procs, Fetch(p) PROVE CursorInv'
  <2>1. /\ kwargs' = [kwargs EXCEPT ![p] = IF cursor = None THEN @ ELSE cursor]
        /\ have' = [have EXCEPT ![p] = source] /\ pc' = [pc EXCEPT ![p] = "fetched"]
        /\ kwargs'[p] = None => 1 .. source \subseteq Recorded
        /\ UNCHANGED <<cursor, records>>
    BY <1>7 DEF Fetch, Goto, data
  <2>2. \A q \in Procs : 1 .. kwargs'[q] \subseteq Recorded'
    BY <1>2, <1>3, <2>1 DEF TypeOK
  <2>3. \A q \in Procs : Open(q)' => 1 .. have'[q] \subseteq Recorded'
    <3> SUFFICES ASSUME NEW q \in Procs, Open(q)' PROVE 1 .. have'[q] \subseteq Recorded'
      OBVIOUS
    <3>1. CASE q = p
      BY <1>3, <2>1, <3>1 DEF TypeOK
    <3>2. CASE q # p
      BY <1>2, <1>3, <2>1, <3>2 DEF TypeOK
    <3> QED
      BY <3>1, <3>2
  <2> QED
    BY <1>2, <1>3, <2>1, <2>2, <2>3 DEF CursorInv
<1>8. ASSUME NEW p \in Procs, Record(p) PROVE CursorInv'
  <2>1. 1 .. have[p] \subseteq Recorded'
    <3>1. CASE kwargs[p] = None
      BY <1>2, <1>3, <1>8, <3>1 DEF Record
    <3>2. CASE kwargs[p] # None
      <4>1. kwargs[p] \in 0 .. source /\ have[p] \in 0 .. source /\ records \in Seq(1 .. source)
        BY <1>8, <3>2 DEF TypeOK, Record
      <4>2. PICK t \in Seq(1 .. source) :
                /\ t = [i \in 1 .. (have[p] - kwargs[p]) |-> kwargs[p] + i]
                /\ Len(t) \in Nat /\ have[p] - kwargs[p] <= Len(t)
                /\ \A i \in 1 .. Len(t) : t[i] = kwargs[p] + i
        <5>1. ASSUME NEW k \in 0 .. source, NEW h \in 0 .. source
              PROVE  \E t \in Seq(1 .. source) :
                        /\ t = [i \in 1 .. (h - k) |-> k + i]
                        /\ Len(t) \in Nat /\ h - k <= Len(t)
                        /\ \A i \in 1 .. Len(t) : t[i] = k + i
          BY <1>4, RunOfEvents
        <5> QED
          BY <4>1, <5>1, Zenon
      <4>3. records' = records \o t
        BY <1>8, <3>2, <4>2, Zenon DEF Record
      <4>4. \A e \in (kwargs[p] + 1) .. (kwargs[p] + Len(t)) : e \in Recorded'
        <5>1. ASSUME NEW k \in 0 .. source, \A i \in 1 .. Len(t) : t[i] = k + i
              PROVE  \A e \in (k + 1) .. (k + Len(t)) :
                        \E i \in 1 .. Len(records \o t) : (records \o t)[i] = e
          <6>1. source \in Nat
            BY <1>4
          <6>2. records \in Seq(1 .. source)
            BY <4>1
          <6> QED
            BY <5>1, <6>1, <6>2, Appended, Zenon
        <5>2. \A e \in (kwargs[p] + 1) .. (kwargs[p] + Len(t)) :
                  \E i \in 1 .. Len(records \o t) : (records \o t)[i] = e
          BY <4>1, <4>2, <5>1, Zenon
        <5>3. Recorded' = {records'[i] : i \in 1 .. Len(records')}
          BY DEF Recorded
        <5> QED
          BY <4>3, <5>2, <5>3, Zenon
      <4>5. ASSUME NEW e \in 1 .. have[p] PROVE e \in Recorded'
        <5>1. e \in 1 .. kwargs[p] \/ e \in (kwargs[p] + 1) .. (kwargs[p] + Len(t))
          BY <4>1, <4>2
        <5> QED
          BY <1>2, <1>3, <4>4, <5>1
      <4> QED
        BY <4>5
    <3> QED
      BY <3>1, <3>2
  <2>2. UNCHANGED <<kwargs, cursor, have>> /\ pc' = [pc EXCEPT ![p] = "recorded"]
    BY <1>8 DEF Record, Goto
  <2>3. \A q \in Procs : Open(q)' => 1 .. have'[q] \subseteq Recorded'
    BY <1>2, <1>3, <2>1, <2>2 DEF TypeOK
  <2> QED
    BY <1>2, <1>3, <2>2, <2>3 DEF CursorInv
<1>9. ASSUME NEW p \in Procs, SetCursor(p) PROVE CursorInv'
  <2>1. 1 .. cursor' \subseteq Recorded'
    BY <1>2, <1>3, <1>9 DEF SetCursor
  <2>2. UNCHANGED kwargs /\ \A q \in Procs : Open(q)' => Open(q) /\ have'[q] = have[q]
    BY <1>9 DEF SetCursor, Drop, Goto, TypeOK
  <2> QED
    BY <1>2, <1>3, <2>1, <2>2 DEF CursorInv
<1>10. ASSUME NEW p \in Procs, Pick(p) \/ Handle(p) \/ DeleteEvent(p) PROVE CursorInv'
  <2>1. UNCHANGED <<kwargs, cursor>> /\ \A q \in Procs : Open(q)' => Open(q) /\ have'[q] = have[q]
    BY <1>10 DEF Pick, Handle, DeleteEvent, Drop, Goto, TypeOK, data
  <2> QED
    BY <1>5, <2>1
<1>11. ASSUME NEW p \in Procs, Restart(p) PROVE CursorInv'
  <2>1. /\ UNCHANGED cursor /\ kwargs' = [kwargs EXCEPT ![p] = None]
        /\ pc' = [pc EXCEPT ![p] = "loop"] /\ have' = [have EXCEPT ![p] = 0]
    BY <1>11 DEF Restart, Drop, data
  <2>2. \A q \in Procs : Open(q)' => Open(q) /\ have'[q] = have[q]
    BY <2>1 DEF TypeOK
  <2>3. \A q \in Procs : 1 .. kwargs'[q] \subseteq Recorded'
    BY <1>2, <1>3, <1>4, <2>1 DEF TypeOK
  <2> QED
    BY <1>2, <1>3, <2>1, <2>2, <2>3 DEF CursorInv
<1>12. CASE Change \/ Forget \/ UNCHANGED vars \/ \E p \in Procs : Overrun(p)
  BY <1>5, <1>12 DEF Change, Forget, vars, data, Overrun
<1> QED
  BY <1>6, <1>7, <1>8, <1>9, <1>10, <1>11, <1>12 DEF Next, Turn
-----------------------------------------------------------------------------
\* The invariant holds initially.
LEMMA InvInit == Init => IInv
<1> SUFFICES ASSUME Init PROVE IInv
  OBVIOUS
<1>1. TypeOK
  BY TypeInit
<1>2. LeaseInv
  <2> PICK w \in Watchers, a \in Appliers :
          /\ lease = [l \in Loops |-> [key |-> IF l = "watch" THEN w ELSE a, stale |-> FALSE]]
          /\ pc = [p \in Procs |-> IF p \in {w, a} THEN "own" ELSE "loop"]
    BY DEF Init
  <2>1. w \in Procs /\ a \in Procs /\ LoopOf(w) = "watch" /\ LoopOf(a) = "apply"
    BY ProcessesAssumption DEF Procs, LoopOf
  <2> QED
    BY <2>1 DEF LeaseInv, LeaseOf, Owned, Working, Loops
<1>3. CursorInv
  <2> PICK w \in Watchers, a \in Appliers :
          /\ pc = [p \in Procs |-> IF p \in {w, a} THEN "own" ELSE "loop"]
          /\ kwargs = [p \in Procs |-> IF p = w THEN 0 ELSE None]
    BY DEF Init
  <2>1. cursor = 0
    BY DEF Init
  <2>2. 1 .. 0 = {} /\ 1 .. None = {}
    BY DEF None
  <2> QED
    BY <2>1, <2>2 DEF CursorInv
<1> QED
  BY <1>1, <1>2, <1>3 DEF IInv

\* It holds in every reachable state: who works has its lease, unless one was late,
\* and cursors are covered by records, unless an event was missed.
THEOREM Inductive == Spec => []IInv
<1>1. IInv /\ [Next]_vars => IInv'
  BY TypeStep, LeaseStep, CursorStep DEF IInv
<1> QED
  BY InvInit, <1>1, PTL DEF Spec

\* TypeOK: no process, lease or cursor refers to what is not there.
THEOREM TypeCorrect == Spec => []TypeOK
<1>1. IInv => TypeOK
  BY DEF IInv
<1> QED
  BY Inductive, <1>1, PTL

\* OneAtWork: a process gets to work only with a lease that was free, stale or its
\* own, and nobody else of its loop has that.
THEOREM OneAtWorkThm == Spec => []OneAtWork
<1>1. IInv => OneAtWork
  <2> SUFFICES ASSUME LeaseInv, ~late, NEW p \in Procs, NEW q \in Procs, LoopOf(p) = LoopOf(q),
                      pc[p] \in Working, pc[q] \in Working
               PROVE  p = q
    BY DEF IInv, OneAtWork
  <2>1. LeaseOf(p) = Owned(p) /\ LeaseOf(q) = Owned(q)
    BY DEF LeaseInv
  <2>2. LeaseOf(p) = LeaseOf(q)
    BY Zenon DEF LeaseOf
  <2>3. Owned(p).key = p /\ Owned(q).key = q
    BY DEF Owned
  <2> QED
    BY <2>1, <2>2, <2>3, Zenon
<1> QED
  BY Inductive, <1>1, PTL

\* NothingSkipped: the cursor in the cache is one up to which all is recorded.
THEOREM NothingSkippedThm == Spec => []NothingSkipped
<1>1. IInv => NothingSkipped
  BY DEF IInv, CursorInv, NothingSkipped
<1> QED
  BY Inductive, <1>1, PTL
-----------------------------------------------------------------------------
\* The order of what is recorded and applied: watchers fetch, appliers pick; unless one
\* was late, the records applied are the first ones, a record in hand is the next one, the
\* nodes database shows the last of the former or the latter, and the last record is the
\* newest event: whoever repeats events goes on to the end.
Shown(n) == IF n = 0 THEN 0 ELSE records[n]

RoleInv ==
    \A p \in Procs :
        /\ pc[p] \in {"fetched", "recorded"} => p \in Watchers
        /\ pc[p] \in {"picked", "handled"} => p \in Appliers

AppliedTo(n) ==
    /\ applied = 1 .. n
    /\ \A p \in Procs : pc[p] \in {"picked", "handled"} => have[p] = n + 1
    /\ ~missed =>
          /\ mirror = Shown(n) \/ (n < Len(records) /\ mirror = records[n + 1])
          /\ \A p \in Procs : pc[p] = "handled" => mirror = records[n + 1]

ApplyInv == ~late => \E n \in 0 .. Len(records) : AppliedTo(n)

LatestLast ==
    ~late =>
        /\ \A i \in 1 .. Len(records) : records[i] <= records[Len(records)]
        /\ \A p \in Procs : pc[p] = "fetched" => \A i \in 1 .. Len(records) : records[i] <= have[p]

OrderInv == RoleInv /\ ApplyInv /\ LatestLast

\* Nothing that was late or missed is forgotten.
LEMMA FaultsStay == [Next]_vars => (late => late') /\ (missed => missed')
<1> SUFFICES ASSUME [Next]_vars PROVE (late => late') /\ (missed => missed')
  OBVIOUS
<1>1. ASSUME NEW p \in Procs, Turn(p) PROVE (late => late') /\ (missed => missed')
  <2>1. CASE Delete(p)
    BY <2>1, Zenon DEF Delete
  <2>2. CASE Fetch(p)
    BY <2>2, Zenon DEF Fetch
  <2>3. CASE Look(p) \/ Wake(p) \/ Renew(p) \/ Record(p) \/ SetCursor(p) \/ Pick(p) \/ Handle(p) \/ DeleteEvent(p)
    BY <2>3 DEF Look, Wake, Renew, Record, SetCursor, Pick, Handle, DeleteEvent, faults
  <2> QED
    BY <1>1, <2>1, <2>2, <2>3 DEF Turn
<1>2. ASSUME NEW p \in Procs, Restart(p) \/ Overrun(p) PROVE (late => late') /\ (missed => missed')
  BY <1>2 DEF Restart, Overrun
<1> QED
  BY <1>1, <1>2 DEF Next, Change, Forget, vars, faults

LEMMA RoleStep == TypeOK /\ RoleInv /\ [Next]_vars => RoleInv'
<1> SUFFICES ASSUME TypeOK, RoleInv, [Next]_vars PROVE RoleInv'
  OBVIOUS
<1>1. ASSUME NEW p \in Procs, NEW place, Goto(p, place),
             place \in {"fetched", "recorded"} => p \in Watchers,
             place \in {"picked", "handled"} => p \in Appliers
      PROVE  RoleInv'
  BY <1>1 DEF RoleInv, Goto, TypeOK
<1>2. ASSUME NEW p \in Procs, Look(p) \/ Delete(p) \/ Wake(p) \/ Renew(p)
      PROVE  RoleInv'
  <2>1. \E place \in {"own", "delete", "renew", "asleep", "loop"} : Goto(p, place)
    BY <1>2 DEF Look, Delete, Wake, Renew
  <2> QED
    BY <1>1, <2>1
<1>3. ASSUME NEW p \in Procs, Fetch(p) \/ Record(p) \/ SetCursor(p) PROVE RoleInv'
  <2>1. (pc[p] = "fetched" => p \in Watchers) /\ (pc[p] = "recorded" => p \in Watchers)
    BY DEF RoleInv
  <2> QED
    BY <1>1, <1>3, <2>1 DEF Fetch, Record, SetCursor
<1>4. ASSUME NEW p \in Procs, Pick(p) \/ Handle(p) \/ DeleteEvent(p) PROVE RoleInv'
  <2>1. pc[p] = "picked" => p \in Appliers
    BY DEF RoleInv
  <2> QED
    BY <1>1, <1>4, <2>1 DEF Pick, Handle, DeleteEvent
<1>5. ASSUME NEW p \in Procs, Restart(p) PROVE RoleInv'
  BY <1>1, <1>5 DEF Restart, Goto
<1>6. CASE UNCHANGED pc
  BY <1>6 DEF RoleInv
<1>7. (Change \/ Forget \/ UNCHANGED vars \/ \E p \in Procs : Overrun(p)) => UNCHANGED pc
  BY DEF Change, Forget, vars, Overrun
<1> QED
  BY <1>2, <1>3, <1>4, <1>5, <1>6, <1>7 DEF Next, Turn

\* With nobody late, one watcher at most holds events and one applier a record.
LEMMA AloneAt ==
    ASSUME RoleInv, LeaseInv, ~late, NEW p \in Procs, NEW q \in Procs
    PROVE  /\ pc[p] \in {"fetched", "recorded"} /\ pc[q] \in {"fetched", "recorded"} => p = q
           /\ pc[p] \in {"own", "picked", "handled"} /\ p \in Appliers /\ pc[q] \in {"picked", "handled"} => p = q
           /\ pc[p] \in {"own", "picked", "handled"} /\ pc[q] \in {"picked", "handled"} /\ p # q => p \in Watchers
<1>1. ASSUME NEW x \in Procs, NEW y \in Procs, LoopOf(x) = LoopOf(y), pc[x] \in Working, pc[y] \in Working
      PROVE  x = y
  <2>1. LeaseOf(x) = Owned(x) /\ LeaseOf(y) = Owned(y)
    BY <1>1 DEF LeaseInv
  <2>2. LeaseOf(x) = LeaseOf(y)
    BY <1>1, Zenon DEF LeaseOf
  <2>3. Owned(x).key = x /\ Owned(y).key = y
    BY DEF Owned
  <2> QED
    BY <2>1, <2>2, <2>3, Zenon
<1>2. \A x \in Watchers : LoopOf(x) = "watch"
  BY DEF LoopOf
<1>3. \A x \in Appliers : LoopOf(x) = "apply"
  BY ProcessesAssumption DEF LoopOf
<1>4. \A x \in Procs : /\ pc[x] \in {"fetched", "recorded"} => x \in Watchers
                       /\ pc[x] \in {"picked", "handled"} => x \in Appliers
  BY DEF RoleInv
<1> QED
  BY <1>1, <1>2, <1>3, <1>4 DEF Working, Procs

\* What is recorded ends with what was fetched.
LEMMA RecordEnds ==
    ASSUME TypeOK, NEW p \in Procs, Record(p)
    PROVE  \/ records' = records
           \/ /\ Len(records') > Len(records) /\ records'[Len(records')] = have[p]
              /\ \A i \in 1 .. Len(records') : i > Len(records) => records'[i] <= have[p]
<1>1. CASE kwargs[p] = None
  BY <1>1 DEF Record
<1>2. CASE kwargs[p] # None
  <2>1. /\ kwargs[p] \in 0 .. source /\ have[p] \in 0 .. source /\ records \in Seq(1 .. source)
        /\ source \in Nat
    BY <1>2, BoundsAssumption DEF TypeOK, Record
  <2>2. ASSUME NEW k \in 0 .. source, NEW h \in 0 .. source, h > k
        PROVE  LET t == [i \in 1 .. (h - k) |-> k + i]
               IN  t \in Seq(1 .. source) /\ Len(t) = h - k /\ \A i \in 1 .. (h - k) : t[i] = k + i
    <3> DEFINE n == h - k
    <3>0. n \in Nat /\ k \in Nat /\ h \in Nat /\ h <= source /\ n = h - k
      BY <2>1, <2>2
    <3>1. h - k \in Nat /\ \A i \in 1 .. (h - k) : k + i \in 1 .. source
      BY <2>1, <3>0
    <3> QED
      BY <3>1
  <2>3. ASSUME NEW k \in 0 .. source, NEW h \in 0 .. source, h <= k
        PROVE  [i \in 1 .. (h - k) |-> k + i] = << >>
    <3>1. 1 .. (h - k) = 1 .. 0
      BY <2>1, <2>3
    <3>2. [i \in 1 .. 0 |-> k + i] = << >>
      OBVIOUS
    <3> QED
      BY <3>1, <3>2
  <2>4. CASE have[p] <= kwargs[p]
    <3>1. records' = records \o << >>
      BY <1>2, <2>1, <2>3, <2>4 DEF Record
    <3> QED
      BY <2>1, <3>1, ConcatEmptySeq
  <2>5. CASE have[p] > kwargs[p]
    <3> DEFINE t == [i \in 1 .. (have[p] - kwargs[p]) |-> kwargs[p] + i]
    <3>1. /\ t \in Seq(1 .. source) /\ Len(t) = have[p] - kwargs[p]
          /\ \A i \in 1 .. Len(t) : t[i] = kwargs[p] + i
      BY <2>1, <2>2, <2>5
    <3>2. records' = records \o t
      BY <1>2 DEF Record
    <3> HIDE DEF t
    <3>3. /\ Len(records') = Len(records) + Len(t)
          /\ \A i \in 1 .. Len(records) + Len(t) :
                records'[i] = IF i <= Len(records) THEN records[i] ELSE t[i - Len(records)]
      BY <2>1, <3>1, <3>2, ConcatProperties
    <3>4. Len(records) \in Nat /\ Len(t) \in Nat \ {0}
      BY <2>1, <2>5, <3>1, LenProperties
    <3>5. ASSUME NEW i \in 1 .. Len(records'), i > Len(records)
          PROVE  records'[i] = kwargs[p] + (i - Len(records))
      <4>1. i - Len(records) \in 1 .. Len(t) /\ ~(i <= Len(records)) /\ i \in 1 .. Len(records) + Len(t)
        BY <3>3, <3>4, <3>5
      <4>2. records'[i] = t[i - Len(records)]
        BY <3>3, <4>1
      <4> QED
        BY <3>1, <4>1, <4>2
    <3>6. Len(records') > Len(records) /\ Len(records') \in 1 .. Len(records')
      BY <3>3, <3>4
    <3>7. records'[Len(records')] = have[p]
      BY <2>1, <3>1, <3>3, <3>4, <3>5, <3>6
    <3>8. \A i \in 1 .. Len(records') : i > Len(records) => records'[i] <= have[p]
      BY <2>1, <3>1, <3>3, <3>4, <3>5
    <3> QED
      BY <3>6, <3>7, <3>8
  <2> QED
    BY <2>1, <2>4, <2>5
<1> QED
  BY <1>1, <1>2

\* Records stay where they are.
LEMMA ApplySame ==
    ASSUME TypeOK, ApplyInv, [Next]_vars, UNCHANGED <<applied, mirror>>,
           \A p \in Procs : pc'[p] \in {"picked", "handled"} => pc'[p] = pc[p] /\ have'[p] = have[p]
    PROVE  ApplyInv'
<1> SUFFICES ASSUME ~late' PROVE \E n \in 0 .. Len(records') : AppliedTo(n)'
  BY DEF ApplyInv
<1>1. ~late /\ (missed => missed')
  BY FaultsStay
<1>2. /\ Len(records) \in Nat /\ Len(records') \in Nat /\ Len(records) <= Len(records')
      /\ \A i \in 1 .. Len(records) : records'[i] = records[i]
  BY RecordsGrow
<1>3. PICK n \in 0 .. Len(records) : AppliedTo(n)
  BY <1>1 DEF ApplyInv
<1>4. n \in 0 .. Len(records') /\ n \in Nat
  BY <1>2
<1>5. Shown(n)' = Shown(n)
  BY <1>2 DEF Shown
<1>6. n < Len(records) => n < Len(records') /\ records'[n + 1] = records[n + 1]
  BY <1>2
<1>7. \A p \in Procs : pc[p] \in {"picked", "handled"} => n + 1 \in 1 .. Len(records)
  BY <1>3 DEF AppliedTo, TypeOK
<1>8. \A p \in Procs : pc[p] \in {"picked", "handled"} => n < Len(records)
  BY <1>2, <1>7
<1>9. AppliedTo(n)'
  <2>1. applied' = 1 .. n
    BY <1>3 DEF AppliedTo
  <2>2. \A p \in Procs : pc'[p] \in {"picked", "handled"} => have'[p] = n + 1
    BY <1>3 DEF AppliedTo
  <2>3. ASSUME ~missed' PROVE mirror' = Shown(n)' \/ (n < Len(records') /\ mirror' = records'[n + 1])
    BY <1>1, <1>3, <1>5, <1>6, <2>3 DEF AppliedTo
  <2>4. ASSUME ~missed', NEW p \in Procs, pc'[p] = "handled" PROVE mirror' = records'[n + 1]
    BY <1>1, <1>3, <1>6, <1>8, <2>4 DEF AppliedTo
  <2> QED
    BY <2>1, <2>2, <2>3, <2>4 DEF AppliedTo
<1> QED
  BY <1>4, <1>9

LEMMA ApplyStep == TypeOK /\ RoleInv /\ LeaseInv /\ ApplyInv /\ [Next]_vars => ApplyInv'
<1> SUFFICES ASSUME TypeOK, RoleInv, LeaseInv, ApplyInv, [Next]_vars, ~late' PROVE ApplyInv'
  BY DEF ApplyInv
<1>1. ~late /\ (missed => missed')
  BY FaultsStay
<1>2. PICK n \in 0 .. Len(records) : AppliedTo(n)
  BY <1>1 DEF ApplyInv
<1>3. Len(records) \in Nat /\ n \in Nat /\ n <= Len(records)
  BY LenProperties DEF TypeOK
<1>4. ASSUME NEW p \in Procs, NEW place, Goto(p, place), place \notin {"picked", "handled"},
             UNCHANGED <<applied, mirror>>, \A q \in Procs \ {p} : have'[q] = have[q]
      PROVE  ApplyInv'
  <2>1. \A q \in Procs : pc'[q] \in {"picked", "handled"} => q # p /\ pc'[q] = pc[q]
    BY <1>4 DEF Goto, TypeOK
  <2> QED
    BY <1>4, <2>1, ApplySame
<1>5. ASSUME NEW p \in Procs, Look(p) \/ Delete(p) \/ Wake(p) \/ Renew(p) PROVE ApplyInv'
  <2>1. UNCHANGED <<have, applied, mirror>>
        /\ \E place \in {"own", "delete", "renew", "asleep", "loop"} : Goto(p, place)
    BY <1>5 DEF Look, Delete, Wake, Renew, data
  <2> QED
    BY <1>4, <2>1
<1>6. ASSUME NEW p \in Procs, Fetch(p) \/ Record(p) \/ SetCursor(p) PROVE ApplyInv'
  <2>1. UNCHANGED <<applied, mirror>> /\ \A q \in Procs \ {p} : have'[q] = have[q]
    BY <1>6 DEF Fetch, Record, SetCursor, Drop, data, TypeOK
  <2>2. \E place \in {"fetched", "recorded", "loop"} : Goto(p, place)
    BY <1>6 DEF Fetch, Record, SetCursor
  <2> QED
    BY <1>4, <2>1, <2>2
<1>7. ASSUME NEW p \in Procs, Pick(p) PROVE ApplyInv'
  <2>1. UNCHANGED <<records, applied, mirror, missed>> /\ p \in Appliers /\ pc[p] = "own"
    BY <1>7 DEF Pick, data, faults
  <2>2. CASE UNCHANGED have /\ Goto(p, "loop")
    BY <1>4, <2>1, <2>2
  <2>3. ASSUME NEW i \in (1 .. Len(records)) \ applied, \A j \in (1 .. Len(records)) \ applied : i <= j,
               have' = [have EXCEPT ![p] = i], Goto(p, "picked")
        PROVE  ApplyInv'
    <3>1. applied = 1 .. n
      BY <1>2 DEF AppliedTo
    <3>2. n < Len(records) /\ i = n + 1
      <4>1. i > n /\ i <= Len(records)
        BY <1>3, <2>3, <3>1
      <4>2. n + 1 \in (1 .. Len(records)) \ applied
        BY <1>3, <3>1, <4>1
      <4>3. i <= n + 1
        BY <2>3, <4>2
      <4> QED
        BY <1>3, <2>3, <4>1, <4>3
    <3>3. \A q \in Procs : q # p => pc[q] \notin {"picked", "handled"}
      BY <1>1, <2>1, AloneAt
    <3>4. \A q \in Procs : pc'[q] \in {"picked", "handled"} => q = p /\ pc'[q] = "picked" /\ have'[q] = n + 1
      BY <2>3, <3>2, <3>3 DEF Goto, TypeOK
    <3>5. Shown(n)' = Shown(n)
      BY <2>1 DEF Shown
    <3>6. AppliedTo(n)'
      BY <1>2, <2>1, <3>4, <3>5 DEF AppliedTo
    <3>7. n \in 0 .. Len(records')
      BY <2>1
    <3> QED
      BY <3>6, <3>7 DEF ApplyInv
  <2> QED
    BY <1>7, <2>2, <2>3 DEF Pick
<1>8. ASSUME NEW p \in Procs, Handle(p) PROVE ApplyInv'
  <2>1. UNCHANGED <<records, applied, have>> /\ pc[p] = "picked" /\ Goto(p, "handled")
        /\ (mirror' = records[have[p]] \/ missed')
    BY <1>8 DEF Handle
  <2>2. have[p] = n + 1 /\ have[p] \in 1 .. Len(records)
    BY <1>2, <2>1 DEF AppliedTo, TypeOK
  <2>3. \A q \in Procs : pc'[q] \in {"picked", "handled"} => have'[q] = n + 1
    BY <1>2, <2>1, <2>2 DEF AppliedTo, Goto, TypeOK
  <2>4. n < Len(records) /\ (~missed' => mirror' = records[n + 1])
    BY <1>3, <2>1, <2>2
  <2>5. AppliedTo(n)'
    BY <1>2, <2>1, <2>3, <2>4 DEF AppliedTo
  <2>6. n \in 0 .. Len(records')
    BY <2>1
  <2> QED
    BY <2>5, <2>6 DEF ApplyInv
<1>9. ASSUME NEW p \in Procs, DeleteEvent(p) PROVE ApplyInv'
  <2>1. UNCHANGED <<records, mirror, missed>> /\ pc[p] = "handled" /\ Goto(p, "loop")
        /\ applied' = applied \union {have[p]}
    BY <1>9 DEF DeleteEvent, faults
  <2>2. have[p] = n + 1 /\ have[p] \in 1 .. Len(records)
    BY <1>2, <2>1 DEF AppliedTo, TypeOK
  <2>3. applied' = 1 .. (n + 1) /\ n + 1 \in 1 .. Len(records)
    BY <1>2, <1>3, <2>1, <2>2 DEF AppliedTo
  <2>4. \A q \in Procs : q # p => pc[q] \notin {"picked", "handled"}
    <3>1. p \in Appliers /\ p \notin Watchers
      BY <2>1, ProcessesAssumption DEF RoleInv
    <3> QED
      BY <1>1, <2>1, <3>1, AloneAt
  <2>5. \A q \in Procs : pc'[q] \notin {"picked", "handled"}
    BY <2>1, <2>4 DEF Goto, TypeOK
  <2>6. ~missed' => mirror' = Shown(n + 1)'
    BY <1>2, <1>3, <2>1 DEF AppliedTo, Shown
  <2>7. AppliedTo(n + 1)'
    BY <2>3, <2>5, <2>6 DEF AppliedTo
  <2>8. n + 1 \in 0 .. Len(records')
    BY <1>3, <2>1, <2>3
  <2> QED
    BY <2>7, <2>8 DEF ApplyInv
<1>10. ASSUME NEW p \in Procs, Restart(p) PROVE ApplyInv'
  <2>1. Goto(p, "loop") /\ UNCHANGED <<applied, mirror>> /\ \A q \in Procs \ {p} : have'[q] = have[q]
    BY <1>10 DEF Restart, Goto, Drop, data, TypeOK
  <2> QED
    BY <1>4, <2>1
<1>11. (Change \/ Forget \/ UNCHANGED vars \/ \E p \in Procs : Overrun(p)) => UNCHANGED <<applied, mirror, pc, have>>
  BY DEF Change, Forget, vars, data, Overrun
<1>12. CASE UNCHANGED <<applied, mirror, pc, have>>
  BY <1>12, ApplySame
<1> QED
  BY <1>5, <1>6, <1>7, <1>8, <1>9, <1>10, <1>11, <1>12 DEF Next, Turn

LEMMA LatestStep == TypeOK /\ RoleInv /\ LeaseInv /\ LatestLast /\ [Next]_vars => LatestLast'
<1> SUFFICES ASSUME TypeOK, RoleInv, LeaseInv, LatestLast, [Next]_vars, ~late' PROVE LatestLast'
  BY DEF LatestLast
<1>1. ~late
  BY FaultsStay
<1>2. /\ \A i \in 1 .. Len(records) : records[i] <= records[Len(records)]
      /\ \A p \in Procs : pc[p] = "fetched" => \A i \in 1 .. Len(records) : records[i] <= have[p]
  BY <1>1 DEF LatestLast
<1>3. Len(records) \in Nat /\ source \in Nat /\ \A i \in 1 .. Len(records) : records[i] \in 1 .. source
  BY LenProperties, ElementOfSeq, BoundsAssumption DEF TypeOK
<1>4. ASSUME UNCHANGED records, \A p \in Procs : pc'[p] = "fetched" => pc[p] = "fetched" /\ have'[p] = have[p]
      PROVE  LatestLast'
  BY <1>2, <1>4 DEF LatestLast
<1>5. ASSUME NEW p \in Procs, NEW place, Goto(p, place), place # "fetched", UNCHANGED records,
             \A q \in Procs \ {p} : have'[q] = have[q]
      PROVE  LatestLast'
  <2>1. \A q \in Procs : pc'[q] = "fetched" => q # p /\ pc[q] = "fetched"
    BY <1>5 DEF Goto, TypeOK
  <2> QED
    BY <1>4, <1>5, <2>1
<1>6. ASSUME NEW p \in Procs, Look(p) \/ Delete(p) \/ Wake(p) \/ Renew(p) PROVE LatestLast'
  <2>1. UNCHANGED <<have, records>>
        /\ \E place \in {"own", "delete", "renew", "asleep", "loop"} : Goto(p, place)
    BY <1>6 DEF Look, Delete, Wake, Renew, data
  <2> QED
    BY <1>5, <2>1
<1>7. ASSUME NEW p \in Procs, Fetch(p) PROVE LatestLast'
  <2>1. UNCHANGED records /\ have' = [have EXCEPT ![p] = source] /\ Goto(p, "fetched")
    BY <1>7 DEF Fetch, data
  <2>2. ASSUME NEW q \in Procs, pc'[q] = "fetched" PROVE \A i \in 1 .. Len(records) : records[i] <= have'[q]
    <3>1. CASE q = p
      <4>1. have'[q] = source
        BY <2>1, <3>1 DEF TypeOK
      <4> QED
        BY <1>3, <4>1
    <3>2. CASE q # p
      BY <1>2, <2>1, <2>2, <3>2 DEF Goto, TypeOK
    <3> QED
      BY <3>1, <3>2
  <2> QED
    BY <1>2, <2>1, <2>2 DEF LatestLast
<1>8. ASSUME NEW p \in Procs, Record(p) PROVE LatestLast'
  <2>1. pc[p] = "fetched" /\ Goto(p, "recorded") /\ UNCHANGED have
    BY <1>8 DEF Record
  <2>2. CASE records' = records
    BY <1>5, <2>1, <2>2
  <2>3. CASE /\ Len(records') > Len(records) /\ records'[Len(records')] = have[p]
             /\ \A i \in 1 .. Len(records') : i > Len(records) => records'[i] <= have[p]
    <3>1. \A i \in 1 .. Len(records) : records'[i] = records[i]
      BY RecordsGrow
    <3>2. \A i \in 1 .. Len(records) : records[i] <= have[p]
      BY <1>2, <2>1
    <3>3. ASSUME NEW i \in 1 .. Len(records') PROVE records'[i] <= records'[Len(records')]
      <4>1. CASE i > Len(records)
        BY <2>3, <4>1
      <4>2. CASE ~(i > Len(records))
        <5>1. i \in 1 .. Len(records)
          BY <1>3, <4>2
        <5> QED
          BY <2>3, <3>1, <3>2, <5>1
      <4> QED
        BY <4>1, <4>2
    <3>4. \A q \in Procs : pc'[q] # "fetched"
      <4>1. \A q \in Procs : q # p => pc[q] # "fetched"
        BY <1>1, <2>1, AloneAt
      <4> QED
        BY <2>1, <4>1 DEF Goto, TypeOK
    <3> QED
      BY <3>3, <3>4 DEF LatestLast
  <2> QED
    BY <1>8, <2>2, <2>3, RecordEnds
<1>9. ASSUME NEW p \in Procs, SetCursor(p) \/ Pick(p) \/ Handle(p) \/ DeleteEvent(p) PROVE LatestLast'
  <2>1. UNCHANGED records /\ \A q \in Procs \ {p} : have'[q] = have[q]
    BY <1>9 DEF SetCursor, Pick, Handle, DeleteEvent, Drop, data, TypeOK
  <2>2. \E place \in {"loop", "picked", "handled"} : Goto(p, place)
    BY <1>9 DEF SetCursor, Pick, Handle, DeleteEvent
  <2> QED
    BY <1>5, <2>1, <2>2
<1>10. ASSUME NEW p \in Procs, Restart(p) PROVE LatestLast'
  <2>1. Goto(p, "loop") /\ UNCHANGED records /\ \A q \in Procs \ {p} : have'[q] = have[q]
    BY <1>10 DEF Restart, Goto, Drop, data, TypeOK
  <2> QED
    BY <1>5, <2>1
<1>11. (Change \/ Forget \/ UNCHANGED vars \/ \E p \in Procs : Overrun(p)) => UNCHANGED <<records, pc, have>>
  BY DEF Change, Forget, vars, data, Overrun
<1>12. CASE UNCHANGED <<records, pc, have>>
  BY <1>4, <1>12
<1> QED
  BY <1>6, <1>7, <1>8, <1>9, <1>10, <1>11, <1>12 DEF Next, Turn

LEMMA OrderInit == Init => OrderInv
<1> SUFFICES ASSUME Init PROVE OrderInv
  OBVIOUS
<1>1. \A p \in Procs : pc[p] \in {"own", "loop"}
  BY DEF Init
<1>2. records = << >> /\ applied = {} /\ mirror = 0 /\ Len(records) = 0
  BY DEF Init
<1>3. 0 \in 0 .. Len(records) /\ 1 .. 0 = {}
  BY <1>2
<1>4. AppliedTo(0)
  BY <1>1, <1>2, <1>3 DEF AppliedTo, Shown
<1> QED
  BY <1>1, <1>2, <1>3, <1>4 DEF OrderInv, RoleInv, ApplyInv, LatestLast

LEMMA OrderAlways == Spec => []OrderInv
<1>1. IInv /\ OrderInv /\ [Next]_vars => OrderInv'
  BY RoleStep, ApplyStep, LatestStep DEF IInv, OrderInv
<1> QED
  BY Inductive, OrderInit, <1>1, PTL DEF Spec

\* UpToDate: the records applied are all of them and end with the last change, so that
\* is what the nodes database shows.
THEOREM UpToDateThm == Spec => []UpToDate
<1>1. ASSUME IInv, OrderInv, ~late, ~missed, cursor = source, applied = 1 .. Len(records)
      PROVE  mirror = source
  <2>1. /\ Len(records) \in Nat /\ source \in Nat /\ mirror \in 0 .. source
        /\ \A i \in 1 .. Len(records) : records[i] \in 1 .. source
    BY <1>1, LenProperties, ElementOfSeq, BoundsAssumption DEF IInv, TypeOK
  <2>2. PICK n \in 0 .. Len(records) : AppliedTo(n)
    BY <1>1 DEF OrderInv, ApplyInv
  <2>3. n = Len(records)
    <3>1. n \in Nat /\ n <= Len(records) /\ 1 .. n = 1 .. Len(records)
      BY <1>1, <2>1, <2>2 DEF AppliedTo
    <3>2. ASSUME n < Len(records) PROVE FALSE
      <4>1. Len(records) \in 1 .. Len(records) /\ Len(records) \notin 1 .. n
        BY <2>1, <3>1, <3>2
      <4> QED
        BY <3>1, <4>1
    <3> QED
      BY <2>1, <3>1, <3>2
  <2>4. mirror = Shown(Len(records))
    BY <1>1, <2>1, <2>2, <2>3 DEF AppliedTo
  <2>5. CASE source = 0
    BY <2>1, <2>5
  <2>6. CASE source # 0
    <3>1. source \in Recorded
      BY <1>1, <2>1, <2>6 DEF IInv, CursorInv
    <3>2. PICK i \in 1 .. Len(records) : records[i] = source
      BY <3>1 DEF Recorded
    <3>3. Len(records) # 0 /\ Len(records) \in 1 .. Len(records)
      BY <2>1, <3>2
    <3>4. records[Len(records)] >= source /\ records[Len(records)] \in 1 .. source
      BY <1>1, <2>1, <3>2, <3>3 DEF OrderInv, LatestLast
    <3>5. mirror = records[Len(records)]
      BY <2>4, <3>3 DEF Shown
    <3> QED
      BY <2>1, <3>4, <3>5
  <2> QED
    BY <2>5, <2>6
<1>2. IInv /\ OrderInv => UpToDate
  BY <1>1 DEF UpToDate
<1> QED
  BY Inductive, OrderAlways, <1>2, PTL
=============================================================================
