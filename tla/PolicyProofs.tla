---------------------------- MODULE PolicyProofs ----------------------------
(***************************************************************************)
(* Supervisor implements CrashPolicy, for every number of children and     *)
(* every window, threshold and backoff: each step of the one loop that     *)
(* serves all children, seen at one child, is a step of its policy or a    *)
(* stutter.  This is the safety half of PolicySpec; its fairness is left   *)
(* to TLC.                                                                 *)
(***************************************************************************)
EXTENDS SupervisorProofs

(* Until the restart phase records it, a child has no record of this pass:  *)
(* the tick that began the pass made every record at least one unit old.    *)
NoRecordYet ==
    /\ pc = "observe" => \A c \in Children : 0 \notin history[c]
    /\ pc = "restart" => \A c \in todo : 0 \notin history[c]

PolicyInv ==
    /\ TypeOK /\ TodoOK
    /\ TrippedHeld /\ DueOnlyInBackoff /\ BackoffScheduled
    /\ StartsRecorded /\ StormLimit
    /\ NoRecordYet

LEMMA NoRecordInit == Init => NoRecordYet
BY DEF Init, NoRecordYet

LEMMA NoRecordNext ==
    ASSUME TypeOK, NoRecordYet, [Next]_vars
    PROVE  NoRecordYet'
<1> USE DEF TypeOK, NoRecordYet, slots
<1>1. CASE UNCHANGED vars
  BY <1>1 DEF vars
<1>2. CASE StartAll
  BY <1>2 DEF StartAll, BootDone, BootMark, BootLaunch, BootLaunchFails
<1>3. ASSUME NEW d \in 1 .. MaxGap, Tick(d)
      PROVE  NoRecordYet'
  <2>1. ASSUME NEW c \in Children, NEW a \in history[c]
        PROVE  (IF a + d > Window THEN Window + 1 ELSE a + d) # 0
    BY SizesAssumption DEF Ages
  <2>2. \A c \in Children : 0 \notin history'[c]
    BY <1>3, <2>1 DEF Tick, Aged
  <2>3. pc' = "observe"
    BY <1>3 DEF Tick
  <2>. QED
    BY <2>2, <2>3
<1>4. CASE Observe
  BY <1>4 DEF Observe, ProbeAlive, ProbeGone, ProbeFails
<1>5. CASE BeginRestarts
  BY <1>5 DEF BeginRestarts, InStatus
<1>6. CASE Restarts
  BY <1>6 DEF Restarts, Restart, RestartFails, TripStorm
<1>7. CASE Settle
  BY <1>7 DEF Settle
<1>8. CASE Environment
  BY <1>8 DEF Environment, Dies, TakenByOther
<1>. QED
  BY <1>1, <1>2, <1>3, <1>4, <1>5, <1>6, <1>7, <1>8 DEF Next, Observer

LEMMA PolicyInvInit == Init => PolicyInv
BY TypeInit, TodoInit, HoldInit, ScheduleInit, StormInit, NoRecordInit DEF PolicyInv

LEMMA PolicyInvNext ==
    ASSUME SpawnMayFail = {}, PolicyInv, [Next]_vars
    PROVE  PolicyInv'
<1>1. ScheduleInv
  BY DEF PolicyInv, ScheduleInv, TrippedHeld, NothingTripped
<1>2. StormInv
  BY DEF PolicyInv, StormInv
<1>3. BackoffScheduled'
  BY <1>1, ScheduleNext
<1>4. StartsRecorded' /\ StormLimit'
  BY <1>2, StormNext
<1>5. TypeOK' /\ TodoOK' /\ TrippedHeld' /\ DueOnlyInBackoff' /\ NoRecordYet'
  BY TypeNext, TodoNext, HeldNext, NoRecordNext DEF PolicyInv
<1>. QED
  BY <1>3, <1>4, <1>5 DEF PolicyInv

-----------------------------------------------------------------------------
(* The steps *)

phase == [c \in Children |-> Phase(c)]
hold  == [c \in Children |-> Hold(c)]

(* What the policy does not see.                                            *)
LEMMA Stutters ==
    ASSUME UNCHANGED <<phase, starts, hold>>
    PROVE  UNCHANGED Policy!vars
BY DEF phase, hold, Policy!vars

(* A step that moves no slot, no deadline and no start.                     *)
LEMMA SlotsStutter ==
    ASSUME UNCHANGED <<status, due, starts>>
    PROVE  UNCHANGED Policy!vars
BY Stutters DEF phase, hold, Phase, Hold

(* A slot whose status changes, not to or from Backoff. *)
LEMMA StatusStep ==
    ASSUME TypeOK, NEW c \in Children, NEW s \in Statuses, s # "Backoff",
           status[c] # "Backoff", status' = [status EXCEPT ![c] = s], UNCHANGED due
    PROVE  /\ \A k \in Children \ {c} : Phase(k)' = Phase(k)
           /\ UNCHANGED hold
<1>1. \A k \in Children \ {c} : status'[k] = status[k]
  BY DEF TypeOK
<1>2. status'[c] = s
  BY DEF TypeOK
<1>3. \A k \in Children : Hold(k)' = Hold(k)
  BY <1>1, <1>2 DEF Hold
<1>. QED
  BY <1>1, <1>3 DEF Phase, hold

LEMMA BootLaunchStarts ==
    ASSUME TypeOK, NEW c \in Children, BootLaunch(c)
    PROVE  Policy!Start(c)
<1>1. /\ status[c] = "Starting" /\ status' = [status EXCEPT ![c] = "Running"]
      /\ UNCHANGED <<due, starts>>
  BY DEF BootLaunch, Launch
<1>2. (\A k \in Children \ {c} : Phase(k)' = Phase(k)) /\ UNCHANGED hold
  BY <1>1, StatusStep DEF Statuses
<1>3. Phase(c) = "off" /\ Phase(c)' = "up"
  BY <1>1 DEF Phase, TypeOK
<1>4. phase' = [phase EXCEPT ![c] = "up"]
  BY <1>2, <1>3 DEF phase
<1>. QED
  BY <1>1, <1>2, <1>3, <1>4 DEF Policy!Start, phase, hold

LEMMA ProbeGoneNotices ==
    ASSUME TypeOK, TodoOK, NEW c \in Children, ProbeGone(c)
    PROVE  Policy!NoticeExit(c)
<1>1. /\ status[c] = "Running" /\ status' = [status EXCEPT ![c] = "Exited"]
      /\ UNCHANGED <<due, starts>>
  BY DEF ProbeGone, First, TodoOK
<1>2. (\A k \in Children \ {c} : Phase(k)' = Phase(k)) /\ UNCHANGED hold
  BY <1>1, StatusStep DEF Statuses
<1>3. Phase(c) = "up" /\ Phase(c)' = "down"
  BY <1>1 DEF Phase, TypeOK
<1>4. phase' = [phase EXCEPT ![c] = "down"]
  BY <1>2, <1>3 DEF phase
<1>. QED
  BY <1>1, <1>2, <1>3, <1>4 DEF Policy!NoticeExit, phase, hold

(* A restart is launched below the limit: the starts are recent records, and *)
(* the record of this one, age 0, is none of them.                           *)
LEMMA RestartBelowLimit ==
    ASSUME PolicyInv, NEW c \in Children, Restart(c)
    PROVE  Cardinality(starts[c]) < Threshold - 1
<1> USE DEF PolicyInv, TypeOK
<1> DEFINE r == Recent(history[c])
<1>1. IsFiniteSet(r) /\ Cardinality(r) \in Nat
  BY AgesFinite
<1>2. 0 \notin r
  BY DEF Restart, First, NoRecordYet, Recent
<1>3. Cardinality(Record(history[c])) = Cardinality(r) + 1
  <2> HIDE DEF r
  <2>1. Record(history[c]) = r \cup {0}
    BY DEF Record, r
  <2>. QED
    BY <1>1, <1>2, <2>1, FS_AddElement
<1>4. Cardinality(Record(history[c])) < Threshold
  <2>1. ~InStorm(Record(history[c]))
    BY DEF Restart
  <2> HIDE DEF r
  <2>. QED
    BY <1>1, <1>3, <2>1, SizesAssumption DEF InStorm
<1>5. starts[c] \in SUBSET r
  BY SizesAssumption DEF StartsRecorded, Recent
<1>6. Cardinality(starts[c]) <= Cardinality(r) /\ Cardinality(starts[c]) \in Nat
  <2> HIDE DEF r
  <2>. QED
    BY <1>1, <1>5, FS_Subset, FS_CardinalityType
<1>. QED
  <2> HIDE DEF r
  <2>. QED
    BY <1>1, <1>3, <1>4, <1>6, SizesAssumption

LEMMA RestartRestarts ==
    ASSUME PolicyInv, NEW c \in Children, Restart(c)
    PROVE  Policy!Restart(c)
<1> USE DEF PolicyInv
<1>1. /\ status[c] = "Exited" /\ status' = [status EXCEPT ![c] = "Running"]
      /\ UNCHANGED due /\ starts' = [starts EXCEPT ![c] = starts[c] \cup {0}]
  BY DEF Restart, Launch, First, TodoOK
<1>2. (\A k \in Children \ {c} : Phase(k)' = Phase(k)) /\ UNCHANGED hold
  BY <1>1, StatusStep DEF Statuses
<1>3. Phase(c) = "down" /\ Phase(c)' = "up"
  BY <1>1 DEF Phase, TypeOK
<1>4. phase' = [phase EXCEPT ![c] = "up"]
  BY <1>2, <1>3 DEF phase
<1>5. Policy!Cardinality(starts[c]) < Threshold - 1
  <2>1. Policy!Cardinality(starts[c]) = Cardinality(starts[c])
    BY DEF Policy!Cardinality, Cardinality
  <2>. QED
    BY <2>1, RestartBelowLimit
<1>. QED
  BY <1>1, <1>2, <1>3, <1>4, <1>5 DEF Policy!Restart, phase, hold

LEMMA TripStormHolds ==
    ASSUME PolicyInv, NEW c \in Children, TripStorm(c)
    PROVE  Policy!HoldBack(c)
<1> USE DEF PolicyInv, TypeOK
<1>1. /\ status[c] = "Exited" /\ status' = [status EXCEPT ![c] = "Backoff"]
      /\ UNCHANGED <<due, starts>>
  BY DEF TripStorm, First, TodoOK
<1>2. due[c] = NoDue
  BY <1>1 DEF DueOnlyInBackoff
<1>3. status'[c] = "Backoff" /\ \A k \in Children \ {c} : status'[k] = status[k]
  BY <1>1
<1>4. Phase(c) = "down" /\ Phase(c)' = "held" /\ Hold(c)' = Backoff
  BY <1>1, <1>2, <1>3 DEF Phase, Hold
<1>5. \A k \in Children \ {c} : Phase(k)' = Phase(k) /\ Hold(k)' = Hold(k)
  BY <1>1, <1>3 DEF Phase, Hold
<1>6. phase' = [phase EXCEPT ![c] = "held"] /\ hold' = [hold EXCEPT ![c] = Backoff]
  BY <1>4, <1>5 DEF phase, hold
<1>. QED
  BY <1>1, <1>4, <1>6 DEF Policy!HoldBack, phase, hold

(* The end of a pass gives a held child the deadline the policy saw coming. *)
LEMMA SettleStutters ==
    ASSUME PolicyInv, Settle
    PROVE  UNCHANGED Policy!vars
<1> USE DEF PolicyInv, TypeOK
<1>1. UNCHANGED <<status, starts>>
  BY DEF Settle, slots
<1>2. ASSUME NEW c \in Children
      PROVE  Hold(c)' = Hold(c)
  <2>1. CASE c \in tripped
    <3>1. status[c] = "Backoff" /\ due[c] = NoDue /\ due'[c] = Backoff
      BY <2>1 DEF TrippedHeld, Settle
    <3>. QED
      BY <1>1, <3>1 DEF Hold
  <2>2. CASE c \notin tripped
    BY <1>1, <2>2 DEF Hold, Settle
  <2>. QED
    BY <2>1, <2>2
<1>. QED
  BY <1>1, <1>2, Stutters DEF phase, hold, Phase

(* A tick is the passing of time for every child at once.                   *)
LEMMA TickElapses ==
    ASSUME PolicyInv, NEW d \in 1 .. MaxGap, Tick(d)
    PROVE  Policy!Elapse(d)
<1> USE DEF PolicyInv, TypeOK
<1>0. d \in Nat /\ d >= 1
  OBVIOUS
<1>1. ASSUME NEW c \in Children
      PROVE  starts'[c] = Policy!Later(starts[c], d)
  <2>1. starts'[c] = Recent(Aged(starts[c], d)) /\ starts[c] \subseteq 0 .. Window
    BY DEF Tick
  <2>2. ASSUME NEW b \in Recent(Aged(starts[c], d))
        PROVE  b \in Policy!Later(starts[c], d)
    <3>1. PICK a \in starts[c] : b = IF a + d > Window THEN Window + 1 ELSE a + d
      BY DEF Recent, Aged
    <3>2. b <= Window
      BY DEF Recent
    <3>3. b = a + d /\ a + d <= Window
      BY <1>0, <2>1, <3>1, <3>2, SizesAssumption
    <3>. QED
      BY <3>3 DEF Policy!Later
  <2>3. ASSUME NEW b \in Policy!Later(starts[c], d)
        PROVE  b \in Recent(Aged(starts[c], d))
    <3>1. PICK a \in starts[c] : b = a + d /\ a + d <= Window
      BY DEF Policy!Later
    <3>2. ~(a + d > Window)
      BY <1>0, <2>1, <3>1, SizesAssumption
    <3>. QED
      BY <3>1, <3>2 DEF Recent, Aged
  <2>. QED
    BY <2>1, <2>2, <2>3
<1>2. ASSUME NEW c \in Children
      PROVE  /\ Hold(c)' = IF Hold(c) > d THEN Hold(c) - d ELSE 0
             /\ Phase(c)' = IF Phase(c) = "held" /\ Hold(c) <= d THEN "down" ELSE Phase(c)
  <2>1. tripped = {}
    BY DEF Tick, TrippedHeld
  <2>2. CASE status[c] # "Backoff"
    <3>1. status'[c] = status[c]
      BY <2>2 DEF Tick, Expired, InStatus
    <3>2. Hold(c) = 0 /\ Hold(c)' = 0
      BY <2>2, <3>1 DEF Hold
    <3>3. Phase(c) # "held" /\ Phase(c)' = Phase(c)
      BY <2>2, <3>1 DEF Phase, Statuses
    <3>. QED
      BY <1>0, <3>2, <3>3
  <2>3. CASE status[c] = "Backoff"
    <3>1. due[c] # NoDue /\ due[c] \in 0 .. Backoff
      BY <2>1, <2>3 DEF BackoffScheduled
    <3>2. Hold(c) = due[c] /\ Phase(c) = "held"
      BY <2>3, <3>1 DEF Hold, Phase
    <3>3. CASE due[c] <= d
      <4>1. status'[c] = "Exited"
        BY <2>3, <3>1, <3>3 DEF Tick, Expired, InStatus
      <4>2. Hold(c)' = 0 /\ Phase(c)' = "down"
        BY <4>1 DEF Hold, Phase
      <4>. QED
        BY <1>0, <3>1, <3>2, <3>3, <4>2, SizesAssumption
    <3>4. CASE due[c] > d
      <4>1. c \notin Expired(d)
        BY <1>0, <3>1, <3>4, SizesAssumption DEF Expired
      <4>2. status'[c] = "Backoff" /\ due'[c] = due[c] - d
        BY <2>3, <3>1, <3>4, <4>1 DEF Tick, TimeLeft
      <4>3. due'[c] # NoDue
        BY <1>0, <3>1, <3>4, <4>2, SizesAssumption DEF NoDue
      <4>4. Hold(c)' = due[c] - d /\ Phase(c)' = "held"
        BY <4>2, <4>3 DEF Hold, Phase
      <4>. QED
        BY <1>0, <3>1, <3>2, <3>4, <4>4, SizesAssumption
    <3>. QED
      BY <1>0, <3>1, <3>3, <3>4, SizesAssumption
  <2>. QED
    BY <2>2, <2>3
<1>3. starts' = [c \in Children |-> Policy!Later(starts[c], d)]
  BY <1>1 DEF Tick
<1>4. hold' = [c \in Children |-> IF hold[c] > d THEN hold[c] - d ELSE 0]
  BY <1>2 DEF hold
<1>5. phase' = [c \in Children |-> IF phase[c] = "held" /\ hold[c] <= d
                                   THEN "down" ELSE phase[c]]
  BY <1>2 DEF phase, hold
<1>. QED
  BY <1>3, <1>4, <1>5 DEF Policy!Elapse, phase, hold

LEMMA PolicyStep ==
    ASSUME SpawnMayFail = {}, PolicyInv, [Next]_vars
    PROVE  [Policy!Next]_(Policy!vars)
<1>1. CASE UNCHANGED vars
  BY <1>1, SlotsStutter DEF vars, slots
<1>2. CASE BootDone \/ BeginRestarts \/ Environment
  BY <1>2, SlotsStutter DEF BootDone, BeginRestarts, Environment, Dies, TakenByOther, slots
<1>3. ASSUME NEW c \in Children, BootMark(c)
      PROVE  UNCHANGED Policy!vars
  <2>1. /\ status[c] = "Pending" /\ status' = [status EXCEPT ![c] = "Starting"]
        /\ UNCHANGED <<due, starts>>
    BY <1>3 DEF BootMark
  <2>2. (\A k \in Children \ {c} : Phase(k)' = Phase(k)) /\ UNCHANGED hold
    BY <2>1, StatusStep DEF Statuses, PolicyInv
  <2>3. Phase(c)' = Phase(c)
    BY <2>1 DEF Phase, PolicyInv, TypeOK
  <2>. QED
    BY <2>1, <2>2, <2>3, Stutters DEF phase
<1>4. ASSUME NEW c \in Children, BootLaunch(c)
      PROVE  Policy!Next
  BY <1>4, BootLaunchStarts DEF PolicyInv, Policy!Next
<1>5. ASSUME NEW c \in Children, BootLaunchFails(c) \/ RestartFails(c)
      PROVE  FALSE
  BY <1>5 DEF BootLaunchFails, RestartFails
<1>6. ASSUME NEW d \in 1 .. MaxGap, Tick(d)
      PROVE  Policy!Next
  BY <1>6, TickElapses DEF Policy!Next
<1>7. ASSUME NEW c \in Children, ProbeAlive(c) \/ ProbeFails(c)
      PROVE  UNCHANGED Policy!vars
  BY <1>7, SlotsStutter DEF ProbeAlive, ProbeFails, slots
<1>8. ASSUME NEW c \in Children, ProbeGone(c)
      PROVE  Policy!Next
  BY <1>8, ProbeGoneNotices DEF PolicyInv, Policy!Next
<1>9. ASSUME NEW c \in Children, Restart(c)
      PROVE  Policy!Next
  BY <1>9, RestartRestarts DEF Policy!Next
<1>10. ASSUME NEW c \in Children, TripStorm(c)
       PROVE  Policy!Next
  BY <1>10, TripStormHolds DEF Policy!Next
<1>11. CASE Settle
  BY <1>11, SettleStutters
<1>. QED
  BY <1>1, <1>2, <1>3, <1>4, <1>5, <1>6, <1>7, <1>8, <1>9, <1>10, <1>11
     DEF Next, Observer, StartAll, Observe, Restarts

(* While launches succeed, the supervisor keeps the policy of each child:   *)
(* fewer restarts in a Window than the threshold, an exit answered only by  *)
(* a restart or a backoff, and a backoff that ends with the first look at   *)
(* the clock after Backoff and no sooner.                                   *)
THEOREM KeepsPolicy == SpawnMayFail = {} => (Spec => Policy!Spec)
<1> SUFFICES ASSUME SpawnMayFail = {}
             PROVE  Spec => Policy!Spec
  OBVIOUS
<1>1. Init => Policy!Init
  BY DEF Init, Policy!Init, Phase, Hold
<1>2. PolicyInv /\ [Next]_vars => PolicyInv'
  BY PolicyInvNext
<1>3. PolicyInv /\ [Next]_vars => [Policy!Next]_(Policy!vars)
  BY PolicyStep
<1>. QED
  BY <1>1, <1>2, <1>3, PolicyInvInit, PTL DEF Spec, Policy!Spec

=============================================================================
