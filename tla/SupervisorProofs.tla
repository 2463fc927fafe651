-------------------------- MODULE SupervisorProofs --------------------------
(***************************************************************************)
(* Theorems about Supervisor, for every number of children, every set of   *)
(* pids, every window, threshold, backoff and every pattern of crashes.    *)
(***************************************************************************)
EXTENDS Supervisor, FiniteSetTheorems, TLAPS

(* Every age that a step of time yields is an age. *)
LEMMA AgedType ==
    ASSUME NEW h \in SUBSET Ages, NEW d \in Nat
    PROVE  Aged(h, d) \in SUBSET Ages
BY SizesAssumption DEF Aged, Ages

(* record keeps a history a set of ages. *)
LEMMA RecordType ==
    ASSUME NEW h \in SUBSET Ages
    PROVE  Record(h) \in SUBSET Ages
<1>1. 0 \in Ages
  BY SizesAssumption DEF Ages
<1>2. Recent(h) \subseteq Ages
  BY DEF Recent
<1>. QED
  BY <1>1, <1>2 DEF Record

LEMMA TypeInit == Init => TypeOK
<1> SUFFICES ASSUME Init
             PROVE  TypeOK
  OBVIOUS
<1>1. status \in [Children -> Statuses] /\ pid \in [Children -> Pids \cup {NoPid}]
  BY DEF Init, Statuses
<1>2. history \in [Children -> SUBSET Ages] /\ starts \in [Children -> SUBSET (0 .. Window)]
  BY DEF Init
<1>3. due \in [Children -> 0 .. Backoff \cup {NoDue}]
  BY DEF Init
<1>4. procs \in [Pids -> Children \cup {Free, Foreign}]
  BY DEF Init
<1>. QED
  BY <1>1, <1>2, <1>3, <1>4 DEF Init, TypeOK

LEMMA TypeNext == TypeOK /\ [Next]_vars => TypeOK'
<1> SUFFICES ASSUME TypeOK, [Next]_vars
             PROVE  TypeOK'
  OBVIOUS
<1> USE DEF TypeOK, slots
<1>1. CASE UNCHANGED vars
  BY <1>1 DEF vars
<1>2. CASE BootDone
  BY <1>2 DEF BootDone
<1>3. ASSUME NEW c \in Children, BootMark(c)
      PROVE  TypeOK'
  BY <1>3 DEF BootMark, Statuses
<1>4. ASSUME NEW c \in Children, BootLaunch(c)
      PROVE  TypeOK'
  BY <1>4 DEF BootLaunch, Launch, Statuses
<1>5. ASSUME NEW c \in Children, BootLaunchFails(c)
      PROVE  TypeOK'
  BY <1>5 DEF BootLaunchFails, Unrecorded, Assignable
<1>6. ASSUME NEW d \in 1 .. MaxGap, Tick(d)
      PROVE  TypeOK'
  <2>0. d \in Nat /\ d >= 1
    BY <1>6
  <2>1. history' \in [Children -> SUBSET Ages]
    BY <1>6, <2>0, AgedType DEF Tick
  <2>5. starts' \in [Children -> SUBSET (0 .. Window)]
    <3>1. \A c \in Children : Aged(starts[c], d) \in SUBSET Ages
      BY <2>0, AgedType, SizesAssumption DEF Ages
    <3>2. \A c \in Children : Recent(Aged(starts[c], d)) \in SUBSET (0 .. Window)
      BY <3>1, SizesAssumption DEF Recent, Ages
    <3>. QED
      BY <1>6, <3>2 DEF Tick
  <2>2. due' \in [Children -> 0 .. Backoff \cup {NoDue}]
    BY <1>6, <2>0, SizesAssumption DEF Tick, TimeLeft, NoDue
  <2>3. status' \in [Children -> Statuses]
    BY <1>6 DEF Tick, Statuses
  <2>4. cleared' \in SUBSET Children /\ todo' \in SUBSET Children
    BY <1>6 DEF Tick, Expired, InStatus
  <2>. QED
    BY <1>6, <2>1, <2>2, <2>3, <2>4, <2>5 DEF Tick
<1>7. ASSUME NEW c \in Children, ProbeAlive(c) \/ ProbeGone(c) \/ ProbeFails(c)
      PROVE  TypeOK'
  BY <1>7 DEF ProbeAlive, ProbeGone, ProbeFails, Statuses
<1>8. CASE BeginRestarts
  BY <1>8 DEF BeginRestarts, InStatus
<1>9. ASSUME NEW c \in Children, Restart(c)
      PROVE  TypeOK'
  BY <1>9, RecordType, SizesAssumption DEF Restart, Launch, Statuses
<1>10. ASSUME NEW c \in Children, RestartFails(c)
       PROVE  TypeOK'
  <2>1. starts' \in [Children -> SUBSET (0 .. Window)]
    BY <1>10, SizesAssumption DEF RestartFails
  <2>2. procs' \in [Pids -> Children \cup {Free, Foreign}]
    BY <1>10 DEF RestartFails, Unrecorded, Assignable
  <2>. QED
    BY <1>10, <2>1, <2>2, RecordType DEF RestartFails
<1>11. ASSUME NEW c \in Children, TripStorm(c)
       PROVE  TypeOK'
  BY <1>11, RecordType DEF TripStorm, Statuses
<1>12. CASE Settle
  BY <1>12, SizesAssumption DEF Settle
<1>13. ASSUME NEW p \in Pids, Dies(p) \/ TakenByOther(p)
       PROVE  TypeOK'
  BY <1>13 DEF Dies, TakenByOther
<1>. QED
  BY <1>1, <1>2, <1>3, <1>4, <1>5, <1>6, <1>7, <1>8, <1>9, <1>10, <1>11, <1>12, <1>13
     DEF Next, Observer, StartAll, Observe, Restarts, Environment

(* The slots, the tracker, the schedule, the loop's state and the process   *)
(* table have their types in every reachable state.                        *)
THEOREM TypeCorrect == Spec => []TypeOK
BY TypeInit, TypeNext, PTL DEF Spec

-----------------------------------------------------------------------------
(* OneProcessPerChild is not inductive: a launch in the restart phase needs *)
(* that the child still has the status of the snapshot, Exited.            *)

TodoOK ==
    /\ pc = "observe" => \A c \in todo : status[c] = "Running"
    /\ pc = "restart" => \A c \in todo : status[c] = "Exited"

ProcessInv == TypeOK /\ TodoOK /\ OneProcessPerChild

LEMMA TodoInit == Init => TodoOK
BY DEF Init, TodoOK

LEMMA TodoNext == TypeOK /\ TodoOK /\ [Next]_vars => TodoOK'
<1> SUFFICES ASSUME TypeOK, TodoOK, [Next]_vars
             PROVE  TodoOK'
  OBVIOUS
<1> USE DEF TypeOK, TodoOK, slots
<1>1. CASE UNCHANGED vars
  BY <1>1 DEF vars
<1>2. CASE StartAll
  BY <1>2 DEF StartAll, BootDone, BootMark, BootLaunch, BootLaunchFails
<1>3. ASSUME NEW d \in 1 .. MaxGap, Tick(d)
      PROVE  TodoOK'
  BY <1>3 DEF Tick, InStatus, Expired
<1>4. CASE Observe
  BY <1>4 DEF Observe, ProbeAlive, ProbeGone, ProbeFails
<1>5. CASE BeginRestarts
  BY <1>5 DEF BeginRestarts, InStatus
<1>6. CASE Restarts
  BY <1>6 DEF Restarts, Restart, RestartFails, TripStorm, Launch
<1>7. CASE Settle
  BY <1>7 DEF Settle
<1>8. CASE Environment
  BY <1>8 DEF Environment, Dies, TakenByOther
<1>. QED
  BY <1>1, <1>2, <1>3, <1>4, <1>5, <1>6, <1>7, <1>8 DEF Next, Observer

(* Launching a child that is not Running, hence has no process. *)
LEMMA LaunchKeepsOne ==
    ASSUME TypeOK, OneProcessPerChild, NEW c \in Children, NEW p \in Pids,
           status[c] # "Running", Launch(c, p)
    PROVE  OneProcessPerChild'
<1> SUFFICES ASSUME NEW q \in Pids, procs'[q] \in Children
             PROVE  status'[procs'[q]] = "Running" /\ pid'[procs'[q]] = q
  BY DEF OneProcessPerChild
<1>1. CASE q = p
  BY <1>1 DEF Launch, TypeOK
<1>2. CASE q # p
  <2>1. procs'[q] = procs[q] /\ procs[q] # c
    BY <1>2 DEF Launch, TypeOK, OneProcessPerChild
  <2>. QED
    BY <2>1 DEF Launch, TypeOK, OneProcessPerChild
<1>. QED
  BY <1>1, <1>2

LEMMA OneProcessInit == Init => OneProcessPerChild
BY DEF Init, OneProcessPerChild, Children, Free

LEMMA OneProcessNext ==
    ASSUME ~ReplyMayBeLost, TypeOK, TodoOK, OneProcessPerChild, [Next]_vars
    PROVE  OneProcessPerChild'
<1> USE DEF TypeOK, slots
<1>1. CASE UNCHANGED vars
  BY <1>1 DEF vars, OneProcessPerChild
<1>2. CASE BootDone
  BY <1>2 DEF BootDone, OneProcessPerChild
<1>3. ASSUME NEW c \in Children, BootMark(c)
      PROVE  OneProcessPerChild'
  BY <1>3 DEF BootMark, OneProcessPerChild
<1>4. ASSUME NEW c \in Children, BootLaunch(c)
      PROVE  OneProcessPerChild'
  <2>1. PICK p \in Pids : Launch(c, p)
    BY <1>4 DEF BootLaunch
  <2>. QED
    BY <1>4, <2>1, LaunchKeepsOne DEF BootLaunch
<1>5. ASSUME NEW c \in Children, BootLaunchFails(c)
      PROVE  OneProcessPerChild'
  BY <1>5 DEF BootLaunchFails, Unrecorded, OneProcessPerChild
<1>6. ASSUME NEW d \in 1 .. MaxGap, Tick(d)
      PROVE  OneProcessPerChild'
  BY <1>6 DEF Tick, Expired, InStatus, OneProcessPerChild
<1>7. ASSUME NEW c \in Children, ProbeAlive(c) \/ ProbeFails(c)
      PROVE  OneProcessPerChild'
  BY <1>7 DEF ProbeAlive, ProbeFails, OneProcessPerChild
<1>8. ASSUME NEW c \in Children, ProbeGone(c)
      PROVE  OneProcessPerChild'
  \* A process of c would have the pid of the slot, which is free.
  <2>1. \A p \in Pids : procs[p] \in Children => procs[p] # c
    BY <1>8 DEF ProbeGone, OneProcessPerChild, Free, Children
  <2>. QED
    BY <1>8, <2>1 DEF ProbeGone, OneProcessPerChild
<1>9. CASE BeginRestarts
  BY <1>9 DEF BeginRestarts, OneProcessPerChild
<1>10. ASSUME NEW c \in Children, Restart(c)
       PROVE  OneProcessPerChild'
  <2>1. PICK p \in Pids : Launch(c, p)
    BY <1>10 DEF Restart
  <2>2. status[c] # "Running"
    BY <1>10 DEF Restart, First, TodoOK
  <2>. QED
    BY <2>1, <2>2, LaunchKeepsOne
<1>11. ASSUME NEW c \in Children, RestartFails(c)
       PROVE  OneProcessPerChild'
  BY <1>11 DEF RestartFails, Unrecorded, OneProcessPerChild
<1>12. ASSUME NEW c \in Children, TripStorm(c)
       PROVE  OneProcessPerChild'
  <2>1. status[c] = "Exited"
    BY <1>12 DEF TripStorm, First, TodoOK
  <2>. QED
    BY <1>12, <2>1 DEF TripStorm, OneProcessPerChild
<1>13. CASE Settle
  BY <1>13 DEF Settle, OneProcessPerChild
<1>14. ASSUME NEW p \in Pids, Dies(p) \/ TakenByOther(p)
       PROVE  OneProcessPerChild'
  <2>1. Free \notin Children /\ Foreign \notin Children
    BY DEF Free, Foreign, Children
  <2>2. \A q \in Pids : procs'[q] \in Children => procs'[q] = procs[q]
    BY <1>14, <2>1 DEF Dies, TakenByOther
  <2>3. UNCHANGED slots
    BY <1>14 DEF Dies, TakenByOther
  <2>. QED
    BY <2>2, <2>3 DEF OneProcessPerChild
<1>. QED
  BY <1>1, <1>2, <1>3, <1>4, <1>5, <1>6, <1>7, <1>8, <1>9, <1>10, <1>11, <1>12, <1>13, <1>14
     DEF Next, Observer, StartAll, Observe, Restarts, Environment

(* Whatever dies, whoever reuses a pid and whichever launches fail, a live  *)
(* process of a child is the one its slot names and the slot says Running: *)
(* restart_exited never runs a second copy of a child.  Only a lost reply  *)
(* of pevent can bring one about.                                          *)
THEOREM OneProcess == ~ReplyMayBeLost => (Spec => []OneProcessPerChild)
<1> SUFFICES ASSUME ~ReplyMayBeLost
             PROVE  Spec => []OneProcessPerChild
  OBVIOUS
<1>1. Init => ProcessInv
  BY TypeInit, TodoInit, OneProcessInit DEF ProcessInv
<1>2. ProcessInv /\ [Next]_vars => ProcessInv'
  BY TypeNext, TodoNext, OneProcessNext DEF ProcessInv
<1>3. ProcessInv => OneProcessPerChild
  BY DEF ProcessInv
<1>. QED
  BY <1>1, <1>2, <1>3, PTL DEF Spec

-----------------------------------------------------------------------------
(* BackoffScheduled rests on two facts: outside the restart phase no        *)
(* outcome waits to be handled, and a launch never fails in mid-pass.       *)

NothingTripped == pc # "restart" => tripped = {}

ScheduleInv == TypeOK /\ NothingTripped /\ BackoffScheduled

LEMMA ScheduleInit == Init => NothingTripped /\ BackoffScheduled
BY DEF Init, NothingTripped, BackoffScheduled

LEMMA ScheduleNext ==
    ASSUME SpawnMayFail = {}, ScheduleInv, [Next]_vars
    PROVE  NothingTripped' /\ BackoffScheduled'
<1> USE DEF ScheduleInv, TypeOK, slots
<1>1. CASE UNCHANGED vars
  BY <1>1 DEF vars, NothingTripped, BackoffScheduled
<1>2. CASE BootDone
  BY <1>2 DEF BootDone, NothingTripped, BackoffScheduled
<1>3. ASSUME NEW c \in Children, BootMark(c) \/ BootLaunchFails(c)
      PROVE  NothingTripped' /\ BackoffScheduled'
  BY <1>3 DEF BootMark, BootLaunchFails, NothingTripped, BackoffScheduled
<1>4. ASSUME NEW c \in Children, BootLaunch(c)
      PROVE  NothingTripped' /\ BackoffScheduled'
  BY <1>4 DEF BootLaunch, Launch, NothingTripped, BackoffScheduled
<1>5. ASSUME NEW d \in 1 .. MaxGap, Tick(d)
      PROVE  NothingTripped' /\ BackoffScheduled'
  <2>1. tripped = {} /\ tripped' = {} /\ pc' = "observe"
    BY <1>5 DEF Tick, NothingTripped
  <2>2. ASSUME NEW c \in Children, status'[c] = "Backoff"
        PROVE  due'[c] # NoDue
    <3>1. status[c] = "Backoff" /\ c \notin Expired(d)
      BY <1>5, <2>2 DEF Tick
    <3>2. due[c] # NoDue /\ due[c] \in 0 .. Backoff
      BY <2>1, <3>1 DEF BackoffScheduled
    <3>3. due'[c] = TimeLeft(c, d)
      BY <1>5, <3>1 DEF Tick
    <3>. QED
      BY <1>5, <3>2, <3>3, SizesAssumption DEF TimeLeft, NoDue
  <2>. QED
    BY <2>1, <2>2 DEF NothingTripped, BackoffScheduled
<1>6. ASSUME NEW c \in Children, ProbeAlive(c) \/ ProbeGone(c) \/ ProbeFails(c)
      PROVE  NothingTripped' /\ BackoffScheduled'
  BY <1>6 DEF ProbeAlive, ProbeGone, ProbeFails, NothingTripped, BackoffScheduled
<1>7. CASE BeginRestarts
  BY <1>7 DEF BeginRestarts, NothingTripped, BackoffScheduled
<1>8. ASSUME NEW c \in Children, Restart(c)
      PROVE  NothingTripped' /\ BackoffScheduled'
  BY <1>8 DEF Restart, Launch, NothingTripped, BackoffScheduled
<1>9. ASSUME NEW c \in Children, RestartFails(c)
      PROVE  NothingTripped' /\ BackoffScheduled'
  BY <1>9 DEF RestartFails
<1>10. ASSUME NEW c \in Children, TripStorm(c)
       PROVE  NothingTripped' /\ BackoffScheduled'
  BY <1>10 DEF TripStorm, NothingTripped, BackoffScheduled
<1>11. CASE Settle
  BY <1>11, SizesAssumption DEF Settle, NothingTripped, BackoffScheduled, NoDue
<1>12. ASSUME NEW p \in Pids, Dies(p) \/ TakenByOther(p)
       PROVE  NothingTripped' /\ BackoffScheduled'
  BY <1>12 DEF Dies, TakenByOther, NothingTripped, BackoffScheduled
<1>. QED
  BY <1>1, <1>2, <1>3, <1>4, <1>5, <1>6, <1>7, <1>8, <1>9, <1>10, <1>11, <1>12
     DEF Next, Observer, StartAll, Observe, Restarts, Environment

(* While launches succeed, no child is lost in Backoff: each has the entry  *)
(* in backoff_until that clear_expired_backoffs needs, or gets it when the *)
(* pass ends.  The run that lets launches fail shows the assumption is      *)
(* needed.                                                                 *)
THEOREM NoneStranded == SpawnMayFail = {} => (Spec => []BackoffScheduled)
<1> SUFFICES ASSUME SpawnMayFail = {}
             PROVE  Spec => []BackoffScheduled
  OBVIOUS
<1>1. Init => ScheduleInv
  BY TypeInit, ScheduleInit DEF ScheduleInv
<1>2. ScheduleInv /\ [Next]_vars => ScheduleInv'
  BY TypeNext, ScheduleNext DEF ScheduleInv
<1>3. ScheduleInv => BackoffScheduled
  BY DEF ScheduleInv
<1>. QED
  BY <1>1, <1>2, <1>3, PTL DEF Spec

-----------------------------------------------------------------------------
(* StormLimit: the launches of the last Window are among the records of the *)
(* tracker, and a launch is made only when these are fewer than Threshold.  *)

StartsRecorded == \A c \in Children : starts[c] \subseteq history[c]

StormInv == TypeOK /\ StartsRecorded /\ StormLimit

LEMMA AgesFinite ==
    ASSUME NEW h \in SUBSET Ages
    PROVE  /\ IsFiniteSet(h) /\ Cardinality(h) \in Nat
           /\ IsFiniteSet(Recent(h)) /\ Cardinality(Recent(h)) \in Nat
<1>1. IsFiniteSet(Ages)
  BY FS_Interval, SizesAssumption DEF Ages
<1>2. IsFiniteSet(h) /\ IsFiniteSet(Recent(h))
  <2>1. Recent(h) \in SUBSET Ages
    BY DEF Recent
  <2>. QED
    BY <1>1, <2>1, FS_Subset
<1>. QED
  BY <1>2, FS_CardinalityType

(* As time passes, a window never gains a launch. *)
LEMMA AgedRecent ==
    ASSUME NEW h \in SUBSET Ages, NEW d \in Nat
    PROVE  Cardinality(Recent(Aged(h, d))) <= Cardinality(h)
<1> DEFINE f == [a \in h |-> a + d]
           T == {f[a] : a \in h}
<1>1. IsFiniteSet(h) /\ Cardinality(h) \in Nat
  BY AgesFinite
<1>2. f \in Surjection(h, T)
  BY DEF Surjection
<1>3. IsFiniteSet(T) /\ Cardinality(T) <= Cardinality(h)
  <2> HIDE DEF f, T
  <2>. QED
    BY <1>1, <1>2, FS_Surjection
<1>4. Recent(Aged(h, d)) \in SUBSET T
  <2> SUFFICES ASSUME NEW b \in Recent(Aged(h, d))
               PROVE  b \in T
    OBVIOUS
  <2>1. PICK a \in h : b = IF a + d > Window THEN Window + 1 ELSE a + d
    BY DEF Recent, Aged
  <2>2. b <= Window /\ a \in Nat
    BY SizesAssumption DEF Recent, Ages
  <2>3. b = a + d /\ a <= Window
    BY <2>1, <2>2, SizesAssumption
  <2>. QED
    BY <2>3 DEF Recent
<1>5. Cardinality(Recent(Aged(h, d))) <= Cardinality(T)
  <2> HIDE DEF T
  <2>. QED
    BY <1>3, <1>4, FS_Subset
<1>6. Cardinality(Recent(Aged(h, d))) \in Nat /\ Cardinality(T) \in Nat
  <2>1. Aged(h, d) \in SUBSET Ages
    BY AgedType
  <2> HIDE DEF T
  <2>. QED
    BY <1>3, <2>1, AgesFinite, FS_CardinalityType
<1> HIDE DEF T
<1>. QED
  BY <1>1, <1>3, <1>5, <1>6

LEMMA StormInit == Init => StartsRecorded /\ StormLimit
BY FS_EmptySet, SizesAssumption DEF Init, StartsRecorded, StormLimit

(* The steps that neither launch nor record nor let time pass. *)
LEMMA StormFrame ==
    ASSUME StormInv, UNCHANGED <<history, starts>>
    PROVE  StartsRecorded' /\ StormLimit'
BY DEF StormInv, StartsRecorded, StormLimit

(* Recording comes before launching, and a launch follows only below the    *)
(* limit; whether its reply arrives makes no difference to the bound.      *)
LEMMA StormLaunch ==
    ASSUME StormInv, NEW c \in Children,
           history' = [history EXCEPT ![c] = Record(history[c])],
           ~InStorm(history'[c]),
           starts' = [starts EXCEPT ![c] = starts[c] \cup {0}]
    PROVE  StartsRecorded' /\ StormLimit'
<1> USE DEF StormInv, TypeOK
<1>1. history'[c] = Record(history[c]) /\ starts'[c] = starts[c] \cup {0}
  OBVIOUS
<1>2. starts'[c] \subseteq Record(history[c])
  <2>1. \A a \in starts[c] : a \in history[c] /\ a <= Window
    BY SizesAssumption DEF StartsRecorded
  <2>. QED
    BY <1>1, <2>1 DEF Record, Recent
<1>3. IsFiniteSet(Record(history[c])) /\ Cardinality(Record(history[c])) \in Nat
  BY RecordType, AgesFinite
<1>4. Cardinality(Record(history[c])) < Threshold
  BY <1>1, <1>3, SizesAssumption DEF InStorm
<1>5. Cardinality(starts'[c]) < Threshold
  <2>1. /\ Cardinality(starts'[c]) <= Cardinality(Record(history[c]))
        /\ IsFiniteSet(starts'[c])
    BY <1>2, <1>3, FS_Subset
  <2>. QED
    BY <1>3, <1>4, <2>1, FS_CardinalityType, SizesAssumption
<1>6. ASSUME NEW k \in Children \ {c}
      PROVE  starts'[k] = starts[k] /\ history'[k] = history[k]
  OBVIOUS
<1>. QED
  BY <1>1, <1>2, <1>5, <1>6 DEF StartsRecorded, StormLimit

(* A record without a launch. *)
LEMMA StormRecord ==
    ASSUME StormInv, NEW c \in Children, UNCHANGED starts,
           history' = [history EXCEPT ![c] = Record(history[c])]
    PROVE  StartsRecorded' /\ StormLimit'
<1>1. starts[c] \subseteq Record(history[c])
  BY SizesAssumption DEF StormInv, TypeOK, StartsRecorded, Recent, Record
<1>. QED
  BY <1>1 DEF StormInv, TypeOK, StartsRecorded, StormLimit

LEMMA StormTick ==
    ASSUME StormInv, NEW d \in 1 .. MaxGap, Tick(d)
    PROVE  StartsRecorded' /\ StormLimit'
<1> USE DEF StormInv
<1>0. d \in Nat
  OBVIOUS
<1> SUFFICES ASSUME NEW c \in Children
             PROVE  /\ starts'[c] \subseteq history'[c]
                    /\ Cardinality(starts'[c]) < Threshold
  BY DEF StartsRecorded, StormLimit
<1>1. starts[c] \in SUBSET Ages
  BY SizesAssumption DEF TypeOK, Ages
<1>2. starts'[c] = Recent(Aged(starts[c], d)) /\ history'[c] = Aged(history[c], d)
  BY DEF Tick
<1>3. starts'[c] \subseteq history'[c]
  BY <1>2 DEF StartsRecorded, Recent, Aged
<1>4. Cardinality(starts'[c]) < Threshold
  <2>1. Cardinality(starts'[c]) <= Cardinality(starts[c])
    BY <1>0, <1>1, <1>2, AgedRecent
  <2>2. Cardinality(starts[c]) < Threshold
    BY DEF StormLimit
  <2>3. Cardinality(starts'[c]) \in Nat
    BY <1>0, <1>1, <1>2, AgedType, AgesFinite
  <2>. QED
    BY <1>1, <2>1, <2>2, <2>3, AgesFinite, SizesAssumption
<1>. QED
  BY <1>3, <1>4

LEMMA StormNext ==
    ASSUME StormInv, [Next]_vars
    PROVE  StartsRecorded' /\ StormLimit'
<1>1. CASE UNCHANGED vars
  BY <1>1, StormFrame DEF vars
<1>2. CASE StartAll
  BY <1>2, StormFrame DEF StartAll, BootDone, BootMark, BootLaunch, BootLaunchFails
<1>3. ASSUME NEW d \in 1 .. MaxGap, Tick(d)
      PROVE  StartsRecorded' /\ StormLimit'
  BY <1>3, StormTick
<1>4. CASE Observe
  BY <1>4, StormFrame DEF Observe, ProbeAlive, ProbeGone, ProbeFails
<1>5. CASE BeginRestarts
  BY <1>5, StormFrame DEF BeginRestarts
<1>6. ASSUME NEW c \in Children, Restart(c)
      PROVE  StartsRecorded' /\ StormLimit'
  BY <1>6, StormLaunch DEF Restart
<1>7. ASSUME NEW c \in Children, RestartFails(c)
      PROVE  StartsRecorded' /\ StormLimit'
  <2>1. CASE UNCHANGED starts
    BY <1>7, <2>1, StormRecord DEF RestartFails
  <2>2. CASE starts' = [starts EXCEPT ![c] = starts[c] \cup {0}]
    BY <1>7, <2>2, StormLaunch DEF RestartFails
  <2>. QED
    BY <1>7, <2>1, <2>2 DEF RestartFails
<1>8. ASSUME NEW c \in Children, TripStorm(c)
      PROVE  StartsRecorded' /\ StormLimit'
  BY <1>8, StormRecord DEF TripStorm
<1>9. CASE Settle
  BY <1>9, StormFrame DEF Settle
<1>10. CASE Environment
  BY <1>10, StormFrame DEF Environment, Dies, TakenByOther
<1>. QED
  BY <1>1, <1>2, <1>3, <1>4, <1>5, <1>6, <1>7, <1>8, <1>9, <1>10
     DEF Next, Observer, Restarts

(* In no Window does restart_exited launch a child Threshold times, counted *)
(* with the launches whose reply is lost.                                  *)
THEOREM StormLimited == Spec => []StormLimit
<1>1. Init => StormInv
  BY TypeInit, StormInit DEF StormInv
<1>2. StormInv /\ [Next]_vars => StormInv'
  BY TypeNext, StormNext DEF StormInv
<1>3. StormInv => StormLimit
  BY DEF StormInv
<1>. QED
  BY <1>1, <1>2, <1>3, PTL DEF Spec

-----------------------------------------------------------------------------
(* BackoffHonoured: while a child is in Backoff, the record that tripped is *)
(* its youngest, and the time left and the age of that record add up to at *)
(* least Backoff.  Only a slot in Backoff has an entry in backoff_until.    *)

TrippedHeld == /\ pc # "restart" => tripped = {}
               /\ \A c \in tripped : status[c] = "Backoff" /\ due[c] = NoDue

DueOnlyInBackoff == \A c \in Children : due[c] # NoDue => status[c] = "Backoff"

AgeMeetsDue ==
    \A c \in Children : due[c] # NoDue =>
        \A a \in history[c] : a + due[c] >= Backoff

HoldInv == TypeOK /\ TodoOK /\ TrippedHeld /\ DueOnlyInBackoff /\ AgeMeetsDue

LEMMA HoldInit == Init => TrippedHeld /\ DueOnlyInBackoff /\ AgeMeetsDue
BY DEF Init, TrippedHeld, DueOnlyInBackoff, AgeMeetsDue

(* An entry that a tick leaves is one that has not run out.                 *)
LEMMA TickDue ==
    ASSUME TypeOK, DueOnlyInBackoff, NEW d \in 1 .. MaxGap, Tick(d),
           NEW c \in Children, due'[c] # NoDue
    PROVE  /\ c \notin Expired(d) /\ due[c] # NoDue
           /\ due[c] \in 0 .. Backoff /\ due'[c] = due[c] - d /\ due'[c] >= 0
<1>0. d \in Nat /\ d >= 1
  OBVIOUS
<1>1. c \notin Expired(d) /\ due'[c] = TimeLeft(c, d)
  BY DEF Tick
<1>2. due[c] # NoDue
  BY <1>1 DEF TimeLeft
<1>3. due[c] \in 0 .. Backoff /\ status[c] = "Backoff"
  BY <1>2 DEF DueOnlyInBackoff, TypeOK
<1>4. ~(due[c] <= d)
  BY <1>1, <1>2, <1>3 DEF Expired, InStatus
<1>. QED
  BY <1>0, <1>1, <1>2, <1>3, <1>4, SizesAssumption DEF TimeLeft

(* Which slots have an entry, and when an outcome waits to be handled.      *)
LEMMA HeldNext ==
    ASSUME TypeOK, TodoOK, TrippedHeld, DueOnlyInBackoff, [Next]_vars
    PROVE  TrippedHeld' /\ DueOnlyInBackoff'
<1> USE DEF TypeOK, slots
<1>1. CASE UNCHANGED vars
  BY <1>1 DEF vars, TrippedHeld, DueOnlyInBackoff
<1>2. CASE BootDone
  BY <1>2 DEF BootDone, TrippedHeld, DueOnlyInBackoff
<1>3. ASSUME NEW c \in Children, BootMark(c) \/ BootLaunch(c) \/ BootLaunchFails(c)
      PROVE  TrippedHeld' /\ DueOnlyInBackoff'
  BY <1>3 DEF BootMark, BootLaunch, BootLaunchFails, Launch, TrippedHeld, DueOnlyInBackoff
<1>4. ASSUME NEW d \in 1 .. MaxGap, Tick(d)
      PROVE  TrippedHeld' /\ DueOnlyInBackoff'
  <2>1. TrippedHeld'
    BY <1>4 DEF Tick, TrippedHeld
  <2>2. ASSUME NEW c \in Children, due'[c] # NoDue
        PROVE  status'[c] = "Backoff"
    <3>1. c \notin Expired(d) /\ due[c] # NoDue
      BY <1>4, <2>2, TickDue
    <3>. QED
      BY <1>4, <3>1 DEF Tick, DueOnlyInBackoff
  <2>. QED
    BY <2>1, <2>2 DEF DueOnlyInBackoff
<1>5. ASSUME NEW c \in Children, ProbeAlive(c) \/ ProbeGone(c) \/ ProbeFails(c)
      PROVE  TrippedHeld' /\ DueOnlyInBackoff'
  BY <1>5 DEF ProbeAlive, ProbeGone, ProbeFails, First, TodoOK,
              TrippedHeld, DueOnlyInBackoff
<1>6. CASE BeginRestarts
  BY <1>6 DEF BeginRestarts, TrippedHeld, DueOnlyInBackoff
<1>7. ASSUME NEW c \in Children, Restart(c) \/ RestartFails(c) \/ TripStorm(c)
      PROVE  TrippedHeld' /\ DueOnlyInBackoff'
  \* c is Exited, so it has no entry and is not among the tripped.
  <2>1. status[c] = "Exited" /\ due[c] = NoDue /\ c \notin tripped
    BY <1>7 DEF Restart, RestartFails, TripStorm, First, TodoOK,
                TrippedHeld, DueOnlyInBackoff
  <2>. QED
    BY <1>7, <2>1 DEF Restart, RestartFails, TripStorm, Launch,
                      TrippedHeld, DueOnlyInBackoff
<1>8. CASE Settle
  BY <1>8 DEF Settle, TrippedHeld, DueOnlyInBackoff
<1>9. ASSUME NEW p \in Pids, Dies(p) \/ TakenByOther(p)
      PROVE  TrippedHeld' /\ DueOnlyInBackoff'
  BY <1>9 DEF Dies, TakenByOther, TrippedHeld, DueOnlyInBackoff
<1>. QED
  BY <1>1, <1>2, <1>3, <1>4, <1>5, <1>6, <1>7, <1>8, <1>9
     DEF Next, Observer, StartAll, Observe, Restarts, Environment

(* A tick moves the ages up and the time left down by the same amount; an   *)
(* age is cut off only above Window, where it is beyond Backoff anyway.     *)
LEMMA AgeTick ==
    ASSUME Backoff <= Window + 1, HoldInv, NEW d \in 1 .. MaxGap, Tick(d)
    PROVE  AgeMeetsDue'
<1> USE DEF HoldInv, TypeOK
<1>0. d \in Nat /\ d >= 1
  OBVIOUS
<1> SUFFICES ASSUME NEW c \in Children, due'[c] # NoDue, NEW b \in history'[c]
             PROVE  b + due'[c] >= Backoff
  BY DEF AgeMeetsDue
<1>1. /\ due[c] # NoDue /\ due[c] \in 0 .. Backoff
      /\ due'[c] = due[c] - d /\ due'[c] >= 0
  BY TickDue
<1>2. PICK a \in history[c] : b = IF a + d > Window THEN Window + 1 ELSE a + d
  BY DEF Tick, Aged
<1>3. a \in Nat
  BY SizesAssumption DEF Ages
<1>4. a + due[c] >= Backoff
  BY <1>1 DEF AgeMeetsDue
<1>. QED
  BY <1>0, <1>1, <1>2, <1>3, <1>4, SizesAssumption

LEMMA AgeNext ==
    ASSUME Backoff <= Window + 1, HoldInv, [Next]_vars
    PROVE  AgeMeetsDue'
<1> USE DEF HoldInv, TypeOK, slots
<1>1. CASE UNCHANGED <<history, due>>
  BY <1>1 DEF AgeMeetsDue
<1>2. CASE StartAll \/ Observe \/ BeginRestarts \/ Environment \/ UNCHANGED vars
  BY <1>1, <1>2 DEF StartAll, BootDone, BootMark, BootLaunch, BootLaunchFails,
                    Observe, ProbeAlive, ProbeGone, ProbeFails, BeginRestarts,
                    Environment, Dies, TakenByOther, vars
<1>4. ASSUME NEW d \in 1 .. MaxGap, Tick(d)
      PROVE  AgeMeetsDue'
  BY <1>4, AgeTick
<1>7. ASSUME NEW c \in Children, Restart(c) \/ RestartFails(c) \/ TripStorm(c)
      PROVE  AgeMeetsDue'
  <2>1. due[c] = NoDue
    BY <1>7 DEF Restart, RestartFails, TripStorm, First, TodoOK, DueOnlyInBackoff
  <2>2. history' = [history EXCEPT ![c] = Record(history[c])] /\ UNCHANGED due
    BY <1>7 DEF Restart, RestartFails, TripStorm
  <2>. QED
    BY <2>1, <2>2 DEF AgeMeetsDue
<1>8. CASE Settle
  <2> SUFFICES ASSUME NEW c \in Children, due'[c] # NoDue, NEW a \in history[c]
               PROVE  a + due'[c] >= Backoff
    BY <1>8 DEF Settle, AgeMeetsDue
  <2>1. a \in Nat
    BY SizesAssumption DEF Ages
  <2>2. CASE c \in tripped
    BY <1>8, <2>1, <2>2, SizesAssumption DEF Settle
  <2>3. CASE c \notin tripped
    BY <1>8, <2>3 DEF Settle, AgeMeetsDue
  <2>. QED
    BY <2>2, <2>3
<1>. QED
  BY <1>2, <1>4, <1>7, <1>8 DEF Next, Observer, Restarts

(* Only a tick takes a child out of Backoff, and then the tripping record   *)
(* has reached the age of Backoff.                                          *)
LEMMA HoldStep ==
    ASSUME Backoff <= Window + 1, HoldInv, [Next]_vars,
           NEW c \in Children, status[c] = "Backoff", status'[c] # "Backoff",
           NEW b \in history'[c]
    PROVE  b >= Backoff
<1> USE DEF HoldInv, TypeOK, slots
<1>1. PICK d \in 1 .. MaxGap : Tick(d)
  BY DEF Next, Observer, StartAll, Observe, Restarts, Environment, vars, BootDone,
         BootMark, BootLaunch, BootLaunchFails, ProbeAlive, ProbeGone, ProbeFails,
         BeginRestarts, Restart, RestartFails, TripStorm, Settle, Dies, TakenByOther,
         Launch, First, TodoOK
<1>2. c \in Expired(d)
  BY <1>1 DEF Tick
<1>3. due[c] # NoDue /\ due[c] \in 0 .. Backoff /\ due[c] <= d
  BY <1>2 DEF Expired
<1>4. PICK a \in history[c] : b = IF a + d > Window THEN Window + 1 ELSE a + d
  BY <1>1 DEF Tick, Aged
<1>5. a \in Nat /\ a + due[c] >= Backoff
  BY <1>3, SizesAssumption DEF AgeMeetsDue, Ages
<1>. QED
  BY <1>3, <1>4, <1>5, SizesAssumption

(* With a window at least as long as the backoff (60 s and 30 s as shipped), *)
(* no child leaves Backoff before Backoff has passed since its storm, even  *)
(* when launches fail and drop outcomes.                                    *)
THEOREM BackoffKept == Backoff <= Window + 1 => (Spec => BackoffHonoured)
<1> SUFFICES ASSUME Backoff <= Window + 1
             PROVE  Spec => BackoffHonoured
  OBVIOUS
<1>1. Init => HoldInv
  BY TypeInit, TodoInit, HoldInit DEF HoldInv
<1>2. HoldInv /\ [Next]_vars => HoldInv'
  BY TypeNext, TodoNext, HeldNext, AgeNext DEF HoldInv
<1>3. HoldInv /\ [Next]_vars =>
        [\A c \in Children : status[c] = "Backoff" /\ status'[c] # "Backoff"
            => \A a \in history'[c] : a >= Backoff]_vars
  BY HoldStep
<1>. QED
  BY <1>1, <1>2, <1>3, PTL DEF Spec, BackoffHonoured

-----------------------------------------------------------------------------
(* BootOrder: start_all works at the front of the children still to start,  *)
(* and what is behind the front runs, for nothing observes exits yet.       *)

BootFront ==
    pc = "boot" /\ todo # {} =>
        \A c \in Children :
            IF c \in todo THEN status[c] = "Pending" \/ (status[c] = "Starting" /\ First(c))
            ELSE status[c] = "Running"

BootInv == TypeOK /\ BootFront /\ BootOrder

LEMMA BootInit == Init => BootFront /\ BootOrder
BY DEF Init, BootFront, BootOrder

LEMMA BootNext ==
    ASSUME BootInv, [Next]_vars
    PROVE  BootFront' /\ BootOrder'
<1> USE DEF BootInv, TypeOK, slots, BootFront, BootOrder, First
<1>1. CASE UNCHANGED vars
  BY <1>1 DEF vars
<1>2. CASE BootDone
  BY <1>2 DEF BootDone
<1>3. ASSUME NEW c \in Children, BootMark(c)
      PROVE  BootFront' /\ BootOrder'
  <2>1. ASSUME NEW k \in 1 .. c - 1
        PROVE  k \in Children /\ status[k] = "Running"
    <3>1. k \in Children /\ k < c
      BY SizesAssumption DEF Children
    <3>2. k \notin todo
      BY <1>3, <3>1, SizesAssumption DEF BootMark, Children
    <3>3. pc = "boot" /\ todo # {}
      BY <1>3 DEF BootMark
    <3>. QED
      BY <3>1, <3>2, <3>3
  <2>2. \A k \in Children \ {c} : status'[k] = status[k]
    BY <1>3 DEF BootMark
  <2>3. status'[c] = "Starting" /\ pc' = pc /\ todo' = todo
    BY <1>3 DEF BootMark
  <2>4. BootFront'
    BY <1>3, <2>2, <2>3 DEF BootMark
  <2>5. ASSUME NEW k \in Children, status'[k] # "Pending", NEW j \in 1 .. k - 1
        PROVE  status'[j] = "Running"
    <3>1. CASE k = c
      BY <2>1, <2>2, <2>5, <3>1 DEF Children
    <3>2. CASE k # c
      <4>1. status[j] = "Running"
        BY <1>3, <2>2, <2>5, <3>2 DEF BootMark
      <4>2. j \in Children /\ j # c
        BY <1>3, <4>1, SizesAssumption DEF BootMark, Children
      <4>. QED
        BY <2>2, <4>1, <4>2
    <3>. QED
      BY <3>1, <3>2
  <2>. QED
    BY <2>4, <2>5
<1>4. ASSUME NEW c \in Children, BootLaunch(c)
      PROVE  BootFront' /\ BootOrder'
  <2>1. /\ \A k \in Children : status'[k] = IF k = c THEN "Running" ELSE status[k]
        /\ pc = "boot" /\ pc' = "boot" /\ todo' = todo \ {c}
    BY <1>4 DEF BootLaunch, Launch
  <2>2. \A k \in todo \ {c} : ~First(k)
    BY <1>4 DEF BootLaunch, Children
  <2>3. BootFront'
    BY <1>4, <2>1, <2>2 DEF BootLaunch
  <2>4. BootOrder'
    <3> SUFFICES ASSUME NEW k \in Children, status'[k] # "Pending", NEW j \in 1 .. k - 1
                 PROVE  status'[j] = "Running"
      OBVIOUS
    <3>1. status[k] # "Pending"
      BY <1>4, <2>1 DEF BootLaunch
    <3>2. j \in Children
      BY SizesAssumption DEF Children
    <3>. QED
      BY <2>1, <3>1, <3>2
  <2>. QED
    BY <2>3, <2>4
<1>5. ASSUME NEW c \in Children, BootLaunchFails(c)
      PROVE  BootFront' /\ BootOrder'
  BY <1>5 DEF BootLaunchFails
<1>6. ASSUME pc # "boot", pc' # "boot"
      PROVE  BootFront' /\ BootOrder'
  BY <1>6
<1>7. CASE Environment
  BY <1>7 DEF Environment, Dies, TakenByOther
<1>8. CASE (\E d \in 1 .. MaxGap : Tick(d)) \/ Observe \/ BeginRestarts \/ Restarts \/ Settle
  <2>1. pc # "boot" /\ pc' # "boot"
    BY <1>8 DEF Tick, Observe, ProbeAlive, ProbeGone, ProbeFails, BeginRestarts,
                Restarts, Restart, RestartFails, TripStorm, Settle
  <2>. QED
    BY <1>6, <2>1
<1>. QED
  BY <1>1, <1>2, <1>3, <1>4, <1>5, <1>7, <1>8 DEF Next, Observer, StartAll

(* However many children there are and whichever launch fails, start_all    *)
(* starts a child only after all the children before it were launched.      *)
THEOREM StartupOrder == Spec => []BootOrder
<1>1. Init => BootInv
  BY TypeInit, BootInit DEF BootInv
<1>2. BootInv /\ [Next]_vars => BootInv'
  BY TypeNext, BootNext DEF BootInv
<1>3. BootInv => BootOrder
  BY DEF BootInv
<1>. QED
  BY <1>1, <1>2, <1>3, PTL DEF Spec

=============================================================================
