--------------------------- MODULE WatchdogProofs ---------------------------
(***************************************************************************)
(* Theorems about Watchdog, for every set of units, every limit and every  *)
(* interleaving with failures, the operator and restarts of the watchdog.  *)
(***************************************************************************)
EXTENDS Watchdog, Functions, FiniteSetTheorems, TLAPS

(* The recovery table's operations yield recovery states; record_failure is *)
(* only called below the give-up limit, which the last lemma assumes.       *)
LEMMA DefaultType == Default \in RecoveryState
BY WatchdogAssumption DEF Default, RecoveryState, NoWait

LEMMA SuccessType ==
    ASSUME NEW s \in RecoveryState
    PROVE  /\ RecordSuccess(s) \in RecoveryState
           /\ RecordSuccess(s).failures = 0
           /\ RecordSuccess(s).gaveUp = s.gaveUp
<1>1. s.gaveUp \in BOOLEAN
  BY DEF RecoveryState
<1>2. /\ 0 \in 0 .. GiveUpAfter
      /\ InitialBackoff \in InitialBackoff .. MaxBackoff
      /\ NoWait \in NoWait .. MaxBackoff
  BY WatchdogAssumption DEF NoWait
<1>. QED
  BY <1>1, <1>2 DEF RecordSuccess, RecoveryState

LEMMA FailureType ==
    ASSUME NEW s \in RecoveryState, s.failures < GiveUpAfter
    PROVE  RecordFailure(s) \in RecoveryState
<1>1. /\ s.failures \in 0 .. GiveUpAfter /\ s.backoff \in InitialBackoff .. MaxBackoff
      /\ s.wait \in NoWait .. MaxBackoff /\ s.gaveUp \in BOOLEAN
  BY DEF RecoveryState
<1>2. s.failures + 1 \in 0 .. GiveUpAfter
  BY <1>1, WatchdogAssumption
<1>3. CASE s.failures + 1 >= GiveUpAfter
  <2>1. RecordFailure(s) = [failures |-> s.failures + 1, backoff |-> s.backoff,
                            wait |-> s.wait, gaveUp |-> TRUE]
    BY <1>3 DEF RecordFailure, RecoveryState
  <2>. QED
    BY <1>1, <1>2, <2>1 DEF RecoveryState
<1>4. CASE ~(s.failures + 1 >= GiveUpAfter)
  <2>1. Least(2 * s.backoff, MaxBackoff) \in InitialBackoff .. MaxBackoff
    BY <1>1, WatchdogAssumption DEF Least
  <2>2. RecordFailure(s) = [failures |-> s.failures + 1,
                            backoff |-> Least(2 * s.backoff, MaxBackoff),
                            wait |-> s.backoff, gaveUp |-> s.gaveUp]
    BY <1>4 DEF RecordFailure, RecoveryState
  <2>3. s.backoff \in NoWait .. MaxBackoff
    BY <1>1, WatchdogAssumption DEF NoWait
  <2>. QED
    BY <1>1, <1>2, <2>1, <2>2, <2>3 DEF RecoveryState
<1>. QED
  BY <1>3, <1>4

LEMMA TimeLeftType ==
    ASSUME NEW w \in NoWait .. MaxBackoff, NEW d \in Nat
    PROVE  TimeLeft(w, d) \in NoWait .. MaxBackoff
BY WatchdogAssumption DEF TimeLeft, NoWait

-----------------------------------------------------------------------------
(* TypeOK is not inductive alone: that the count stays within GiveUpAfter   *)
(* rests on gaveUp marking the limit and on no attempt being under way for  *)
(* a unit that is given up.  A dry run empties the table at each tick, and  *)
(* that takes no give-up back because it never gives up.                    *)

CurNotGivenUp == cur # NoUnit => ~table[cur].gaveUp

DryNeverGivesUp == dry => events = {} /\ reported = {}

TableInv == TypeOK /\ CurNotGivenUp /\ GiveUpIsReported /\ DryNeverGivesUp

LEMMA TableInit == Init => TableInv
<1> SUFFICES ASSUME Init
             PROVE  TableInv
  OBVIOUS
<1>1. TypeOK
  <2>1. table \in [Units -> RecoveryState]
    BY DefaultType DEF Init
  <2>. QED
    BY <2>1, WatchdogAssumption DEF Init, TypeOK
<1>2. CurNotGivenUp
  BY DEF Init, CurNotGivenUp
<1>3. GiveUpIsReported
  BY WatchdogAssumption DEF Init, GiveUpIsReported, Default
<1>4. DryNeverGivesUp
  BY DEF Init, DryNeverGivesUp
<1>. QED
  BY <1>1, <1>2, <1>3, <1>4 DEF TableInv

(* The common end of a failed recovery, from ResetFails, StartFails and     *)
(* CheckIsFailed.                                                           *)
LEMMA FailedKeeps ==
    ASSUME TableInv, NEW u \in Fleet, ~table[u].gaveUp, Failed(u),
           unit' \in [Units -> {"active", "inactive", "failed"}],
           todo' \in SUBSET Fleet, ~dry, UNCHANGED <<dry, reported>>
    PROVE  TableInv'
<1> DEFINE s == table[u]
<1>0. u \in Units /\ s \in RecoveryState
  BY WatchdogAssumption DEF TableInv, TypeOK
<1>1. s.failures < GiveUpAfter
  BY <1>0, WatchdogAssumption DEF TableInv, GiveUpIsReported, RecoveryState
<1>2. table'[u] = RecordFailure(s)
  BY <1>0 DEF Failed, TableInv, TypeOK
<1>3. \A v \in Units \ {u} : table'[v] = table[v]
  BY DEF Failed, TableInv, TypeOK
<1>4. RecordFailure(s) \in RecoveryState
  BY <1>0, <1>1, FailureType
<1>5. TypeOK'
  <2>1. table' \in [Units -> RecoveryState]
    BY <1>4 DEF Failed, TableInv, TypeOK
  <2>2. since' \in [Units -> 0 .. MaxBackoff]
    BY WatchdogAssumption DEF Failed, TableInv, TypeOK
  <2>3. events' \in SUBSET Fleet /\ step' = "gate" /\ cur' = NoUnit
    BY DEF Failed, TableInv, TypeOK
  <2>. QED
    BY <2>1, <2>2, <2>3 DEF TableInv, TypeOK
<1>6. CurNotGivenUp'
  BY DEF Failed, CurNotGivenUp
<1>7. /\ table'[u].failures = s.failures + 1
      /\ table'[u].gaveUp <=> s.failures + 1 >= GiveUpAfter
  BY <1>0, <1>2 DEF RecordFailure, RecoveryState, TableInv, GiveUpIsReported
<1>8. GiveUpIsReported'
  <2>1. events' = IF table'[u].gaveUp THEN events \cup {u} ELSE events
    BY DEF Failed
  <2>2. u \notin events \cup reported
    BY <1>0 DEF TableInv, GiveUpIsReported
  <2>3. ASSUME NEW v \in Units \ {u}
        PROVE  /\ table'[v].gaveUp <=> table'[v].failures = GiveUpAfter
               /\ table'[v].gaveUp <=> v \in events' \cup reported'
               /\ ~(v \in events' /\ v \in reported')
    BY <1>3, <2>1 DEF TableInv, GiveUpIsReported
  <2>4. table'[u].gaveUp <=> table'[u].failures = GiveUpAfter
    BY <1>0, <1>1, <1>7, WatchdogAssumption DEF RecoveryState
  <2>5. /\ table'[u].gaveUp <=> u \in events' \cup reported'
        /\ ~(u \in events' /\ u \in reported')
    BY <2>1, <2>2
  <2>. QED
    BY <2>3, <2>4, <2>5 DEF GiveUpIsReported
<1>9. DryNeverGivesUp'
  BY DEF DryNeverGivesUp
<1>. QED
  BY <1>5, <1>6, <1>8, <1>9 DEF TableInv

(* Time changes neither a count nor a verdict, and a new table of a dry run *)
(* replaces one in which no unit is given up.                               *)
LEMMA TickKeeps ==
    ASSUME TableInv, NEW d \in 1 .. MaxGap, Tick(d)
    PROVE  TableInv'
<1>0. d \in Nat
  OBVIOUS
<1>1. ASSUME NEW v \in Units
      PROVE  /\ table'[v] \in RecoveryState
             /\ table'[v].failures = (IF dry THEN 0 ELSE table[v].failures)
             /\ table'[v].gaveUp = table[v].gaveUp
  <2>1. table[v] \in RecoveryState
    BY DEF TableInv, TypeOK
  <2>2. CASE dry
    <3>1. table'[v] = Default
      BY <2>2 DEF Tick
    <3>2. ~table[v].gaveUp
      BY <2>2 DEF TableInv, GiveUpIsReported, DryNeverGivesUp
    <3>3. table[v].gaveUp \in BOOLEAN
      BY <2>1 DEF RecoveryState
    <3>. QED
      <4>1. table[v].gaveUp = FALSE
        BY <3>2, <3>3
      <4>2. Default.failures = 0 /\ Default.gaveUp = FALSE
        BY DEF Default
      <4>. QED
        BY <2>2, <3>1, <4>1, <4>2, DefaultType
  <2>3. CASE ~dry
    <3>1. table'[v] = [table[v] EXCEPT !.wait = TimeLeft(table[v].wait, d)]
      BY <2>3 DEF Tick
    <3>2. TimeLeft(table[v].wait, d) \in NoWait .. MaxBackoff
      BY <1>0, <2>1, TimeLeftType DEF RecoveryState
    <3>. QED
      BY <2>1, <2>3, <3>1, <3>2 DEF RecoveryState
  <2>. QED
    BY <2>2, <2>3
<1>2. table' \in [Units -> RecoveryState]
  BY <1>1 DEF Tick
<1>3. since' \in [Units -> 0 .. MaxBackoff]
  BY <1>0, WatchdogAssumption DEF Tick, Least, TableInv, TypeOK
<1>4. TypeOK'
  BY <1>2, <1>3 DEF Tick, TableInv, TypeOK
<1>5. CurNotGivenUp'
  BY DEF Tick, CurNotGivenUp, TableInv, TypeOK
<1>6. GiveUpIsReported'
  <2>1. ASSUME NEW v \in Units
        PROVE  table'[v].gaveUp <=> table'[v].failures = GiveUpAfter
    <3>1. dry => ~table[v].gaveUp
      BY DEF TableInv, GiveUpIsReported, DryNeverGivesUp
    <3>. QED
      BY <1>1, <3>1, WatchdogAssumption DEF GiveUpIsReported, TableInv
  <2>. QED
    BY <1>1, <2>1 DEF Tick, GiveUpIsReported, TableInv
<1>7. DryNeverGivesUp'
  BY DEF Tick, DryNeverGivesUp, TableInv
<1>. QED
  BY <1>4, <1>5, <1>6, <1>7 DEF TableInv

LEMMA TableNext == TableInv /\ [Next]_vars => TableInv'
<1> SUFFICES ASSUME TableInv, [Next]_vars
             PROVE  TableInv'
  OBVIOUS
<1>1. CASE UNCHANGED vars
  BY <1>1 DEF vars, TableInv, TypeOK, CurNotGivenUp, GiveUpIsReported, DryNeverGivesUp
<1>2. ASSUME NEW d \in 1 .. MaxGap, Tick(d)
      PROVE  TableInv'
  BY <1>2, TickKeeps
<1>12. CASE ListJson \/ JsonRefused \/ ListText \/ ListFails
  <2>1. todo' \in SUBSET Fleet
    BY <1>12 DEF ListJson, JsonRefused, ListText, ListFails, TakeList, TableInv, TypeOK
  <2>2. /\ step \in {"list", "text"} /\ step' \in {"sleep", "text", "gate"}
        /\ UNCHANGED <<unit, dry, table, cur, events, reported, since>>
    BY <1>12 DEF ListJson, JsonRefused, ListText, ListFails
  <2>3. TypeOK'
    BY <2>1, <2>2 DEF TableInv, TypeOK
  <2>. QED
    BY <2>2, <2>3 DEF TableInv, CurNotGivenUp, GiveUpIsReported, DryNeverGivesUp
<1>3. ASSUME NEW u \in Fleet, Skip(u)
      PROVE  TableInv'
  BY <1>3 DEF Skip, TableInv, TypeOK, CurNotGivenUp, GiveUpIsReported, DryNeverGivesUp
<1>4. ASSUME NEW u \in Fleet, ResetFailed(u)
      PROVE  TableInv'
  <2>0. u \in Units /\ u # NoUnit
    BY WatchdogAssumption
  <2>1. unit' \in [Units -> {"active", "inactive", "failed"}]
    BY <1>4 DEF ResetFailed, TableInv, TypeOK
  <2>2. CurNotGivenUp'
    BY <1>4 DEF ResetFailed, MayAttempt, CurNotGivenUp
  <2>3. TypeOK'
    BY <1>4, <2>0, <2>1 DEF ResetFailed, TableInv, TypeOK
  <2>. QED
    BY <1>4, <2>2, <2>3 DEF ResetFailed, TableInv, GiveUpIsReported, DryNeverGivesUp
<1>5. ASSUME NEW u \in Fleet, ResetFails(u)
      PROVE  TableInv'
  <2>1. todo' \in SUBSET Fleet /\ ~table[u].gaveUp
    BY <1>5 DEF ResetFails, MayAttempt, TableInv, TypeOK
  <2>. QED
    BY <1>5, <2>1, FailedKeeps DEF ResetFails, TableInv, TypeOK
<1>6. CASE StartSucceeds
  <2>1. unit' \in [Units -> {"active", "inactive", "failed"}]
    BY <1>6 DEF StartSucceeds, TableInv, TypeOK
  <2>. QED
    BY <1>6, <2>1 DEF StartSucceeds, TableInv, TypeOK, CurNotGivenUp, GiveUpIsReported, DryNeverGivesUp
<1>7. CASE StartFails \/ CheckIsFailed
  <2>1. step \in {"start", "check"}
    BY <1>7 DEF StartFails, CheckIsFailed
  <2>2. cur \in Fleet /\ ~table[cur].gaveUp
    BY <2>1 DEF TableInv, TypeOK, CurNotGivenUp
  <2>3. unit' \in [Units -> {"active", "inactive", "failed"}]
    BY <1>7, WatchdogAssumption DEF StartFails, CheckIsFailed, TableInv, TypeOK
  <2>4. Failed(cur) /\ ~dry /\ UNCHANGED <<dry, todo, reported>>
    BY <1>7 DEF StartFails, CheckIsFailed
  <2>. QED
    BY <2>2, <2>3, <2>4, FailedKeeps DEF TableInv, TypeOK
<1>8. CASE CheckIsUp \/ CheckUnanswered
  <2>1. cur \in Fleet /\ cur \in Units /\ ~table[cur].gaveUp
    BY <1>8, WatchdogAssumption DEF CheckIsUp, CheckUnanswered, CheckUnanswered, Recovered, TableInv, TypeOK, CurNotGivenUp
  <2>2. table' = [table EXCEPT ![cur] = RecordSuccess(table[cur])]
    BY <1>8 DEF CheckIsUp, CheckUnanswered, Recovered
  <2>3. table[cur] \in RecoveryState
    BY <2>1 DEF TableInv, TypeOK
  <2>4. /\ table'[cur] \in RecoveryState
        /\ table'[cur].failures = 0
        /\ table'[cur].gaveUp = table[cur].gaveUp
    BY <2>1, <2>2, <2>3, SuccessType DEF TableInv, TypeOK
  <2>5. \A v \in Units \ {cur} : table'[v] = table[v]
    BY <2>2 DEF TableInv, TypeOK
  <2>6. TypeOK'
    BY <1>8, <2>2, <2>3, SuccessType DEF CheckIsUp, CheckUnanswered, Recovered, TableInv, TypeOK
  <2>7. GiveUpIsReported'
    BY <1>8, <2>1, <2>4, <2>5, WatchdogAssumption DEF CheckIsUp, CheckUnanswered, Recovered, TableInv, GiveUpIsReported
  <2>8. CurNotGivenUp'
    BY <1>8 DEF CheckIsUp, CheckUnanswered, Recovered, CurNotGivenUp
  <2>9. DryNeverGivesUp'
    BY <1>8 DEF CheckIsUp, CheckUnanswered, Recovered, TableInv, DryNeverGivesUp
  <2>. QED
    BY <2>6, <2>7, <2>8, <2>9 DEF TableInv
<1>9. CASE EndOfTick
  BY <1>9 DEF EndOfTick, TableInv, TypeOK, CurNotGivenUp, GiveUpIsReported, DryNeverGivesUp
<1>10. ASSUME NEW u \in Units, UnitFails(u) \/ OperatorSets(u)
       PROVE  TableInv'
  <2>1. unit' \in [Units -> {"active", "inactive", "failed"}]
    BY <1>10 DEF UnitFails, OperatorSets, TableInv, TypeOK
  <2>2. UNCHANGED <<dry, table, step, todo, cur, events, reported, since>>
    BY <1>10 DEF UnitFails, OperatorSets
  <2>. QED
    BY <2>1, <2>2 DEF TableInv, TypeOK, CurNotGivenUp, GiveUpIsReported, DryNeverGivesUp
<1>11. CASE Restarted
  <2>1. table' \in [Units -> RecoveryState]
    BY <1>11, DefaultType DEF Restarted
  <2>2. TypeOK'
    BY <1>11, <2>1, WatchdogAssumption DEF Restarted, TableInv, TypeOK
  <2>3. CurNotGivenUp'
    BY <1>11 DEF Restarted, CurNotGivenUp
  <2>4. GiveUpIsReported'
    BY <1>11, WatchdogAssumption DEF Restarted, GiveUpIsReported, Default
  <2>5. DryNeverGivesUp'
    BY <1>11 DEF Restarted, DryNeverGivesUp
  <2>. QED
    BY <2>2, <2>3, <2>4, <2>5 DEF TableInv
<1>. QED
  BY <1>1, <1>2, <1>3, <1>4, <1>5, <1>6, <1>7, <1>8, <1>9, <1>10, <1>11, <1>12
     DEF Next, Engine, Environment

(* The table's counts and backoffs stay in their ranges: record_failure is  *)
(* never called beyond the give-up limit.                                   *)
THEOREM WatchdogTypeCorrect == Spec => []TypeOK
<1>1. TableInv => TypeOK
  BY DEF TableInv
<1>. QED
  BY <1>1, TableInit, TableNext, PTL DEF Spec

(* A unit is given up on at the limit and only there, with one event.      *)
THEOREM ReportedOnce == Spec => []GiveUpIsReported
<1>1. TableInv => GiveUpIsReported
  BY DEF TableInv
<1>. QED
  BY <1>1, TableInit, TableNext, PTL DEF Spec

(* The engine of a dry run is the real one, but no path through it reaches  *)
(* a call that changes a unit or an event.                                  *)
THEOREM DryRunIsDry == Spec => DryRunOnlyLooks
<1>1. ASSUME TableInv, dry, Engine
      PROVE  UNCHANGED unit /\ events' = {}
  <2>1. events = {} /\ unit \in [Units -> {"active", "inactive", "failed"}]
    BY <1>1 DEF TableInv, DryNeverGivesUp, TypeOK
  <2>2. CASE \E d \in 1 .. MaxGap : Tick(d)
    BY <2>1, <2>2 DEF Tick
  <2>3. CASE ListJson \/ JsonRefused \/ ListText \/ ListFails
    BY <2>1, <2>3 DEF ListJson, JsonRefused, ListText, ListFails
  <2>4. CASE \E u \in Fleet : Skip(u) \/ ResetFailed(u) \/ ResetFails(u)
    BY <1>1, <2>1, <2>4 DEF Skip, ResetFailed, ResetFails
  <2>5. CASE StartSucceeds
    BY <1>1, <2>1, <2>5 DEF StartSucceeds
  <2>6. CASE StartFails \/ CheckIsFailed
    BY <1>1, <2>6 DEF StartFails, CheckIsFailed
  <2>7. CASE CheckIsUp \/ CheckUnanswered \/ EndOfTick
    BY <2>1, <2>7 DEF CheckIsUp, CheckUnanswered, Recovered, EndOfTick
  <2>. QED
    BY <1>1, <2>2, <2>3, <2>4, <2>5, <2>6, <2>7 DEF Engine
<1>2. TableInv /\ [Next]_vars => [dry /\ Engine => UNCHANGED unit /\ events' = {}]_vars
  BY <1>1
<1>. QED
  BY <1>2, TableInit, TableNext, PTL DEF Spec, DryRunOnlyLooks

-----------------------------------------------------------------------------
(* The doubling of the backoff: the prover knows of a power of two only that *)
(* it counts the subsets of an interval, and that is enough.               *)
LEMMA PowerType ==
    ASSUME NEW k \in Nat
    PROVE  /\ 2 ^ k = Cardinality(SUBSET (1 .. k)) /\ IsFiniteSet(SUBSET (1 .. k))
           /\ 2 ^ k \in Nat /\ 2 ^ k >= 1
<1>1. IsFiniteSet(1 .. k) /\ Cardinality(1 .. k) = k
  BY FS_Interval
<1>2. IsFiniteSet(SUBSET (1 .. k)) /\ Cardinality(SUBSET (1 .. k)) = 2 ^ k
  BY <1>1, FS_SUBSET
<1>3. Cardinality(SUBSET (1 .. k)) \in Nat
  BY <1>2, FS_CardinalityType
<1>4. Cardinality(SUBSET (1 .. k)) # 0
  <2>1. SUBSET (1 .. k) # {}
    OBVIOUS
  <2>. QED
    BY <1>2, <2>1, FS_EmptySet
<1>. QED
  BY <1>2, <1>3, <1>4

LEMMA PowerZero == 2 ^ 0 = 1
<1>1. 1 .. 0 = {}
  OBVIOUS
<1>2. SUBSET (1 .. 0) = {{}}
  BY <1>1
<1>. QED
  BY <1>2, PowerType, FS_Singleton

LEMMA PowerNext ==
    ASSUME NEW k \in Nat
    PROVE  2 ^ (k + 1) = 2 * 2 ^ k
<1> DEFINE S == SUBSET (1 .. k)
           T == {A \cup {k + 1} : A \in S}
           f == [A \in S |-> A \cup {k + 1}]
<1>1. IsFiniteSet(S) /\ Cardinality(S) = 2 ^ k /\ 2 ^ k \in Nat
  BY PowerType
<1>2. f \in Bijection(S, T)
  <2>1. f \in [S -> T]
    OBVIOUS
  <2>2. ASSUME NEW A \in S, NEW B \in S, f[A] = f[B]
        PROVE  A = B
    <3>1. k + 1 \notin A /\ k + 1 \notin B
      OBVIOUS
    <3>. QED
      BY <2>2, <3>1
  <2>3. \A t \in T : \E A \in S : f[A] = t
    OBVIOUS
  <2>. QED
    BY <2>1, <2>2, <2>3 DEF Bijection, Injection, Surjection, IsInjective
<1>3. IsFiniteSet(T) /\ Cardinality(T) = 2 ^ k
  <2> HIDE DEF S, T, f
  <2>. QED
    BY <1>1, <1>2, FS_Bijection DEF ExistsBijection
<1>4. SUBSET (1 .. k + 1) = S \cup T
  <2>1. ASSUME NEW A \in SUBSET (1 .. k + 1)
        PROVE  A \in S \cup T
    <3>1. CASE k + 1 \notin A
      BY <3>1
    <3>2. CASE k + 1 \in A
      <4>1. A \ {k + 1} \in S /\ A = (A \ {k + 1}) \cup {k + 1}
        BY <3>2
      <4>. QED
        BY <4>1
    <3>. QED
      BY <3>1, <3>2
  <2>2. ASSUME NEW A \in S \cup T
        PROVE  A \in SUBSET (1 .. k + 1)
    OBVIOUS
  <2>. QED
    BY <2>1, <2>2
<1>5. S \cap T = {}
  OBVIOUS
<1>6. Cardinality(S \cup T) = 2 ^ k + 2 ^ k
  <2> HIDE DEF S, T
  <2>. QED
    BY <1>1, <1>3, <1>5, FS_Union, FS_EmptySet
<1>7. 2 ^ (k + 1) = Cardinality(SUBSET (1 .. k + 1))
  BY PowerType
<1>8. Cardinality(SUBSET (1 .. k + 1)) = 2 ^ k + 2 ^ k
  <2> HIDE DEF S, T
  <2>. QED
    BY <1>4, <1>6
<1>9. 2 ^ (k + 1) = 2 ^ k + 2 ^ k
  BY <1>7, <1>8, Zenon
<1>. QED
  BY <1>1, <1>9

(* The wait after failure k + 1 in a row. *)
Delay(k) == Least(InitialBackoff * 2 ^ k, MaxBackoff)

LEMMA DelayZero == Delay(0) = InitialBackoff
BY PowerZero, WatchdogAssumption DEF Delay, Least

LEMMA DelayNext ==
    ASSUME NEW k \in Nat
    PROVE  /\ Delay(k) \in Nat /\ Delay(k) <= MaxBackoff
           /\ Delay(k + 1) = Least(2 * Delay(k), MaxBackoff)
<1>1. PICK x \in Nat : x = 2 ^ k
  BY PowerType
<1>2. 2 ^ (k + 1) = 2 * x
  BY <1>1, PowerNext
<1>3. PICK y \in Nat : y = InitialBackoff * x
  BY WatchdogAssumption
<1>4. InitialBackoff * (2 * x) = 2 * y
  BY <1>3, WatchdogAssumption
<1>5. Delay(k) = Least(y, MaxBackoff)
  BY <1>1, <1>3, Zenon DEF Delay
<1>6. Delay(k + 1) = Least(2 * y, MaxBackoff)
  BY <1>2, <1>4, Zenon DEF Delay
<1>. QED
  BY <1>5, <1>6, WatchdogAssumption DEF Least

-----------------------------------------------------------------------------
(* BackoffMatchesFailures is inductive over TableInv; MinimumWait is not: a  *)
(* state says nothing of the time to come.  What is, is that the age of the *)
(* last failure and the time still to wait never add up to less than the    *)
(* delay that was due.                                                      *)

Covered(s, age) ==
    /\ ~s.gaveUp => s.backoff = Delay(s.failures)
    /\ s.failures = 0 => s.wait = NoWait
    /\ ~s.gaveUp /\ s.failures > 0
           => s.wait >= 0 /\ age + s.wait >= Delay(s.failures - 1)

WaitInv == TableInv /\ \A u \in Units : Covered(table[u], since[u])

LEMMA CoveredDefault ==
    ASSUME NEW age
    PROVE  Covered(Default, age)
BY DelayZero DEF Covered, Default

LEMMA CoveredSuccess ==
    ASSUME NEW s \in RecoveryState, NEW age
    PROVE  Covered(RecordSuccess(s), age)
BY DelayZero DEF Covered, RecordSuccess

LEMMA CoveredFailure ==
    ASSUME NEW s \in RecoveryState, ~s.gaveUp, s.failures < GiveUpAfter,
           NEW age, Covered(s, age)
    PROVE  Covered(RecordFailure(s), 0)
<1> DEFINE n == s.failures
           t == RecordFailure(s)
<1>0. n \in Nat /\ s.backoff = Delay(n)
  BY DEF RecoveryState, Covered
<1>1. CASE n + 1 >= GiveUpAfter
  <2>1. t.gaveUp = TRUE /\ t.failures = n + 1
    BY <1>1 DEF RecordFailure, RecoveryState
  <2>. QED
    BY <1>0, <2>1 DEF Covered
<1>2. CASE ~(n + 1 >= GiveUpAfter)
  <2>1. /\ t.failures = n + 1 /\ t.wait = Delay(n)
        /\ t.backoff = Least(2 * Delay(n), MaxBackoff)
    BY <1>0, <1>2 DEF RecordFailure, RecoveryState
  <2>2. t.backoff = Delay(n + 1) /\ Delay(n) \in Nat
    BY <1>0, <2>1, DelayNext
  <2>3. t.failures # 0 /\ t.failures - 1 = n
    BY <1>0, <2>1
  <2>4. 0 + t.wait = Delay(n) /\ t.wait >= 0
    BY <2>1, <2>2
  <2> HIDE DEF n, t
  <2>5. 0 + t.wait >= Delay(t.failures - 1)
    BY <2>2, <2>3, <2>4
  <2>6. Covered(t, 0)
    BY <2>1, <2>2, <2>3, <2>4, <2>5 DEF Covered
  <2>. QED
    BY <2>6 DEF t
<1>. QED
  BY <1>1, <1>2

LEMMA CoveredTick ==
    ASSUME NEW s \in RecoveryState, NEW age \in 0 .. MaxBackoff, NEW d \in Nat,
           Covered(s, age)
    PROVE  Covered([s EXCEPT !.wait = TimeLeft(s.wait, d)], Least(age + d, MaxBackoff))
<1> DEFINE t == [s EXCEPT !.wait = TimeLeft(s.wait, d)]
           n == s.failures
<1>0. /\ t.gaveUp = s.gaveUp /\ t.failures = n /\ t.backoff = s.backoff
      /\ t.wait = TimeLeft(s.wait, d)
      /\ n \in Nat /\ s.wait \in Int
  BY WatchdogAssumption DEF RecoveryState, NoWait
<1>1. n = 0 => t.wait = NoWait
  BY <1>0 DEF Covered, TimeLeft
<1>2. ASSUME ~s.gaveUp, n > 0
      PROVE  t.wait >= 0 /\ Least(age + d, MaxBackoff) + t.wait >= Delay(n - 1)
  <2>1. s.wait >= 0 /\ age + s.wait >= Delay(n - 1)
    BY <1>2 DEF Covered
  <2>2. n - 1 \in Nat
    BY <1>0, <1>2
  <2>3. Delay(n - 1) \in Nat /\ Delay(n - 1) <= MaxBackoff
    BY <2>2, DelayNext
  <2>4. t.wait = IF s.wait > d THEN s.wait - d ELSE 0
    BY <1>0, <2>1 DEF TimeLeft, NoWait
  <2> HIDE DEF t, n
  <2>. QED
    BY <1>0, <2>1, <2>3, <2>4, WatchdogAssumption DEF Least
<1> HIDE DEF t
<1>3. ~t.gaveUp => t.backoff = Delay(t.failures)
  BY <1>0 DEF Covered
<1>. QED
  <2>1. Covered(t, Least(age + d, MaxBackoff))
    BY <1>0, <1>1, <1>2, <1>3 DEF Covered
  <2>. QED
    BY <2>1 DEF t

(* The common end of a failed recovery. *)
LEMMA CoveredFailed ==
    ASSUME WaitInv, NEW u \in Fleet, ~table[u].gaveUp, Failed(u), NEW v \in Units
    PROVE  Covered(table'[v], since'[v])
<1> USE DEF WaitInv, TableInv, TypeOK
<1>0. u \in Units /\ table[u] \in RecoveryState
  BY WatchdogAssumption
<1>1. CASE v = u
  <2>1. table[u].failures < GiveUpAfter
    <3>1. table[u].failures # GiveUpAfter
      BY <1>0 DEF GiveUpIsReported
    <3>2. table[u].failures \in 0 .. GiveUpAfter
      BY <1>0 DEF RecoveryState
    <3>. QED
      BY <3>1, <3>2, WatchdogAssumption
  <2>2. table'[u] = RecordFailure(table[u]) /\ since'[u] = 0
    BY <1>0 DEF Failed
  <2>3. Covered(RecordFailure(table[u]), 0)
    BY <1>0, <2>1, CoveredFailure
  <2>. QED
    BY <1>1, <2>2, <2>3
<1>2. CASE v # u
  <2>1. table'[v] = table[v] /\ since'[v] = since[v]
    BY <1>2 DEF Failed
  <2>. QED
    BY <2>1
<1>. QED
  BY <1>1, <1>2

LEMMA WaitInit == Init => WaitInv
BY TableInit, CoveredDefault DEF Init, WaitInv

LEMMA WaitNext == WaitInv /\ [Next]_vars => WaitInv'
<1> SUFFICES ASSUME WaitInv, [Next]_vars
             PROVE  WaitInv'
  OBVIOUS
<1> USE DEF WaitInv, TableInv, TypeOK
<1>0. TableInv'
  BY TableNext
<1> SUFFICES ASSUME NEW v \in Units
             PROVE  Covered(table'[v], since'[v])
  BY <1>0
<1>1. CASE UNCHANGED <<table, since>>
  BY <1>1
<1>2. ASSUME NEW d \in 1 .. MaxGap, Tick(d)
      PROVE  Covered(table'[v], since'[v])
  <2>1. CASE dry
    BY <1>2, <2>1, CoveredDefault DEF Tick
  <2>2. CASE ~dry
    <3>1. /\ table'[v] = [table[v] EXCEPT !.wait = TimeLeft(table[v].wait, d)]
          /\ since'[v] = Least(since[v] + d, MaxBackoff)
      BY <1>2, <2>2 DEF Tick
    <3>2. table[v] \in RecoveryState /\ since[v] \in 0 .. MaxBackoff /\ d \in Nat
      OBVIOUS
    <3>3. Covered([table[v] EXCEPT !.wait = TimeLeft(table[v].wait, d)],
                  Least(since[v] + d, MaxBackoff))
      BY <3>2, CoveredTick
    <3>. QED
      BY <3>1, <3>3
  <2>. QED
    BY <2>1, <2>2
<1>3. ASSUME NEW u \in Fleet, ResetFails(u)
      PROVE  Covered(table'[v], since'[v])
  BY <1>3, CoveredFailed DEF ResetFails, MayAttempt
<1>4. CASE StartFails \/ CheckIsFailed
  <2>1. cur \in Fleet /\ ~table[cur].gaveUp
    BY <1>4 DEF StartFails, CheckIsFailed, CurNotGivenUp
  <2>. QED
    BY <1>4, <2>1, CoveredFailed DEF StartFails, CheckIsFailed
<1>5. CASE CheckIsUp \/ CheckUnanswered
  <2>1. cur \in Units
    BY <1>5, WatchdogAssumption DEF CheckIsUp, CheckUnanswered
  <2>2. table' = [table EXCEPT ![cur] = RecordSuccess(table[cur])] /\ UNCHANGED since
    BY <1>5 DEF CheckIsUp, CheckUnanswered, Recovered
  <2>3. CASE v = cur
    <3>1. table'[v] = RecordSuccess(table[v])
      BY <2>2, <2>3
    <3>. QED
      BY <3>1, CoveredSuccess
  <2>4. CASE v # cur
    BY <2>2, <2>4
  <2>. QED
    BY <2>3, <2>4
<1>6. CASE Restarted
  BY <1>6, CoveredDefault DEF Restarted
<1>. QED
  BY <1>1, <1>2, <1>3, <1>4, <1>5, <1>6
     DEF vars, Next, Engine, Environment, ListJson, JsonRefused, ListText, ListFails,
         Skip, ResetFailed, StartSucceeds, EndOfTick, UnitFails, OperatorSets

(* Whatever succeeds, fails or is restarted in between, the backoff of a    *)
(* unit is the one of its failures in a row, at every value of the limits.  *)
THEOREM BackoffDoubles == Spec => []BackoffMatchesFailures
<1>1. WaitInv => BackoffMatchesFailures
  BY DEF WaitInv, Covered, Delay, BackoffMatchesFailures
<1>. QED
  BY <1>1, WaitInit, WaitNext, PTL DEF Spec

(* No attempt comes before its delay has passed.  The delay counts from the *)
(* tick of the failed attempt to the tick of the next, whatever happens to  *)
(* the unit between them.                                                   *)
THEOREM WaitsLongEnough == Spec => []MinimumWait
<1>1. ASSUME WaitInv
      PROVE  MinimumWait
  <2> SUFFICES ASSUME NEW u \in Units, MayAttempt(table[u]), table[u].failures > 0
               PROVE  since[u] >= Delay(table[u].failures - 1)
    BY DEF MinimumWait, Delay
  <2>1. /\ table[u].wait = 0
        /\ since[u] + table[u].wait >= Delay(table[u].failures - 1)
    BY <1>1 DEF WaitInv, Covered, MayAttempt, TableInv, TypeOK, RecoveryState, NoWait
  <2>. QED
    BY <1>1, <2>1 DEF WaitInv, TableInv, TypeOK
<1>. QED
  BY <1>1, WaitInit, WaitNext, PTL DEF Spec

=============================================================================
