-------------------------- MODULE ReadinessProofs ---------------------------
(***************************************************************************)
(* Theorems about Readiness, for every list of binaries, every content of  *)
(* the bootstrap file and every number of changes of the device at any     *)
(* point of the command; and about Calendar, for every day.                *)
(***************************************************************************)
EXTENDS Readiness, SequenceTheorems, WellFoundedInduction, TLAPS

-----------------------------------------------------------------------------
(* EnvConfig: the key that the parser ends up with is set exactly if the    *)
(* last line that names it gives it a value.                                *)

(* Among the indices at which something holds there is a last one. *)
LEMMA LastIndex ==
    ASSUME NEW n \in Nat, NEW I \in SUBSET (1 .. n), I # {}
    PROVE  \E i \in I : \A j \in I : j <= i
<1> DEFINE D == {n - i : i \in I}
<1>1. D \subseteq Nat /\ D # {}
  <2>1. \A i \in I : n - i \in Nat
    OBVIOUS
  <2>2. PICK i \in I : TRUE
    OBVIOUS
  <2>3. n - i \in D
    BY <2>2
  <2>. QED
    BY <2>1, <2>3
<1>2. PICK k \in D : \A m \in D : <<m, k>> \notin OpToRel(<, Nat)
  <2> HIDE DEF D
  <2>. QED
    BY <1>1, NatLessThanWellFounded, WFMin, Zenon
<1>3. \A m \in D : ~ (m < k)
  <2> HIDE DEF D
  <2>. QED
    BY <1>1, <1>2, Zenon DEF OpToRel
<1>4. PICK i \in I : k = n - i
  OBVIOUS
<1>5. ASSUME NEW j \in I
      PROVE  j <= i
  <2>1. ~ (n - j < n - i)
    BY <1>3, <1>4
  <2>2. i \in Nat /\ j \in Nat
    OBVIOUS
  <2> HIDE DEF D
  <2>. QED
    BY <2>1, <2>2
<1>. QED
  BY <1>5

LEMMA LastLineWins ==
    ASSUME NEW file, file \in {NoFile, Unreadable} \/ file \in Seq(Lines)
    PROVE  ApiKey(file) # "" <=> KeySet(file)
<1> DEFINE I == Assignments(file)
<1>1. CASE file \in {NoFile, Unreadable}
  BY <1>1 DEF ApiKey, Assignments, KeySet
<1>2. CASE file \notin {NoFile, Unreadable} /\ file \in Seq(Lines)
  <2>1. /\ I = {i \in 1 .. Len(file) : file[i].key = ApiKeyName}
        /\ Len(file) \in Nat /\ DOMAIN file = 1 .. Len(file)
    BY <1>2 DEF Assignments
  <2>2. CASE I = {}
    <3>1. ApiKey(file) = ""
      BY <2>2 DEF ApiKey
    <3>2. ~KeySet(file)
      BY <2>1, <2>2 DEF KeySet
    <3>. QED
      BY <3>1, <3>2
  <2>3. CASE I # {}
    <3> DEFINE c == CHOOSE i \in I : \A j \in I : j <= i
    <3>1. I \in SUBSET (1 .. Len(file))
      BY <2>1
    <3>2. \E i \in I : \A j \in I : j <= i
      <4> HIDE DEF I
      <4>. QED
        BY <2>1, <2>3, <3>1, LastIndex
    <3>3. c \in I /\ \A j \in I : j <= c
      <4> HIDE DEF I
      <4>. QED
        BY <3>2
    <3>4. ApiKey(file) = file[c].value
      BY <2>3, Zenon DEF ApiKey
    <3> HIDE DEF c, I
    <3>5. ASSUME ApiKey(file) # ""
          PROVE  KeySet(file)
      <4>1. c \in DOMAIN file /\ file[c].key = ApiKeyName /\ file[c].value # ""
        BY <2>1, <3>3, <3>4, <3>5
      <4>2. ASSUME NEW j \in c + 1 .. Len(file)
            PROVE  file[j].key # ApiKeyName
        <5>1. j \in 1 .. Len(file) /\ ~ (j <= c)
          BY <2>1, <3>1, <3>3
        <5>. QED
          BY <2>1, <3>3, <5>1
      <4>. QED
        BY <1>2, <4>1, <4>2 DEF KeySet
    <3>6. ASSUME KeySet(file)
          PROVE  ApiKey(file) # ""
      <4>1. PICK i \in DOMAIN file :
                /\ file[i].key = ApiKeyName /\ file[i].value # ""
                /\ \A j \in i + 1 .. Len(file) : file[j].key # ApiKeyName
        BY <3>6 DEF KeySet
      <4>2. i \in I /\ i <= c
        BY <2>1, <3>3, <4>1
      <4>3. ~ (c \in i + 1 .. Len(file))
        BY <2>1, <3>3, <4>1
      <4>4. i = c
        BY <2>1, <3>1, <3>3, <4>2, <4>3
      <4>. QED
        BY <3>4, <4>1, <4>4
    <3>. QED
      BY <3>5, <3>6
  <2>. QED
    BY <2>2, <2>3
<1>. QED
  BY <1>1, <1>2

-----------------------------------------------------------------------------
(* The parts and the checks that cover them *)

LEMMA FineMeans ==
    ASSUME NEW d
    PROVE  /\ Fine("brain", d) <=> KeySet(d.env)
           /\ Fine("target", d) <=> TargetManager \in d.target
           /\ Fine("source", d) <=> "source" \in d.audio
           /\ Fine("sink", d) <=> "sink" \in d.audio
           /\ Fine("bus", d) <=> d.bus = "listening"
           /\ \A b \in Bins : Fine(b, d) <=> b \in d.path
<1>1. Fine("brain", d) <=> KeySet(d.env)
  BY ReadinessAssumption DEF Fine
<1>2. Fine("target", d) <=> TargetManager \in d.target
  BY ReadinessAssumption DEF Fine
<1>3. Fine("source", d) <=> "source" \in d.audio
  BY ReadinessAssumption DEF Fine
<1>4. Fine("sink", d) <=> "sink" \in d.audio
  BY ReadinessAssumption DEF Fine
<1>5. Fine("bus", d) <=> d.bus = "listening"
  BY ReadinessAssumption DEF Fine
<1>6. ASSUME NEW b \in Bins
      PROVE  Fine(b, d) <=> b \in d.path
  <2>1. b \notin {"brain", "target", "source", "sink", "bus"}
    BY ReadinessAssumption
  <2>. QED
    BY <2>1 DEF Fine
<1>. QED
  BY <1>1, <1>2, <1>3, <1>4, <1>5, <1>6

LEMMA PartsAre ==
    /\ PartsOf("brain") = {"brain"} /\ PartsOf("target") = {"target"}
    /\ PartsOf("audio") = {"source", "sink"} /\ PartsOf("bus") = {"bus"}
    /\ PartsOf("units") = Bins
BY DEF PartsOf

LEMMA BinsAre ==
    /\ Bins = {Binaries[n] : n \in 1 .. Len(Binaries)}
    /\ Len(Binaries) \in Nat
BY ReadinessAssumption DEF Bins, Range

-----------------------------------------------------------------------------
(* aggregate *)

(* The check that is spoken of is one that failed, and none that ranks      *)
(* higher did.                                                              *)
LEMMA WorstIsFirst ==
    ASSUME NEW F \in SUBSET CheckNames, F # {}
    PROVE  /\ Worst(F) \in F
           /\ \A i, j \in DOMAIN CheckPriority :
                  i < j /\ Worst(F) = CheckPriority[j] => CheckPriority[i] \notin F
<1> DEFINE o == CheckPriority
           P(i) == o[i] \in F /\ \A j \in 1 .. i - 1 : o[j] \notin F
           c == CHOOSE i \in DOMAIN o : P(i)
<1>1. /\ DOMAIN o = 1 .. 5
      /\ o[1] = "brain" /\ o[2] = "target" /\ o[3] = "bus" /\ o[4] = "audio" /\ o[5] = "units"
  BY DEF CheckPriority
<1>2. Range(o) = CheckNames
  BY <1>1 DEF Range, CheckNames
<1>3. Worst(F) = o[c]
  <2>1. F \cap Range(o) # {}
    BY <1>2
  <2>. QED
    BY <2>1, Zenon DEF Worst, FirstOf
<1>4. \E i \in DOMAIN o : P(i)
  <2> HIDE DEF o
  <2>1. CASE o[1] \in F
    BY <1>1, <2>1
  <2>2. CASE o[1] \notin F /\ o[2] \in F
    BY <1>1, <2>2
  <2>3. CASE o[1] \notin F /\ o[2] \notin F /\ o[3] \in F
    BY <1>1, <2>3
  <2>4. CASE o[1] \notin F /\ o[2] \notin F /\ o[3] \notin F /\ o[4] \in F
    BY <1>1, <2>4
  <2>5. CASE o[1] \notin F /\ o[2] \notin F /\ o[3] \notin F /\ o[4] \notin F
    <3>1. o[5] \in F
      BY <1>1, <2>5 DEF CheckNames
    <3>. QED
      BY <1>1, <2>5, <3>1
  <2>. QED
    BY <2>1, <2>2, <2>3, <2>4, <2>5
<1>5. c \in DOMAIN o /\ P(c)
  <2> HIDE DEF P
  <2>. QED
    BY <1>4
<1> HIDE DEF c
<1>6. ASSUME NEW i \in DOMAIN o, NEW j \in DOMAIN o, i < j, Worst(F) = o[j]
      PROVE  o[i] \notin F
  <2>1. j = c
    <3>1. o[j] = o[c] /\ j \in 1 .. 5 /\ c \in 1 .. 5
      BY <1>1, <1>3, <1>5, <1>6
    <3> HIDE DEF o
    <3>. QED
      BY <1>1, <3>1
  <2>. QED
    BY <1>1, <1>5, <1>6, <2>1
<1>. QED
  BY <1>3, <1>5, <1>6

-----------------------------------------------------------------------------
(* TypeOK.  A verdict is drawn from five results; that each of the checks   *)
(* has been made by then takes the order of the steps.                      *)

Made(names) == \A n \in names : checks[n] # "none"

InOrder ==
    /\ step \notin {"brain"} => Made({"brain"})
    /\ step \notin {"brain", "target"} => Made({"target"})
    /\ step \in {"bus", "connect", "units", "verdict", "ended"} => Made({"audio"})
    /\ step \in {"units", "verdict", "ended"} => Made({"bus"})
    /\ step \in {"verdict", "ended"} => Made({"units"})

\* What the device is has been fine, or has been broken.
HistoryOK ==
    /\ FineParts(device) \subseteq fineOnce
    /\ Parts \ FineParts(device) \subseteq brokenOnce

LEMMA WorldStep ==
    ASSUME TypeOK, HistoryOK, World
    PROVE  /\ device' \in AllDevices /\ today'.number \in Nat /\ changes' \in 0 .. MaxChanges
           /\ fineOnce \subseteq fineOnce' /\ brokenOnce \subseteq brokenOnce'
           /\ fineOnce' \cup brokenOnce' = Parts
           /\ HistoryOK'
           /\ UNCHANGED <<step, scratch, checks, verdict>>
<1> USE DEF TypeOK, HistoryOK, AllDevices
<1>1. ASSUME NEW d \in AllDevices, Become(d)
      PROVE  /\ device' \in AllDevices /\ today'.number \in Nat /\ changes' \in 0 .. MaxChanges
             /\ fineOnce \subseteq fineOnce' /\ brokenOnce \subseteq brokenOnce'
             /\ fineOnce' \cup brokenOnce' = Parts
             /\ HistoryOK'
             /\ UNCHANGED <<step, scratch, checks, verdict>>
  <2>1. changes' \in 0 .. MaxChanges
    BY <1>1, ReadinessAssumption DEF Become
  <2>2. FineParts(d) \subseteq Parts
    BY DEF FineParts
  <2>3. /\ device' = d /\ fineOnce' = fineOnce \cup FineParts(d)
        /\ brokenOnce' = brokenOnce \cup (Parts \ FineParts(d))
        /\ UNCHANGED <<today, step, scratch, checks, verdict>>
    BY <1>1 DEF Become
  <2>. QED
    BY <2>1, <2>2, <2>3
<1>2. CASE EnvRewritten
  <2>1. PICK f \in EnvFiles : Become([device EXCEPT !.env = f])
    BY <1>2 DEF EnvRewritten
  <2>2. [device EXCEPT !.env = f] \in AllDevices
    OBVIOUS
  <2>. QED
    BY <1>1, <2>1, <2>2
<1>3. CASE TargetChanges
  <2>1. PICK t \in SUBSET {"user", "system"} : Become([device EXCEPT !.target = t])
    BY <1>3 DEF TargetChanges
  <2>2. [device EXCEPT !.target = t] \in AllDevices
    OBVIOUS
  <2>. QED
    BY <1>1, <2>1, <2>2
<1>4. CASE AudioChanges
  <2>1. PICK a \in SUBSET {"source", "sink"} : Become([device EXCEPT !.audio = a])
    BY <1>4 DEF AudioChanges
  <2>2. [device EXCEPT !.audio = a] \in AllDevices
    OBVIOUS
  <2>. QED
    BY <1>1, <2>1, <2>2
<1>5. CASE BusChanges
  <2>1. PICK b \in BusStates : Become([device EXCEPT !.bus = b])
    BY <1>5 DEF BusChanges
  <2>2. [device EXCEPT !.bus = b] \in AllDevices
    OBVIOUS
  <2>. QED
    BY <1>1, <2>1, <2>2
<1>6. CASE PathChanges
  <2>1. PICK b \in Bins : Become([device EXCEPT !.path =
                                      IF b \in device.path THEN device.path \ {b}
                                      ELSE device.path \cup {b}])
    BY <1>6 DEF PathChanges
  <2>2. (IF b \in device.path THEN device.path \ {b} ELSE device.path \cup {b}) \in SUBSET Bins
    OBVIOUS
  <2>3. [device EXCEPT !.path = IF b \in device.path THEN device.path \ {b}
                                ELSE device.path \cup {b}] \in AllDevices
    BY <2>2
  <2>. QED
    BY <1>1, <2>1, <2>3
<1>7. CASE Midnight
  BY <1>7, ReadinessAssumption DEF Midnight
<1>. QED
  BY <1>2, <1>3, <1>4, <1>5, <1>6, <1>7 DEF World

BaseInv == TypeOK /\ HistoryOK /\ InOrder

LEMMA BaseInit == Init => BaseInv
<1> SUFFICES ASSUME Init
             PROVE  BaseInv
  OBVIOUS
<1>1. device \in AllDevices /\ today.number \in Nat
  BY ReadinessAssumption DEF Init
<1>2. FineParts(device) \subseteq Parts
  BY DEF FineParts
<1>3. TypeOK
  <2>1. checks \in [CheckNames -> {"none", "ok", "failing"}]
    BY DEF Init
  <2>2. /\ verdict.ready \in BOOLEAN /\ verdict.failing \in SUBSET CheckNames
        /\ verdict.worst \in CheckNames \cup {"none"}
    BY DEF Init, NoVerdict
  <2>3. looked \in 0 .. Len(Binaries) /\ step = "brain"
    BY BinsAre DEF Init
  <2>7. heard \in BOOLEAN
    BY Zenon DEF Init
  <2>4. missing \subseteq {Binaries[n] : n \in 1 .. looked}
    BY DEF Init
  <2>5. changes \in 0 .. MaxChanges
    BY ReadinessAssumption DEF Init
  <2>6. fineOnce \cup brokenOnce = Parts
    BY <1>2 DEF Init
  <2>. QED
    BY <1>1, <2>1, <2>2, <2>3, <2>4, <2>5, <2>6, <2>7 DEF TypeOK
<1>. QED
  BY <1>3 DEF Init, BaseInv, HistoryOK, InOrder

(* The results that a check can have. *)
LEMMA ResultType ==
    ASSUME TypeOK, NEW n \in CheckNames, NEW ok, Result(n, ok)
    PROVE  /\ checks' \in [CheckNames -> {"none", "ok", "failing"}]
           /\ checks'[n] = (IF ok THEN "ok" ELSE "failing")
           /\ \A k \in CheckNames \ {n} : checks'[k] = checks[k]
BY DEF TypeOK, Result

(* Each step of the checks makes at most one result. *)
Makes(n) ==
    \/ CheckBrain /\ n = "brain"
    \/ CheckTarget /\ n = "target"
    \/ ListSinks /\ n = "audio"
    \/ BusExists /\ device.bus = "absent" /\ n = "bus"
    \/ BusConnect /\ n = "bus"
    \/ CheckUnits /\ n = "units"

LEMMA HeardIs ==
    ASSUME ListSources
    PROVE  /\ "source" \in device.audio => heard' = TRUE
           /\ "source" \notin device.audio => heard' = FALSE
<1>1. heard' = ("source" \in device.audio)
  BY Zenon DEF ListSources
<1>2. CASE "source" \in device.audio
  <2>1. ("source" \in device.audio) = TRUE
    BY <1>2
  <2>2. heard' = TRUE
    BY <1>1, <2>1, Zenon
  <2>. QED
    BY <1>2, <2>2, Zenon
<1>3. CASE "source" \notin device.audio
  <2>1. ("source" \in device.audio) = FALSE
    BY <1>3
  <2>2. heard' = FALSE
    BY <1>1, <2>1, Zenon
  <2>. QED
    BY <1>3, <2>2, Zenon
<1>. QED
  BY <1>2, <1>3, Zenon

LEMMA WmSteps ==
    ASSUME Wm
    PROVE  \/ \E n \in CheckNames : Makes(n)
           \/ ListSources \/ LookUp \/ Verdict
           \/ BusExists /\ device.bus # "absent"
<1>1. CheckBrain => Makes("brain")
  BY Zenon DEF Makes
<1>2. CheckTarget => Makes("target")
  BY Zenon DEF Makes
<1>3. ListSinks => Makes("audio")
  BY Zenon DEF Makes
<1>4. BusExists /\ device.bus = "absent" => Makes("bus")
  BY Zenon DEF Makes
<1>5. BusConnect => Makes("bus")
  BY Zenon DEF Makes
<1>6. CheckUnits => Makes("units")
  BY Zenon DEF Makes
<1>7. {"brain", "target", "audio", "bus", "units"} \subseteq CheckNames
  BY DEF CheckNames
<1> HIDE DEF Makes
<1>. QED
  BY <1>1, <1>2, <1>3, <1>4, <1>5, <1>6, <1>7 DEF Wm

LEMMA BaseMakes ==
    ASSUME BaseInv, NEW n \in CheckNames, Makes(n)
    PROVE  BaseInv'
<1> USE DEF BaseInv, TypeOK
<1>1. /\ checks' \in [CheckNames -> {"none", "ok", "failing"}]
      /\ checks'[n] # "none"
      /\ \A k \in CheckNames \ {n} : checks'[k] = checks[k]
  BY ResultType DEF Makes, CheckBrain, CheckTarget, ListSinks, BusExists, BusConnect, CheckUnits
<1>2. UNCHANGED <<world, scratch, verdict>>
  BY DEF Makes, CheckBrain, CheckTarget, ListSinks, BusExists, BusConnect, CheckUnits
<1>3. \/ n = "brain" /\ step = "brain" /\ step' = "target"
      \/ n = "target" /\ step = "target" /\ step' = "sources"
      \/ n = "audio" /\ step = "sinks" /\ step' = "bus"
      \/ n = "bus" /\ step \in {"bus", "connect"} /\ step' = "units"
      \/ n = "units" /\ step = "units" /\ step' = "verdict"
  BY DEF Makes, CheckBrain, CheckTarget, ListSinks, BusExists, BusConnect, CheckUnits
<1>4. TypeOK'
  BY <1>1, <1>2, <1>3 DEF world, scratch
<1>5. HistoryOK'
  BY <1>2 DEF world, HistoryOK
<1>6. InOrder'
  BY <1>1, <1>3 DEF InOrder, Made, CheckNames
<1>. QED
  BY <1>4, <1>5, <1>6

LEMMA BaseNext == BaseInv /\ [Next]_vars => BaseInv'
<1> SUFFICES ASSUME BaseInv, [Next]_vars
             PROVE  BaseInv'
  OBVIOUS
<1> USE DEF BaseInv, TypeOK, world, scratch
<1>1. CASE UNCHANGED vars
  BY <1>1 DEF vars, HistoryOK, InOrder, Made
<1>2. CASE World
  BY <1>2, WorldStep DEF InOrder, Made
<1>3. CASE \E n \in CheckNames : Makes(n)
  BY <1>3, BaseMakes
<1>4. CASE ListSources
  <2>1. heard' \in BOOLEAN
    BY <1>4, HeardIs
  <2>. QED
    BY <1>4, <2>1 DEF ListSources, HistoryOK, InOrder, Made
<1>7. CASE BusExists /\ device.bus # "absent"
  BY <1>7 DEF BusExists, HistoryOK, InOrder, Made
<1>5. CASE LookUp
  <2>1. /\ looked \in 0 .. Len(Binaries) - 1 /\ looked' = looked + 1 /\ step = "units"
        /\ UNCHANGED <<world, step, heard, checks, verdict>>
    BY <1>5, BinsAre DEF LookUp
  <2>2. /\ missing' \subseteq missing \cup {Binaries[looked + 1]}
    BY <1>5 DEF LookUp
  <2>3. /\ looked' \in 0 .. Len(Binaries)
        /\ {Binaries[n] : n \in 1 .. looked} \cup {Binaries[looked + 1]}
               \subseteq {Binaries[n] : n \in 1 .. looked'}
    BY <2>1, BinsAre
  <2>. QED
    BY <2>1, <2>2, <2>3 DEF HistoryOK, InOrder, Made
<1>6. CASE Verdict
  <2> DEFINE F == Failing(checks)
  <2>1. F \in SUBSET CheckNames
    BY DEF Failing
  <2>2. F # {} => Worst(F) \in CheckNames
    <3> HIDE DEF F
    <3>. QED
      BY <2>1, WorstIsFirst
  <2>3. /\ verdict' = [ready |-> F = {}, failing |-> F,
                       worst |-> IF F = {} THEN "none" ELSE Worst(F),
                       ts |-> DaysToYmd(today.number)]
        /\ step = "verdict" /\ step' = "ended" /\ UNCHANGED <<world, scratch, checks>>
    BY <1>6, Zenon DEF Verdict
  <2> HIDE DEF F
  <2>4. /\ verdict'.ready \in BOOLEAN /\ verdict'.failing \in SUBSET CheckNames
        /\ verdict'.worst \in CheckNames \cup {"none"}
    BY <2>1, <2>2, <2>3
  <2>. QED
    BY <2>3, <2>4 DEF HistoryOK, InOrder, Made
<1>. QED
  BY <1>1, <1>2, <1>3, <1>4, <1>5, <1>6, <1>7, WmSteps DEF Next

(* The command's state has its type at every step, whatever the device does: *)
(* the verdict names checks that exist, and speaks of one of them.          *)
THEOREM ReadinessTypeCorrect == Spec => []TypeOK
<1>1. BaseInv => TypeOK
  BY DEF BaseInv
<1>. QED
  BY <1>1, BaseInit, BaseNext, PTL DEF Spec

-----------------------------------------------------------------------------
(* What the results say of the moments at which the device was looked at    *)

(* A passed check has seen each of its parts fine, a failed one a part of   *)
(* its broken, and so have the checks that are under way: check_audio with  *)
(* the sources, check_units with the binaries looked for.  Only the check   *)
(* of the target looks elsewhere.                                           *)
LooksInv ==
    /\ \A n \in ChecksOfTheirParts :
           /\ checks[n] = "ok" => PartsOf(n) \subseteq fineOnce
           /\ checks[n] = "failing" => PartsOf(n) \cap brokenOnce # {}
    /\ step = "sinks" /\ heard = TRUE => "source" \in fineOnce
    /\ step = "sinks" /\ heard = FALSE => "source" \in brokenOnce
    /\ missing \subseteq brokenOnce
    /\ {Binaries[n] : n \in 1 .. looked} \ missing \subseteq fineOnce

\* The report follows from the results.
VerdictInv ==
    Ended =>
        /\ verdict.failing = Failing(checks)
        /\ verdict.ready <=> verdict.failing = {}
        /\ verdict.failing = {} => verdict.worst = "none"
        /\ verdict.failing # {} => verdict.worst = Worst(verdict.failing)

(* What is seen at this moment goes down in the history. *)
LEMMA Seen ==
    ASSUME HistoryOK, NEW p \in Parts
    PROVE  /\ Fine(p, device) => p \in fineOnce
           /\ ~Fine(p, device) => p \in brokenOnce
BY DEF HistoryOK, FineParts

LEMMA SeenHere ==
    ASSUME BaseInv
    PROVE  /\ KeySet(device.env) => "brain" \in fineOnce
           /\ ~KeySet(device.env) => "brain" \in brokenOnce
           /\ "source" \in device.audio => "source" \in fineOnce
           /\ "source" \notin device.audio => "source" \in brokenOnce
           /\ "sink" \in device.audio => "sink" \in fineOnce
           /\ "sink" \notin device.audio => "sink" \in brokenOnce
           /\ device.bus = "listening" => "bus" \in fineOnce
           /\ device.bus # "listening" => "bus" \in brokenOnce
           /\ \A b \in Bins : /\ b \in device.path => b \in fineOnce
                              /\ b \notin device.path => b \in brokenOnce
<1>1. HistoryOK
  BY DEF BaseInv
<1>2. \A p \in Parts : /\ Fine(p, device) => p \in fineOnce
                       /\ ~Fine(p, device) => p \in brokenOnce
  BY <1>1, Seen
<1>3. /\ "brain" \in Parts /\ "target" \in Parts /\ "source" \in Parts
      /\ "sink" \in Parts /\ "bus" \in Parts
      /\ \A b \in Bins : b \in Parts
  BY DEF Parts
<1>. QED
  BY <1>2, <1>3, FineMeans

LEMMA KeySeen ==
    ASSUME BaseInv
    PROVE  ApiKey(device.env) # "" <=> KeySet(device.env)
<1>1. device.env \in EnvFiles
  BY DEF BaseInv, TypeOK, AllDevices
<1>2. device.env \in {NoFile, Unreadable} \/ device.env \in Seq(Lines)
  BY <1>1, ReadinessAssumption
<1>. QED
  BY <1>2, LastLineWins

(* Each result is the one that the device gave when it was looked at. *)
LEMMA ResultSeen ==
    ASSUME BaseInv, LooksInv, NEW n \in ChecksOfTheirParts, Makes(n)
    PROVE  /\ checks'[n] = "ok" => PartsOf(n) \subseteq fineOnce
           /\ checks'[n] = "failing" => PartsOf(n) \cap brokenOnce # {}
<1>0. TypeOK /\ n \in CheckNames
  BY DEF BaseInv, ChecksOfTheirParts
<1>1. CASE CheckBrain /\ n = "brain"
  <2>1. Result("brain", ApiKey(device.env) # "")
    BY <1>1 DEF CheckBrain
  <2>2. checks'["brain"] = (IF ApiKey(device.env) # "" THEN "ok" ELSE "failing")
    BY <1>0, <1>1, <2>1, ResultType
  <2>. QED
    BY <1>1, <2>2, KeySeen, SeenHere, PartsAre
<1>2. CASE CheckTarget /\ n = "target"
  BY <1>2 DEF ChecksOfTheirParts
<1>3. CASE ListSinks /\ n = "audio"
  <2>1. checks'["audio"] = (IF heard /\ "sink" \in device.audio THEN "ok" ELSE "failing")
    BY <1>0, <1>3, ResultType DEF ListSinks
  <2>2. step = "sinks" /\ heard \in {TRUE, FALSE}
    BY <1>0, <1>3 DEF ListSinks, TypeOK
  <2>3. CASE heard = TRUE
    BY <1>3, <2>1, <2>2, <2>3, SeenHere, PartsAre DEF LooksInv
  <2>4. CASE heard = FALSE
    BY <1>3, <2>1, <2>2, <2>4, SeenHere, PartsAre DEF LooksInv
  <2>. QED
    BY <2>2, <2>3, <2>4
<1>4. CASE BusExists /\ device.bus = "absent" /\ n = "bus"
  <2>1. checks'["bus"] = "failing"
    BY <1>0, <1>4, ResultType DEF BusExists
  <2>. QED
    BY <1>4, <2>1, SeenHere, PartsAre
<1>5. CASE BusConnect /\ n = "bus"
  <2>1. checks'["bus"] = (IF device.bus = "listening" THEN "ok" ELSE "failing")
    BY <1>0, <1>5, ResultType DEF BusConnect
  <2>. QED
    BY <1>5, <2>1, SeenHere, PartsAre
<1>6. CASE CheckUnits /\ n = "units"
  <2>1. checks'["units"] = (IF missing = {} THEN "ok" ELSE "failing")
    BY <1>0, <1>6, ResultType DEF CheckUnits
  <2>2. /\ Bins = {Binaries[k] : k \in 1 .. looked}
        /\ missing \subseteq Bins
    BY <1>0, <1>6, BinsAre DEF CheckUnits, TypeOK
  <2>. QED
    BY <1>6, <2>1, <2>2, PartsAre DEF LooksInv
<1>. QED
  BY <1>1, <1>2, <1>3, <1>4, <1>5, <1>6 DEF Makes

LEMMA LooksInit == Init => LooksInv /\ VerdictInv
BY DEF Init, LooksInv, VerdictInv, Ended, ChecksOfTheirParts

LEMMA LooksNext == BaseInv /\ LooksInv /\ [Next]_vars => LooksInv'
<1> SUFFICES ASSUME BaseInv, LooksInv, [Next]_vars
             PROVE  LooksInv'
  OBVIOUS
<1>0. TypeOK /\ HistoryOK
  BY DEF BaseInv
<1>1. CASE UNCHANGED vars
  BY <1>1 DEF vars, world, scratch, LooksInv
<1>2. CASE World
  <2>1. /\ fineOnce \subseteq fineOnce' /\ brokenOnce \subseteq brokenOnce'
        /\ UNCHANGED <<step, scratch, checks>>
    BY <1>0, <1>2, WorldStep
  <2>. QED
    BY <2>1 DEF scratch, LooksInv
<1>3. ASSUME NEW n \in CheckNames, Makes(n)
      PROVE  LooksInv'
  <2>1. \A k \in CheckNames \ {n} : checks'[k] = checks[k]
    BY <1>0, <1>3, ResultType
       DEF Makes, CheckBrain, CheckTarget, ListSinks, BusExists, BusConnect, CheckUnits
  <2>2. UNCHANGED <<world, scratch>> /\ step' # "sinks"
    BY <1>3 DEF Makes, CheckBrain, CheckTarget, ListSinks, BusExists, BusConnect, CheckUnits
  <2>3. n \in ChecksOfTheirParts =>
            /\ checks'[n] = "ok" => PartsOf(n) \subseteq fineOnce
            /\ checks'[n] = "failing" => PartsOf(n) \cap brokenOnce # {}
    BY <1>3, ResultSeen
  <2>4. \A k \in ChecksOfTheirParts :
            /\ checks'[k] = "ok" => PartsOf(k) \subseteq fineOnce
            /\ checks'[k] = "failing" => PartsOf(k) \cap brokenOnce # {}
    BY <2>1, <2>3 DEF LooksInv, ChecksOfTheirParts
  <2>. QED
    BY <2>2, <2>4 DEF LooksInv, world, scratch
<1>4. CASE ListSources
  <2>1. /\ heard' = TRUE => "source" \in fineOnce
        /\ heard' = FALSE => "source" \in brokenOnce
    BY <1>4, HeardIs, SeenHere
  <2>2. UNCHANGED <<world, looked, missing, checks>>
    BY <1>4 DEF ListSources
  <2>. QED
    BY <2>1, <2>2 DEF LooksInv, world
<1>5. CASE BusExists /\ device.bus # "absent"
  BY <1>5 DEF BusExists, LooksInv, world, scratch
<1>6. CASE LookUp
  <2> DEFINE bin == Binaries[looked + 1]
  <2>1. /\ looked \in 0 .. Len(Binaries) - 1 /\ looked' = looked + 1 /\ step = "units"
        /\ UNCHANGED <<world, step, heard, checks, verdict>>
        /\ missing' = IF bin \in device.path THEN missing ELSE missing \cup {bin}
    BY <1>0, <1>6, BinsAre DEF LookUp, TypeOK
  <2>2. bin \in Bins
    BY <2>1, BinsAre
  <2>3. /\ bin \in device.path => bin \in fineOnce
        /\ bin \notin device.path => bin \in brokenOnce
    BY <2>2, SeenHere
  <2>4. {Binaries[n] : n \in 1 .. looked'} = {Binaries[n] : n \in 1 .. looked} \cup {bin}
    BY <2>1, BinsAre
  <2> HIDE DEF bin
  <2>. QED
    BY <2>1, <2>3, <2>4 DEF LooksInv, world
<1>7. CASE Verdict
  BY <1>7 DEF Verdict, LooksInv, world, scratch
<1>. QED
  BY <1>1, <1>2, <1>3, <1>4, <1>5, <1>6, <1>7, WmSteps DEF Next

LEMMA VerdictNext == BaseInv /\ VerdictInv /\ [Next]_vars => VerdictInv'
<1> SUFFICES ASSUME BaseInv, VerdictInv, [Next]_vars
             PROVE  VerdictInv'
  OBVIOUS
<1>0. TypeOK /\ HistoryOK
  BY DEF BaseInv
<1>1. CASE UNCHANGED <<step, checks, verdict>>
  BY <1>1 DEF VerdictInv, Ended, Failing
<1>2. CASE step' # "ended"
  BY <1>2 DEF VerdictInv, Ended
<1>3. CASE Verdict
  <2> DEFINE F == Failing(checks)
  <2>1. /\ verdict' = [ready |-> F = {}, failing |-> F,
                       worst |-> IF F = {} THEN "none" ELSE Worst(F),
                       ts |-> DaysToYmd(today.number)]
        /\ checks' = checks
    BY <1>3, Zenon DEF Verdict, scratch
  <2>2. Failing(checks') = F
    BY <2>1
  <2> HIDE DEF F
  <2>3. verdict'.failing = F
    BY <2>1
  <2>4. verdict'.ready = (F = {})
    BY <2>1, Zenon
  <2>5. verdict'.ready <=> F = {}
    BY <2>4, Zenon
  <2>6. verdict'.worst = IF F = {} THEN "none" ELSE Worst(F)
    BY <2>1
  <2>. QED
    BY <2>2, <2>3, <2>5, <2>6, Zenon DEF VerdictInv
<1>4. CASE World
  <2>1. UNCHANGED <<step, checks, verdict>>
    BY <1>0, <1>4, WorldStep
  <2>. QED
    BY <1>1, <2>1
<1>5. CASE Wm /\ ~Verdict
  <2>1. step' # "ended"
    BY <1>0, <1>5 DEF Wm, CheckBrain, CheckTarget, ListSources, ListSinks, BusExists,
                      BusConnect, LookUp, CheckUnits, TypeOK
  <2>. QED
    BY <1>2, <2>1
<1>6. CASE UNCHANGED vars
  BY <1>1, <1>6 DEF vars
<1>. QED
  BY <1>3, <1>4, <1>5, <1>6 DEF Next

Inv == BaseInv /\ LooksInv /\ VerdictInv

LEMMA InvHolds == Spec => []Inv
<1>1. Init => Inv
  BY BaseInit, LooksInit DEF Inv
<1>2. Inv /\ [Next]_vars => Inv'
  BY BaseNext, LooksNext, VerdictNext DEF Inv
<1>. QED
  BY <1>1, <1>2, PTL DEF Spec

(* At the end each check has passed or failed, and the report says which. *)
LEMMA ReportIs ==
    ASSUME Inv, Ended
    PROVE  \A n \in CheckNames :
               /\ n \in verdict.failing => checks[n] = "failing"
               /\ n \notin verdict.failing => checks[n] = "ok"
<1>1. \A n \in CheckNames : checks[n] \in {"ok", "failing"}
  BY DEF Inv, BaseInv, InOrder, Made, Ended, TypeOK, CheckNames
<1>2. verdict.failing = {n \in CheckNames : checks[n] = "failing"}
  BY DEF Inv, VerdictInv, Failing
<1>. QED
  BY <1>1, <1>2

(* Whatever changes between two looks at the device, a check other than     *)
(* that of the target is reported as failing only if a part of its was      *)
(* broken during the run, and passes only if each of them was fine at a     *)
(* moment of it.                                                            *)
THEOREM RightPartsNamed == Spec => []NamesTheRightParts
<1>1. Inv => NamesTheRightParts
  <2> SUFFICES ASSUME Inv, Ended, NEW n \in ChecksOfTheirParts
               PROVE  IF n \in verdict.failing
                      THEN PartsOf(n) \cap brokenOnce # {}
                      ELSE PartsOf(n) \subseteq fineOnce
    BY DEF NamesTheRightParts
  <2>1. LooksInv
    BY DEF Inv
  <2>. QED
    BY <2>1, ReportIs DEF LooksInv, ChecksOfTheirParts
<1>. QED
  BY <1>1, InvHolds, PTL

(* What is spoken of is a check that failed, and every check that ranks     *)
(* higher has passed and, but for the target's, seen its parts fine;        *)
(* nothing is spoken of exactly if the device is reported ready.            *)
THEOREM WorstSpokenOf == Spec => []SpeaksOfTheWorst
<1>1. Inv => SpeaksOfTheWorst
  <2> SUFFICES ASSUME Inv, Ended
               PROVE  SpeaksOfTheWorst
    BY DEF SpeaksOfTheWorst
  <2> DEFINE F == verdict.failing
  <2>1. F \in SUBSET CheckNames
    BY DEF Inv, BaseInv, TypeOK
  <2>2. /\ verdict.ready <=> F = {}
        /\ F = {} => verdict.worst = "none"
        /\ F # {} => verdict.worst = Worst(F)
    BY DEF Inv, VerdictInv
  <2>3. /\ DOMAIN CheckPriority = 1 .. 5
        /\ \A i \in DOMAIN CheckPriority : CheckPriority[i] \in CheckNames
    BY DEF CheckPriority, CheckNames
  <2>4. "none" \notin CheckNames
    BY DEF CheckNames
  <2>5. F # {} => /\ Worst(F) \in F
                  /\ \A i, j \in DOMAIN CheckPriority :
                         i < j /\ Worst(F) = CheckPriority[j] => CheckPriority[i] \notin F
    <3> HIDE DEF F
    <3>. QED
      BY <2>1, WorstIsFirst
  <2>6. \A n \in ChecksOfTheirParts : n \notin F => PartsOf(n) \subseteq fineOnce
    BY ReportIs DEF Inv, LooksInv, ChecksOfTheirParts
  <2> HIDE DEF F
  <2>7. F # {} => verdict.worst # "none"
    BY <2>1, <2>2, <2>4, <2>5
  <2>8. verdict.ready <=> verdict.worst = "none"
    BY <2>2, <2>7, Zenon
  <2>9. ASSUME NEW i \in DOMAIN CheckPriority, NEW j \in DOMAIN CheckPriority,
               i < j, verdict.worst = CheckPriority[j]
        PROVE  /\ CheckPriority[i] \notin F
               /\ CheckPriority[i] \in ChecksOfTheirParts
                    => PartsOf(CheckPriority[i]) \subseteq fineOnce
    <3>1. F # {}
      BY <2>2, <2>3, <2>4, <2>9
    <3>2. CheckPriority[i] \notin F
      BY <2>2, <2>5, <2>9, <3>1
    <3>. QED
      BY <2>6, <3>2
  <2>. QED
    BY <2>8, <2>9 DEF SpeaksOfTheWorst, F
<1>. QED
  BY <1>1, InvHolds, PTL

-----------------------------------------------------------------------------
(* days_to_ymd: the whole years *)

\* The days from the beginning of year 0 to that of year y.
Before(y) == 365 * y + (y + 3) \div 4 - (y + 99) \div 100 + (y + 399) \div 400

LEMMA YearLength ==
    ASSUME NEW y \in Nat
    PROVE  /\ Before(y) \in Nat /\ Before(y) >= 365 * y
           /\ YearDays(y) \in {365, 366}
           /\ Before(y + 1) = Before(y) + YearDays(y)
<1>1. Before(y) \in Nat /\ Before(y) >= 365 * y
  BY DEF Before
<1>2. YearDays(y) \in {365, 366}
  BY DEF YearDays
<1>3. Before(y + 1) = Before(y) + YearDays(y)
  BY DEF Before, YearDays, IsLeap
<1>. QED
  BY <1>1, <1>2, <1>3

LEMMA BeforeMonotone ==
    ASSUME NEW y \in Nat, NEW z \in Nat, y <= z
    PROVE  Before(y) <= Before(z)
BY DEF Before

\* Day t, counted from the beginning of year 0, is in year y.
InYear(t, y) == Before(y) <= t /\ t < Before(y + 1)

LEMMA OneYear ==
    ASSUME NEW t \in Nat, NEW y \in Nat, NEW z \in Nat, InYear(t, y), InYear(t, z)
    PROVE  y = z
<1>1. ASSUME NEW a \in Nat, NEW b \in Nat, InYear(t, a), InYear(t, b)
      PROVE  ~ (a < b)
  <2>1. SUFFICES ASSUME a < b
                 PROVE  FALSE
    OBVIOUS
  <2>2. Before(a + 1) <= Before(b)
    BY <2>1, BeforeMonotone
  <2>3. Before(a + 1) \in Nat /\ Before(b) \in Nat
    BY YearLength
  <2>. QED
    BY <1>1, <2>2, <2>3 DEF InYear
<1>. QED
  BY <1>1

LEMMA SomeYear ==
    ASSUME NEW t \in Nat
    PROVE  \E y \in Nat : InYear(t, y)
<1> DEFINE D == {y \in Nat : t < Before(y + 1)}
<1>1. t \in D
  <2>1. Before(t + 1) >= 365 * (t + 1)
    BY YearLength
  <2>. QED
    BY <2>1, YearLength
<1>2. PICK y \in D : \A z \in D : <<z, y>> \notin OpToRel(<, Nat)
  <2> D \subseteq Nat
    OBVIOUS
  <2> HIDE DEF D
  <2>. QED
    BY <1>1, NatLessThanWellFounded, WFMin, Zenon
<1>3. \A z \in D : ~ (z < y)
  <2> D \subseteq Nat
    OBVIOUS
  <2> HIDE DEF D
  <2>. QED
    BY <1>2, Zenon DEF OpToRel
<1>4. y \in Nat /\ t < Before(y + 1)
  OBVIOUS
<1>5. CASE y = 0
  <2>1. Before(0) = 0
    BY DEF Before
  <2>. QED
    BY <1>4, <1>5, <2>1 DEF InYear
<1>6. CASE y # 0
  <2>1. y - 1 \in Nat /\ (y - 1) + 1 = y
    BY <1>4, <1>6
  <2>2. y - 1 \notin D
    BY <1>3, <1>4, <2>1
  <2>3. ~ (t < Before(y))
    BY <2>1, <2>2
  <2>. QED
    BY <1>4, <2>3, YearLength DEF InYear
<1>. QED
  BY <1>5, <1>6

YearStates == [year : Nat, left : Nat]

YearStep(s) == [year |-> s.year + 1, left |-> s.left - YearDays(s.year)]

\* The day that a state of the loop stands for.
DayOf(s) == Before(s.year) + s.left

YearAt(t) == CHOOSE y \in Nat : InYear(t, y)

LEMMA YearAtIs ==
    ASSUME NEW t \in Nat
    PROVE  YearAt(t) \in Nat /\ InYear(t, YearAt(t))
BY SomeYear DEF YearAt

LEMMA YearStepIs ==
    ASSUME NEW s \in YearStates, ~ (s.left < YearDays(s.year))
    PROVE  /\ YearStep(s) \in YearStates
           /\ DayOf(YearStep(s)) = DayOf(s)
           /\ YearStep(s).left < s.left
<1>1. s.year \in Nat /\ s.left \in Nat
  BY DEF YearStates
<1>2. /\ YearDays(s.year) \in {365, 366} /\ Before(s.year) \in Nat
      /\ Before(s.year + 1) = Before(s.year) + YearDays(s.year)
  BY <1>1, YearLength
<1>. QED
  BY <1>1, <1>2 DEF YearStates, YearStep, DayOf

\* The loop as a function of its state.
Years[s \in YearStates] ==
    IF s.left < YearDays(s.year) THEN s ELSE Years[YearStep(s)]

LEMMA YearLoopIs ==
    ASSUME NEW days \in Nat
    PROVE  YearLoop(days) = Years[[year |-> 1970, left |-> days]]
BY Zenon DEF YearLoop, Years, YearStates, YearStep

\* The loop's equation has a solution, so the loop satisfies it.
LEMMA YearsUnfold ==
    ASSUME NEW s \in YearStates
    PROVE  Years[s] = IF s.left < YearDays(s.year) THEN s ELSE Years[YearStep(s)]
<1> DEFINE G == [r \in YearStates |->
                    [year |-> YearAt(DayOf(r)), left |-> DayOf(r) - Before(YearAt(DayOf(r)))]]
           Eq(f) == f = [r \in YearStates |->
                            IF r.left < YearDays(r.year) THEN r ELSE f[YearStep(r)]]
<1>1. ASSUME NEW r \in YearStates
      PROVE  G[r] = IF r.left < YearDays(r.year) THEN r ELSE G[YearStep(r)]
  <2>1. CASE r.left < YearDays(r.year)
    <3>1. r.year \in Nat /\ r.left \in Nat /\ r = [year |-> r.year, left |-> r.left]
      BY DEF YearStates
    <3>2. Before(r.year) \in Nat /\ Before(r.year + 1) = Before(r.year) + YearDays(r.year)
          /\ YearDays(r.year) \in {365, 366}
      BY <3>1, YearLength
    <3>3. DayOf(r) \in Nat /\ InYear(DayOf(r), r.year)
      BY <2>1, <3>1, <3>2 DEF DayOf, InYear
    <3>4. YearAt(DayOf(r)) = r.year
      BY <3>1, <3>3, YearAtIs, OneYear
    <3>5. DayOf(r) - Before(r.year) = r.left
      BY <3>1, <3>2 DEF DayOf
    <3>. QED
      BY <2>1, <3>1, <3>4, <3>5
  <2>2. CASE ~ (r.left < YearDays(r.year))
    <3>1. YearStep(r) \in YearStates /\ DayOf(YearStep(r)) = DayOf(r)
      BY <2>2, YearStepIs
    <3>. QED
      BY <2>2, <3>1
  <2>. QED
    BY <2>1, <2>2
<1>2. Eq(G)
  <2>1. G = [r \in YearStates |-> G[r]]
    OBVIOUS
  <2> HIDE DEF G
  <2>. QED
    BY <1>1, <2>1
<1>3. Years = CHOOSE f : Eq(f)
  BY Zenon DEF Years
<1>4. Eq(Years)
  <2> HIDE DEF Eq, G
  <2>. QED
    BY <1>2, <1>3
<1>. QED
  BY <1>4

LEMMA YearsAre ==
    ASSUME NEW s \in YearStates
    PROVE  /\ Years[s] \in YearStates
           /\ DayOf(Years[s]) = DayOf(s)
           /\ Years[s].left < YearDays(Years[s].year)
<1> DEFINE P(r) == /\ Years[r] \in YearStates
                   /\ DayOf(Years[r]) = DayOf(r)
                   /\ Years[r].left < YearDays(Years[r].year)
           D == {r.left : r \in {q \in YearStates : ~P(q)}}
<1>1. SUFFICES ASSUME D # {}
               PROVE  FALSE
  <2>1. D = {} => P(s)
    <3> HIDE DEF P
    <3>. QED
      OBVIOUS
  <2>. QED
    BY <2>1
<1>2. D \subseteq Nat
  <2> HIDE DEF P
  <2>. QED
    BY DEF YearStates
<1>3. PICK d \in D : \A e \in D : ~ (e < d)
  <2> HIDE DEF D
  <2>1. PICK d \in D : \A e \in D : <<e, d>> \notin OpToRel(<, Nat)
    BY <1>1, <1>2, NatLessThanWellFounded, WFMin, Zenon
  <2>. QED
    BY <1>2, <2>1, Zenon DEF OpToRel
<1>4. PICK r \in YearStates : ~P(r) /\ r.left = d
  <2> HIDE DEF P
  <2>. QED
    OBVIOUS
<1>5. CASE r.left < YearDays(r.year)
  <2>1. Years[r] = r
    BY <1>5, YearsUnfold
  <2>. QED
    BY <1>4, <1>5, <2>1
<1>6. CASE ~ (r.left < YearDays(r.year))
  <2>1. /\ YearStep(r) \in YearStates /\ DayOf(YearStep(r)) = DayOf(r)
        /\ YearStep(r).left < r.left
    BY <1>6, YearStepIs
  <2>2. Years[r] = Years[YearStep(r)]
    BY <1>6, YearsUnfold
  <2>3. P(YearStep(r))
    <3> HIDE DEF P
    <3>1. YearStep(r).left \notin D
      <4> HIDE DEF D
      <4>. QED
        BY <1>3, <1>4, <2>1
    <3>. QED
      BY <2>1, <3>1
  <2>. QED
    BY <1>4, <2>1, <2>2, <2>3
<1>. QED
  BY <1>5, <1>6

-----------------------------------------------------------------------------
(* The whole months *)

\* The days of year y before each of its months, and its length.
MonthStart(y) ==
    LET l == IF IsLeap(y) THEN 1 ELSE 0
    IN  <<0, 31, 59 + l, 90 + l, 120 + l, 151 + l, 181 + l, 212 + l, 243 + l, 273 + l,
          304 + l, 334 + l, 365 + l>>

LEMMA MonthLength ==
    ASSUME NEW y \in Nat
    PROVE  /\ MonthStart(y)[1] = 0 /\ MonthStart(y)[13] = YearDays(y)
           /\ \A m \in 1 .. 12 : /\ MonthDays(y)[m] \in 28 .. 31
                                 /\ MonthStart(y)[m + 1] = MonthStart(y)[m] + MonthDays(y)[m]
           /\ \A m \in 1 .. 13 : MonthStart(y)[m] \in Nat
<1>1. CASE IsLeap(y)
  BY <1>1 DEF MonthStart, MonthDays, YearDays
<1>2. CASE ~IsLeap(y)
  BY <1>2 DEF MonthStart, MonthDays, YearDays
<1>. QED
  BY <1>1, <1>2

LEMMA StartsAscend ==
    ASSUME NEW y \in Nat, NEW j \in 1 .. 12, NEW k \in 1 .. 13, j < k
    PROVE  MonthStart(y)[j + 1] <= MonthStart(y)[k]
<1>1. CASE IsLeap(y)
  BY <1>1 DEF MonthStart
<1>2. CASE ~IsLeap(y)
  BY <1>2 DEF MonthStart
<1>. QED
  BY <1>1, <1>2

MonthStates == [month : 1 .. 13, left : Nat]

MonthStep(y, s) == [month |-> s.month + 1, left |-> s.left - MonthDays(y)[s.month]]

MonthEnds(y, s) == s.month = 13 \/ s.left < MonthDays(y)[s.month]

\* The day of the year that a state of the loop stands for.
YearDay(y, s) == MonthStart(y)[s.month] + s.left

\* Day t of year y is in month m; what follows December is taken for one more.
InMonth(y, t, m) ==
    MonthStart(y)[m] <= t /\ (m = 13 \/ t < MonthStart(y)[m + 1])

MonthAt(y, t) == CHOOSE m \in 1 .. 13 : InMonth(y, t, m)

LEMMA SomeMonth ==
    ASSUME NEW y \in Nat, NEW t \in Nat
    PROVE  MonthAt(y, t) \in 1 .. 13 /\ InMonth(y, t, MonthAt(y, t))
<1> DEFINE o == MonthStart(y)
<1>1. /\ o[1] = 0 /\ \A m \in 1 .. 13 : o[m] \in Nat
  BY MonthLength
<1>2. \E m \in 1 .. 13 : InMonth(y, t, m)
  <2> HIDE DEF o
  <2>1. SUFFICES ASSUME \A m \in 1 .. 13 : ~InMonth(y, t, m)
                 PROVE  FALSE
    OBVIOUS
  <2>2. \A m \in 1 .. 12 : o[m] <= t => o[m + 1] <= t
    BY <1>1, <2>1 DEF InMonth, o
  <2>3. o[1] <= t
    BY <1>1
  <2>4. o[13] <= t
    BY <2>2, <2>3
  <2>. QED
    BY <2>1, <2>4 DEF InMonth, o
<1>. QED
  BY <1>2 DEF MonthAt

LEMMA OneMonth ==
    ASSUME NEW y \in Nat, NEW t \in Nat, NEW j \in 1 .. 13, NEW k \in 1 .. 13,
           InMonth(y, t, j), InMonth(y, t, k)
    PROVE  j = k
<1>1. ASSUME NEW a \in 1 .. 13, NEW b \in 1 .. 13, InMonth(y, t, a), InMonth(y, t, b)
      PROVE  ~ (a < b)
  <2>1. SUFFICES ASSUME a < b
                 PROVE  FALSE
    OBVIOUS
  <2>2. a \in 1 .. 12 /\ a + 1 \in 1 .. 13
    BY <2>1
  <2>3. MonthStart(y)[a + 1] <= MonthStart(y)[b]
    BY <2>1, <2>2, StartsAscend
  <2>4. MonthStart(y)[a + 1] \in Nat /\ MonthStart(y)[b] \in Nat
    BY <2>2, MonthLength
  <2>. QED
    BY <1>1, <2>2, <2>3, <2>4 DEF InMonth
<1>. QED
  BY <1>1

LEMMA MonthStepIs ==
    ASSUME NEW y \in Nat, NEW s \in MonthStates, ~MonthEnds(y, s)
    PROVE  /\ MonthStep(y, s) \in MonthStates
           /\ YearDay(y, MonthStep(y, s)) = YearDay(y, s)
           /\ MonthStep(y, s).left < s.left
<1>1. s.month \in 1 .. 12 /\ s.left \in Nat /\ ~ (s.left < MonthDays(y)[s.month])
  BY DEF MonthStates, MonthEnds
<1>2. /\ MonthDays(y)[s.month] \in 28 .. 31 /\ MonthStart(y)[s.month] \in Nat
      /\ MonthStart(y)[s.month + 1] = MonthStart(y)[s.month] + MonthDays(y)[s.month]
  BY <1>1, MonthLength
<1>. QED
  BY <1>1, <1>2 DEF MonthStates, MonthStep, YearDay

\* The result of the second loop for the day of the year that it is given.
LEMMA MonthLoopIs ==
    ASSUME NEW y \in Nat, NEW days \in Nat, days < YearDays(y)
    PROVE  LET r == MonthLoop(MonthDays(y), days)
           IN  /\ r.month \in 1 .. 12 /\ r.left \in Nat
               /\ MonthStart(y)[r.month] + r.left = days
               /\ r.left < MonthDays(y)[r.month]
<1> DEFINE L == MonthDays(y)
           G == [r \in MonthStates |->
                    [month |-> MonthAt(y, YearDay(y, r)),
                     left |-> YearDay(y, r) - MonthStart(y)[MonthAt(y, YearDay(y, r))]]]
           Eq(f) == f = [r \in MonthStates |->
                            IF r.month = 13 \/ r.left < L[r.month] THEN r
                            ELSE f[[month |-> r.month + 1, left |-> r.left - L[r.month]]]]
           Loop == CHOOSE f : Eq(f)
           start == [month |-> 1, left |-> days]
<1>1. MonthLoop(L, days) = Loop[start]
  <2> HIDE DEF L
  <2>. QED
    BY Zenon DEF MonthLoop, MonthStates
<1>2. ASSUME NEW r \in MonthStates
      PROVE  G[r] = IF MonthEnds(y, r) THEN r ELSE G[MonthStep(y, r)]
  <2>1. CASE MonthEnds(y, r)
    <3>1. r.month \in 1 .. 13 /\ r.left \in Nat /\ r = [month |-> r.month, left |-> r.left]
      BY DEF MonthStates
    <3>2. MonthStart(y)[r.month] \in Nat
      BY <3>1, MonthLength
    <3>3. r.month # 13 => MonthStart(y)[r.month + 1] = MonthStart(y)[r.month] + L[r.month]
                          /\ L[r.month] \in 28 .. 31
      BY <3>1, MonthLength
    <3>4. YearDay(y, r) \in Nat /\ InMonth(y, YearDay(y, r), r.month)
      <4> HIDE DEF L
      <4>. QED
        BY <2>1, <3>1, <3>2, <3>3 DEF YearDay, InMonth, MonthEnds, L
    <3>5. MonthAt(y, YearDay(y, r)) = r.month
      BY <3>1, <3>4, SomeMonth, OneMonth
    <3>6. YearDay(y, r) - MonthStart(y)[r.month] = r.left
      BY <3>1, <3>2 DEF YearDay
    <3>. QED
      BY <2>1, <3>1, <3>5, <3>6
  <2>2. CASE ~MonthEnds(y, r)
    <3>1. MonthStep(y, r) \in MonthStates /\ YearDay(y, MonthStep(y, r)) = YearDay(y, r)
      BY <2>2, MonthStepIs
    <3>. QED
      BY <2>2, <3>1
  <2>. QED
    BY <2>1, <2>2
<1>3. Eq(G)
  <2>1. G = [r \in MonthStates |-> G[r]]
    OBVIOUS
  <2> HIDE DEF G
  <2>. QED
    BY <1>2, <2>1 DEF MonthEnds, MonthStep
<1>4. Eq(Loop)
  <2> HIDE DEF Eq, G
  <2>. QED
    BY <1>3
<1>5. \A r \in MonthStates :
          Loop[r] = IF MonthEnds(y, r) THEN r ELSE Loop[MonthStep(y, r)]
  <2> HIDE DEF Loop
  <2>. QED
    BY <1>4 DEF MonthEnds, MonthStep
<1> DEFINE P(r) == /\ Loop[r] \in MonthStates
                   /\ YearDay(y, Loop[r]) = YearDay(y, r)
                   /\ MonthEnds(y, Loop[r])
           D == {r.left : r \in {q \in MonthStates : ~P(q)}}
<1> HIDE DEF Loop, Eq, G
<1>6. \A r \in MonthStates : P(r)
  <2>1. SUFFICES ASSUME D # {}
                 PROVE  FALSE
    <3> HIDE DEF P
    <3>. QED
      OBVIOUS
  <2>2. D \subseteq Nat
    <3> HIDE DEF P
    <3>. QED
      BY DEF MonthStates
  <2>3. PICK d \in D : \A e \in D : ~ (e < d)
    <3> HIDE DEF D
    <3>1. PICK d \in D : \A e \in D : <<e, d>> \notin OpToRel(<, Nat)
      BY <2>1, <2>2, NatLessThanWellFounded, WFMin, Zenon
    <3>. QED
      BY <2>2, <3>1, Zenon DEF OpToRel
  <2>4. PICK r \in MonthStates : ~P(r) /\ r.left = d
    <3> HIDE DEF P
    <3>. QED
      OBVIOUS
  <2>5. CASE MonthEnds(y, r)
    <3>1. Loop[r] = r
      BY <1>5, <2>5
    <3>. QED
      BY <2>4, <2>5, <3>1
  <2>6. CASE ~MonthEnds(y, r)
    <3>1. /\ MonthStep(y, r) \in MonthStates
          /\ YearDay(y, MonthStep(y, r)) = YearDay(y, r)
          /\ MonthStep(y, r).left < r.left
      BY <2>6, MonthStepIs
    <3>2. Loop[r] = Loop[MonthStep(y, r)]
      BY <1>5, <2>6
    <3>3. P(MonthStep(y, r))
      <4> HIDE DEF P
      <4>1. MonthStep(y, r).left \notin D
        <5> HIDE DEF D
        <5>. QED
          BY <2>3, <2>4, <3>1
      <4>. QED
        BY <3>1, <4>1
    <3>. QED
      BY <2>4, <3>1, <3>2, <3>3
  <2>. QED
    BY <2>5, <2>6
<1>7. start \in MonthStates /\ YearDay(y, start) = days
  BY MonthLength DEF MonthStates, YearDay
<1> DEFINE r == Loop[start]
<1>8. r \in MonthStates /\ YearDay(y, r) = days /\ MonthEnds(y, r)
  BY <1>6, <1>7
<1> HIDE DEF start, r
<1>9. r.month # 13
  <2>1. SUFFICES ASSUME r.month = 13
                 PROVE  FALSE
    OBVIOUS
  <2>2. YearDay(y, r) = YearDays(y) + r.left /\ r.left \in Nat
    BY <1>8, <2>1, MonthLength DEF YearDay, MonthStates
  <2>3. YearDays(y) \in {365, 366}
    BY YearLength
  <2>. QED
    BY <1>8, <2>2, <2>3
<1>10. /\ r.month \in 1 .. 12 /\ r.left \in Nat
       /\ MonthStart(y)[r.month] + r.left = days
       /\ r.left < MonthDays(y)[r.month]
  BY <1>8, <1>9 DEF MonthStates, YearDay, MonthEnds
<1>11. MonthLoop(MonthDays(y), days) = r
  BY <1>1 DEF r
<1>. QED
  BY <1>10, <1>11

-----------------------------------------------------------------------------
(* The calendar *)

Epoch == Before(1970)

\* Date d is n days after 1970-01-01.
IsDate(d, n) ==
    /\ d \in [year : Nat, month : 1 .. 12, day : 1 .. 31]
    /\ d.day <= MonthDays(d.year)[d.month]
    /\ Before(d.year) + MonthStart(d.year)[d.month] + d.day - 1 = Epoch + n

LEMMA DateOfDay ==
    ASSUME NEW n \in Nat
    PROVE  IsDate(DaysToYmd(n), n)
<1> DEFINE y == YearLoop(n)
           m == MonthLoop(MonthDays(y.year), y.left)
           s == [year |-> 1970, left |-> n]
<1>1. s \in YearStates /\ DayOf(s) = Epoch + n
  BY DEF YearStates, DayOf, Epoch
<1>2. /\ y.year \in Nat /\ y.left \in Nat /\ y.left < YearDays(y.year)
      /\ Before(y.year) + y.left = Epoch + n
  <2>1. y = Years[s]
    BY YearLoopIs
  <2> HIDE DEF y, s
  <2>2. y \in YearStates /\ DayOf(y) = Epoch + n /\ y.left < YearDays(y.year)
    BY <1>1, <2>1, YearsAre
  <2>. QED
    BY <2>2 DEF YearStates, DayOf
<1> HIDE DEF y
<1>3. /\ m.month \in 1 .. 12 /\ m.left \in Nat
      /\ MonthStart(y.year)[m.month] + m.left = y.left
      /\ m.left < MonthDays(y.year)[m.month]
  BY <1>2, MonthLoopIs
<1> HIDE DEF m
<1>4. DaysToYmd(n) = [year |-> y.year, month |-> m.month, day |-> m.left + 1]
  BY DEF DaysToYmd, y, m
<1>5. /\ MonthDays(y.year)[m.month] \in 28 .. 31 /\ MonthStart(y.year)[m.month] \in Nat
      /\ Before(y.year) \in Nat
  <2>1. m.month \in 1 .. 13
    BY <1>3
  <2>2. MonthDays(y.year)[m.month] \in 28 .. 31
    BY <1>2, <1>3, MonthLength
  <2>3. MonthStart(y.year)[m.month] \in Nat
    BY <1>2, <2>1, MonthLength
  <2>4. Before(y.year) \in Nat
    BY <1>2, YearLength
  <2>. QED
    BY <2>2, <2>3, <2>4
<1>6. Epoch \in Nat
  BY YearLength DEF Epoch
<1>. QED
  BY <1>2, <1>3, <1>4, <1>5, <1>6 DEF IsDate

\* There is one date to a day.
LEMMA OneDate ==
    ASSUME NEW n \in Nat, NEW d, NEW e, IsDate(d, n), IsDate(e, n)
    PROVE  d = e
<1> DEFINE t == Epoch + n
<1>0. Epoch \in Nat
  BY YearLength DEF Epoch
<1>1. ASSUME NEW c, IsDate(c, n)
      PROVE  /\ c.year \in Nat /\ c.month \in 1 .. 12 /\ c.day \in 1 .. 31
             /\ InYear(t, c.year) /\ InMonth(c.year, t - Before(c.year), c.month)
             /\ t - Before(c.year) \in Nat
             /\ c.day = t - Before(c.year) - MonthStart(c.year)[c.month] + 1
             /\ c = [year |-> c.year, month |-> c.month, day |-> c.day]
  <2>1. /\ c.year \in Nat /\ c.month \in 1 .. 12 /\ c.day \in 1 .. 31
        /\ c = [year |-> c.year, month |-> c.month, day |-> c.day]
        /\ c.day <= MonthDays(c.year)[c.month]
        /\ Before(c.year) + MonthStart(c.year)[c.month] + c.day - 1 = t
    BY <1>1 DEF IsDate
  <2>2. /\ Before(c.year) \in Nat /\ Before(c.year + 1) = Before(c.year) + YearDays(c.year)
        /\ YearDays(c.year) \in {365, 366}
    BY <2>1, YearLength
  <2>3. /\ MonthDays(c.year)[c.month] \in 28 .. 31
        /\ MonthStart(c.year)[c.month + 1]
             = MonthStart(c.year)[c.month] + MonthDays(c.year)[c.month]
        /\ MonthStart(c.year)[c.month] \in Nat
        /\ MonthStart(c.year)[13] = YearDays(c.year)
    BY <2>1, MonthLength
  <2>4. MonthStart(c.year)[c.month + 1] <= YearDays(c.year)
    BY <2>1, <2>3, StartsAscend
  <2> HIDE DEF t
  <2>5. t \in Nat
    BY <1>0 DEF t
  <2>6. InYear(t, c.year)
    BY <2>1, <2>2, <2>3, <2>4, <2>5 DEF InYear
  <2>7. InMonth(c.year, t - Before(c.year), c.month)
    BY <2>1, <2>2, <2>3, <2>5 DEF InMonth
  <2>8. /\ t - Before(c.year) \in Nat
        /\ c.day = t - Before(c.year) - MonthStart(c.year)[c.month] + 1
    BY <2>1, <2>2, <2>3, <2>5
  <2>. QED
    BY <2>1, <2>6, <2>7, <2>8
<1>2. t \in Nat
  BY <1>0
<1> HIDE DEF t
<1>3. d.year = e.year
  BY <1>1, <1>2, OneYear
<1>4. d.month = e.month
  BY <1>1, <1>3, OneMonth
<1>5. d.day = e.day
  BY <1>1, <1>3, <1>4
<1>. QED
  BY <1>1, <1>3, <1>4, <1>5

\* The calendar as it is taught goes from the date of a day to that of the next.
LEMMA DateOfNextDay ==
    ASSUME NEW n \in Nat, NEW d, IsDate(d, n)
    PROVE  IsDate(DayAfter(d), n + 1)
<1>0. Epoch \in Nat
  BY YearLength DEF Epoch
<1>1. /\ d.year \in Nat /\ d.month \in 1 .. 12 /\ d.day \in 1 .. 31
      /\ d = [year |-> d.year, month |-> d.month, day |-> d.day]
      /\ d.day <= MonthDays(d.year)[d.month]
      /\ Before(d.year) + MonthStart(d.year)[d.month] + d.day - 1 = Epoch + n
  BY DEF IsDate
<1>2. GregorianLeap(d.year) <=> IsLeap(d.year)
  BY <1>1 DEF GregorianLeap, IsLeap
<1>3. LastOfMonth(d.year, d.month) = MonthDays(d.year)[d.month]
  <2>1. CASE IsLeap(d.year)
    BY <1>1, <1>2, <2>1 DEF LastOfMonth, MonthDays
  <2>2. CASE ~IsLeap(d.year)
    BY <1>1, <1>2, <2>2 DEF LastOfMonth, MonthDays
  <2>. QED
    BY <2>1, <2>2
<1>4. /\ MonthDays(d.year)[d.month] \in 28 .. 31
      /\ MonthStart(d.year)[d.month + 1]
           = MonthStart(d.year)[d.month] + MonthDays(d.year)[d.month]
      /\ MonthStart(d.year)[d.month] \in Nat
      /\ MonthStart(d.year)[13] = YearDays(d.year)
      /\ Before(d.year) \in Nat
  BY <1>1, MonthLength, YearLength
<1>5. CASE d.day < LastOfMonth(d.year, d.month)
  <2>1. DayAfter(d) = [year |-> d.year, month |-> d.month, day |-> d.day + 1]
    BY <1>1, <1>5 DEF DayAfter
  <2>. QED
    BY <1>0, <1>1, <1>3, <1>4, <1>5, <2>1 DEF IsDate
<1>6. CASE ~ (d.day < LastOfMonth(d.year, d.month)) /\ d.month < 12
  <2>1. DayAfter(d) = [year |-> d.year, month |-> d.month + 1, day |-> 1]
    BY <1>1, <1>6 DEF DayAfter
  <2>2. d.month + 1 \in 1 .. 12
    BY <1>1, <1>6
  <2>3. MonthDays(d.year)[d.month + 1] \in 28 .. 31
    BY <1>1, <2>2, MonthLength
  <2>4. d.day = MonthDays(d.year)[d.month]
    BY <1>1, <1>3, <1>4, <1>6
  <2>. QED
    BY <1>0, <1>1, <1>4, <2>1, <2>2, <2>3, <2>4 DEF IsDate
<1>7. CASE ~ (d.day < LastOfMonth(d.year, d.month)) /\ ~ (d.month < 12)
  <2>1. DayAfter(d) = [year |-> d.year + 1, month |-> 1, day |-> 1]
    BY <1>7 DEF DayAfter
  <2>2. d.day = MonthDays(d.year)[d.month] /\ d.month = 12
    BY <1>1, <1>3, <1>4, <1>7
  <2>3. Before(d.year + 1) = Before(d.year) + YearDays(d.year)
    BY <1>1, YearLength
  <2>4. MonthStart(d.year + 1)[1] = 0 /\ MonthDays(d.year + 1)[1] \in 28 .. 31
    BY <1>1, MonthLength
  <2>5. MonthStart(d.year)[12] + MonthDays(d.year)[12] = YearDays(d.year)
    BY <1>4, <2>2
  <2>6. Before(d.year + 1) = Epoch + (n + 1) /\ Before(d.year + 1) \in Nat
    <3>1. Before(d.year + 1) \in Nat /\ YearDays(d.year) \in {365, 366}
      BY <1>1, YearLength
    <3>. QED
      BY <1>0, <1>1, <1>4, <2>2, <2>3, <2>5, <3>1
  <2>. QED
    BY <1>0, <1>1, <2>1, <2>4, <2>6 DEF IsDate
<1>. QED
  BY <1>5, <1>6, <1>7

(* days_to_ymd has been the Gregorian calendar since 1970-01-01, on every   *)
(* day that there will be: it starts with that date, and from a day to the  *)
(* next it does what DayAfter does.                                         *)
THEOREM GregorianDays ==
    /\ DaysToYmd(0) = [year |-> 1970, month |-> 1, day |-> 1]
    /\ \A n \in Nat : DaysToYmd(n + 1) = DayAfter(DaysToYmd(n))
<1>1. DaysToYmd(0) = [year |-> 1970, month |-> 1, day |-> 1]
  <2>1. MonthStart(1970)[1] = 0 /\ MonthDays(1970)[1] \in 28 .. 31 /\ Epoch \in Nat
    BY MonthLength, YearLength DEF Epoch
  <2>2. IsDate([year |-> 1970, month |-> 1, day |-> 1], 0)
    BY <2>1 DEF IsDate, Epoch
  <2>. QED
    BY <2>2, DateOfDay, OneDate
<1>2. ASSUME NEW n \in Nat
      PROVE  DaysToYmd(n + 1) = DayAfter(DaysToYmd(n))
  <2>1. IsDate(DayAfter(DaysToYmd(n)), n + 1)
    BY DateOfDay, DateOfNextDay
  <2>2. IsDate(DaysToYmd(n + 1), n + 1)
    BY DateOfDay
  <2>. QED
    BY <2>1, <2>2, OneDate
<1>. QED
  BY <1>1, <1>2

(* The report is stamped with the date of the day on which the verdict is   *)
(* drawn, however many midnights pass during the command, given that the    *)
(* date is right when it is started.                                        *)
THEOREM RightDateStamped ==
    ASSUME \A s \in Starts : s.today.date = DaysToYmd(s.today.number)
    PROVE  Spec => StampedWithADate
<1> DEFINE DateInv == today.number \in Nat /\ today.date = DaysToYmd(today.number)
<1>1. Init => DateInv
  BY ReadinessAssumption DEF Init
<1>2. DateInv /\ [Next]_vars => DateInv'
  <2> SUFFICES ASSUME DateInv, [Next]_vars
               PROVE  DateInv'
    OBVIOUS
  <2>1. CASE Midnight
    <3>1. today' = [number |-> today.number + 1, date |-> DayAfter(today.date)]
      BY <2>1 DEF Midnight
    <3>2. DaysToYmd(today.number + 1) = DayAfter(DaysToYmd(today.number))
      BY GregorianDays
    <3>. QED
      BY <3>1, <3>2
  <2>2. CASE ~Midnight
    <3>1. today' = today
      BY <2>2 DEF Next, Wm, World, EnvRewritten, TargetChanges, AudioChanges, BusChanges,
                  PathChanges, Become, CheckBrain, CheckTarget, ListSources, ListSinks,
                  BusExists, BusConnect, LookUp, CheckUnits, Verdict, vars, world
    <3>. QED
      BY <3>1
  <2>. QED
    BY <2>1, <2>2
<1>3. DateInv /\ [Next]_vars => [Verdict => verdict'.ts = today.date]_vars
  <2> SUFFICES ASSUME DateInv, Verdict
               PROVE  verdict'.ts = today.date
    OBVIOUS
  <2> DEFINE F == Failing(checks)
  <2>1. verdict' = [ready |-> F = {}, failing |-> F,
                    worst |-> IF F = {} THEN "none" ELSE Worst(F),
                    ts |-> DaysToYmd(today.number)]
    BY Zenon DEF Verdict
  <2> HIDE DEF F
  <2>. QED
    BY <2>1
<1> HIDE DEF DateInv
<1>. QED
  BY <1>1, <1>2, <1>3, PTL DEF Spec, StampedWithADate

=============================================================================
