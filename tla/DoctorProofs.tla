---------------------------- MODULE DoctorProofs ----------------------------
(***************************************************************************)
(* Theorems about Doctor, for every fleet and every list of patterns, every*)
(* state of the machine and every number of changes of it at any point of  *)
(* the command.                                                            *)
(***************************************************************************)
EXTENDS Doctor, SequenceTheorems, WellFoundedInduction, TLAPS

(* What each fact says of the machine. *)
LEMMA FactsMean ==
    ASSUME NEW m, NEW s \in Scopes, NEW u \in Units
    PROVE  /\ <<"answers", s>> \in Facts(m) <=> m.answers[s]
           /\ <<"installed", s, u>> \in Facts(m) <=> m.answers[s] /\ m.file[s][u] # NoFile
           /\ <<"loaded", s, u>> \in Facts(m) <=> m.answers[s] /\ u \in m.loaded[s]
           /\ <<"wants", s, u>> \in Facts(m) <=> u \in m.wants[s]
           /\ <<"links", s, u>> \in Facts(m) <=> u \in m.links[s]
           /\ \A p : <<"leads", s, u, p>> \in Facts(m) <=> m.file[s][u] = p
           /\ \A p \in Paths : <<"usable", p>> \in Facts(m) <=> m.bin[p] = "executable"
<1>1. <<"answers", s>> \in Facts(m) <=> m.answers[s]
  BY DEF Facts
<1>2. <<"installed", s, u>> \in Facts(m) <=> m.answers[s] /\ m.file[s][u] # NoFile
  BY DEF Facts, Answered, Installed
<1>3. <<"loaded", s, u>> \in Facts(m) <=> m.answers[s] /\ u \in m.loaded[s]
  BY DEF Facts, Answered, Installed
<1>4. <<"wants", s, u>> \in Facts(m) <=> u \in m.wants[s]
  BY DEF Facts
<1>5. <<"links", s, u>> \in Facts(m) <=> u \in m.links[s]
  BY DEF Facts
<1>6. \A p : <<"leads", s, u, p>> \in Facts(m) <=> m.file[s][u] = p
  BY DEF Facts
<1>7. \A p \in Paths : <<"usable", p>> \in Facts(m) <=> m.bin[p] = "executable"
  BY DEF Facts
<1>. QED
  BY <1>1, <1>2, <1>3, <1>4, <1>5, <1>6, <1>7

(* Among the indices at which something holds there is a first one. *)
LEMMA FirstIndex ==
    ASSUME NEW n \in Nat, NEW I \in SUBSET (1 .. n), I # {}
    PROVE  \E i \in I : \A j \in 1 .. i - 1 : j \notin I
<1>0. I \subseteq Nat
  OBVIOUS
<1>1. PICK i \in I : \A j \in I : <<j, i>> \notin OpToRel(<, Nat)
  BY <1>0, NatLessThanWellFounded, WFMin, Zenon
<1>2. \A j \in I : ~ (j < i)
  BY <1>0, <1>1, Zenon DEF OpToRel
<1>3. \A j \in 1 .. i - 1 : j < i
  OBVIOUS
<1>. QED
  BY <1>2, <1>3

(* The loop of run_doctor takes a name of the list, if there is one. *)
LEMMA NextNameFound ==
    ASSUME TypeOK, NEW u \in Units, found[u] > 0
    PROVE  NextName \in Units /\ found[NextName] > 0
<1> DEFINE I == {i \in DOMAIN Names : found[Names[i]] > 0}
<1>1. DOMAIN Names = 1 .. Len(Names) /\ Len(Names) \in Nat /\ \A i \in DOMAIN Names : Names[i] \in Units
  BY DoctorAssumption
<1>2. I \in SUBSET (1 .. Len(Names)) /\ I # {}
  BY <1>1 DEF Units, Range
<1>3. PICK i \in I : \A j \in 1 .. i - 1 : j \notin I
  <2> HIDE DEF I
  <2>. QED
    BY <1>1, <1>2, FirstIndex
<1>4. \A j \in 1 .. i - 1 : j \in DOMAIN Names
  BY <1>1
<1>5. \A j \in 1 .. i - 1 : ~ (found[Names[j]] > 0)
  BY <1>3, <1>4
<1>6. \A j \in 1 .. i - 1 : found[Names[j]] = 0
  <2> TAKE j \in 1 .. i - 1
  <2>1. Names[j] \in Units
    BY <1>1, <1>4
  <2>2. found[Names[j]] \in {0, 1}
    BY <2>1 DEF TypeOK
  <2>. QED
    BY <1>5, <2>2
<1>7. PICK k \in DOMAIN Names : /\ NextName = Names[k]
                                /\ found[Names[k]] > 0
  BY <1>3, <1>6, Zenon DEF NextName
<1>. QED
  BY <1>1, <1>7

(* Range and Append *)
LEMMA AppendRow ==
    ASSUME NEW rs \in Seq(UnitReport), NEW r \in UnitReport
    PROVE  /\ Append(rs, r) \in Seq(UnitReport)
           /\ Range(Append(rs, r)) = Range(rs) \cup {r}
           /\ \A i \in DOMAIN Append(rs, r) :
                  \/ i \in DOMAIN rs /\ Append(rs, r)[i] = rs[i]
                  \/ i = Len(rs) + 1 /\ Append(rs, r)[i] = r
<1>1. /\ Append(rs, r) \in Seq(UnitReport)
      /\ DOMAIN Append(rs, r) = 1 .. Len(rs) + 1
      /\ DOMAIN rs = 1 .. Len(rs) /\ Len(rs) \in Nat
      /\ \A i \in 1 .. Len(rs) : Append(rs, r)[i] = rs[i]
      /\ Append(rs, r)[Len(rs) + 1] = r
  BY AppendProperties
<1>2. \A i \in DOMAIN Append(rs, r) : i \in DOMAIN rs \/ i = Len(rs) + 1
  BY <1>1
<1>3. DOMAIN rs \subseteq DOMAIN Append(rs, r) /\ Len(rs) + 1 \in DOMAIN Append(rs, r)
  BY <1>1
<1>4. Range(Append(rs, r)) = Range(rs) \cup {r}
  BY <1>1, <1>2, <1>3 DEF Range
<1>. QED
  BY <1>1, <1>2, <1>4

-----------------------------------------------------------------------------
(* The scopes still to be inspected are the last ones of those asked for.   *)

Suffix ==
    \/ scopes = asked
    \/ asked = <<"user", "system">> /\ scopes = <<"system">>
    \/ scopes = <<>>

LEMMA FlagRanges ==
    /\ Range(<<"user">>) = {"user"} /\ Range(<<"system">>) = {"system"}
    /\ Range(<<"user", "system">>) = {"user", "system"} /\ Range(<<>>) = {}
    /\ Head(<<"user">>) = "user" /\ Tail(<<"user">>) = <<>>
    /\ Head(<<"system">>) = "system" /\ Tail(<<"system">>) = <<>>
    /\ Head(<<"user", "system">>) = "user" /\ Tail(<<"user", "system">>) = <<"system">>
<1>1. \A s : Range(<<s>>) = {s} /\ Head(<<s>>) = s /\ Tail(<<s>>) = <<>>
  BY DEF Range
<1>2. \A s, t : /\ Range(<<s, t>>) = {s, t}
                /\ Head(<<s, t>>) = s /\ Tail(<<s, t>>) = <<t>>
  BY DEF Range
<1>3. Range(<<>>) = {}
  BY DEF Range
<1>. QED
  BY <1>1, <1>2, <1>3

LEMMA AskedRange == TypeOK => Range(asked) \subseteq Scopes
BY FlagRanges DEF TypeOK, ScopeFlags, Scopes

LEMMA ScopesSplit ==
    ASSUME TypeOK, Suffix, scopes # <<>>
    PROVE  /\ Scope \in Scopes /\ Scope \in Range(asked)
           /\ Range(scopes) = {Scope} \cup Range(Tail(scopes))
           /\ Scope \notin Range(Tail(scopes))
           /\ Range(scopes) \subseteq Range(asked)
           /\ Tail(scopes) \in ScopeFlags \cup {<<>>}
           /\ \/ asked = <<"user", "system">> /\ Tail(scopes) = <<"system">>
              \/ Tail(scopes) = <<>>
           /\ Tail(scopes) # <<>> => Head(Tail(scopes)) \in Range(Tail(scopes))
<1>1. scopes \in ScopeFlags
  BY DEF TypeOK
<1>2. CASE scopes = <<"user">>
  BY <1>2, FlagRanges DEF Scope, Scopes, ScopeFlags, Suffix
<1>3. CASE scopes = <<"system">>
  BY <1>3, FlagRanges DEF Scope, Scopes, ScopeFlags, Suffix
<1>4. CASE scopes = <<"user", "system">>
  <2>1. asked = scopes
    BY <1>4, FlagRanges DEF Suffix
  <2>. QED
    BY <1>4, <2>1, FlagRanges DEF Scope, Scopes, ScopeFlags, Suffix
<1>. QED
  BY <1>1, <1>2, <1>3, <1>4 DEF ScopeFlags

-----------------------------------------------------------------------------
(* A step of the machine leaves the command alone and can only add facts    *)
(* that held once and take away facts that held all along.                  *)

LEMMA WorldStep ==
    ASSUME TypeOK, World
    PROVE  /\ machine' \in Machines /\ changes' \in 0 .. MaxChanges /\ step # "ended"
           /\ ever' = ever \cup Facts(machine') /\ always' = always \cap Facts(machine')
           /\ UNCHANGED <<asked, scopes, step, list, probe, rows, exit>>
<1> USE DEF TypeOK, Machines
<1>0. ASSUME NEW m \in Machines, Become(m)
      PROVE  /\ machine' \in Machines /\ changes' \in 0 .. MaxChanges /\ step # "ended"
             /\ ever' = ever \cup Facts(machine') /\ always' = always \cap Facts(machine')
             /\ UNCHANGED <<asked, scopes, step, list, probe, rows, exit>>
  <2>1. changes' \in 0 .. MaxChanges
    BY <1>0, DoctorAssumption DEF Become
  <2>. QED
    BY <1>0, <2>1 DEF Become
<1>1. ASSUME NEW s \in Scopes, NEW u \in Units, NEW c \in Contents
      PROVE  [machine EXCEPT !.file[s][u] = c] \in Machines
  OBVIOUS
<1>2. ASSUME NEW s \in Scopes, NEW u \in Units
      PROVE  /\ [machine EXCEPT !.loaded[s] = Toggled(machine.loaded[s], u)] \in Machines
             /\ [machine EXCEPT !.wants[s] = Toggled(machine.wants[s], u)] \in Machines
             /\ [machine EXCEPT !.links[s] = Toggled(machine.links[s], u)] \in Machines
  <2>1. \A us \in SUBSET Units : Toggled(us, u) \in SUBSET Units
    BY DEF Toggled
  <2>2. /\ Toggled(machine.loaded[s], u) \in SUBSET Units
        /\ Toggled(machine.wants[s], u) \in SUBSET Units
        /\ Toggled(machine.links[s], u) \in SUBSET Units
    BY <2>1
  <2>. QED
    BY <2>2
<1>3. ASSUME NEW s \in Scopes
      PROVE  [machine EXCEPT !.answers[s] = ~machine.answers[s]] \in Machines
  <2>1. (~machine.answers[s]) \in BOOLEAN
    OBVIOUS
  <2>. QED
    BY <2>1
<1>4. ASSUME NEW p \in Paths, NEW b \in {"missing", "plain", "executable"}
      PROVE  [machine EXCEPT !.bin[p] = b] \in Machines
  OBVIOUS
<1>5. CASE UnitChanges
  BY <1>0, <1>1, <1>5 DEF UnitChanges
<1>6. CASE LoadedChanges \/ TargetChanges
  BY <1>0, <1>2, <1>6 DEF LoadedChanges, TargetChanges
<1>7. CASE ManagerChanges
  BY <1>0, <1>3, <1>7 DEF ManagerChanges
<1>8. CASE BinaryChanges
  BY <1>0, <1>4, <1>8 DEF BinaryChanges
<1>. QED
  BY <1>5, <1>6, <1>7, <1>8 DEF World

-----------------------------------------------------------------------------
(* Where the command is: TypeOK with what the list, the unit and its path   *)
(* are at each call.                                                        *)

Probing == step \in {"exists", "mode", "row"}

StepOK ==
    /\ Suffix
    /\ step \in {"target", "report", "ended"} => \A u \in Units : found[u] = 0
    /\ Probing => found[unit] = 0
    /\ step \in {"exists", "mode"} => path \in Paths
    /\ Ended => exit = (IF Failures = {} THEN 0 ELSE 2)

LEMMA StepInit == Init => TypeOK /\ StepOK
<1> SUFFICES ASSUME Init
             PROVE  TypeOK /\ StepOK
  OBVIOUS
<1>1. Names[1] \in Units
  BY DoctorAssumption
<1>2. scopes \in ScopeFlags /\ scopes # <<>>
  BY DEF Init, ScopeFlags
<1>3. 1 \in 1 .. Len(Patterns)
  BY DoctorAssumption
<1>4. TypeOK
  BY <1>1, <1>2, <1>3, DoctorAssumption DEF Init, TypeOK, NoCode
<1>. QED
  BY <1>4 DEF Init, StepOK, Suffix, Probing, Ended

(* A step that lists names. *)
LEMMA CollectType ==
    ASSUME TypeOK, NEW names, Collect(names)
    PROVE  /\ found' \in [Units -> {0, 1}]
           /\ \A u \in Units : found'[u] > 0 <=> found[u] > 0 \/ u \in names
BY DEF Collect, TypeOK

LEMMA StepNext == TypeOK /\ StepOK /\ [Next]_vars => TypeOK' /\ StepOK'
<1> SUFFICES ASSUME TypeOK, StepOK, [Next]_vars
             PROVE  TypeOK' /\ StepOK'
  OBVIOUS
<1> USE DEF TypeOK, StepOK, world, list, probe
<1>1. CASE UNCHANGED vars
  BY <1>1 DEF vars, Suffix, Probing, Ended, Failures
<1>2. CASE CatTarget
  <2>1. targetCat' \in SUBSET Units
    <3>1. scopes # <<>>
      BY <1>2 DEF CatTarget
    <3>2. machine.wants[Scope] \in SUBSET Units
      BY <3>1, ScopesSplit DEF Machines
    <3>. QED
      BY <1>2, <3>2 DEF CatTarget, Output, Answered
  <2>2. pattern' \in 1 .. Len(Patterns)
    BY <1>2, DoctorAssumption DEF CatTarget
  <2>. QED
    BY <1>2, <2>1, <2>2 DEF CatTarget, Suffix, Probing, Ended
<1>3. CASE ListFiles
  <2>1. found' \in [Units -> {0, 1}]
    BY <1>3, CollectType DEF ListFiles
  <2>. QED
    BY <1>3, <2>1 DEF ListFiles, Suffix, Probing, Ended
<1>4. CASE ListUnits
  <2>1. found' \in [Units -> {0, 1}]
    BY <1>4, CollectType DEF ListUnits
  <2>2. pattern' \in 1 .. Len(Patterns) /\ step' \in {"files", "probe"}
    BY <1>4, DoctorAssumption DEF ListUnits
  <2>. QED
    BY <1>4, <2>1, <2>2 DEF ListUnits, Suffix, Probing, Ended
<1>5. CASE CatUnit
  <2>1. NextName \in Units /\ found[NextName] = 1
    BY <1>5, NextNameFound DEF CatUnit
  <2>2. found' = [found EXCEPT ![NextName] = 0]
    BY <1>5, <2>1 DEF CatUnit
  <2>3. path' \in Paths \cup {NoPath} /\ step' = IF path' = NoPath THEN "row" ELSE "exists"
    BY <1>5 DEF CatUnit
  <2>4. found' \in [Units -> {0, 1}] /\ unit' = NextName /\ found'[unit'] = 0 /\ exists' = "no"
    BY <1>5, <2>1, <2>2 DEF CatUnit
  <2>. QED
    BY <1>5, <2>1, <2>3, <2>4 DEF CatUnit, Suffix, Probing, Ended
<1>6. CASE CheckExists
  BY <1>6 DEF CheckExists, Suffix, Probing, Ended
<1>7. CASE CheckMode
  BY <1>7 DEF CheckMode, Suffix, Probing, Ended
<1>8. CASE MakeRow
  <2>1. scopes # <<>>
    BY <1>8 DEF MakeRow
  <2>2. Scope \in Scopes
    BY <2>1, ScopesSplit
  <2>3. rows' \in Seq(UnitReport)
    <3> DEFINE r == [unit |-> unit, scope |-> Scope, path |-> path,
                     exists |-> exists # "no", executable |-> exists = "executable",
                     inTarget |-> unit \in targetCat \cup machine.links[Scope]]
    <3>1. r \in UnitReport
      BY <2>2 DEF UnitReport
    <3>2. rows' = Append(rows, r)
      BY <1>8 DEF MakeRow
    <3>. QED
      BY <3>1, <3>2, AppendRow
  <2>. QED
    BY <1>8, <2>3 DEF MakeRow, Suffix, Probing, Ended
<1>9. CASE NextScope
  <2>1. scopes # <<>> /\ scopes' = Tail(scopes)
    BY <1>9 DEF NextScope
  <2>2. Tail(scopes) \in ScopeFlags \cup {<<>>}
    BY <2>1, ScopesSplit
  <2>3. \/ asked = <<"user", "system">> /\ Tail(scopes) = <<"system">>
        \/ Tail(scopes) = <<>>
    BY <2>1, ScopesSplit
  <2>4. Suffix'
    BY <1>9, <2>1, <2>3 DEF NextScope, Suffix
  <2>5. step' = IF scopes' = <<>> THEN "report" ELSE "target"
    BY <1>9 DEF NextScope
  <2>. QED
    BY <1>9, <2>1, <2>2, <2>4, <2>5 DEF NextScope, Probing, Ended
<1>10. CASE Report
  BY <1>10 DEF Report, Suffix, Probing, Ended, Failures
<1>11. CASE World
  BY <1>11, WorldStep DEF Suffix, Probing, Ended, Failures
<1>. QED
  BY <1>1, <1>2, <1>3, <1>4, <1>5, <1>6, <1>7, <1>8, <1>9, <1>10, <1>11 DEF Next, Wm

(* The command's state has its type at every step, whatever the machine     *)
(* does: in particular the list never has a name twice.                     *)
THEOREM DoctorTypeCorrect == Spec => []TypeOK
<1>1. TypeOK /\ StepOK => TypeOK
  OBVIOUS
<1>. QED
  BY <1>1, StepInit, StepNext, PTL DEF Spec

-----------------------------------------------------------------------------
(* The history: what is true now was true once, what was true all along is  *)
(* true now, and a unit that led to a path by the word of its manager all   *)
(* along was installed all along.                                           *)

HistoryOK ==
    /\ Facts(machine) \subseteq ever /\ always \subseteq Facts(machine)
    /\ \A s \in Scopes, u \in Units, p \in Paths :
           <<"answers", s>> \in always /\ <<"leads", s, u, p>> \in always
               => <<"installed", s, u>> \in always

BaseInv == TypeOK /\ StepOK /\ HistoryOK

LEMMA LeadsInstalled ==
    ASSUME NEW m, NEW s \in Scopes, NEW u \in Units, NEW p \in Paths,
           <<"answers", s>> \in Facts(m), <<"leads", s, u, p>> \in Facts(m)
    PROVE  <<"installed", s, u>> \in Facts(m)
<1>1. m.answers[s] /\ m.file[s][u] = p
  BY FactsMean
<1>2. p # NoFile
  BY DoctorAssumption
<1>. QED
  BY <1>1, <1>2, FactsMean

LEMMA BaseInit == Init => BaseInv
<1>1. ASSUME Init
      PROVE  HistoryOK
  BY <1>1, LeadsInstalled DEF Init, HistoryOK
<1>. QED
  BY <1>1, StepInit DEF BaseInv

LEMMA BaseNext == BaseInv /\ [Next]_vars => BaseInv'
<1> SUFFICES ASSUME BaseInv, [Next]_vars
             PROVE  HistoryOK'
  BY StepNext DEF BaseInv
<1> USE DEF BaseInv, HistoryOK
<1>1. CASE UNCHANGED world
  BY <1>1 DEF world
<1>2. CASE World
  <2>1. ever' = ever \cup Facts(machine') /\ always' = always \cap Facts(machine')
    BY <1>2, WorldStep
  <2>2. ASSUME NEW s \in Scopes, NEW u \in Units, NEW p \in Paths,
               <<"answers", s>> \in always', <<"leads", s, u, p>> \in always'
        PROVE  <<"installed", s, u>> \in always'
    BY <2>1, <2>2, LeadsInstalled
  <2>. QED
    BY <2>1, <2>2
<1>. QED
  BY <1>1, <1>2 DEF Next, Wm, vars, CatTarget, ListFiles, ListUnits, CatUnit, CheckExists,
                    CheckMode, MakeRow, NextScope, Report

(* Every step is one of the command, which leaves the machine and its       *)
(* history alone, or leaves the command alone and only moves the history.   *)

Elsewhere ==
    /\ ever \subseteq ever' /\ always' \subseteq always
    /\ UNCHANGED <<asked, scopes, step, list, probe, rows, exit>>

LEMMA WmOrElsewhere ==
    ASSUME TypeOK, [Next]_vars
    PROVE  Wm \/ Elsewhere
<1>1. CASE World
  BY <1>1, WorldStep DEF Elsewhere
<1>2. CASE UNCHANGED vars
  BY <1>2 DEF vars, world, Elsewhere
<1>. QED
  BY <1>1, <1>2 DEF Next

-----------------------------------------------------------------------------
(* InspectsTheFleet, its first half: one row for a unit and scope, and none *)
(* out of the blue.  A unit that has its row is neither in the list nor     *)
(* under the probe.                                                         *)

SeenOnce(s, u) == {<<"installed", s, u>>, <<"loaded", s, u>>} \cap ever # {}

RowInv ==
    /\ \A i, j \in DOMAIN rows :
           rows[i].unit = rows[j].unit /\ rows[i].scope = rows[j].scope => i = j
    /\ \A r \in Range(rows) : r.scope \in Range(asked) /\ SeenOnce(r.scope, r.unit)
    /\ scopes # <<>> => \A r \in Range(rows) :
           /\ r.scope \notin Range(Tail(scopes))
           /\ r.scope = Scope => /\ step \in {"probe", "exists", "mode", "row"}
                                 /\ found[r.unit] = 0
                                 /\ Probing => r.unit # unit
    /\ scopes # <<>> => \A u \in Units : found[u] > 0 => SeenOnce(Scope, u)
    /\ Probing => SeenOnce(Scope, unit)

LEMMA RowInit == Init => RowInv
<1> SUFFICES ASSUME Init
             PROVE  RowInv
  OBVIOUS
<1>1. rows = <<>> /\ Range(<<>>) = {} /\ step = "target" /\ \A u \in Units : found[u] = 0
  BY FlagRanges DEF Init
<1>. QED
  BY <1>1 DEF RowInv, Probing

(* What a listing collects is there. *)
LEMMA ListedSeen ==
    ASSUME BaseInv, scopes # <<>>, NEW u \in Units,
           u \in Output(Installed(machine, Scope)) \cup Output(machine.loaded[Scope])
    PROVE  SeenOnce(Scope, u)
<1>1. Scope \in Scopes
  BY ScopesSplit DEF BaseInv, StepOK
<1>2. \/ <<"installed", Scope, u>> \in Facts(machine)
      \/ <<"loaded", Scope, u>> \in Facts(machine)
  BY <1>1, FactsMean DEF Output, Answered, Installed
<1>. QED
  BY <1>2 DEF BaseInv, HistoryOK, SeenOnce

LEMMA RowNext ==
    ASSUME BaseInv, RowInv, [Next]_vars
    PROVE  RowInv'
<1> USE DEF BaseInv, TypeOK, world, list, probe
<1>1. CASE Elsewhere
  BY <1>1 DEF Elsewhere, RowInv, SeenOnce, Scope, Probing
<1>2. CASE CatTarget \/ CheckExists \/ CheckMode
  BY <1>2 DEF CatTarget, CheckExists, CheckMode, RowInv, SeenOnce, Scope, Probing
<1>3. CASE ListFiles \/ ListUnits
  <2>1. /\ step \in {"files", "units"} /\ step' \in {"files", "units", "probe"}
        /\ scopes # <<>>
        /\ UNCHANGED <<world, asked, scopes, rows>>
    BY <1>3 DEF ListFiles, ListUnits
  <2>2. ASSUME NEW u \in Units, found'[u] > 0
        PROVE  SeenOnce(Scope, u)
    <3>1. found[u] > 0 \/ u \in Output(Installed(machine, Scope)) \cup Output(machine.loaded[Scope])
      <4>1. CASE ListFiles
        BY <2>2, <4>1, CollectType DEF ListFiles, Output, Answered
      <4>2. CASE ListUnits
        BY <2>2, <4>2, CollectType DEF ListUnits, Output, Answered
      <4>. QED
        BY <1>3, <4>1, <4>2
    <3>. QED
      BY <2>1, <3>1, ListedSeen DEF RowInv
  <2>3. \A r \in Range(rows) : r.scope # Scope
    BY <2>1 DEF RowInv
  <2>. QED
    BY <2>1, <2>2, <2>3 DEF RowInv, SeenOnce, Scope, Probing
<1>4. CASE CatUnit
  <2>1. NextName \in Units /\ found[NextName] = 1 /\ step = "probe" /\ scopes # <<>>
    BY <1>4, NextNameFound DEF CatUnit
  <2>2. /\ found' = [found EXCEPT ![NextName] = 0] /\ unit' = NextName
        /\ UNCHANGED <<world, asked, scopes, rows>> /\ step' \in {"row", "exists"}
    BY <1>4, <2>1 DEF CatUnit
  <2>3. SeenOnce(Scope, unit')
    BY <2>1, <2>2 DEF RowInv
  <2>4. ASSUME NEW r \in Range(rows), r.scope = Scope
        PROVE  found'[r.unit] = 0 /\ r.unit # unit'
    <3>1. r \in UnitReport
      BY RangeOfSeq
    <3>2. r.unit \in Units /\ found[r.unit] = 0
      BY <2>1, <2>4, <3>1 DEF RowInv, UnitReport
    <3>. QED
      BY <2>1, <2>2, <3>2
  <2>5. \A u \in Units : found'[u] > 0 => found[u] > 0
    BY <2>1, <2>2
  <2>. QED
    BY <2>1, <2>2, <2>3, <2>4, <2>5 DEF RowInv, SeenOnce, Scope, Probing
<1>5. CASE MakeRow
  <2> DEFINE r == [unit |-> unit, scope |-> Scope, path |-> path,
                   exists |-> exists # "no", executable |-> exists = "executable",
                   inTarget |-> unit \in targetCat \cup machine.links[Scope]]
  <2>1. step = "row" /\ Probing /\ scopes # <<>> /\ found[unit] = 0
    BY <1>5 DEF MakeRow, Probing, StepOK
  <2>2. /\ Scope \in Scopes /\ Scope \in Range(asked) /\ Scope \notin Range(Tail(scopes))
    BY <2>1, ScopesSplit DEF StepOK
  <2>3. r \in UnitReport /\ rows' = Append(rows, r) /\ r.unit = unit /\ r.scope = Scope
    BY <1>5, <2>2 DEF MakeRow, UnitReport
  <2>4. /\ step' = "probe" /\ UNCHANGED <<world, asked, scopes, found, unit>>
    BY <1>5 DEF MakeRow
  <2> HIDE DEF r
  <2>5. /\ Range(rows') = Range(rows) \cup {r}
        /\ \A i \in DOMAIN rows' : \/ i \in DOMAIN rows /\ rows'[i] = rows[i]
                                   \/ i = Len(rows) + 1 /\ rows'[i] = r
    BY <2>3, AppendRow
  <2>6. \A q \in Range(rows) : ~ (q.unit = unit /\ q.scope = Scope)
    BY <2>1 DEF RowInv
  <2>7. \A i \in DOMAIN rows : rows[i] \in Range(rows)
    BY DEF Range
  <2>8. ASSUME NEW i \in DOMAIN rows', NEW j \in DOMAIN rows',
               rows'[i].unit = rows'[j].unit, rows'[i].scope = rows'[j].scope
        PROVE  i = j
    <3>1. CASE rows'[i] = rows[i] /\ i \in DOMAIN rows /\ rows'[j] = rows[j] /\ j \in DOMAIN rows
      BY <2>8, <3>1 DEF RowInv
    <3>. QED
      BY <2>3, <2>5, <2>6, <2>7, <2>8, <3>1
  <2>9. SeenOnce(Scope, unit)
    BY <2>1 DEF RowInv
  <2>10. \A q \in Range(rows') :
            /\ q.scope \in Range(asked) /\ SeenOnce(q.scope, q.unit)
            /\ q.scope \notin Range(Tail(scopes))
            /\ q.scope = Scope => found[q.unit] = 0
    BY <2>1, <2>2, <2>3, <2>5, <2>9 DEF RowInv
  <2>. QED
    BY <2>1, <2>4, <2>8, <2>10 DEF RowInv, SeenOnce, Scope, Probing
<1>6. CASE NextScope
  <2>1. /\ scopes # <<>> /\ scopes' = Tail(scopes) /\ step' \in {"report", "target"}
        /\ \A u \in Units : found[u] = 0
        /\ UNCHANGED <<world, asked, found, unit, rows>>
    BY <1>6 DEF NextScope
  <2>2. ASSUME scopes' # <<>>, NEW r \in Range(rows)
        PROVE  r.scope \notin Range(Tail(scopes')) /\ r.scope # Scope'
    <3>1. Tail(scopes) = <<"system">>
      BY <2>1, <2>2, ScopesSplit DEF StepOK
    <3>2. r.scope \notin Range(Tail(scopes))
      BY <2>1 DEF RowInv
    <3>. QED
      BY <2>1, <3>1, <3>2, FlagRanges DEF Scope
  <2>. QED
    BY <2>1, <2>2 DEF RowInv, SeenOnce, Probing
<1>7. CASE Report
  BY <1>7 DEF Report, RowInv, SeenOnce, Probing
<1>. QED
  BY <1>1, <1>2, <1>3, <1>4, <1>5, <1>6, <1>7, WmOrElsewhere DEF Wm

-----------------------------------------------------------------------------
(* InspectsTheFleet, its second half: nothing is missed.  Pattern by        *)
(* pattern, what was seen all along is on the list; then it is on the list, *)
(* under the probe, or has its row; and nothing of it is left when the      *)
(* scope is done.                                                           *)

SeenAllAlong(s, u) == {<<"installed", s, u>>, <<"loaded", s, u>>} \cap always # {}

HasRow(s, u) == \E r \in Range(rows) : r.unit = u /\ r.scope = s

ListedInv ==
    /\ \A s \in Range(asked) \ Range(scopes), u \in Matched : SeenAllAlong(s, u) => HasRow(s, u)
    /\ step \in {"files", "units"} =>
           \A k \in 1 .. pattern - 1 : \A u \in Patterns[k] : SeenAllAlong(Scope, u) => found[u] > 0
    /\ step = "units" =>
           \A u \in Patterns[pattern] : <<"installed", Scope, u>> \in always => found[u] > 0
    /\ step = "probe" \/ Probing =>
           \A u \in Matched : SeenAllAlong(Scope, u) =>
               found[u] > 0 \/ HasRow(Scope, u) \/ (Probing /\ u = unit)

LEMMA MatchedUnits ==
    /\ Matched \subseteq Units
    /\ \A k \in 1 .. Len(Patterns) : Patterns[k] \subseteq Units
    /\ \A u \in Matched : \E k \in 1 .. Len(Patterns) : u \in Patterns[k]
<1>1. /\ DOMAIN Patterns = 1 .. Len(Patterns)
      /\ \A k \in 1 .. Len(Patterns) : Patterns[k] \in SUBSET Units
  BY DoctorAssumption
<1>. QED
  BY <1>1 DEF Matched, Range

LEMMA InstalledNow ==
    ASSUME NEW s \in Scopes, NEW u \in Units, <<"installed", s, u>> \in Facts(machine)
    PROVE  machine.answers[s] /\ u \in Installed(machine, s)
BY FactsMean DEF Installed

LEMMA ListedInit == Init => ListedInv
BY DEF Init, ListedInv, Probing

LEMMA ListedNext ==
    ASSUME BaseInv, ListedInv, [Next]_vars
    PROVE  ListedInv'
<1> USE DEF BaseInv, TypeOK, world, list, probe
<1>1. CASE Elsewhere
  BY <1>1 DEF Elsewhere, ListedInv, SeenAllAlong, HasRow, Scope, Probing
<1>2. CASE CatTarget
  BY <1>2 DEF CatTarget, ListedInv, SeenAllAlong, HasRow, Probing
<1>3. CASE ListFiles
  <2>1. /\ step = "files" /\ step' = "units" /\ scopes # <<>>
        /\ UNCHANGED <<world, asked, scopes, pattern, rows>>
    BY <1>3 DEF ListFiles
  <2>2. Scope \in Scopes
    BY <2>1, ScopesSplit DEF StepOK
  <2>3. \A u \in Units : found'[u] > 0 <=>
            found[u] > 0 \/ u \in Output(Patterns[pattern] \cap Installed(machine, Scope))
    BY <1>3, CollectType DEF ListFiles
  <2>4. \A k \in 1 .. pattern - 1 : \A u \in Patterns[k] : u \in Units
    BY MatchedUnits, DoctorAssumption
  <2>5. ASSUME NEW u \in Patterns[pattern], <<"installed", Scope, u>> \in always
        PROVE  found'[u] > 0
    <3>1. u \in Units
      BY MatchedUnits
    <3>2. <<"installed", Scope, u>> \in Facts(machine)
      BY <2>5 DEF HistoryOK
    <3>3. machine.answers[Scope] /\ u \in Installed(machine, Scope)
      BY <2>2, <3>1, <3>2, InstalledNow
    <3>. QED
      BY <2>3, <3>1, <3>3 DEF Output, Answered
  <2>. QED
    BY <2>1, <2>3, <2>4, <2>5 DEF ListedInv, SeenAllAlong, HasRow, Scope, Probing
<1>4. CASE ListUnits
  <2>1. /\ step = "units" /\ scopes # <<>> /\ UNCHANGED <<world, asked, scopes, rows>>
        /\ \/ pattern < Len(Patterns) /\ pattern' = pattern + 1 /\ step' = "files"
           \/ pattern = Len(Patterns) /\ step' = "probe"
    BY <1>4, DoctorAssumption DEF ListUnits
  <2>2. Scope \in Scopes
    BY <2>1, ScopesSplit DEF StepOK
  <2>3. \A u \in Units : found'[u] > 0 <=>
            found[u] > 0 \/ u \in Output(Patterns[pattern] \cap machine.loaded[Scope])
    BY <1>4, CollectType DEF ListUnits
  <2>4. ASSUME NEW k \in 1 .. pattern, NEW u \in Patterns[k], SeenAllAlong(Scope, u)
        PROVE  found'[u] > 0
    <3>1. u \in Units
      BY MatchedUnits, DoctorAssumption
    <3>2. CASE k # pattern \/ <<"installed", Scope, u>> \in always
      BY <2>1, <2>3, <2>4, <3>1, <3>2 DEF ListedInv
    <3>3. CASE k = pattern /\ <<"loaded", Scope, u>> \in always
      <4>1. <<"loaded", Scope, u>> \in Facts(machine)
        BY <3>3 DEF HistoryOK
      <4>2. machine.answers[Scope] /\ u \in machine.loaded[Scope]
        BY <2>2, <3>1, <4>1, FactsMean
      <4>. QED
        BY <2>3, <2>4, <3>1, <3>3, <4>2 DEF Output, Answered
    <3>. QED
      BY <2>4, <3>2, <3>3 DEF SeenAllAlong
  <2>5. CASE pattern' = pattern + 1 /\ step' = "files"
    <3>1. \A k \in 1 .. pattern' - 1 : k \in 1 .. pattern
      BY <2>5, DoctorAssumption
    <3>. QED
      BY <2>1, <2>4, <2>5, <3>1 DEF ListedInv, SeenAllAlong, HasRow, Scope, Probing
  <2>6. CASE pattern = Len(Patterns) /\ step' = "probe"
    <3>1. \A u \in Matched : SeenAllAlong(Scope, u) => found'[u] > 0
      BY <2>4, <2>6, MatchedUnits
    <3>. QED
      BY <2>1, <2>6, <3>1 DEF ListedInv, SeenAllAlong, HasRow, Scope, Probing
  <2>. QED
    BY <2>1, <2>5, <2>6
<1>5. CASE CatUnit
  <2>1. NextName \in Units /\ found[NextName] = 1 /\ step = "probe" /\ scopes # <<>>
    BY <1>5, NextNameFound DEF CatUnit
  <2>2. /\ found' = [found EXCEPT ![NextName] = 0] /\ unit' = NextName
        /\ UNCHANGED <<world, asked, scopes, rows>> /\ step' \in {"row", "exists"}
    BY <1>5, <2>1 DEF CatUnit
  <2>3. \A u \in Matched : found[u] > 0 => found'[u] > 0 \/ u = unit'
    BY <2>1, <2>2, MatchedUnits
  <2>. QED
    BY <2>1, <2>2, <2>3 DEF ListedInv, SeenAllAlong, HasRow, Scope, Probing
<1>6. CASE CheckExists \/ CheckMode
  BY <1>6 DEF CheckExists, CheckMode, ListedInv, SeenAllAlong, HasRow, Scope, Probing
<1>7. CASE MakeRow
  <2> DEFINE r == [unit |-> unit, scope |-> Scope, path |-> path,
                   exists |-> exists # "no", executable |-> exists = "executable",
                   inTarget |-> unit \in targetCat \cup machine.links[Scope]]
  <2>1. step = "row" /\ Probing /\ scopes # <<>>
    BY <1>7 DEF MakeRow, Probing
  <2>2. Scope \in Scopes
    BY <2>1, ScopesSplit DEF StepOK
  <2>3. r \in UnitReport /\ rows' = Append(rows, r) /\ r.unit = unit /\ r.scope = Scope
    BY <1>7, <2>2 DEF MakeRow, UnitReport
  <2>4. /\ step' = "probe" /\ UNCHANGED <<world, asked, scopes, found, unit>>
    BY <1>7 DEF MakeRow
  <2> HIDE DEF r
  <2>5. Range(rows') = Range(rows) \cup {r}
    BY <2>3, AppendRow
  <2>6. \A s, u : HasRow(s, u)' <=> HasRow(s, u) \/ (s = Scope /\ u = unit)
    BY <2>3, <2>5 DEF HasRow
  <2>. QED
    BY <2>1, <2>4, <2>6 DEF ListedInv, SeenAllAlong, Scope, Probing
<1>8. CASE NextScope
  <2>1. /\ step = "probe" /\ scopes # <<>> /\ scopes' = Tail(scopes) /\ step' \in {"report", "target"}
        /\ \A u \in Units : found[u] = 0
        /\ UNCHANGED <<world, asked, rows>>
    BY <1>8 DEF NextScope
  <2>2. Range(scopes) = {Scope} \cup Range(scopes')
    BY <2>1, ScopesSplit DEF StepOK
  <2>3. \A u \in Matched : SeenAllAlong(Scope, u) => HasRow(Scope, u)
    BY <2>1, MatchedUnits DEF ListedInv, Probing
  <2>4. \A s \in Range(asked) \ Range(scopes'), u \in Matched :
            SeenAllAlong(s, u) => HasRow(s, u)
    BY <2>2, <2>3 DEF ListedInv
  <2>. QED
    BY <2>1, <2>4 DEF ListedInv, SeenAllAlong, HasRow, Probing
<1>9. CASE Report
  BY <1>9 DEF Report, ListedInv, SeenAllAlong, HasRow, Probing
<1>. QED
  BY <1>1, <1>2, <1>3, <1>4, <1>5, <1>6, <1>7, <1>8, <1>9, WmOrElsewhere DEF Wm

(* When the report is made, every scope asked for is done. *)
LEMMA NothingMissed ==
    ASSUME BaseInv, ListedInv, Ended, NEW s \in Range(asked), NEW u \in Matched,
           SeenAllAlong(s, u)
    PROVE  HasRow(s, u)
<1>1. scopes = <<>> /\ Range(scopes) = {}
  BY FlagRanges DEF BaseInv, TypeOK, Ended
<1>. QED
  BY <1>1 DEF ListedInv

(* The table has one row for each unit and scope and none without reason,   *)
(* and misses nothing that one of the two listings had to name, however the *)
(* machine changes while systemd is asked.                                  *)
THEOREM FleetInspected == Spec => []InspectsTheFleet
<1> DEFINE Inv == BaseInv /\ RowInv /\ ListedInv
<1>1. Init => Inv
  BY BaseInit, RowInit, ListedInit
<1>2. Inv /\ [Next]_vars => Inv'
  BY BaseNext, RowNext, ListedNext
<1>3. ASSUME Inv
      PROVE  InspectsTheFleet
  <2>1. \A r \in Range(rows) :
           {<<"installed", r.scope, r.unit>>, <<"loaded", r.scope, r.unit>>} \cap ever # {}
    BY <1>3 DEF RowInv, SeenOnce
  <2>2. ASSUME Ended, NEW s \in Range(asked), NEW u \in Matched,
               {<<"installed", s, u>>, <<"loaded", s, u>>} \cap always # {}
        PROVE  \E r \in Range(rows) : r.unit = u /\ r.scope = s
    BY <1>3, <2>2, NothingMissed DEF SeenAllAlong, HasRow
  <2>. QED
    BY <1>3, <2>1, <2>2 DEF InspectsTheFleet, RowInv
<1>. QED
  BY <1>1, <1>2, <1>3, PTL DEF Spec

-----------------------------------------------------------------------------
(* BrokenIsFound and AlarmIsReal: what a row says of the binary, and before *)
(* it is made, what path and exists say.                                    *)

Broken(s, u, p) ==
    /\ <<"answers", s>> \in always
    /\ <<"leads", s, u, p>> \in always
    /\ <<"usable", p>> \notin ever

VerdictInv ==
    /\ \A r \in Range(rows), p \in Paths : Broken(r.scope, r.unit, p) => Fails(r)
    /\ \A r \in Range(rows) : Fails(r) =>
           /\ r.path \in Paths
           /\ <<"leads", r.scope, r.unit, r.path>> \in ever
           /\ <<"usable", r.path>> \notin always
    /\ Probing => \A p \in Paths : Broken(Scope, unit, p) => path = p /\ exists # "executable"
    /\ Probing /\ path # NoPath => <<"leads", Scope, unit, path>> \in ever
    /\ step = "row" /\ path # NoPath /\ exists # "executable" => <<"usable", path>> \notin always

LEMMA VerdictInit == Init => VerdictInv
<1> SUFFICES ASSUME Init
             PROVE  VerdictInv
  OBVIOUS
<1>1. Range(rows) = {} /\ step = "target"
  BY FlagRanges DEF Init
<1>. QED
  BY <1>1 DEF VerdictInv, Probing

(* What the calls see of a path, now. *)
LEMMA PathNow ==
    ASSUME NEW s \in Scopes, NEW u \in Units, NEW p \in Paths
    PROVE  /\ <<"leads", s, u, p>> \in Facts(machine) <=> machine.file[s][u] = p
           /\ <<"answers", s>> \in Facts(machine) <=> machine.answers[s]
           /\ <<"usable", p>> \in Facts(machine) <=> machine.bin[p] = "executable"
BY FactsMean

LEMMA LeadsNow ==
    ASSUME NEW s \in Scopes, NEW u \in Units, NEW p \in Paths,
           <<"answers", s>> \in Facts(machine), <<"leads", s, u, p>> \in Facts(machine)
    PROVE  machine.answers[s] /\ machine.file[s][u] = p
BY FactsMean

LEMMA VerdictNext ==
    ASSUME BaseInv, VerdictInv, [Next]_vars
    PROVE  VerdictInv'
<1> USE DEF BaseInv, TypeOK, world, list, probe
<1>1. CASE Elsewhere
  BY <1>1 DEF Elsewhere, VerdictInv, Broken, Scope, Probing
<1>2. CASE CatTarget \/ ListFiles \/ ListUnits \/ NextScope \/ Report
  <2>1. ~Probing' /\ step' # "row" /\ UNCHANGED <<world, rows>>
    BY <1>2 DEF CatTarget, ListFiles, ListUnits, NextScope, Report, Probing
  <2>. QED
    BY <2>1 DEF VerdictInv, Broken
<1>3. CASE CatUnit
  <2>1. NextName \in Units /\ scopes # <<>> /\ Scope \in Scopes
    BY <1>3, NextNameFound, ScopesSplit DEF CatUnit, StepOK
  <2>2. /\ unit' = NextName /\ exists' = "no" /\ UNCHANGED <<world, scopes, rows>>
        /\ path' = IF machine.answers[Scope] /\ machine.file[Scope][NextName] \in Paths
                   THEN machine.file[Scope][NextName] ELSE NoPath
        /\ step' = IF path' = NoPath THEN "row" ELSE "exists"
    BY <1>3 DEF CatUnit
  <2>3. ASSUME NEW p \in Paths, Broken(Scope, NextName, p)
        PROVE  path' = p
    <3>1. <<"answers", Scope>> \in Facts(machine) /\ <<"leads", Scope, NextName, p>> \in Facts(machine)
      BY <2>3 DEF Broken, HistoryOK
    <3>2. machine.answers[Scope] /\ machine.file[Scope][NextName] = p
      BY <2>1, <3>1, LeadsNow
    <3>. QED
      BY <2>2, <3>2
  <2>4. ASSUME path' # NoPath
        PROVE  <<"leads", Scope, NextName, path'>> \in ever
    <3>1. path' \in Paths /\ machine.file[Scope][NextName] = path'
      BY <2>2, <2>4
    <3>2. <<"leads", Scope, NextName, path'>> \in Facts(machine)
      BY <2>1, <3>1, PathNow
    <3>. QED
      BY <3>2 DEF HistoryOK
  <2>5. step' = "row" => path' = NoPath
    BY <2>2
  <2>. QED
    BY <2>2, <2>3, <2>4, <2>5 DEF VerdictInv, Broken, Scope, Probing
<1>4. CASE CheckExists \/ CheckMode
  <2>1. /\ step \in {"exists", "mode"} /\ Probing /\ path \in Paths /\ path # NoPath
        /\ UNCHANGED <<world, scopes, rows, unit, path>>
    BY <1>4, DoctorAssumption DEF CheckExists, CheckMode, Probing, StepOK
  <2>2. ASSUME step' = "row", exists' # "executable"
        PROVE  machine.bin[path] # "executable"
    BY <1>4, <2>2 DEF CheckExists, CheckMode
  <2>3. exists' = "executable" => machine.bin[path] = "executable"
    BY <1>4 DEF CheckExists, CheckMode
  <2>4. PICK s \in Scopes, u \in Units : TRUE
    BY DEF Scopes
  <2>5. <<"usable", path>> \in Facts(machine) <=> machine.bin[path] = "executable"
    BY <2>1, <2>4, PathNow
  <2>6. ASSUME NEW p \in Paths, Broken(Scope, unit, p)
        PROVE  path = p /\ exists' # "executable"
    <3>1. path = p
      BY <2>1, <2>6 DEF VerdictInv
    <3>2. <<"usable", path>> \notin Facts(machine)
      BY <2>6, <3>1 DEF Broken, HistoryOK
    <3>. QED
      BY <2>3, <2>5, <3>1, <3>2
  <2>7. step' = "row" /\ exists' # "executable" => <<"usable", path>> \notin always
    BY <2>2, <2>5 DEF HistoryOK
  <2>. QED
    BY <2>1, <2>6, <2>7 DEF VerdictInv, Broken, Scope, Probing
<1>5. CASE MakeRow
  <2> DEFINE r == [unit |-> unit, scope |-> Scope, path |-> path,
                   exists |-> exists # "no", executable |-> exists = "executable",
                   inTarget |-> unit \in targetCat \cup machine.links[Scope]]
  <2>1. step = "row" /\ Probing /\ scopes # <<>>
    BY <1>5 DEF MakeRow, Probing
  <2>2. Scope \in Scopes
    BY <2>1, ScopesSplit DEF StepOK
  <2>3. r \in UnitReport /\ rows' = Append(rows, r)
    BY <1>5, <2>2 DEF MakeRow, UnitReport
  <2>4. step' = "probe" /\ UNCHANGED <<world, scopes>>
    BY <1>5 DEF MakeRow
  <2>5. Fails(r) <=> exists # "executable" /\ path # NoPath
    BY DEF Fails, BinaryOk
  <2>6. r.unit = unit /\ r.scope = Scope /\ r.path = path
    OBVIOUS
  <2> HIDE DEF r
  <2>7. Range(rows') = Range(rows) \cup {r}
    BY <2>3, AppendRow
  <2>8. ASSUME NEW p \in Paths, Broken(r.scope, r.unit, p)
        PROVE  Fails(r)
    BY <2>1, <2>5, <2>6, <2>8, DoctorAssumption DEF VerdictInv
  <2>9. Fails(r) => /\ r.path \in Paths
                    /\ <<"leads", r.scope, r.unit, r.path>> \in ever
                    /\ <<"usable", r.path>> \notin always
    BY <2>1, <2>5, <2>6 DEF VerdictInv
  <2>. QED
    BY <2>4, <2>7, <2>8, <2>9 DEF VerdictInv, Broken, Probing
<1>. QED
  BY <1>1, <1>2, <1>3, <1>4, <1>5, WmOrElsewhere DEF Wm

(* No false all-clear: a unit of the fleet with nothing to execute all along *)
(* is named and the exit code is 2, whatever else changes meanwhile.        *)
THEOREM NoFalseAllClear == Spec => []BrokenIsFound
<1> DEFINE Inv == BaseInv /\ ListedInv /\ VerdictInv
<1>1. Init => Inv
  BY BaseInit, ListedInit, VerdictInit
<1>2. Inv /\ [Next]_vars => Inv'
  BY BaseNext, ListedNext, VerdictNext
<1>3. ASSUME Inv
      PROVE  BrokenIsFound
  <2> SUFFICES ASSUME Ended, NEW s \in Range(asked), NEW u \in Matched, NEW p \in Paths,
                      Broken(s, u, p)
               PROVE  u \in Failures /\ exit = 2
    BY DEF BrokenIsFound, Broken
  <2>1. s \in Scopes /\ u \in Units
    BY <1>3, AskedRange, MatchedUnits DEF BaseInv
  <2>2. SeenAllAlong(s, u)
    BY <1>3, <2>1 DEF BaseInv, HistoryOK, Broken, SeenAllAlong
  <2>3. PICK r \in Range(rows) : r.unit = u /\ r.scope = s
    BY <1>3, <2>2, NothingMissed DEF HasRow
  <2>4. Fails(r)
    BY <1>3, <2>3 DEF VerdictInv
  <2>5. u \in Failures
    BY <2>3, <2>4 DEF Failures
  <2>. QED
    BY <1>3, <2>5 DEF BaseInv, StepOK
<1>. QED
  BY <1>1, <1>2, <1>3, PTL DEF Spec

(* No false alarm: a unit that the report names has led to a path with      *)
(* nothing to execute, each at a moment of the run.                         *)
THEOREM NoFalseAlarm == Spec => []AlarmIsReal
<1> DEFINE Inv == BaseInv /\ RowInv /\ VerdictInv
<1>1. Init => Inv
  BY BaseInit, RowInit, VerdictInit
<1>2. Inv /\ [Next]_vars => Inv'
  BY BaseNext, RowNext, VerdictNext
<1>3. ASSUME Inv
      PROVE  AlarmIsReal
  <2>1. ASSUME NEW u \in Failures
        PROVE  \E s \in Range(asked), p \in Paths :
                   <<"leads", s, u, p>> \in ever /\ <<"usable", p>> \notin always
    <3>1. PICK r \in Range(rows) : Fails(r) /\ r.unit = u
      BY DEF Failures
    <3>2. r.scope \in Range(asked)
      BY <1>3 DEF RowInv
    <3>3. r.path \in Paths /\ <<"leads", r.scope, u, r.path>> \in ever /\ <<"usable", r.path>> \notin always
      BY <1>3, <3>1 DEF VerdictInv
    <3>. QED
      BY <3>2, <3>3
  <2>2. Ended /\ exit = 2 => Failures # {}
    BY <1>3 DEF BaseInv, StepOK
  <2>. QED
    BY <2>1, <2>2 DEF AlarmIsReal
<1>. QED
  BY <1>1, <1>2, <1>3, PTL DEF Spec

-----------------------------------------------------------------------------
(* MembershipSeen: what was read of the target at the beginning of a scope  *)
(* is what the history allows until the scope is done.                      *)

TargetRead(u) ==
    /\ u \in targetCat => <<"wants", Scope, u>> \in ever
    /\ u \notin targetCat => ~ {<<"wants", Scope, u>>, <<"answers", Scope>>} \subseteq always

MemberInv ==
    /\ MembershipSeen
    /\ step \in {"files", "units", "probe", "exists", "mode", "row"} =>
           \A u \in Units : TargetRead(u)

LEMMA MemberNext ==
    ASSUME BaseInv, MemberInv, [Next]_vars
    PROVE  MemberInv'
<1> USE DEF BaseInv, TypeOK, world, list, probe
<1>1. CASE Elsewhere
  BY <1>1 DEF Elsewhere, MemberInv, MembershipSeen, TargetRead, Scope
<1>2. CASE CatTarget
  <2>1. /\ scopes # <<>> /\ Scope \in Scopes
        /\ targetCat' = Output(machine.wants[Scope]) /\ UNCHANGED <<world, scopes, rows>>
    BY <1>2, ScopesSplit DEF CatTarget, StepOK
  <2>2. ASSUME NEW u \in Units
        PROVE  TargetRead(u)'
    <3>1. /\ <<"wants", Scope, u>> \in Facts(machine) <=> u \in machine.wants[Scope]
          /\ <<"answers", Scope>> \in Facts(machine) <=> machine.answers[Scope]
      BY <2>1, FactsMean
    <3>2. u \in targetCat' <=> machine.answers[Scope] /\ u \in machine.wants[Scope]
      BY <2>1 DEF Output, Answered
    <3>. QED
      BY <2>1, <3>1, <3>2 DEF TargetRead, HistoryOK, Scope
  <2>. QED
    BY <2>1, <2>2 DEF MemberInv, MembershipSeen
<1>3. CASE ListFiles \/ ListUnits \/ CatUnit \/ CheckExists \/ CheckMode
  <2>1. /\ step \in {"files", "units", "probe", "exists", "mode", "row"}
        /\ UNCHANGED <<world, scopes, targetCat, rows>>
    BY <1>3 DEF ListFiles, ListUnits, CatUnit, CheckExists, CheckMode
  <2>. QED
    BY <2>1 DEF MemberInv, MembershipSeen, TargetRead, Scope
<1>4. CASE MakeRow
  <2> DEFINE r == [unit |-> unit, scope |-> Scope, path |-> path,
                   exists |-> exists # "no", executable |-> exists = "executable",
                   inTarget |-> unit \in targetCat \cup machine.links[Scope]]
  <2>1. step = "row" /\ scopes # <<>>
    BY <1>4 DEF MakeRow
  <2>2. Scope \in Scopes
    BY <2>1, ScopesSplit DEF StepOK
  <2>3. r \in UnitReport /\ rows' = Append(rows, r)
    BY <1>4, <2>2 DEF MakeRow, UnitReport
  <2>4. r.unit = unit /\ r.scope = Scope /\ r.inTarget = (unit \in targetCat \cup machine.links[Scope])
    OBVIOUS
  <2>5. step' = "probe" /\ UNCHANGED <<world, scopes, targetCat>>
    BY <1>4 DEF MakeRow
  <2> HIDE DEF r
  <2>6. Range(rows') = Range(rows) \cup {r}
    BY <2>3, AppendRow
  <2>7. TargetRead(unit)
    BY <2>1 DEF MemberInv
  <2>8. <<"links", Scope, unit>> \in Facts(machine) <=> unit \in machine.links[Scope]
    BY <2>2, FactsMean
  <2>9. IF r.inTarget
        THEN {<<"wants", Scope, unit>>, <<"links", Scope, unit>>} \cap ever # {}
        ELSE /\ <<"links", Scope, unit>> \notin always
             /\ ~ {<<"wants", Scope, unit>>, <<"answers", Scope>>} \subseteq always
    BY <2>4, <2>7, <2>8 DEF TargetRead, HistoryOK
  <2>10. MembershipSeen'
    BY <2>4, <2>5, <2>6, <2>9 DEF MemberInv, MembershipSeen
  <2>. QED
    BY <2>1, <2>5, <2>10 DEF MemberInv, TargetRead, Scope
<1>5. CASE NextScope \/ Report
  <2>1. step' \in {"target", "report", "ended"} /\ UNCHANGED <<world, rows>>
    BY <1>5 DEF NextScope, Report
  <2>. QED
    BY <2>1 DEF MemberInv, MembershipSeen
<1>. QED
  BY <1>1, <1>2, <1>3, <1>4, <1>5, WmOrElsewhere DEF Wm

(* The membership column claims no unit that neither source had at a moment *)
(* of the run, and denies none that one of them had all along.              *)
THEOREM MembershipTrue == Spec => []MembershipSeen
<1> DEFINE Inv == BaseInv /\ MemberInv
<1>1. Init => Inv
  <2>1. ASSUME Init
        PROVE  Range(rows) = {} /\ step = "target"
    BY <2>1, FlagRanges DEF Init
  <2>. QED
    BY <2>1, BaseInit DEF MemberInv, MembershipSeen
<1>2. Inv /\ [Next]_vars => Inv'
  BY BaseNext, MemberNext
<1>3. Inv => MembershipSeen
  BY DEF MemberInv
<1>. QED
  BY <1>1, <1>2, <1>3, PTL DEF Spec

=============================================================================
