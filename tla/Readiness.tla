----------------------------- MODULE Readiness ------------------------------
(***************************************************************************)
(* `wm ready': the checks of ready.rs in the order in which run_ready of   *)
(* bin/wm.rs makes them, and the verdict it draws from them.               *)
(*                                                                         *)
(* The command looks at the device with one system call or one child       *)
(* process after the other, and the device (external) goes on changing:    *)
(* services start and stop, audio devices are plugged in and out, binaries *)
(* are replaced, wm-bootstrap rewrites its file, the day ends.             *)
(***************************************************************************)
EXTENDS Integers, Sequences, Functions, Calendar

CONSTANTS
    Binaries,       \* CHILD_STARTUP_ORDER
    NoFile,         \* a bootstrap file that is not there
    Unreadable,     \* one that cannot be read
    EnvFiles,       \* states in which the bootstrap file may be
    Starts,         \* device, and day with its date, when wm is started
    BusMayHang,     \* may agorabus stop accepting, its queue full?
    MaxChanges      \* bound: changes of the device during the command

\* The key of a line that EnvConfig::parse skips: comment, blank, no `='.
NoKey == "none"
ApiKeyName == "WM_ANTHROPIC_API_KEY"

Lines == [key : {NoKey, ApiKeyName, "other"}, value : {"", "x"}]

Bins == Range(Binaries)

\* What can be fine or broken by itself; a check covers one or more of these.
Parts == {"brain", "target", "source", "sink", "bus"} \cup Bins

BusStates == {"absent", "deaf", "listening"} \cup (IF BusMayHang THEN {"stuck"} ELSE {})

AllDevices ==
    [env : EnvFiles, target : SUBSET {"user", "system"}, audio : SUBSET {"source", "sink"},
     bus : BusStates, path : SUBSET Bins]

ASSUME ReadinessAssumption ==
    /\ Binaries \in Seq(STRING)
    /\ Bins \cap {"brain", "target", "source", "sink", "bus"} = {}
    /\ \A f \in EnvFiles : f \in {NoFile, Unreadable} \/ f \in Seq(Lines)
    /\ \A s \in Starts : s.device \in AllDevices /\ s.today.number \in Nat
    /\ BusMayHang \in BOOLEAN
    /\ MaxChanges \in Nat

VARIABLES
    device,     \* the state of the device
    today,      \* the number of the day, and its date in the calendar
    step,       \* what wm does next
    heard,      \* check_audio: pactl has listed a source
    looked,     \* check_units: binaries looked for
    missing,    \* check_units: those not found
    checks,     \* the result of each check, when it has been made
    verdict,    \* what wm reports and exits with
    changes,    \* bound: changes so far
    fineOnce,   \* history: parts that have been fine at a moment of the run
    brokenOnce  \* history: parts that have been broken at a moment of the run

world   == <<device, today, changes, fineOnce, brokenOnce>>
scratch == <<heard, looked, missing>>
vars    == <<world, step, scratch, checks, verdict>>

\* The checks in the order in which they are made.
CheckOrder == <<"brain", "target", "audio", "bus", "units">>

CheckNames == {"brain", "target", "audio", "bus", "units"}

NoVerdict == [ready |-> FALSE, failing |-> {}, worst |-> "none", ts |-> "none"]

TypeOK ==
    /\ device \in AllDevices
    /\ today.number \in Nat
    /\ step \in {"brain", "target", "sources", "sinks", "bus", "connect", "units",
                 "verdict", "ended"}
    /\ heard \in BOOLEAN
    /\ looked \in 0 .. Len(Binaries)
    /\ missing \subseteq {Binaries[n] : n \in 1 .. looked}
    /\ checks \in [CheckNames -> {"none", "ok", "failing"}]
    /\ verdict.ready \in BOOLEAN
    /\ verdict.failing \in SUBSET CheckNames
    /\ verdict.worst \in CheckNames \cup {"none"}
    /\ changes \in 0 .. MaxChanges
    /\ fineOnce \cup brokenOnce = Parts

-----------------------------------------------------------------------------
(* EnvConfig *)

Assignments(file) ==
    IF file \in {NoFile, Unreadable} THEN {}
    ELSE {i \in DOMAIN file : file[i].key = ApiKeyName}

\* Mutant: a key that is there already is kept.
ApiKeyFirst(file) ==
    LET set == Assignments(file)
    IN  IF set = {} THEN "" ELSE file[CHOOSE i \in set : \A j \in set : i <= j].value

\* load_optional and parse: a later line for the same key replaces the earlier
\* one, lines without a key are skipped; no file and no key are empty.
ApiKey(file) ==
    LET set == Assignments(file)
    IN  IF set = {} THEN "" ELSE file[CHOOSE i \in set : \A j \in set : j <= i].value

-----------------------------------------------------------------------------
(* What a part being fine means *)

\* The manager that answers `systemctl is-active' without --user.
AskedManager == "system"

\* wintermute.target, of which ready.rs and README.md speak, is a target of the
\* user's manager; install-system.sh installs it there.
TargetManager == "user"

\* The last line that names the key gives it a value.
KeySet(file) ==
    /\ file \notin {NoFile, Unreadable}
    /\ \E i \in DOMAIN file :
           /\ file[i].key = ApiKeyName /\ file[i].value # ""
           /\ \A j \in i + 1 .. Len(file) : file[j].key # ApiKeyName

Fine(p, d) ==
    CASE p = "brain" -> KeySet(d.env)
      [] p = "target" -> TargetManager \in d.target
      [] p \in {"source", "sink"} -> p \in d.audio
      [] p = "bus" -> d.bus = "listening"
      [] p \in Bins -> p \in d.path

FineParts(d) == {p \in Parts : Fine(p, d)}

PartsOf(name) ==
    CASE name = "audio" -> {"source", "sink"}
      [] name = "units" -> Bins
      [] OTHER -> {name}

-----------------------------------------------------------------------------
(* Verdict aggregation *)

\* From most to least critical.
CheckPriority == <<"brain", "target", "bus", "audio", "units">>

Failing(cs) == {n \in CheckNames : cs[n] = "failing"}

FirstOf(order, names) ==
    order[CHOOSE i \in DOMAIN order :
            order[i] \in names /\ \A j \in 1 .. i - 1 : order[j] \notin names]

\* Mutant: the first check that failed.
WorstFirst(failing) == FirstOf(CheckOrder, failing)

\* aggregate: by priority, and failing that the first one.
Worst(failing) ==
    FirstOf(IF failing \cap Range(CheckPriority) # {} THEN CheckPriority ELSE CheckOrder,
            failing)

-----------------------------------------------------------------------------

Init ==
    /\ \E s \in Starts : device = s.device /\ today = s.today
    /\ step = "brain"
    /\ heard = FALSE
    /\ looked = 0
    /\ missing = {}
    /\ checks = [n \in CheckNames |-> "none"]
    /\ verdict = NoVerdict
    /\ changes = 0
    /\ fineOnce = FineParts(device)
    /\ brokenOnce = Parts \ FineParts(device)

Result(name, ok) == checks' = [checks EXCEPT ![name] = IF ok THEN "ok" ELSE "failing"]

CheckBrain ==
    /\ step = "brain"
    /\ Result("brain", ApiKey(device.env) # "")
    /\ step' = "target"
    /\ UNCHANGED <<world, scratch, verdict>>

CheckTarget ==
    /\ step = "target"
    /\ Result("target", AskedManager \in device.target)
    /\ step' = "sources"
    /\ UNCHANGED <<world, scratch, verdict>>

\* check_audio makes two calls of pactl; one that fails lists nothing.
ListSources ==
    /\ step = "sources"
    /\ heard' = ("source" \in device.audio)
    /\ step' = "sinks"
    /\ UNCHANGED <<world, looked, missing, checks, verdict>>

\* Mutant: one of the two is enough.
ListSinksEither ==
    /\ step = "sinks"
    /\ Result("audio", heard \/ "sink" \in device.audio)
    /\ step' = "bus"
    /\ UNCHANGED <<world, scratch, verdict>>

ListSinks ==
    /\ step = "sinks"
    /\ Result("audio", heard /\ "sink" \in device.audio)
    /\ step' = "bus"
    /\ UNCHANGED <<world, scratch, verdict>>

\* check_bus: first path.exists() ...
BusExists ==
    /\ step = "bus"
    /\ IF device.bus = "absent"
       THEN Result("bus", FALSE) /\ step' = "units"
       ELSE checks' = checks /\ step' = "connect"
    /\ UNCHANGED <<world, scratch, verdict>>

\* ... and then a connect that blocks while the listener's queue is full.
BusConnect ==
    /\ step = "connect"
    /\ device.bus # "stuck"
    /\ Result("bus", device.bus = "listening")
    /\ step' = "units"
    /\ UNCHANGED <<world, scratch, verdict>>

\* Mutant: the whole list is looked for at once.
LookUpAll ==
    /\ step = "units" /\ looked < Len(Binaries)
    /\ missing' = Bins \ device.path
    /\ looked' = looked + 1
    /\ UNCHANGED <<world, step, heard, checks, verdict>>

\* Mutant: a binary that is not there yet is waited for.
LookUpWaits ==
    /\ step = "units" /\ looked < Len(Binaries)
    /\ Binaries[looked + 1] \in device.path
    /\ looked' = looked + 1
    /\ UNCHANGED <<world, step, heard, missing, checks, verdict>>

\* check_units: which_on_path for the next binary.
LookUp ==
    /\ step = "units" /\ looked < Len(Binaries)
    /\ LET bin == Binaries[looked + 1]
       IN  missing' = IF bin \in device.path THEN missing ELSE missing \cup {bin}
    /\ looked' = looked + 1
    /\ UNCHANGED <<world, step, heard, checks, verdict>>

CheckUnits ==
    /\ step = "units" /\ looked = Len(Binaries)
    /\ Result("units", missing = {})
    /\ step' = "verdict"
    /\ UNCHANGED <<world, scratch, verdict>>

\* The exit code and both output formats say the same: ready or not, what failed,
\* what to speak of, when.
Verdict ==
    /\ step = "verdict"
    /\ LET failing == Failing(checks)
       IN  verdict' = [ready |-> failing = {}, failing |-> failing,
                       worst |-> IF failing = {} THEN "none" ELSE Worst(failing),
                       ts |-> DaysToYmd(today.number)]
    /\ step' = "ended"
    /\ UNCHANGED <<world, scratch, checks>>

-----------------------------------------------------------------------------
(* The device *)

Running == step # "ended"

Become(d) ==
    /\ Running /\ changes < MaxChanges
    /\ d # device
    /\ device' = d
    /\ changes' = changes + 1
    /\ fineOnce' = fineOnce \cup FineParts(d)
    /\ brokenOnce' = brokenOnce \cup (Parts \ FineParts(d))
    /\ UNCHANGED <<today, step, scratch, checks, verdict>>

EnvRewritten == \E f \in EnvFiles : Become([device EXCEPT !.env = f])

TargetChanges == \E t \in SUBSET {"user", "system"} : Become([device EXCEPT !.target = t])

\* The sound server goes or comes with everything, or one device does.
AudioChanges == \E a \in SUBSET {"source", "sink"} : Become([device EXCEPT !.audio = a])

BusChanges == \E b \in BusStates : Become([device EXCEPT !.bus = b])

\* A binary is installed, or removed for a moment while it is replaced.
PathChanges ==
    \E b \in Bins :
        Become([device EXCEPT !.path = IF b \in @ THEN @ \ {b} ELSE @ \cup {b}])

Midnight ==
    /\ Running /\ changes < MaxChanges
    /\ today' = [number |-> today.number + 1, date |-> DayAfter(today.date)]
    /\ changes' = changes + 1
    /\ UNCHANGED <<device, fineOnce, brokenOnce, step, scratch, checks, verdict>>

-----------------------------------------------------------------------------

Wm == \/ CheckBrain \/ CheckTarget \/ ListSources \/ ListSinks
      \/ BusExists \/ BusConnect \/ LookUp \/ CheckUnits \/ Verdict

World == \/ EnvRewritten \/ TargetChanges \/ AudioChanges
         \/ BusChanges \/ PathChanges \/ Midnight

Next == Wm \/ World

Spec == Init /\ [][Next]_vars

\* A process runs on, and systemctl and pactl return.
FairSpec == Spec /\ WF_vars(Wm)

-----------------------------------------------------------------------------
(* Properties *)

Ended == step = "ended"

\* The checks that look at what ready.rs says they look at; check_target asks the
\* wrong manager (see TargetIsTheUsers).
ChecksOfTheirParts == CheckNames \ {"target"}

\* A verdict is put together from looks at different moments, so it need not be
\* true of any of them.  What it may be taken for, whatever changes under way: a
\* check other than that of the target is reported as failing only if one of its
\* parts was broken during the run, and passes only if each of them was fine at
\* some moment of it.
NamesTheRightParts ==
    Ended => \A n \in ChecksOfTheirParts :
        IF n \in verdict.failing
        THEN PartsOf(n) \cap brokenOnce # {}
        ELSE PartsOf(n) \subseteq fineOnce

\* Every NOT READY has a line to speak, and it is about the most critical trouble:
\* a check that ranks higher passed and, but for the target's, its parts were fine
\* at some moment of the run.
SpeaksOfTheWorst ==
    Ended =>
        /\ verdict.ready <=> verdict.worst = "none"
        /\ \A i, j \in DOMAIN CheckPriority :
               i < j /\ verdict.worst = CheckPriority[j] =>
                   /\ CheckPriority[i] \notin verdict.failing
                   /\ CheckPriority[i] \in ChecksOfTheirParts
                        => PartsOf(CheckPriority[i]) \subseteq fineOnce

\* The time stamp of the envelope is the date of the day on which the verdict was
\* drawn, over month ends, leap days, centuries and midnights under way.
StampedWithADate == [][ Verdict => verdict'.ts = today.date ]_vars

\* `wm ready', which has no timeout anywhere, ends with a verdict, unless it is
\* stuck behind the full queue of an agorabus that no longer accepts.
VerdictComes == <>Ended \/ <>[](step = "connect" /\ device.bus = "stuck")

-----------------------------------------------------------------------------
(* What the documentation says and the code does not do *)

\* "Target -- `wintermute.target` is active (via `systemctl is-active`)"
\* (ready.rs:9): the target is reported as failing only if it was not active at
\* some moment of the run.
TargetIsTheUsers ==
    Ended /\ "target" \in verdict.failing => PartsOf("target") \subseteq brokenOnce

=============================================================================
