------------------------------- MODULE Doctor -------------------------------
(***************************************************************************)
(* `wm doctor' (run_doctor of doctor.rs, run_doctor_cmd of bin/wm.rs), call*)
(* by call: it asks the user's and the system's systemd for the units of   *)
(* the fleet and looks for the binary of each.                             *)
(*                                                                         *)
(* It only reads.  What it reads is external and goes on changing while it *)
(* does: units are installed, rewritten and removed, binaries replaced,    *)
(* managers reloaded.  A systemctl that fails prints nothing, and nobody   *)
(* looks at its exit code.  How an ExecStart line leads to a path is in    *)
(* InstallConvention; here a unit names a path or none.                    *)
(***************************************************************************)
EXTENDS Integers, Sequences, Functions

CONSTANTS
    Names,          \* unit names in the order of units.sort()
    Patterns,       \* the units that each pattern of discover_units matches
    Paths,          \* where binaries may be
    NoFile,         \* a unit without a unit file
    NoPath,         \* a unit file without an ExecStart, and what an empty output names
    Initial,        \* states of the machine in which wm may be started
    MaxChanges      \* bound: changes of the machine during the command

Units == Range(Names)

Scopes == {"user", "system"}

\* --scope user, system or both.
ScopeFlags == {<<"user">>, <<"system">>, <<"user", "system">>}

Contents == Paths \cup {NoPath, NoFile}

Machines ==
    [file : [Scopes -> [Units -> Contents]],
     loaded : [Scopes -> SUBSET Units],
     wants : [Scopes -> SUBSET Units],       \* Wants= and Requires= of wintermute.target
     links : [Scopes -> SUBSET Units],       \* its .wants directories
     answers : [Scopes -> BOOLEAN],
     bin : [Paths -> {"missing", "plain", "executable"}]]

ASSUME DoctorAssumption ==
    /\ Names \in Seq(Units) /\ Names # <<>>
    /\ Patterns \in Seq(SUBSET Units) /\ Patterns # <<>>
    /\ NoPath \notin Paths /\ NoFile \notin Paths /\ NoPath # NoFile
    /\ Initial \subseteq Machines
    /\ MaxChanges \in Nat

VARIABLES
    machine,    \* the state of the machine
    asked,      \* the scopes of the command line
    scopes,     \* those still to be inspected, the current one first
    step,       \* the next call
    pattern,    \* the pattern that is listed
    found,      \* names in the list of discover_units, with repetitions
    targetCat,  \* the units that `cat wintermute.target' has named
    unit,       \* the unit that is probed
    path,       \* its resolved ExecStart
    exists,     \* what check_binary knows of it
    rows,       \* the UnitReports
    exit,       \* the exit code
    changes,    \* bound: changes so far
    ever,       \* history: facts that have been true at a moment of the run
    always      \* history: facts that have been true all along

world == <<machine, changes, ever, always>>
list  == <<pattern, found, targetCat>>
probe == <<unit, path, exists>>
vars  == <<world, asked, scopes, step, list, probe, rows, exit>>

NoCode == -1

UnitReport ==
    [unit : Units, scope : Scopes, path : Paths \cup {NoPath},
     exists : BOOLEAN, executable : BOOLEAN, inTarget : BOOLEAN]

TypeOK ==
    /\ machine \in Machines
    /\ asked \in ScopeFlags
    /\ scopes \in ScopeFlags \cup {<<>>}
    /\ step \in {"target", "files", "units", "probe", "exists", "mode", "row", "report", "ended"}
    /\ scopes = <<>> <=> step \in {"report", "ended"}
    /\ pattern \in 1 .. Len(Patterns)
    /\ found \in [Units -> {0, 1}]
    /\ targetCat \in SUBSET Units
    /\ unit \in Units
    /\ path \in Paths \cup {NoPath}
    /\ exists \in {"no", "yes", "executable"}
    /\ rows \in Seq(UnitReport)
    /\ exit \in {NoCode, 0, 2}
    /\ changes \in 0 .. MaxChanges

-----------------------------------------------------------------------------
(* Facts about the machine that hold or not at a moment of the run *)

Answered(m, s, units) == IF m.answers[s] THEN units ELSE {}

Installed(m, s) == {u \in Units : m.file[s][u] # NoFile}

Facts(m) ==
    {<<"answers", s>> : s \in {t \in Scopes : m.answers[t]}}
    \cup {<<"usable", p>> : p \in {q \in Paths : m.bin[q] = "executable"}}
    \cup UNION {    {<<"installed", s, u>> : u \in Answered(m, s, Installed(m, s))}
               \cup {<<"loaded", s, u>> : u \in Answered(m, s, m.loaded[s])}
               \cup {<<"wants", s, u>> : u \in m.wants[s]}
               \cup {<<"links", s, u>> : u \in m.links[s]}
               \cup {<<"leads", s, u, m.file[s][u]>> : u \in Units} : s \in Scopes}

-----------------------------------------------------------------------------

Init ==
    /\ machine \in Initial
    /\ asked \in ScopeFlags
    /\ scopes = asked
    /\ step = "target"
    /\ pattern = 1
    /\ found = [u \in Units |-> 0]
    /\ targetCat = {}
    /\ unit = Names[1]
    /\ path = NoPath
    /\ exists = "no"
    /\ rows = <<>>
    /\ exit = NoCode
    /\ changes = 0
    /\ ever = Facts(machine)
    /\ always = Facts(machine)

Scope == Head(scopes)

\* A systemctl that does not reach its manager prints nothing.
Output(units) == Answered(machine, Scope, units)

\* run_doctor: the target's unit file is read once per scope.
CatTarget ==
    /\ step = "target"
    /\ targetCat' = Output(machine.wants[Scope])
    /\ pattern' = 1
    /\ step' = "files"
    /\ UNCHANGED <<world, asked, scopes, found, probe, rows, exit>>

\* Mutant: a name is appended whether or not the list contains it.
CollectAll(names) ==
    found' = [u \in Units |-> IF u \in names THEN found[u] + 1 ELSE found[u]]

\* A name is appended unless the list contains it.
Collect(names) ==
    found' = [u \in Units |-> IF u \in names /\ found[u] = 0 THEN 1 ELSE found[u]]

\* list-unit-files: what is installed.
ListFiles ==
    /\ step = "files"
    /\ Collect(Output(Patterns[pattern] \cap Installed(machine, Scope)))
    /\ step' = "units"
    /\ UNCHANGED <<world, asked, scopes, pattern, targetCat, probe, rows, exit>>

\* list-units --all: what is loaded.
ListUnits ==
    /\ step = "units"
    /\ Collect(Output(Patterns[pattern] \cap machine.loaded[Scope]))
    /\ IF pattern < Len(Patterns)
       THEN pattern' = pattern + 1 /\ step' = "files"
       ELSE pattern' = pattern /\ step' = "probe"
    /\ UNCHANGED <<world, asked, scopes, targetCat, probe, rows, exit>>

NextName ==
    Names[CHOOSE i \in DOMAIN Names :
            found[Names[i]] > 0 /\ \A j \in 1 .. i - 1 : found[Names[j]] = 0]

\* probe_unit begins with `cat' of the unit and its ExecStart.
CatUnit ==
    /\ step = "probe"
    /\ \E u \in Units : found[u] > 0
    /\ unit' = NextName
    /\ found' = [found EXCEPT ![NextName] = @ - 1]
    /\ path' = IF machine.answers[Scope] /\ machine.file[Scope][NextName] \in Paths
               THEN machine.file[Scope][NextName] ELSE NoPath
    /\ exists' = "no"
    /\ step' = IF path' = NoPath THEN "row" ELSE "exists"
    /\ UNCHANGED <<world, asked, scopes, pattern, targetCat, rows, exit>>

\* check_binary: path.exists() ...
CheckExists ==
    /\ step = "exists"
    /\ IF machine.bin[path] = "missing"
       THEN exists' = "no" /\ step' = "row"
       ELSE exists' = "yes" /\ step' = "mode"
    /\ UNCHANGED <<world, asked, scopes, list, unit, path, rows, exit>>

\* ... and its metadata; an error (the file is gone by now) is a file that exists
\* and cannot be executed.
CheckMode ==
    /\ step = "mode"
    /\ exists' = IF machine.bin[path] = "executable" THEN "executable" ELSE "yes"
    /\ step' = "row"
    /\ UNCHANGED <<world, asked, scopes, list, unit, path, rows, exit>>

\* Mutant: the links of the user are searched for every scope.
MakeRowUserLinks ==
    /\ step = "row"
    /\ rows' = Append(rows, [unit |-> unit, scope |-> Scope, path |-> path,
                             exists |-> exists # "no", executable |-> exists = "executable",
                             inTarget |-> unit \in targetCat \cup machine.links["user"]])
    /\ step' = "probe"
    /\ UNCHANGED <<world, asked, scopes, list, probe, exit>>

\* The rest of probe_unit.  What is-enabled and is-active print is only displayed.
MakeRow ==
    /\ step = "row"
    /\ rows' = Append(rows, [unit |-> unit, scope |-> Scope, path |-> path,
                             exists |-> exists # "no", executable |-> exists = "executable",
                             inTarget |-> unit \in targetCat \cup machine.links[Scope]])
    /\ step' = "probe"
    /\ UNCHANGED <<world, asked, scopes, list, probe, exit>>

NextScope ==
    /\ step = "probe"
    /\ \A u \in Units : found[u] = 0
    /\ scopes' = Tail(scopes)
    /\ step' = IF scopes' = <<>> THEN "report" ELSE "target"
    /\ UNCHANGED <<world, asked, list, probe, rows, exit>>

BinaryOk(r) == r.exists /\ r.executable

\* Mutant: a file that exists is good enough.
FailsUnlessExists(r) == ~r.exists /\ r.path # NoPath

\* Mutant: every row without a usable binary counts.
FailsWithoutPath(r) == ~BinaryOk(r)

\* The filter of run_doctor, and of render_table again.
Fails(r) == ~BinaryOk(r) /\ r.path # NoPath

Failures == {r.unit : r \in {q \in Range(rows) : Fails(q)}}

\* all_ok decides on the exit code.
Report ==
    /\ step = "report"
    /\ exit' = IF Failures = {} THEN 0 ELSE 2
    /\ step' = "ended"
    /\ UNCHANGED <<world, asked, scopes, list, probe, rows>>

-----------------------------------------------------------------------------
(* The machine *)

Become(m) ==
    /\ step # "ended" /\ changes < MaxChanges
    /\ m # machine
    /\ machine' = m
    /\ changes' = changes + 1
    /\ ever' = ever \cup Facts(m)
    /\ always' = always \cap Facts(m)
    /\ UNCHANGED <<asked, scopes, step, list, probe, rows, exit>>

\* A unit is installed, rewritten or removed.
UnitChanges ==
    \E s \in Scopes, u \in Units, c \in Contents :
        Become([machine EXCEPT !.file[s][u] = c])

Toggled(us, u) == IF u \in us THEN us \ {u} ELSE us \cup {u}

\* It is loaded, or forgotten by a manager that is reloaded.
LoadedChanges ==
    \E s \in Scopes, u \in Units : Become([machine EXCEPT !.loaded[s] = Toggled(@, u)])

\* The target is edited, or a unit is enabled or disabled.
TargetChanges ==
    \E s \in Scopes, u \in Units :
        \/ Become([machine EXCEPT !.wants[s] = Toggled(@, u)])
        \/ Become([machine EXCEPT !.links[s] = Toggled(@, u)])

\* A manager cannot be reached, or can again.
ManagerChanges ==
    \E s \in Scopes : Become([machine EXCEPT !.answers[s] = ~@])

\* A binary is installed, removed, or replaced by a file without its mode bits.
BinaryChanges ==
    \E p \in Paths, b \in {"missing", "plain", "executable"} :
        Become([machine EXCEPT !.bin[p] = b])

-----------------------------------------------------------------------------

Wm == \/ CatTarget \/ ListFiles \/ ListUnits
      \/ CatUnit \/ CheckExists \/ CheckMode \/ MakeRow
      \/ NextScope \/ Report

World == \/ UnitChanges \/ LoadedChanges \/ TargetChanges
         \/ ManagerChanges \/ BinaryChanges

Next == Wm \/ World

Spec == Init /\ [][Next]_vars

-----------------------------------------------------------------------------
(* Properties.  The report is put together from calls at different moments, so *)
(* each says what it is worth while the machine changes.                       *)

Ended == step = "ended"

Matched == UNION Range(Patterns)

\* No false all-clear: a unit that leads to the same path all along, with nothing
\* to execute there at any moment, is named and makes the exit code 2, as long as
\* its name matches and its manager answers.
BrokenIsFound ==
    Ended => \A s \in Range(asked), u \in Matched, p \in Paths :
        /\ <<"answers", s>> \in always
        /\ <<"leads", s, u, p>> \in always
        /\ <<"usable", p>> \notin ever
        => u \in Failures /\ exit = 2

\* No false alarm: a unit that is named has led, at a moment of the run, to a path
\* where at a moment of the run there was nothing to execute (not always the same
\* moment: a unit moved to a new path and its old binary are enough).
AlarmIsReal ==
    /\ Ended /\ exit = 2 => Failures # {}
    /\ \A u \in Failures : \E s \in Range(asked), p \in Paths :
           <<"leads", s, u, p>> \in ever /\ <<"usable", p>> \notin always

\* Each unit and scope has one row, though two commands for each pattern list it;
\* what was installed all along has its row, what was loaded all along as well (a
\* unit that turns from one into the other can be missed by both commands), and what
\* has a row was one of them at a moment; all by the word of a manager that answers.
InspectsTheFleet ==
    /\ \A i, j \in DOMAIN rows :
           rows[i].unit = rows[j].unit /\ rows[i].scope = rows[j].scope => i = j
    /\ \A r \in Range(rows) :
           {<<"installed", r.scope, r.unit>>, <<"loaded", r.scope, r.unit>>} \cap ever # {}
    /\ Ended => \A s \in Range(asked), u \in Matched :
           {<<"installed", s, u>>, <<"loaded", s, u>>} \cap always # {}
               => \E r \in Range(rows) : r.unit = u /\ r.scope = s

\* Membership of wintermute.target is judged by two sources, one of them read
\* before the first unit is probed: it is claimed only if one of them had the unit
\* at a moment of the run, and denied only if neither had it all along.
MembershipSeen ==
    \A r \in Range(rows) :
        IF r.inTarget
        THEN {<<"wants", r.scope, r.unit>>, <<"links", r.scope, r.unit>>} \cap ever # {}
        ELSE /\ <<"links", r.scope, r.unit>> \notin always
             /\ ~ {<<"wants", r.scope, r.unit>>, <<"answers", r.scope>>} \subseteq always

=============================================================================
