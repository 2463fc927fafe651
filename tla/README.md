# A TLA+ model of wintermute-platform

This directory models wintermute-platform: what keeps a fleet of child processes
and systemd units alive (the child supervisor of `wmd-init`, its control plane,
the unit recovery watchdog), what reports on it (`wm ready`, `wm doctor`), and
the scripts that put all of it on a machine. TLC checks the models on small
instances; TLAPS checks proofs about all of the components for every value of
their constants: every invariant and every action property that a passing run
checks is also a theorem. `PROJECT.json` is the index: components, runs, the lines of code each
definition stands for, hazards, findings and theorems.

## 1. The system

| Component | Code | State | Operations |
|---|---|---|---|
| Supervisor loop | `src/supervisor.rs` | a slot per child (status, pid, restart count, last event), a restart tracker and a wake-up time per child | `start_all` once; then every second `observer_pass`: clear expired backoffs, probe the running children, restart the exited ones, schedule backoffs |
| Restart tracker | `src/lib.rs` | the instants of a child's restarts in a rolling window | `record`, `in_storm` |
| Spawner | `src/spawn.rs` | none; the processes belong to `pevent` (an external program) and the kernel | `start`: run `pevent`, parse its reply; `still_running`: does `/proc/<pid>` exist |
| Control plane | `src/supervisor.rs`, `src/protocol.rs`, `src/bin/wm.rs` | the socket file, one listener per instance, a task per connection, the mute flag | `serve`, `handle_conn`, `dispatch`; on the other side `client_roundtrip` |
| `wmd-init` process | `src/bin/wmd_init.rs`, `pkg/systemd/user/wmd-init.service` | main task, serve task, observer task | start, signals, end of the serve task, removal of the socket, exit; restarted by systemd |
| Unit recovery watchdog | `src/watchdog.rs`, `src/bin/wintermute_watchdog.rs` | a recovery record per unit (failures, backoff, time of the next attempt, given up), the health events | every poll: list failed units; for each that may be attempted `reset-failed`, `start`, `is-failed`, then record the outcome |
| Readiness | `src/ready.rs`, `EnvConfig` of `src/lib.rs`, `wm ready` | none | five checks one after the other, the verdict, the worst reason, an ISO timestamp |
| Doctor | `src/doctor.rs`, `wm doctor` | none | per scope: read the target, list the units by patterns, probe each unit and its binary; report and exit code |
| Install convention | `src/install_convention.rs`, `sed` in `install.sh` | none; it rewrites unit files | `extract_binary_name`, `rewrite_exec_start`, `rewrite_unit_file`, `check_unit_convention` |
| Installer | `install.sh`, `pkg/install-system.sh`, `src/kiosk.rs` | binaries in three places, unit files of the user and of the package, greetd config, linger, tmpfiles rule, recovery service, installed marker, enabled target | developer install with the doctor as its gate, kiosk install, kiosk uninstall, each wet or dry; the plan `kiosk.rs` prints |
| Session entry, scripts | `pkg/bin/wintermute-session`, `scripts/` | none | one blocking call; development tooling |

How they interact. The observer task, the connection tasks and main share the
slots of `Supervisor` behind one mutex that is never held across a call of the
spawner. The observer is the only one that changes slots, so the interesting
interleavings are with the outside: a child dies between its probe and the
restarts, a pid is given to another process, an earlier child's error ends a
phase that later children were waiting for. The trackers and the wake-up times
are local to the observer and die with it. Instances of `wmd-init` meet at the
path of the socket. The watchdog and an operator meet at the state of the units
in systemd, which the watchdog reads and changes by separate `systemctl` calls.
systemd restarts both daemons, and neither keeps anything on disk. The installer
meets the rest of the system through files: it rewrites the units that systemd
will load, and its gate asks the doctor whether their binaries are where the
rewritten lines say; other programs' installers and the caregiver change the same
files between its runs.

What must be right, by component:

* supervisor loop: no second copy of a live child; no more launches in a window
  than the storm limit; a backoff lasts its time and ends; every child that
  could run is eventually launched again; the startup order; one child's
  failures do not harm the others;
* spawner: a pid in a slot that no longer names the child must not lead to a
  second copy;
* control plane: a call is answered or cut off, never left hanging; a mute that
  was acknowledged is visible; a stale socket file is no obstacle and a live one
  is not taken away;
* watchdog: the wait matches the number of failures; a give-up comes exactly at
  the limit and is reported once; a failed unit is brought up or given up on;
* readiness: what the verdict says of a check was true at some moment of the run,
  the worst trouble is the one spoken of, the date is right, a verdict comes;
* doctor: no broken unit is passed over and no healthy one is accused although
  the machine changes between the calls; one row per unit and scope;
* install convention: rewriting twice is rewriting once, what it produces passes
  the check, what passes the check is left alone, and the shell's version and the
  library's do not contradict each other;
* installer: a run that ends well leaves nothing broken that worked; a second
  developer install changes nothing; an uninstall takes the login, the recovery
  service, the tmpfiles rule and the linger away and a kiosk install repairs its
  wiring, whatever earlier runs left half done; no command escapes a dry run;
  script and printed plan agree, up to two files.

## 2. The modules

| Module | What it is |
|---|---|
| `Supervisor` | `start_all` and `observer_pass` with the tracker, the spawner and the process table |
| `CrashPolicy` | the abstract promise to one child; `Supervisor` implements it |
| `SupervisorProofs` | theorems about `Supervisor` |
| `PolicyProofs` | that every step of `Supervisor` is one of `CrashPolicy`; extends `SupervisorProofs` |
| `ControlPlane` | instances of `wmd-init`, the socket file, connections, calls |
| `ControlPlaneProofs` | theorems about `ControlPlane` |
| `Watchdog` | the recovery table, `tick` call by call, the polling loop, dry runs, restarts |
| `WatchdogProofs` | theorems about `Watchdog` |
| `InstallConvention` | `ExecStart` lines: the two ways of rewriting them, the check, the doctor's verdict |
| `InstallConventionProofs` | theorems about `InstallConvention` |
| `Installer` | `install.sh` command by command on one machine; extends `InstallConvention` |
| `InstallerProofs` | theorems about `Installer`; extends `InstallConventionProofs` |
| `Readiness` | `wm ready` call by call on a device that changes meanwhile |
| `Calendar` | the calendar arithmetic of `utc_timestamp`, and the calendar as it is taught; used by `Readiness` |
| `ReadinessProofs` | theorems about `Readiness` and `Calendar` |
| `Doctor` | `wm doctor` call by call on a machine that changes meanwhile |
| `DoctorProofs` | theorems about `Doctor` |
| `MC...` | symmetry and constant values for TLC |

### Supervisor

`pc` is the phase of the one observer task: `boot` (in `start_specs`), `idle`
(waiting for the ticker), `observe`, `restart`. `todo` holds the children the
current loop has still to visit; `First(c)` keeps the canonical order. `status`
and `pid` are the slot; `history` is the tracker; `due` is `backoff_until`;
`tripped` is the list of `EnteredBackoff` outcomes that `restart_exited` has
collected and not yet returned. `procs` is the process table. Each call of the
spawner is a step, so that any process may die before and after it; what the
code does under one lock between two calls is one step. Every early exit is an
action: `BootLaunchFails` (the `?` in `start_specs`; main logs it and starts the
observer all the same), `ProbeFails` (the rest of the children is not probed),
`RestartFails` (the rest is not restarted and the outcomes so far are dropped).
A launch fails in two ways. `pevent` launches nothing, or it launches the child
and its reply does not parse or names another id: `start` returns an error either
way, but in the second case (`Unrecorded`, when `ReplyMayBeLost`) the process runs
under a pid that no slot holds and that nobody will probe. `cleared` and `starts`
(the restarts of the last window that ran a process, recorded or not) only record
history for the properties.

Time is relative: a past instant is an age, a future one the time left. The code
reads the clock once per pass (`now`), so time passes in `Tick` only, by one to
`MaxGap` units (`MissedTickBehavior::Skip`: ticks may be late, never in a burst).
Ages beyond `Window` are equal for the code and become `Window + 1`; no bound on
the number of passes is needed. The history is a set of ages because a pass
records a child at most once and passes are at least a unit apart.

Not in the model: `restart_count` and `last_event`, which no code reads but the
status display; `uptime_secs`, which is initialised to 0 and never changed;
tracing.

### CrashPolicy

Per child: `off`, `up`, `down`, `held`; at most `Limit` restarts in a window, a
hold of exactly `Backoff` that ends with the first look at the clock after it,
and a child that is down infinitely often while a restart is possible is
restarted. The refinement maps `Pending` and `Starting` to `off`, `recent` to
`starts`, `Limit` to `Threshold - 1`, and the hold to the wake-up time, or to the
full `Backoff` while the outcome is still in `tripped`.

### ControlPlane

`main` and `serve` are the two tasks of an instance. `Clear`, `Bind` and
`BindRefused` are `remove_file` and `bind` in `serve`, `Unlink` is `remove_file`
at the end of `run`; both remove whatever is there. `file` is the instance that
created the file, which may be long dead: connecting to it is then refused. A
call goes through `Connect` (connect, send), `Accept`, `Dispatch` (the lock is
held) and `Answer`; the end of a process cuts its connections, an error of
`accept` drops the listener and with it the connections it has not accepted,
while `main` may still be in `start_all`. A name of an instance stands for a new
process after each launch. A `wm` that is killed after it has sent leaves its
request behind, which the server handles all the same and answers to nobody: these
are the same steps, so it has no action of its own. `alone`, `quiet` and `expects` are history: which
instance has had no company since its launch, which ones have acknowledged a
mute with no unmute sent since, and what a call may rely on.

### Watchdog

`table` is the recovery map: a record per unit with the failures, the current
backoff, the time until the next attempt and the give-up flag. `Tick` lets time
pass, `ListJson` asks for the failed units and, when none is found or the answer is
no JSON (`JsonRefused`), `ListText` asks again; either may fail (`ListFails`), and
of either only the units of the fleet are taken. `Skip` passes over units in
backoff or given up, and then every `systemctl` call is a step: `ResetFailed` or
`ResetFails`, `StartSucceeds` or `StartFails`, `CheckIsUp`, `CheckIsFailed` or
`CheckUnanswered` (the manager does not answer, which the code takes for "not
failed"). Units fail and operators start and stop units between any two of them, and the
watchdog itself may be killed and restarted with an empty table (`Restarted`).
A start that fails leaves the unit in one of the states `StartErrorLeaves`. In a
dry run (`dry`) only the listing is real; a new engine with an empty table is made
for every tick, and the actions are the same.

### Readiness and Calendar

`step` is the next call of `wm`: two checks with one call each, `check_audio` with
two calls of `pactl`, `check_bus` with `exists` and then `connect`, `check_units`
with one search of `PATH` per binary, then the verdict. `device` is what the calls
look at (external), and any of its parts may change between two of them, as may the
day. `ApiKey` is `load_optional` and `parse` over the lines of the bootstrap file,
`Worst` is `aggregate`. `fineOnce` and `brokenOnce` record what has been fine and
what has been broken at a moment of the run: as the verdict is put together from
different moments it may be true of none, and the properties say what it may still
be taken for. The target is fine when the user's manager has it active
(`TargetManager`, where `install-system.sh` installs it), and `CheckTarget` asks the
system's (`AskedManager`), so what is promised of the other checks cannot be
promised of this one (`ChecksOfTheirParts`). `connect` blocks while the listener's
queue is full (`BusMayHang`). `Calendar!DaysToYmd` are the two loops of `utc_timestamp`, each a
recursive function of the loop's state; the date it is compared with advances day
by day by the Gregorian rules.

### Doctor

For each scope in turn: `CatTarget`; for each pattern `ListFiles` and `ListUnits`,
which collect names without duplicates; for each name, in order, `CatUnit`,
`CheckExists`, `CheckMode` and `MakeRow`; at the end `Report`. A `systemctl` that
fails prints nothing and nobody looks at its exit code, so a manager that does not
answer is one without units. `found` counts how often a name is in the list that
`discover_units` returns. `machine` is external; `ever` and `always` are the facts
about it that held at some moment and at all moments of the run. `InspectsTheFleet`
promises a row to what was installed all along and to what was loaded all along: a
unit that is only loaded when `ListFiles` asks and only installed when `ListUnits`
does is in neither answer, although it was one of the two at every moment. The way
from an `ExecStart` line to a path is in `InstallConvention`.

### InstallConvention

A unit file is the sequence of its `ExecStart` lines (all four operations pass
over every other line). A line is a record of what the code tells apart: a
systemd flag before the path, one of the directories the code knows, whether a
further directory follows, the binary, whether arguments follow. `Extracts` is
`extract_binary_name`; `RewriteUnit` is the library's rewriting and
`ReconcileUnit` the `sed` of the script, which knows three of the seven
directories but follows further directories; `Compliant` is
`check_unit_convention`; `Missing` is `probe_unit` with the filter of
`run_doctor`, which expands `%h` and not `~`, reads the first line only, and looks
the binary up where the line says it is.

### Installer

`disk` is everything the scripts write. `step` is the next command of the run in
progress, `mode`, `user` and `dry` its flags, `outcome` how the last run ended.
`install.sh` runs without `set -e`: `Command` does one command and goes on
whatever its status. `Whole` is a command that does its work or nothing; the ones
that are loops (`Reconcile`, `InstallBinaries`) may do any part of theirs, and
`InstallSystem` (a script with `set -e`) any prefix. `Interrupted` ends a run
between any two commands. Nothing in `Command` keeps a dry run dry: each action has
the tests that its command has in the script, `Runit` where the command goes through
`runit`, `Wet` where the step is inside `[ $DRY_RUN -eq 0 ]`, the test of
`reconcile_unit_file` in `ReconcileUnitFile`, and the test in front of the gate in
`Ungated` and `Doctor`. (`write_file`, install.sh:98, which nothing calls, has one
more.)

`Doctor` is the gate at the end of a developer install, and `Ungated` what happens
in a dry run or when there is no `wm`. The doctor looks at no exit status of
`systemctl`, so the gate judges only the units that it was `shown`: all of them if
the managers answer, and any subset, down to none, if they do not or not always.
With none the gate passes and the script says "install complete". `module Doctor`
has the same fact call by call (its `answers`).

Between runs, `CompanionInstalled` lets the installer of another crate replace a
unit and its binary and `GreetdByHand` is the copying of the greetd example.
Two commands do less than their names say, because the code does:
`GreetdConfig` always fails (a string with double quotes is pasted into a
double-quoted command line), and `EnableUserTarget` needs a unit file that only a
developer install brings. `smooth`, `worked`, `seen` and `settled` are history: no
command of this run has failed and its gate was shown everything; the units that
could run when it began; the units its gate was shown; and whether nothing but
developer installs has happened since one succeeded.

`KioskSteps` and `UninstallSteps` are the plan of `kiosk.rs` with the files that each
step names, one by one; `Written` is the files in which two disks differ. The script
keeps to the plan but for `Unplanned`: it also installs `/usr/local/bin/wm`, which is
not among the seven binaries of the plan, and the last step makes a wants link,
where the plan names a file in the directory of lingering users.

## 3. Properties and runs

Bounds common to the supervisor runs: two children (an earlier and a later one:
the phases treat the children before and after a failing one differently, and
nothing distinguishes a second later one), three pids (four where a lost reply may
leave a process behind; `Unrecorded` leaves the last free pid alone, else launches
would block for want of model pids), `Window` 4, `Threshold` 3,
`Backoff` 3, gaps of 1 or 2. The shipped values are 60 s, 5 and
30 s with a pass every second. What the code depends on is kept: a backoff is
shorter than the window, so that its end finds the storm still in the window,
and `(Threshold - 1) * Backoff > Window`, so that repeated backoffs empty it.

| Run | Checks | What it shows |
|---|---|---|
| `supervisor_safety` | `TypeOK`, `OneProcessPerChild`, `StormLimit`, `BackoffScheduled`, `BackoffHonoured`, `PolicySpec` | with launches that succeed, children that die at any step, probes of the first child that fail and pids reused by siblings and strangers, all of the safety holds and every child sees the crash policy, including that it comes back |
| `supervisor_liveness` | `BootOrder`, `StormLimit`, `DeathNoticed`, `HealthyRecovers` | launches of child 1 fail, with or without a process left behind, and probes of child 2 fail: nothing is started out of order, the storm limit also bounds the copies nobody knows of, every exit is noticed as far as the probes allow, and although passes are aborted over and over child 1 trips into backoff in the end and lets child 2 through |
| `supervisor_stranded` (violation) | `BackoffScheduled` | child 1 trips into backoff, the launch of child 2 fails in the same pass: child 1 has no wake-up and stays in backoff for ever |
| `control_plane` | `TypeOK`, `TakesOver`, `MuteVisible`, `CallEnds`, `UselessLeaves` | two instances that may overlap and be killed anywhere, a client that mutes and looks and one that unmutes and asks for what is not served |
| `control_overlap` (violation) | `SurvivorReachable` | the second instance takes the first one's socket file and goes: the first listens, and no client reaches it |
| `watchdog_safety` | `TypeOK`, `BackoffMatchesFailures`, `MinimumWait`, `GiveUpIsReported`, `DryRunOnlyLooks`, `FailedIsAttended` | two units of the fleet and one outside it, every call may fail, an operator, restarts of the watchdog, dry runs, limits at which doubling, ceiling and give-up meet; no failed unit is passed over for ever |
| `watchdog_lost` (violation) | `FailedIsResolved` | when a failed start leaves the unit inactive (a dependency failed, `systemctl` could not run), `reset-failed` has erased the only sign that the unit needs recovery |
| `installer` | `TypeOK`, `UninstallReverts`, `KioskRepairs`, `NothingBroken`, `FollowsPlan`, `DryRunWritesNothing`, `Reconverges` | three runs in any modes, for two users, with two failed or interrupted commands or gates that are not shown every unit, and two changes by others in between |
| `installer_autologin` (violation) | `AutologinWired` | a kiosk install in which nothing else goes wrong ends with "kiosk install complete" and no autologin |
| `readiness` | `TypeOK`, `NamesTheRightParts`, `SpeaksOfTheWorst`, `StampedWithADate`, `VerdictComes` | two changes of the device between any two calls of `wm ready`, from every device with at most two broken parts, and around month ends, leap days, a century and midnight |
| `readiness_target` (violation) | `TargetIsTheUsers` | nothing changes, the target is active for the user, and `wm ready` reports it as failing |
| `doctor` | `TypeOK`, `BrokenIsFound`, `AlarmIsReal`, `InspectsTheFleet`, `MembershipSeen` | two changes of the machine between any two calls of `wm doctor`, for each `--scope` |

`MaxGap` is the only bound on time. In the pid-reuse run other programs never
take the pids the children need (`TakenByOther`), else launches would block for
want of model pids. The watchdog's safety run uses a
ceiling that is reached before the give-up limit. In the shipped configuration
(2 s doubling, ceiling 300 s, eight attempts) it is not: the last wait is 128 s
and the unit is given up before the ceiling matters, so that the run covers more
than the shipped setting needs.

The installer's runs stop after `MaxRuns` runs of the script, so they are checked
without deadlock. Three runs are enough for an install, something after it, and
the one judged; two faults for one command that fails in an earlier run and one in
the run judged; two edits for a companion before and one between. The unit files
are the supervisor's own, an old copy of it, and one companion whose line leads
where its binary is (through `%h`, an absolute path or `/usr/local/bin`) or does
not (`~`, a wrong directory).

`wm ready` and `wm doctor` end, so their runs are checked without deadlock.
`MaxChanges` is 2 in both: a change and its undoing, or two changes of which each
hides the other, are what it takes to mislead a command that looks once. Starting
with at most two broken parts gives every pair of failing checks, hence every
comparison of priorities. The doctor's machine has a unit per pattern and one that
no pattern matches, in two scopes with two paths.

Fairness. `WF_vars(Observer)`: the observer is one tokio task whose calls
return; nothing is assumed of the processes, the launches or the probes.
`ControlPlane`: weak fairness of every main and serve task and of the handling of
every connection, because tokio runs ready tasks and the accept queue is
first-in first-out; nobody has to launch, signal or call. `Watchdog`: weak
fairness of the engine, whose `systemctl` calls return, and strong fairness of the
listing, which is tried every poll: a listing that fails every time is a manager
that is down for good. `Readiness`: weak fairness of `wm`, a process that runs on.
Nothing is assumed of operators, units or devices.

Observed while modelling, without a run of their own:

* The tracker counts the attempt it is about to judge, so a child is held back
  after `Threshold - 1` launches, where `README.md:76` speaks of 5 (`StormLimit` is
  stated with the strict bound). For the same reason the end of a backoff is no
  attempt yet: the window still holds the storm, `record` trips again, and the child
  goes back into backoff without a launch until the window has emptied, where
  `tests/hardware_acs.rs:147` expects it up "on the next attempt".
* `HealthyRecovers` rests on passes being close together. If a pass took longer
  than `Window / (Threshold - 1)` (15 s as shipped) a child whose launches always
  fail would never trip, and would starve the children after it.
* One failed launch in `start_all` leaves that child `Starting` and the later ones
  `Pending` for ever: `start_specs` returns (`src/supervisor.rs:104`), and neither
  `observe_exits` nor `restart_exited` ever visits these statuses. `wmd_init.rs:114`
  logs that the observer will still run, which it does, without them.
* A lost reply of `pevent` leaves two copies of a child. Nothing finds the first
  one. A `wmd-init` that is killed by hand and started again likewise adopts no
  children.
* `still_running` cannot tell a reused pid from the child, so the exit of a child
  whose pid was taken is noticed only when the other process ends.
* `wmd-init.service` runs `wmd-init` without `--spawn`: as shipped it serves the
  control plane and supervises nothing. It is `Type=notify` and nothing calls
  `sd_notify`, so systemd stops each instance when `TimeoutStartSec` runs out. A mute
  is in memory only: the instance that replaces another has forgotten it.
* The watchdog counts a wait from the start of the tick, so a slow `systemctl start`
  eats part of it; a unit that is up when it is checked and fails later has its
  failures reset each time and is never given up on; `is-failed` without an answer
  counts as a recovery; the dry run does list units, where its log line says that no
  `systemctl` calls are made.
* `check_bus` speaks of a non-blocking connect and makes a blocking one;
  `check_units` searches `PATH` for binaries where the module's comment speaks of
  units on disk. `wintermute-ready.service` calls `wm say`, which is not implemented
  and exits 0.
* The doctor's patterns do not match `wintermute-watchdog.service` and
  `wintermute-ready.service`, where `src/doctor.rs:3` says "every wintermute systemd
  unit"; it exits 0 when a unit has no `ExecStart` or its `cat` failed, where
  `src/doctor.rs:8` says "only when every discovered unit's binary is present".

Of the installer:

* The gate can be blind. With a user manager that does not answer, as from a
  shell without a session bus, the doctor lists no unit and exits 0, and the script says
  "install complete" although `sed` may just have moved a companion's line away from
  its binary, where `install.sh:218` says "the install cannot declare success while
  the fleet is broken". A later developer install with the manager up is then
  refused. `NothingBroken` speaks of the units that the gate was shown, and
  `Reconverges` of installs whose gate was shown all of them. Likewise when there is
  no `wm`, because `cargo install` failed on a fresh machine: the gate is skipped
  with a warning and exit 0, and `NothingBroken` leaves out that outcome (`ungated`).
* `wintermute-ready.service` is reconciled but matches no pattern of the doctor, so
  the gate never sees it. Its line is a `/bin/sh -c`, which `sed` leaves alone.
* The uninstall does not revert all that `--kiosk` wrote, where `kiosk.rs:419` says
  so: the installed marker and the wants link of the target stay. And it removes the
  greetd config whoever wrote it, also the distribution's, where `install.sh:328`
  prints "restore upstream default". `UninstallReverts` asks for what it does do:
  nobody is logged in at boot, and the recovery service, the tmpfiles rule and the
  linger of its user are gone.
* The plan names seven binaries, of which this repository builds `wmd-init`, and the
  script `wmd-init` and `wm`; it passes over the other six in silence.
* `sed` does not rewrite `~/.local/bin` and `/home/<user>/...`, which
  `rewrite_exec_start` does, so that a unit with `/home/<user>/.cargo/bin` passes the
  gate and fails `check_unit_convention`.
* The installed marker is written at install time, so a first boot would be taken for
  a recovered one, if anything used `BootMarkerState`.

## 4. Proofs

The constants are constrained only by the `ASSUME`s of the modules: positive sizes,
finitely many pids and more pids than children, values that stand for "none" outside
the sets they are added to, binaries, patterns and starting points of the right
type, and names and patterns that there are any of. TLC evaluates every one of
them. A theorem with a further hypothesis has it in its statement; the table names
it.

| Theorem | Says | Argument |
|---|---|---|
| `SupervisorProofs!TypeCorrect` | `Spec => []TypeOK` | one step per action |
| `SupervisorProofs!OneProcess` | no second copy of a child, with pid reuse, unless a reply of `pevent` is lost | inductive with: a child that a loop has still to visit is in the status that loop selects (`TodoOK`); a launch takes a free pid, and a child whose process lives is `Running`, so it is not among the exited |
| `SupervisorProofs!StartupOrder` | `BootOrder` for any number of children and whichever launch fails | with: while `start_specs` runs, every child it has visited is running and none it has still to visit has been started (`BootFront`) |
| `SupervisorProofs!NoneStranded` | `BackoffScheduled`, when launches succeed | with: outcomes are only pending while the pass that collected them is in its restart phase |
| `SupervisorProofs!StormLimited` | `StormLimit` for every window, threshold, backoff and gap | every launch, also one whose reply is lost, is in the tracker's window (`starts` within `history`), and a launch happens only when the recorded window is below the threshold; ageing can only shrink a window, a fact about cardinalities |
| `SupervisorProofs!BackoffKept` | `BackoffHonoured`, when `Backoff <= Window + 1` | the youngest record of a child in backoff is as old as its wake-up time has run (`AgeMeetsDue`); the assumption is needed because ages are cut off at `Window + 1` |
| `PolicyProofs!KeepsPolicy` | `Supervisor` implements `CrashPolicy` without its fairness, when launches succeed | the initial states map to the initial state, and each action maps, child by child, to a step of the policy or a stutter: a launch in `start_specs` to `Start`, a probe that finds nothing to `NoticeExit`, a restart to `Restart`, a trip to `HoldBack`, the scheduling of the backoffs to nothing, a tick to `Elapse`. Needs the invariants above (below the limit, due or pending while in backoff) and `NoRecordYet`: a child not yet visited in a pass has no record of that pass. With launches that fail the policy is broken, as `supervisor_stranded` shows |
| `WatchdogProofs!WatchdogTypeCorrect` | `Spec => []TypeOK` | one step per action |
| `WatchdogProofs!ReportedOnce` | `GiveUpIsReported` for every fleet and every limit | with: what is being recovered has not been given up on, and the events of a tick are not yet in the log |
| `WatchdogProofs!DryRunIsDry` | `DryRunOnlyLooks` | with: a dry run has no events (`DryNeverGivesUp`), since none of its calls counts as failed |
| `WatchdogProofs!BackoffDoubles` | `BackoffMatchesFailures` for every base, ceiling and limit | `Delay(n + 1)` is `Delay(n)` doubled and cut off at the ceiling (`DelayNext`), which is what `record_failure` computes; from there it is inductive |
| `WatchdogProofs!WaitsLongEnough` | `MinimumWait` for every base, ceiling, limit and distance of ticks | with: the age of the last failure and the wait that is left add up to at least the delay (`Covered`), through ticks, successes, other units' failures and restarts |
| `ControlPlaneProofs!ControlTypeCorrect` | `Spec => []TypeOK` | one step per action of the tasks and of the calls |
| `ControlPlaneProofs!SocketTakenOver` | `TakesOver` for any number of instances | with: while an instance is alone nobody else can touch the file, so after `Clear` there is none until its own `Bind` (`AloneServes`) |
| `ControlPlaneProofs!MuteLinearizable` | `MuteVisible` for any number of instances and clients | with: while anybody relies on a mute no unmute is under way (`NoUnmuteMeanwhile`), so the flag of an instance that has acknowledged one stays up as long as it lives (`QuietIsMuted`), and so does the flag a call relies on (`CallKeeps`) |
| `InstallConventionProofs!RewriteIdempotent` | rewriting a unit file twice is rewriting it once | line by line: a rewritten line names `%h/.local/bin`, which is left alone |
| `InstallConventionProofs!RewriteComplies` | a rewritten file of plain paths in fleet directories or `/bin` passes the check | the same |
| `InstallConventionProofs!CompliantIsLeftAlone` | what passes the check neither changes | a compliant line is in `/bin` or in `%h/.local/bin` |
| `InstallConventionProofs!ShellAgreesWithLibrary` | the library's result is the same before and after the script's, on files without nested directories | the directories of the script are among the library's |
| `InstallConventionProofs!RewriteHarmless` | a unit whose binary is in `~/.local/bin` too is healthy after either, if it was before | the rewritten line leads there |
| `InstallerProofs!InstallerTypeCorrect` | `Spec => []TypeOK` | one step per command |
| `InstallerProofs!UninstallAlwaysReverts` | `UninstallReverts` for any users, companions, numbers of runs, faults and edits: no autologin, recovery service, tmpfiles rule, nor linger of its user; the marker and the enabled target are not part of it | with what each command that succeeded has established by the time a later one is next (`Progress`), which no later command of the same run undoes |
| `InstallerProofs!KioskAlwaysRepairs` | `KioskRepairs`, likewise: all of the wiring but the autologin | the same invariant |
| `InstallerProofs!DryRunsAreDry` | `DryRunWritesNothing` | command by command, from the test that guards each; and a dry run never reaches the gate |
| `InstallerProofs!NothingIsBroken` | `NothingBroken`, likewise, for every set of units that the gate may be shown | with (`WorkedInv`): no command removes a unit or a binary, so a unit that could run keeps its file; outside a developer install that writes no line changes, so it also stays runnable (`RunnableGrows`); in a developer install it may not be runnable for a while, and a run that ends `complete` has passed the gate, which finds every unit that is not among those it is shown |
| `InstallerProofs!InstallConverges` | `Reconverges`, likewise, whatever the gate of the later install is shown | with (`SettledInv`): the commands of a developer install that have succeeded have left their own binaries in place, every line rewritten and both units shipped, and if its gate was shown every unit none is broken; on such a disk each command, whether it fails, stops half-way or is cut short, changes nothing (`NothingToDo`), because rewriting what is rewritten changes nothing |
| `InstallerProofs!ScriptFollowsPlan` | `FollowsPlan`, likewise, with the two files of `Unplanned` | for each command, the next step of its mode and the files it writes; a run never leaves the steps of its mode |
| `DoctorProofs!DoctorTypeCorrect` | `Spec => []TypeOK`, for any units, paths and patterns | with the order of the calls: what is listed has a probe to come, and no name is listed twice |
| `DoctorProofs!FleetInspected` | `InspectsTheFleet` for any number of changes | the names listed and not yet probed, those under the probe and the rows are disjoint (`RowInv`), and what was installed or loaded all along is in one of them from the moment its pattern has been asked of both listings (`ListedInv`) |
| `DoctorProofs!NoFalseAllClear` | `BrokenIsFound`, likewise | the row of a unit that was broken all along says so: whatever moment a call looked at, `always` and `ever` say what it must have seen |
| `DoctorProofs!NoFalseAlarm` | `AlarmIsReal`, likewise | what is carried from `CatUnit` over the two looks at the path to the row was true of the machine when it was read |
| `DoctorProofs!MembershipTrue` | `MembershipSeen`, likewise | what `CatTarget` has read is kept until the scope is done (`TargetRead`) |
| `ReadinessProofs!ReadinessTypeCorrect` | `Spec => []TypeOK`, for any binaries, bootstrap files and devices | with: the checks that precede a step have been made (`InOrder`) |
| `ReadinessProofs!RightPartsNamed` | `NamesTheRightParts` for any number of changes, of every check but that of the target | a check that passed has seen each of its parts fine, one that failed a part broken, and so have the two checks under way (`LooksInv`); for the bootstrap file, that the parser ends with a key exactly if the last line that names it sets it (`LastLineWins`) |
| `ReadinessProofs!WorstSpokenOf` | `SpeaksOfTheWorst`, likewise | the reason `aggregate` picks is the first of the priorities among the failed checks (`WorstIsFirst`); what ranks higher has passed, and `LooksInv` says what that means |
| `ReadinessProofs!GregorianDays` | `DaysToYmd(0)` is 1970-01-01, and `DaysToYmd(n + 1)` is the Gregorian day after `DaysToYmd(n)`, for every `n` | below |
| `ReadinessProofs!RightDateStamped` | `StampedWithADate`, if the date of each member of `Starts` is the one of its day number | the day and its date go together at every step, by `GregorianDays`; the hypothesis holds of the values in `MCReadiness`, which are dates written down by hand |

`GregorianDays` is a fact about two loops with no bound on their length, and comes
without induction over data. The days before year `y` have a closed form, `365 * y`
plus the leap days, which grows from one year to the next by `YearDays`. So the
state of the loop always stands for the same day (`DayOf`), and the function from a
state to the year its day falls in, and the rest, solves the loop's equation; hence
the recursive function, which is any solution, satisfies the equation too
(`YearsUnfold`). That it returns the right year for every state (`YearsAre`) is then
shown by the least counterexample, with the well-foundedness of `<`. The months go
the same way with a table in place of the closed form, and a day has one date
(`OneDate`), which the day after has to match.

Only model-checked:

* everything that rests on fairness, for which the prover has no rules: the fairness
  half of `PolicySpec`, `DeathNoticed`, `HealthyRecovers`, `CallEnds`,
  `UselessLeaves`, `FailedIsAttended`, `VerdictComes`;
* the five violations: their subject is one behaviour, which TLC prints.

## 5. Plan

Every module of the first plan exists and every safety property of a passing run
is proved. What is left:

1. Hypotheses to weaken. `OneProcess` and `KeepsPolicy` assume of all children what
   they need of one: a child whose own replies are never lost has no second copy
   whatever happens to others, and the policy of a child is kept as long as no
   launch of its own or of a later child fails.
2. Facts that are only steps of proofs and deserve a theorem: `LastLineWins` for
   `EnvConfig`, `NothingToDo` for a re-run of the installer, `DelayNext` for the
   backoff.
3. `InstallerProofs` and `DoctorProofs` are longer than their arguments: their
   actions share more than the lemmas about them say.

## 6. Not modelled

* `restart_count`, `last_event` and the copy of the children in a status response:
  written for the display, copied under the lock, acted on by nobody.
* The session script (one blocking call) and the development scripts.
* Text: the rendering of `wm`, the phrases and JSON of the reports, the parsing of
  `systemctl` and `pactl` output beyond what it lists, the parsing of flags, the
  bodies of unit files apart from `ExecStart`.
* `plan_install` and the boot marker's meaning, which nothing calls.
* systemd, `pevent`, the kernel, the sound server and agorabus are external: only
  what the code can see of them is modelled.
