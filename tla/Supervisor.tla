----------------------------- MODULE Supervisor -----------------------------
(***************************************************************************)
(* The child supervisor of wmd-init run with --spawn: start_all, then the  *)
(* observer loop (supervisor.rs), with the RestartTracker of lib.rs and    *)
(* the processes that pevent launches (spawn.rs, an external program).     *)
(*                                                                         *)
(* One observer task changes the child slots, so its steps are sequential: *)
(* `pc' says which phase of start_all or observer_pass it is in.  Between  *)
(* any two of its steps a child process may die.  Each call to the         *)
(* spawner (launch, probe) is a step of its own.                           *)
(*                                                                         *)
(* Time is relative.  An Instant in the past (RestartTracker.history) is   *)
(* an age, an Instant in the future (backoff_until) is the time left.      *)
(* observer_pass reads `now' once, so time advances only in Tick, which    *)
(* starts a pass.  Ages beyond Window are all alike to the code, so the    *)
(* model is finite without a bound on the number of passes.                *)
(***************************************************************************)
EXTENDS Integers, FiniteSets

CONSTANTS
    N,              \* children; 1 .. N is CHILD_STARTUP_ORDER
    Pids,           \* process ids
    NoPid,          \* a slot that has no pid yet (None)
    Window,         \* RESTART_WINDOW_SECS
    Threshold,      \* RESTART_STORM_THRESHOLD
    Backoff,        \* BACKOFF_SECS
    MaxGap,         \* longest time from the start of one pass to the next
    SpawnMayFail,   \* children whose launch by pevent may fail
    ReplyMayBeLost, \* may a failed launch leave a process behind?
    ProbeMayFail,   \* children whose /proc probe may end in an I/O error
    PidReuse        \* may the kernel reuse a pid that a slot still holds?

ASSUME SizesAssumption ==
    /\ N \in Nat \ {0}
    /\ Window \in Nat \ {0}
    /\ Threshold \in Nat \ {0}
    /\ Backoff \in Nat \ {0}
    /\ MaxGap \in Nat \ {0}
    /\ IsFiniteSet(Pids) /\ Cardinality(Pids) > N

Children == 1 .. N

ASSUME EnvironmentAssumption ==
    /\ SpawnMayFail \subseteq Children
    /\ ProbeMayFail \subseteq Children
    /\ ReplyMayBeLost \in BOOLEAN
    /\ PidReuse \in BOOLEAN
    /\ NoPid \notin Pids

\* A process table entry is free, a supervised child, or somebody else's.
Free    == 0
Foreign == -1
\* No entry for the child in backoff_until.
NoDue   == -1

VARIABLES
    status,     \* ChildState.status, per child
    pid,        \* ChildState.child_pid, per child
    history,    \* RestartTracker.history, per child: ages of the records
    due,        \* backoff_until, per child: time left or NoDue
    pc,         \* which part of start_all / observer_pass runs
    todo,       \* children the current loop has still to visit
    tripped,    \* the EnteredBackoff outcomes collected by this pass
    procs,      \* the kernel's process table
    cleared,    \* history variable: `cleared' of this pass
    starts      \* history variable: restarts of the last Window that ran a process

slots == <<status, pid>>
vars  == <<slots, history, due, pc, todo, tripped, procs, cleared, starts>>

Ages == 0 .. Window + 1

Statuses == {"Pending", "Starting", "Running", "Exited", "Backoff"}

TypeOK ==
    /\ status \in [Children -> Statuses]
    /\ pid \in [Children -> Pids \cup {NoPid}]
    /\ history \in [Children -> SUBSET Ages]
    /\ due \in [Children -> 0 .. Backoff \cup {NoDue}]
    /\ pc \in {"boot", "idle", "observe", "restart"}
    /\ todo \in SUBSET Children
    /\ tripped \in SUBSET Children
    /\ procs \in [Pids -> Children \cup {Free, Foreign}]
    /\ cleared \in SUBSET Children
    /\ starts \in [Children -> SUBSET (0 .. Window)]

-----------------------------------------------------------------------------
(* The restart tracker.  Passes are at least one time unit apart and a     *)
(* pass records a child at most once, so the ages in one history differ    *)
(* and a set of ages is the VecDeque, its length the cardinality.          *)

\* The entries that the pop_front loop of `record' leaves: t >= now - window.
Recent(h) == {a \in h : a <= Window}

\* Mutant: nothing is popped.
RecordNeverPops(h) == h \cup {0}

\* The history after record(now).
Record(h) == Recent(h) \cup {0}

\* Mutant: strictly more than the threshold.
InStormLate(h) == Cardinality(h) > Threshold

\* The test `history.len() >= threshold' of `record' and `in_storm'.
InStorm(h) == Cardinality(h) >= Threshold

\* d units later; every age beyond the window counts as Window + 1.
Aged(h, d) == {IF a + d > Window THEN Window + 1 ELSE a + d : a \in h}

-----------------------------------------------------------------------------
(* The loops visit the children in canonical order. *)

\* Mutant: the loops run from the last child to the first.
FirstFromTheEnd(c) == c \in todo /\ \A k \in todo : k <= c

First(c) == c \in todo /\ \A k \in todo : c <= k

InStatus(s) == {c \in Children : status[c] = s}

\* The pids a launch may get: free ones, unless PidReuse none a slot holds.
Assignable == {p \in Pids : /\ procs[p] = Free
                            /\ PidReuse \/ \A c \in Children : pid[c] # p}

\* pevent runs child c as process p and reports the pid.
Launch(c, p) ==
    /\ p \in Assignable
    /\ procs' = [procs EXCEPT ![p] = c]
    /\ status' = [status EXCEPT ![c] = "Running"]
    /\ pid' = [pid EXCEPT ![c] = p]

\* pevent runs child c, but its reply does not parse or names another id: start
\* returns an error and nobody knows the pid.  Bound: a pid is left for the next.
Unrecorded(c) ==
    /\ ReplyMayBeLost
    /\ Cardinality(Assignable) > 1
    /\ \E p \in Assignable : procs' = [procs EXCEPT ![p] = c]

Init ==
    /\ status = [c \in Children |-> "Pending"]
    /\ pid = [c \in Children |-> NoPid]
    /\ history = [c \in Children |-> {}]
    /\ due = [c \in Children |-> NoDue]
    /\ pc = "boot"
    /\ todo = Children
    /\ tripped = {}
    /\ procs = [p \in Pids |-> Free]
    /\ cleared = {}
    /\ starts = [c \in Children |-> {}]

-----------------------------------------------------------------------------
(* start_all: every child in canonical order, once.  The first failure     *)
(* ends the loop; main logs it and starts the observer all the same.       *)

BootMark(c) ==
    /\ pc = "boot" /\ First(c) /\ status[c] = "Pending"
    /\ status' = [status EXCEPT ![c] = "Starting"]
    /\ UNCHANGED <<pid, history, due, pc, todo, tripped, procs, cleared, starts>>

BootLaunch(c) ==
    /\ pc = "boot" /\ First(c) /\ status[c] = "Starting"
    /\ \E p \in Pids : Launch(c, p)
    /\ todo' = todo \ {c}
    /\ UNCHANGED <<history, due, pc, tripped, cleared, starts>>

\* Mutant: start_all goes on to the next child.
BootLaunchFailsAndGoesOn(c) ==
    /\ pc = "boot" /\ First(c) /\ status[c] = "Starting"
    /\ c \in SpawnMayFail
    /\ todo' = todo \ {c}
    /\ UNCHANGED <<slots, history, due, pc, tripped, procs, cleared, starts>>

BootLaunchFails(c) ==
    /\ pc = "boot" /\ First(c) /\ status[c] = "Starting"
    /\ c \in SpawnMayFail
    /\ UNCHANGED procs \/ Unrecorded(c)
    /\ todo' = {}
    /\ UNCHANGED <<slots, history, due, pc, tripped, cleared, starts>>

BootDone ==
    /\ pc = "boot" /\ todo = {}
    /\ pc' = "idle"
    /\ UNCHANGED <<slots, history, due, todo, tripped, procs, cleared, starts>>

-----------------------------------------------------------------------------
(* observer_pass *)

TimeLeft(c, d) ==
    IF due[c] = NoDue THEN NoDue ELSE IF due[c] > d THEN due[c] - d ELSE 0

\* Mutant: one time unit early.
ExpiredEarly(d) == {c \in InStatus("Backoff") : due[c] # NoDue /\ due[c] <= d + 1}

\* clear_expired_backoffs: the slot is in Backoff, has an entry, and now >= it.
Expired(d) == {c \in InStatus("Backoff") : due[c] # NoDue /\ due[c] <= d}

\* A tick of the interval d units after the last: read `now', clear the
\* expired backoffs, and snapshot the Running children for observe_exits.
Tick(d) ==
    /\ pc = "idle"
    /\ history' = [c \in Children |-> Aged(history[c], d)]
    /\ starts' = [c \in Children |-> Recent(Aged(starts[c], d))]
    /\ cleared' = Expired(d)
    /\ status' = [c \in Children |-> IF c \in Expired(d) THEN "Exited" ELSE status[c]]
    /\ due' = [c \in Children |-> IF c \in Expired(d) THEN NoDue ELSE TimeLeft(c, d)]
    /\ todo' = InStatus("Running")
    /\ pc' = "observe"
    /\ UNCHANGED <<pid, tripped, procs>>

\* still_running(pid) finds /proc/<pid>, whoever has that pid now.
ProbeAlive(c) ==
    /\ pc = "observe" /\ First(c)
    /\ procs[pid[c]] # Free
    /\ todo' = todo \ {c}
    /\ UNCHANGED <<slots, history, due, pc, tripped, procs, cleared, starts>>

\* Mutant: the answer of the probe is ignored.
ProbeIgnored(c) ==
    /\ pc = "observe" /\ First(c)
    /\ status' = [status EXCEPT ![c] = "Exited"]
    /\ todo' = todo \ {c}
    /\ UNCHANGED <<pid, history, due, pc, tripped, procs, cleared, starts>>

ProbeGone(c) ==
    /\ pc = "observe" /\ First(c)
    /\ procs[pid[c]] = Free
    /\ status' = [status EXCEPT ![c] = "Exited"]
    /\ todo' = todo \ {c}
    /\ UNCHANGED <<pid, history, due, pc, tripped, procs, cleared, starts>>

\* A probe error ends observe_exits: later children are not probed this pass.
ProbeFails(c) ==
    /\ pc = "observe" /\ First(c)
    /\ c \in ProbeMayFail
    /\ todo' = {}
    /\ UNCHANGED <<slots, history, due, pc, tripped, procs, cleared, starts>>

\* restart_exited takes its snapshot of the Exited children.
BeginRestarts ==
    /\ pc = "observe" /\ todo = {}
    /\ pc' = "restart"
    /\ todo' = InStatus("Exited")
    /\ UNCHANGED <<slots, history, due, tripped, procs, cleared, starts>>

Restart(c) ==
    /\ pc = "restart" /\ First(c)
    /\ history' = [history EXCEPT ![c] = Record(@)]
    /\ ~InStorm(history'[c])
    /\ \E p \in Pids : Launch(c, p)
    /\ starts' = [starts EXCEPT ![c] = @ \cup {0}]
    /\ todo' = todo \ {c}
    /\ UNCHANGED <<due, pc, tripped, cleared>>

\* Mutant: only a launch that succeeded is recorded.
RestartFailsUnrecorded(c) ==
    /\ pc = "restart" /\ First(c)
    /\ ~InStorm(Record(history[c]))
    /\ c \in SpawnMayFail
    /\ \/ UNCHANGED <<procs, starts>>
       \/ Unrecorded(c) /\ starts' = [starts EXCEPT ![c] = @ \cup {0}]
    /\ todo' = {}
    /\ tripped' = {}
    /\ cleared' = {}
    /\ pc' = "idle"
    /\ UNCHANGED <<slots, history, due>>

\* A launch error leaves restart_exited by `?': the children after c are not
\* restarted and the outcomes of those before it are dropped with the Vec.
RestartFails(c) ==
    /\ pc = "restart" /\ First(c)
    /\ history' = [history EXCEPT ![c] = Record(@)]
    /\ ~InStorm(history'[c])
    /\ c \in SpawnMayFail
    /\ \/ UNCHANGED <<procs, starts>>
       \/ Unrecorded(c) /\ starts' = [starts EXCEPT ![c] = @ \cup {0}]
    /\ todo' = {}
    /\ tripped' = {}
    /\ cleared' = {}
    /\ pc' = "idle"
    /\ UNCHANGED <<slots, due>>

TripStorm(c) ==
    /\ pc = "restart" /\ First(c)
    /\ history' = [history EXCEPT ![c] = Record(@)]
    /\ InStorm(history'[c])
    /\ status' = [status EXCEPT ![c] = "Backoff"]
    /\ tripped' = tripped \cup {c}
    /\ todo' = todo \ {c}
    /\ UNCHANGED <<pid, due, pc, procs, cleared, starts>>

\* Mutant: the backoffs of a pass are scheduled only when it had just one.
SettleSingle ==
    /\ pc = "restart" /\ todo = {}
    /\ due' = [c \in Children |-> IF tripped = {c} THEN Backoff ELSE due[c]]
    /\ tripped' = {}
    /\ cleared' = {}
    /\ pc' = "idle"
    /\ UNCHANGED <<slots, history, todo, procs, starts>>

\* Mutant: the backoff is doubled.
SettleDoubles ==
    /\ pc = "restart" /\ todo = {}
    /\ due' = [c \in Children |-> IF c \in tripped THEN 2 * Backoff ELSE due[c]]
    /\ tripped' = {}
    /\ cleared' = {}
    /\ pc' = "idle"
    /\ UNCHANGED <<slots, history, todo, procs, starts>>

\* observer_pass handles the outcomes: it schedules the end of each backoff.
Settle ==
    /\ pc = "restart" /\ todo = {}
    /\ due' = [c \in Children |-> IF c \in tripped THEN Backoff ELSE due[c]]
    /\ tripped' = {}
    /\ cleared' = {}
    /\ pc' = "idle"
    /\ UNCHANGED <<slots, history, todo, procs, starts>>

-----------------------------------------------------------------------------
(* The processes, outside wmd-init. *)

Dies(p) ==
    /\ procs[p] # Free
    /\ procs' = [procs EXCEPT ![p] = Free]
    /\ UNCHANGED <<slots, history, due, pc, todo, tripped, cleared, starts>>

\* Some other program of the machine gets the pid.  Bound: the others never
\* use up the pids that the children need.
TakenByOther(p) ==
    /\ PidReuse /\ procs[p] = Free
    /\ Cardinality({q \in Pids : procs[q] = Foreign}) < Cardinality(Pids) - N
    /\ procs' = [procs EXCEPT ![p] = Foreign]
    /\ UNCHANGED <<slots, history, due, pc, todo, tripped, cleared, starts>>

-----------------------------------------------------------------------------

StartAll == BootDone \/ \E c \in Children : BootMark(c) \/ BootLaunch(c) \/ BootLaunchFails(c)

Observe == \E c \in Children : ProbeAlive(c) \/ ProbeGone(c) \/ ProbeFails(c)

Restarts == \E c \in Children : Restart(c) \/ RestartFails(c) \/ TripStorm(c)

Observer == \/ StartAll
            \/ \E d \in 1 .. MaxGap : Tick(d)
            \/ Observe
            \/ BeginRestarts
            \/ Restarts
            \/ Settle

Environment == \E p \in Pids : Dies(p) \/ TakenByOther(p)

Next == Observer \/ Environment

Spec == Init /\ [][Next]_vars

\* run_observer_loop never returns, its calls do, and tokio runs the task: it
\* always takes its next step.  Nothing is assumed of the processes.
FairSpec == Spec /\ WF_vars(Observer)

-----------------------------------------------------------------------------
(* Safety *)

\* While no reply of pevent is lost, a live process of a child is the one in the
\* child's slot, and that slot says Running.  So no step of the loop ever starts a
\* second copy of a live child, and a child that is not Running has no process
\* behind the supervisor's back.
OneProcessPerChild ==
    \A p \in Pids : procs[p] \in Children =>
        /\ status[procs[p]] = "Running"
        /\ pid[procs[p]] = p

\* The storm limit: in no Window are there Threshold launches of one child by
\* restart_exited, however crashes, backoffs and failed launches interleave.  A
\* launch whose reply is lost counts: it bounds the copies that nobody knows of.
StormLimit == \A c \in Children : Cardinality(starts[c]) < Threshold

\* A child in Backoff has an entry in backoff_until, or gets one when this pass
\* handles its outcomes; clear_expired_backoffs skips a slot without one for ever.
BackoffScheduled ==
    \A c \in Children : status[c] = "Backoff" => due[c] # NoDue \/ c \in tripped

\* A child stays in Backoff for at least Backoff after the storm was detected:
\* the pass that clears it finds no record of the child younger than that.
BackoffHonoured ==
    [][\A c \in Children : status[c] = "Backoff" /\ status'[c] # "Backoff"
          => \A a \in history'[c] : a >= Backoff]_vars

\* Startup order: while start_all runs, a child is started only when all the
\* children before it in CHILD_STARTUP_ORDER were launched.
BootOrder ==
    pc = "boot" => \A c \in Children : status[c] # "Pending" =>
                      \A k \in 1 .. c - 1 : status[k] = "Running"

-----------------------------------------------------------------------------
(* Liveness *)

\* The exit of a child is noticed, unless probes of it or of a child before it
\* in the canonical order may fail: a failing probe hides only later children.
DeathNoticed ==
    \A c \in {k \in Children : 1 .. k \cap ProbeMayFail = {}} :
        status[c] = "Running" /\ procs[pid[c]] = Free ~> status[c] # "Running"

\* A child is launched again after every exit when its launches and those of the
\* children after it succeed, even if an earlier child's launches fail and abort
\* the pass over and over: the failing child is recorded at each try, so it trips
\* into Backoff and lets the others pass.  (When a later child's launch fails,
\* BackoffScheduled may be violated and the earlier one is lost.)
HealthyRecovers ==
    \A c \in {k \in Children : k .. N \cap SpawnMayFail = {}} :
        status[c] \in {"Exited", "Backoff"} ~> status[c] = "Running"

-----------------------------------------------------------------------------
(* The abstract specification that this one implements *)

Phase(c) == CASE status[c] \in {"Pending", "Starting"} -> "off"
              [] status[c] = "Running" -> "up"
              [] status[c] = "Exited" -> "down"
              [] status[c] = "Backoff" -> "held"

Hold(c) == IF status[c] # "Backoff" THEN 0
           ELSE IF due[c] = NoDue THEN Backoff ELSE due[c]

Policy == INSTANCE CrashPolicy WITH
    Children <- Children,
    Limit <- Threshold - 1,
    phase <- [c \in Children |-> Phase(c)],
    recent <- starts,
    hold <- [c \in Children |-> Hold(c)]

\* Seen one child at a time the supervisor keeps the crash policy: the children
\* share the pass, its order, the pids and the outcome list, and none of this
\* shows in when a child is restarted, held back or released.
PolicySpec == Policy!FairSpec

=============================================================================
