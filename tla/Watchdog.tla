------------------------------ MODULE Watchdog ------------------------------
(***************************************************************************)
(* wintermute-watchdog: the WatchdogEngine of watchdog.rs in the loop of   *)
(* bin/wintermute_watchdog.rs, against the systemd user manager (external) *)
(* that the SystemctlBackend calls reach.                                  *)
(*                                                                         *)
(* A tick lists the failed units (in JSON, and if that yields nothing once *)
(* more as text) and then, unit by unit, runs reset-failed, start and      *)
(* is-failed.  Each systemctl call is a step, and between two steps units  *)
(* fail by themselves and the operator starts and stops them.  The         *)
(* recovery table is in memory only.  In a dry run only the listing is     *)
(* real: every tick has a new engine over the DryRunBackend.               *)
(*                                                                         *)
(* tick gets one `now' and compares nothing but the `now's of ticks, so    *)
(* time advances only from tick to tick, however long the calls of a tick  *)
(* take; retry_after is the time left, counted from the current `now'.     *)
(***************************************************************************)
EXTENDS Integers, FiniteSets

CONSTANTS
    Units,              \* units of the user manager
    Fleet,              \* those that is_wintermute_unit accepts
    NoUnit,
    InitialBackoff,     \* INITIAL_BACKOFF_SECS
    MaxBackoff,         \* MAX_BACKOFF_SECS
    GiveUpAfter,        \* GIVE_UP_AFTER
    MaxGap,             \* longest time from one tick to the next
    StartErrorLeaves,   \* states a unit can be in after `systemctl start' failed
    CallsMayFail,       \* may list-units, reset-failed and is-failed fail?
    OperatorActs,       \* does an operator start, stop and clear units?
    MayBeRestarted      \* may the watchdog itself crash and be restarted?

ASSUME WatchdogAssumption ==
    /\ Fleet \subseteq Units
    /\ NoUnit \notin Units
    /\ InitialBackoff \in Nat \ {0}
    /\ MaxBackoff \in Nat /\ InitialBackoff <= MaxBackoff
    /\ GiveUpAfter \in Nat \ {0}
    /\ MaxGap \in Nat \ {0}
    /\ StartErrorLeaves \subseteq {"failed", "inactive"}
    /\ CallsMayFail \in BOOLEAN
    /\ OperatorActs \in BOOLEAN
    /\ MayBeRestarted \in BOOLEAN

VARIABLES
    unit,       \* the manager's active state, per unit
    dry,        \* the flag --dry-run
    table,      \* the RecoveryState per unit; no entry is the default one
    step,       \* the call that tick makes next
    todo,       \* failed units that tick has still to visit
    cur,        \* the unit under recovery
    events,     \* the HealthEvents of this tick
    reported,   \* history variable: units with a health event in the log
    since       \* history variable: age of the last failed recovery, per unit

vars == <<unit, dry, table, step, todo, cur, events, reported, since>>

\* RecoveryState.retry_after is None.
NoWait == -1

RecoveryState ==
    [failures: 0 .. GiveUpAfter, backoff: InitialBackoff .. MaxBackoff,
     wait: NoWait .. MaxBackoff, gaveUp: BOOLEAN]

TypeOK ==
    /\ unit \in [Units -> {"active", "inactive", "failed"}]
    /\ table \in [Units -> RecoveryState]
    /\ dry \in BOOLEAN
    /\ step \in {"sleep", "list", "text", "gate", "start", "check"}
    /\ todo \in SUBSET Fleet
    /\ cur \in Fleet \cup {NoUnit}
    /\ (cur = NoUnit) <=> (step \in {"sleep", "list", "text", "gate"})
    /\ events \in SUBSET Fleet
    /\ reported \in SUBSET Fleet
    /\ since \in [Units -> 0 .. MaxBackoff]

-----------------------------------------------------------------------------
(* RecoveryState *)

Default == [failures |-> 0, backoff |-> InitialBackoff, wait |-> NoWait, gaveUp |-> FALSE]

Least(a, b) == IF a <= b THEN a ELSE b

\* Mutant: a unit is tried only while it has no retry_after.
MayAttemptOnce(s) == ~s.gaveUp /\ s.wait = NoWait

\* now >= retry_after, or none; never after giving up.
MayAttempt(s) == ~s.gaveUp /\ s.wait <= 0

\* Mutant: the wait of the last failure is kept.
RecordSuccessKeepsWait(s) == [s EXCEPT !.failures = 0, !.backoff = InitialBackoff]

RecordSuccess(s) ==
    [failures |-> 0, backoff |-> InitialBackoff, wait |-> NoWait, gaveUp |-> s.gaveUp]

\* Mutant: the ceiling is forgotten.
RecordFailureUncapped(s) ==
    IF s.failures + 1 >= GiveUpAfter
    THEN [s EXCEPT !.failures = @ + 1, !.gaveUp = TRUE]
    ELSE [s EXCEPT !.failures = @ + 1, !.wait = s.backoff, !.backoff = 2 * @]

\* Mutant: the count is taken before this failure.
RecordFailureLate(s) ==
    IF s.failures >= GiveUpAfter
    THEN [s EXCEPT !.failures = @ + 1, !.gaveUp = TRUE]
    ELSE [s EXCEPT !.failures = @ + 1, !.wait = s.backoff,
                   !.backoff = Least(2 * @, MaxBackoff)]

\* Mutant: the wait is always the initial one.
RecordFailureConstant(s) ==
    IF s.failures + 1 >= GiveUpAfter
    THEN [s EXCEPT !.failures = @ + 1, !.gaveUp = TRUE]
    ELSE [s EXCEPT !.failures = @ + 1, !.wait = InitialBackoff,
                   !.backoff = Least(2 * @, MaxBackoff)]

RecordFailure(s) ==
    IF s.failures + 1 >= GiveUpAfter
    THEN [s EXCEPT !.failures = @ + 1, !.gaveUp = TRUE]
    ELSE [s EXCEPT !.failures = @ + 1, !.wait = s.backoff,
                   !.backoff = Least(2 * @, MaxBackoff)]

TimeLeft(w, d) == IF w = NoWait THEN NoWait ELSE IF w > d THEN w - d ELSE 0

-----------------------------------------------------------------------------

Init ==
    /\ unit \in [Units -> {"active", "inactive", "failed"}]
    /\ dry \in BOOLEAN
    /\ table = [u \in Units |-> Default]
    /\ step = "sleep"
    /\ todo = {}
    /\ cur = NoUnit
    /\ events = {}
    /\ reported = {}
    /\ since = [u \in Units |-> 0]

\* The loop sleeps and reads `now'; a dry run begins with an empty table.
Tick(d) ==
    /\ step = "sleep"
    /\ table' = [u \in Units |-> IF dry THEN Default
                                 ELSE [table[u] EXCEPT !.wait = TimeLeft(@, d)]]
    /\ since' = [u \in Units |-> Least(since[u] + d, MaxBackoff)]
    /\ step' = IF dry THEN "text" ELSE "list"
    /\ UNCHANGED <<unit, dry, todo, cur, events, reported>>

Listing == {u \in Units : unit[u] = "failed"}

\* What is listed and passes is_wintermute_unit.
TakeList(units) == todo' = units \cap Fleet

\* Mutant: an empty array is taken as it is, a unit of no interest as well.
ListJsonAlien ==
    /\ step = "list"
    /\ TakeList(Listing)
    /\ step' = IF Listing \subseteq Fleet THEN "gate" ELSE "sleep"
    /\ UNCHANGED <<unit, dry, table, cur, events, reported, since>>

\* list_failed_units: when no unit is found in the JSON, it is listed as text.
ListJson ==
    /\ step = "list"
    /\ TakeList(Listing)
    /\ step' = IF Listing = {} THEN "text" ELSE "gate"
    /\ UNCHANGED <<unit, dry, table, cur, events, reported, since>>

\* A systemctl that does not know the option, or fails.
JsonRefused ==
    /\ step = "list" /\ CallsMayFail
    /\ step' = "text"
    /\ UNCHANGED <<unit, dry, table, todo, cur, events, reported, since>>

ListText ==
    /\ step = "text"
    /\ TakeList(Listing)
    /\ step' = "gate"
    /\ UNCHANGED <<unit, dry, table, cur, events, reported, since>>

\* An error of tick is logged and the loop goes on; the dry backend does not look
\* at the exit status and takes the output, which is empty, for the list.
ListFails ==
    /\ step \in {"list", "text"} /\ CallsMayFail
    /\ step' = IF dry THEN "gate" ELSE "sleep"
    /\ UNCHANGED <<unit, dry, table, todo, cur, events, reported, since>>

Skip(u) ==
    /\ step = "gate" /\ u \in todo
    /\ ~MayAttempt(table[u])
    /\ todo' = todo \ {u}
    /\ UNCHANGED <<unit, dry, table, step, cur, events, reported, since>>

\* Mutant: the dry backend has no reset-failed of its own.
ResetFailedAnyway(u) ==
    /\ step = "gate" /\ u \in todo
    /\ MayAttempt(table[u])
    /\ unit' = [unit EXCEPT ![u] = IF @ = "failed" THEN "inactive" ELSE @]
    /\ todo' = todo \ {u}
    /\ cur' = u
    /\ step' = "start"
    /\ UNCHANGED <<dry, table, events, reported, since>>

\* reset-failed takes a failed unit to inactive and leaves another one as it is.
ResetFailed(u) ==
    /\ step = "gate" /\ u \in todo
    /\ MayAttempt(table[u])
    /\ unit' = [unit EXCEPT ![u] = IF @ = "failed" /\ ~dry THEN "inactive" ELSE @]
    /\ todo' = todo \ {u}
    /\ cur' = u
    /\ step' = "start"
    /\ UNCHANGED <<dry, table, events, reported, since>>

\* The common end of a failed recovery: the table and, on giving up, an event.
Failed(u) ==
    /\ table' = [table EXCEPT ![u] = RecordFailure(@)]
    /\ since' = [since EXCEPT ![u] = 0]
    /\ events' = IF table'[u].gaveUp THEN events \cup {u} ELSE events
    /\ step' = "gate"
    /\ cur' = NoUnit

ResetFails(u) ==
    /\ step = "gate" /\ u \in todo
    /\ MayAttempt(table[u])
    /\ CallsMayFail /\ ~dry
    /\ todo' = todo \ {u}
    /\ Failed(u)
    /\ UNCHANGED <<unit, dry, reported>>

\* `systemctl start' reports success; the service may fail right after.
StartSucceeds ==
    /\ step = "start"
    /\ \E s \in {"active", "failed"} :
           unit' = [unit EXCEPT ![cur] = IF @ = "active" \/ dry THEN @ ELSE s]
    /\ step' = "check"
    /\ UNCHANGED <<dry, table, todo, cur, events, reported, since>>

\* The service or its dependency failed, or systemctl did not run.
StartFails ==
    /\ step = "start" /\ ~dry
    /\ \E s \in StartErrorLeaves :
           unit' = [unit EXCEPT ![cur] = IF @ = "active" THEN @ ELSE s]
    /\ Failed(cur)
    /\ UNCHANGED <<dry, todo, reported>>

\* The common end of a recovery that counts as successful.
Recovered ==
    /\ table' = [table EXCEPT ![cur] = RecordSuccess(@)]
    /\ step' = "gate"
    /\ cur' = NoUnit
    /\ UNCHANGED <<unit, dry, todo, events, reported, since>>

CheckIsUp == step = "check" /\ (unit[cur] # "failed" \/ dry) /\ Recovered

\* unit_is_failed looks at the output only: when the manager does not answer, it
\* is empty, which is not "failed".
CheckUnanswered == step = "check" /\ ~dry /\ CallsMayFail /\ Recovered

\* systemctl that cannot be run counts as failed.
CheckIsFailed ==
    /\ step = "check" /\ ~dry /\ (unit[cur] = "failed" \/ CallsMayFail)
    /\ Failed(cur)
    /\ UNCHANGED <<unit, dry, todo, reported>>

\* tick returns its events and the loop logs them.
EndOfTick ==
    /\ step = "gate" /\ todo = {}
    /\ reported' = reported \cup events
    /\ events' = {}
    /\ step' = "sleep"
    /\ UNCHANGED <<unit, dry, table, todo, cur, since>>

-----------------------------------------------------------------------------
(* The environment *)

\* A service fails by itself.
UnitFails(u) ==
    /\ unit[u] = "active"
    /\ unit' = [unit EXCEPT ![u] = "failed"]
    /\ UNCHANGED <<dry, table, step, todo, cur, events, reported, since>>

\* An operator or another unit starts, stops or clears u.
OperatorSets(u) ==
    /\ OperatorActs
    /\ \E s \in {"active", "inactive"} : unit' = [unit EXCEPT ![u] = s]
    /\ UNCHANGED <<dry, table, step, todo, cur, events, reported, since>>

\* The watchdog process ends at any point and systemd starts it again.
Restarted ==
    /\ MayBeRestarted
    /\ table' = [u \in Units |-> Default]
    /\ step' = "sleep"
    /\ todo' = {}
    /\ cur' = NoUnit
    /\ events' = {}
    /\ reported' = {}
    /\ since' = [u \in Units |-> 0]
    /\ UNCHANGED <<unit, dry>>

-----------------------------------------------------------------------------

Engine == \/ \E d \in 1 .. MaxGap : Tick(d)
          \/ ListJson \/ JsonRefused \/ ListText \/ ListFails
          \/ \E u \in Fleet : Skip(u) \/ ResetFailed(u) \/ ResetFails(u)
          \/ StartSucceeds \/ StartFails
          \/ CheckIsUp \/ CheckUnanswered \/ CheckIsFailed
          \/ EndOfTick

Environment == \/ \E u \in Units : UnitFails(u) \/ OperatorSets(u)
               \/ Restarted

Next == Engine \/ Environment

Spec == Init /\ [][Next]_vars

\* The loop runs until a signal, systemctl calls return, and a listing that is
\* tried again and again succeeds again and again.
FairSpec == Spec /\ WF_vars(Engine) /\ SF_vars(ListJson \/ ListText)

-----------------------------------------------------------------------------
(* Properties *)

\* After k consecutive failures the next wait is InitialBackoff doubled k times
\* and cut off at MaxBackoff, and a unit without failures waits for nothing:
\* successes, failures and restarts in any order never leave a stale backoff.
BackoffMatchesFailures ==
    \A u \in Units : LET s == table[u] IN
        /\ ~s.gaveUp => s.backoff = Least(InitialBackoff * 2 ^ s.failures, MaxBackoff)
        /\ (s.failures = 0) => s.wait = NoWait

\* The policy table of the binary: after the k-th failure in a row a unit is not
\* tried again before InitialBackoff * 2^(k-1) have passed since that attempt's
\* tick began.
MinimumWait ==
    \A u \in Units : LET s == table[u] IN
        MayAttempt(s) /\ s.failures > 0
            => since[u] >= Least(InitialBackoff * 2 ^ (s.failures - 1), MaxBackoff)

\* A unit is given up exactly after GiveUpAfter failures in a row, and each unit
\* given up has its one health event: in the list of this tick or in the log.
GiveUpIsReported ==
    \A u \in Units :
        /\ table[u].gaveUp <=> table[u].failures = GiveUpAfter
        /\ table[u].gaveUp <=> u \in events \cup reported
        /\ ~(u \in events /\ u \in reported)

\* A dry run looks and logs: none of its steps touches a unit or gives up on one,
\* although it is the same engine that runs.
DryRunOnlyLooks ==
    [][ dry /\ Engine => UNCHANGED unit /\ events' = {} ]_vars

\* Unless the watchdog is restarted for ever, or is-failed goes unanswered for
\* ever, a failed unit of the fleet does not stay failed, whatever other calls fail
\* and whatever an operator does: it comes up, is given up on, or is left inactive,
\* by a stop or by a start that failed.
FailedIsAttended ==
    \A u \in Fleet :
        \/ []<><<Restarted \/ CheckUnanswered>>_vars
        \/ (unit[u] = "failed" /\ ~dry)
               ~> (unit[u] = "active" \/ table[u].gaveUp \/ (unit[u] = "inactive" /\ cur # u))

\* watchdog.rs: it "restarts them with capped exponential backoff", and after
\* GIVE_UP_AFTER failed attempts gives up: a failed unit of the fleet comes up
\* again or is given up on.
FailedIsResolved ==
    \A u \in Fleet :
        (unit[u] = "failed" /\ ~dry) ~> (unit[u] = "active" \/ table[u].gaveUp)

=============================================================================
