---------------------------- MODULE CrashPolicy ----------------------------
(***************************************************************************)
(* What the supervisor promises of each child, whatever the others do: it  *)
(* is started once, a noticed exit is answered by a restart or a backoff,  *)
(* there are at most Limit restarts in a Window, a backoff lasts Backoff   *)
(* and not longer than the next look at the clock, and a child that is     *)
(* down does not stay down.  There are no passes, pids or processes here,  *)
(* and no order among the children: Supervisor implements this             *)
(* specification (its PolicySpec) when launches do not fail.               *)
(***************************************************************************)
EXTENDS Integers, FiniteSets

CONSTANTS Children, Window, Limit, Backoff, MaxGap

VARIABLES
    phase,      \* "off", "up", "down" or "held", per child
    recent,     \* ages of the restarts of the last Window
    hold        \* time left of the backoff, 0 when not held

vars == <<phase, recent, hold>>

Later(ages, d) == {a + d : a \in {b \in ages : b + d <= Window}}

Init ==
    /\ phase = [c \in Children |-> "off"]
    /\ recent = [c \in Children |-> {}]
    /\ hold = [c \in Children |-> 0]

Start(c) ==
    /\ phase[c] = "off"
    /\ phase' = [phase EXCEPT ![c] = "up"]
    /\ UNCHANGED <<recent, hold>>

NoticeExit(c) ==
    /\ phase[c] = "up"
    /\ phase' = [phase EXCEPT ![c] = "down"]
    /\ UNCHANGED <<recent, hold>>

Restart(c) ==
    /\ phase[c] = "down"
    /\ Cardinality(recent[c]) < Limit
    /\ phase' = [phase EXCEPT ![c] = "up"]
    /\ recent' = [recent EXCEPT ![c] = @ \cup {0}]
    /\ UNCHANGED hold

HoldBack(c) ==
    /\ phase[c] = "down"
    /\ phase' = [phase EXCEPT ![c] = "held"]
    /\ hold' = [hold EXCEPT ![c] = Backoff]
    /\ UNCHANGED recent

\* Time passes; the backoffs that have run out by then are over.
Elapse(d) ==
    /\ recent' = [c \in Children |-> Later(recent[c], d)]
    /\ hold' = [c \in Children |-> IF hold[c] > d THEN hold[c] - d ELSE 0]
    /\ phase' = [c \in Children |->
                    IF phase[c] = "held" /\ hold[c] <= d THEN "down" ELSE phase[c]]

Next == \/ \E c \in Children : Start(c) \/ NoticeExit(c) \/ Restart(c) \/ HoldBack(c)
        \/ \E d \in 1 .. MaxGap : Elapse(d)

Spec == Init /\ [][Next]_vars

FairSpec == /\ Spec
            /\ WF_vars(\E d \in 1 .. MaxGap : Elapse(d))
            /\ \A c \in Children : SF_vars(Restart(c))

=============================================================================
