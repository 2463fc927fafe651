------------------------------ MODULE Calendar ------------------------------
(***************************************************************************)
(* The calendar arithmetic of utc_timestamp in ready.rs, which does without*)
(* a date library.  A date is the record of its year, month and day.       *)
(***************************************************************************)
EXTENDS Integers, Sequences

\* Mutant: the rule of the centuries is left out.
IsLeapEveryFour(y) == y % 4 = 0

IsLeap(y) == (y % 4 = 0 /\ y % 100 # 0) \/ y % 400 = 0

YearDays(y) == IF IsLeap(y) THEN 366 ELSE 365

MonthDays(y) ==
    <<31, IF IsLeap(y) THEN 29 ELSE 28, 31, 30, 31, 30, 31, 31, 30, 31, 30, 31>>

\* The first loop: whole years are taken off.
YearLoop(days) ==
    LET Loop[s \in [year : Nat, left : Nat]] ==
            IF s.left < YearDays(s.year) THEN s
            ELSE Loop[[year |-> s.year + 1, left |-> s.left - YearDays(s.year)]]
    IN  Loop[[year |-> 1970, left |-> days]]

\* The second loop: the months that are over, by their lengths.
MonthLoop(lengths, days) ==
    LET Loop[s \in [month : 1 .. 13, left : Nat]] ==
            IF s.month = 13 \/ s.left < lengths[s.month] THEN s
            ELSE Loop[[month |-> s.month + 1, left |-> s.left - lengths[s.month]]]
    IN  Loop[[month |-> 1, left |-> days]]

\* The date that is `days' days after 1970-01-01.
DaysToYmd(days) ==
    LET y == YearLoop(days)
        m == MonthLoop(MonthDays(y.year), y.left)
    IN  [year |-> y.year, month |-> m.month, day |-> m.left + 1]

-----------------------------------------------------------------------------
(* The Gregorian calendar as it is taught, day after day *)

GregorianLeap(y) == IF y % 100 = 0 THEN y % 400 = 0 ELSE y % 4 = 0

LastOfMonth(y, m) ==
    CASE m = 2 -> IF GregorianLeap(y) THEN 29 ELSE 28
      [] m \in {4, 6, 9, 11} -> 30
      [] OTHER -> 31

DayAfter(d) ==
    IF d.day < LastOfMonth(d.year, d.month) THEN [d EXCEPT !.day = @ + 1]
    ELSE IF d.month < 12 THEN [d EXCEPT !.day = 1, !.month = @ + 1]
    ELSE [year |-> d.year + 1, month |-> 1, day |-> 1]

=============================================================================
