---------------------------- MODULE MCReadiness -----------------------------
(* Readiness for TLC: two programs, devices on which at most two parts are  *)
(* broken when wm starts, mornings before the interesting midnights.        *)
EXTENDS Readiness, FiniteSets

Line(k, v) == [key |-> k, value |-> v]

MCBinaries == <<"wm-audio", "wmd">>

MCEnvFiles ==
    {NoFile, Unreadable,
     <<Line(NoKey, ""), Line(ApiKeyName, "x")>>,
     <<Line(ApiKeyName, "x"), Line(ApiKeyName, "")>>,
     <<Line(ApiKeyName, ""), Line("other", "x"), Line(ApiKeyName, "x")>>}

Broken(d) == Parts \ FineParts(d)

Morning(n, y, m, d) == [number |-> n, date |-> [year |-> y, month |-> m, day |-> d]]

MCMornings ==
    {Morning(10956, 1999, 12, 31), Morning(11015, 2000, 2, 28), Morning(19416, 2023, 2, 28),
     Morning(20634, 2026, 6, 30), Morning(47540, 2100, 2, 28)}

MCStarts ==
    [device : {d \in AllDevices : Cardinality(Broken(d)) <= 2}, today : {Morning(0, 1970, 1, 1)}]
    \cup [device : {d \in AllDevices : Broken(d) = {}}, today : MCMornings]

=============================================================================
