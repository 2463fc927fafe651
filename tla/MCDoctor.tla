----------------------------- MODULE MCDoctor ------------------------------
(* Doctor for TLC: a unit of each of two patterns and one that none matches; *)
(* one unit is in the user's scope and another may be in both.               *)
EXTENDS Doctor, TLC

CONSTANTS p, q

Watchdog == "wintermute-watchdog.service"
Audio == "wm-audio.service"
InitService == "wmd-init.service"

MCNames == <<Watchdog, Audio, InitService>>

MCPatterns == <<{Audio}, {InitService}>>

MCPaths == {p, q}

Files(watchdog, audio, init) == Watchdog :> watchdog @@ Audio :> audio @@ InitService :> init

UserAndSystem(u, s) == "user" :> u @@ "system" :> s

Start(audio, init, bin) ==
    [file |-> UserAndSystem(Files(q, audio, q), Files(NoFile, NoFile, init)),
     loaded |-> UserAndSystem({Audio}, {}),
     wants |-> UserAndSystem({InitService}, {}),
     links |-> UserAndSystem({Audio}, {}),
     answers |-> UserAndSystem(TRUE, TRUE),
     bin |-> p :> bin @@ q :> "executable"]

MCInitial ==
    {Start(audio, init, bin) : audio \in {p, NoPath}, init \in {p, NoFile},
                               bin \in {"missing", "plain", "executable"}}

=============================================================================
