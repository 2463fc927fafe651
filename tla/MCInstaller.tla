---------------------------- MODULE MCInstaller ----------------------------
(* Installer for TLC: the supervisor's unit and one companion. *)
EXTENDS Installer

MCBinaries == {"wm", "wmd-init", "wm-audio"}

MCUnits == {"wmd-init", "wm-audio"}

\* The unit file of binary b with one line that names directory d.
File(b, d) ==
    <<[flag |-> FALSE, dir |-> d, nested |-> FALSE, bin |-> b, args |-> TRUE]>>

\* A companion where its own installer, cargo or a packager puts it; with the
\* path that belongs to the place, or one that does not lead there.  A stale
\* copy of the supervisor's unit from before the convention.
MCProvided ==
    {[unit |-> "wm-audio", place |-> c[1], file |-> File("wm-audio", c[2])] :
        c \in {<<"local", HomeLocal>>, <<"local", TildeLocal>>, <<"cargo", HomeCargo>>,
               <<"cargo", AbsCargo>>, <<"usr", UsrLocal>>, <<"local", UsrLocal>>}}
    \cup {[unit |-> "wmd-init", place |-> "usr", file |-> File("wmd-init", UsrLocal)]}

=============================================================================
