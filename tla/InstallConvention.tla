------------------------- MODULE InstallConvention -------------------------
(***************************************************************************)
(* The install-path convention of the fleet: what an ExecStart line looks  *)
(* like, how the library (install_convention.rs) and the installer         *)
(* (install.sh) rewrite it, what the library accepts, and what the doctor  *)
(* (doctor.rs) makes of it.  A unit file is the sequence of its ExecStart  *)
(* lines; every other line is passed through by all of them.               *)
(***************************************************************************)
EXTENDS Naturals, Sequences

CONSTANT Binaries

\* The directories that the code tells apart.  /home/u is the home directory of
\* the user whose manager runs the unit; /bin stands for /usr/bin as well.
UsrLocal   == "/usr/local/bin"
HomeLocal  == "%h/.local/bin"
HomeCargo  == "%h/.cargo/bin"
TildeLocal == "~/.local/bin"
TildeCargo == "~/.cargo/bin"
AbsLocal   == "/home/u/.local/bin"
AbsCargo   == "/home/u/.cargo/bin"
System     == "/bin"
Elsewhere  == "/opt"

\* PREFIXES and extract_from_home_prefix: the directories that are rewritten.
FleetDirs ==
    {UsrLocal, HomeLocal, HomeCargo, TildeLocal, TildeCargo, AbsLocal, AbsCargo}

\* The three that the sed of install.sh replaces.
ShellDirs == {UsrLocal, HomeCargo, TildeCargo}

\* flag: one of systemd's - @ + ! precedes the path; nested: a further
\* directory between dir and the binary; args: an argument tail.
Line == [flag: BOOLEAN, dir: FleetDirs \cup {System, Elsewhere},
         nested: BOOLEAN, bin: Binaries, args: BOOLEAN]

Files == Seq(Line)

-----------------------------------------------------------------------------
(* Rewriting *)

\* extract_binary_name finds a binary: a known directory and nothing between it
\* and the name.  A flag hides the directory from strip_prefix.
Extracts(l) == ~l.flag /\ l.dir \in FleetDirs /\ ~l.nested

RewriteExecStart(l) == IF Extracts(l) THEN [l EXCEPT !.dir = HomeLocal] ELSE l

RewriteUnit(f) == [k \in DOMAIN f |-> RewriteExecStart(f[k])]

\* The sed of reconcile_unit_file: all that is not a space follows the new
\* directory, further directories included.
ReconcileLine(l) ==
    IF ~l.flag /\ l.dir \in ShellDirs THEN [l EXCEPT !.dir = HomeLocal] ELSE l

ReconcileUnit(f) == [k \in DOMAIN f |-> ReconcileLine(f[k])]

-----------------------------------------------------------------------------
(* Judging *)

\* check_unit_convention: /bin is nobody's business, the rest is under
\* %h/.local/bin.  A flag hides either.
Offends(l) == l.flag \/ l.dir \notin {System, HomeLocal}

Compliant(f) == \A k \in DOMAIN f : ~Offends(f[k])

\* expand_specifiers: where the path leads on disk.  %h is expanded, ~ is not.
Place(l) ==
    IF l.nested THEN "nowhere"
    ELSE CASE l.dir \in {HomeLocal, AbsLocal} -> "local"
           [] l.dir \in {HomeCargo, AbsCargo} -> "cargo"
           [] l.dir = UsrLocal                -> "usr"
           [] l.dir = System                  -> "system"
           [] OTHER                           -> "nowhere"

\* check_binary, where bins says which binaries a place holds.
Exists(l, bins) == Place(l) = "system" \/ \E p \in DOMAIN bins : p = Place(l) /\ l.bin \in bins[p]

\* probe_unit and the filter of run_doctor: parse_exec_start takes the first
\* line, without its flag; a unit that has none is no failure.
Missing(f, bins) == f # <<>> /\ ~Exists(f[1], bins)

=============================================================================
