---------------------- MODULE InstallConventionProofs ----------------------
(* What rewriting does, for every binary name and every unit file. *)
EXTENDS InstallConvention, TLAPS

\* A rewritten line is still a line, with the same flag, binary and arguments:
\* rewrite_exec_start changes the directory and nothing else.
LEMMA RewriteLine ==
    ASSUME NEW l \in Line
    PROVE  /\ RewriteExecStart(l) \in Line
           /\ RewriteExecStart(l).bin = l.bin
           /\ RewriteExecStart(l).args = l.args
           /\ RewriteExecStart(l).flag = l.flag
           /\ RewriteExecStart(l).nested = l.nested
           /\ RewriteExecStart(l).dir = IF Extracts(l) THEN HomeLocal ELSE l.dir
  BY DEF Line, RewriteExecStart, Extracts, FleetDirs

\* The same of the sed in install.sh.
LEMMA ReconciledLine ==
    ASSUME NEW l \in Line
    PROVE  /\ ReconcileLine(l) \in Line
           /\ ReconcileLine(l).bin = l.bin
           /\ ReconcileLine(l).args = l.args
           /\ ReconcileLine(l).flag = l.flag
           /\ ReconcileLine(l).nested = l.nested
           /\ ReconcileLine(l).dir =
                IF ~l.flag /\ l.dir \in ShellDirs THEN HomeLocal ELSE l.dir
  BY DEF Line, ReconcileLine, ShellDirs, FleetDirs

-----------------------------------------------------------------------------

\* Rewriting acts on a file line by line and keeps it a file.
LEMMA RewriteFile ==
    ASSUME NEW f \in Files
    PROVE  /\ RewriteUnit(f) \in Files
           /\ DOMAIN RewriteUnit(f) = DOMAIN f
           /\ \A k \in DOMAIN f : f[k] \in Line /\ RewriteUnit(f)[k] = RewriteExecStart(f[k])
<1>1. \A k \in DOMAIN f : f[k] \in Line /\ RewriteExecStart(f[k]) \in Line
  BY RewriteLine DEF Files
<1>2. RewriteUnit(f) \in Seq(Line)
  BY <1>1 DEF RewriteUnit, Files
<1> QED
  BY <1>1, <1>2 DEF RewriteUnit, Files

\* The same of the shell's way.
LEMMA ReconciledFile ==
    ASSUME NEW f \in Files
    PROVE  /\ ReconcileUnit(f) \in Files
           /\ DOMAIN ReconcileUnit(f) = DOMAIN f
           /\ \A k \in DOMAIN f : f[k] \in Line /\ ReconcileUnit(f)[k] = ReconcileLine(f[k])
<1>1. \A k \in DOMAIN f : f[k] \in Line /\ ReconcileLine(f[k]) \in Line
  BY ReconciledLine DEF Files
<1>2. ReconcileUnit(f) \in Seq(Line)
  BY <1>1 DEF ReconcileUnit, Files
<1> QED
  BY <1>1, <1>2 DEF ReconcileUnit, Files

\* "Idempotent: calling twice on an already-correct file returns the same
\* string", and twice on any file the same as once.
THEOREM RewriteIdempotent ==
    ASSUME NEW f \in Files
    PROVE  RewriteUnit(RewriteUnit(f)) = RewriteUnit(f)
<1>1. ASSUME NEW k \in DOMAIN f
      PROVE  RewriteExecStart(RewriteExecStart(f[k])) = RewriteExecStart(f[k])
  <2>1. f[k] \in Line
    BY RewriteFile
  <2>2. CASE Extracts(f[k])
    <3> DEFINE l == RewriteExecStart(f[k])
    <3>1. l = [f[k] EXCEPT !.dir = HomeLocal] /\ l \in Line /\ l.dir = HomeLocal
      BY <2>1, <2>2, RewriteLine DEF RewriteExecStart
    <3>2. [l EXCEPT !.dir = HomeLocal] = l
      BY <3>1 DEF Line
    <3> QED
      BY <3>2 DEF RewriteExecStart
  <2>3. CASE ~Extracts(f[k])
    BY <2>3 DEF RewriteExecStart
  <2> QED
    BY <2>2, <2>3
<1> QED
  BY <1>1 DEF RewriteUnit

\* check_unit_convention has nothing to say about a rewritten file whose paths
\* are plain ones under a directory the convention knows.
THEOREM RewriteComplies ==
    ASSUME NEW f \in Files,
           \A k \in DOMAIN f : /\ ~f[k].flag /\ ~f[k].nested
                               /\ f[k].dir \in FleetDirs \cup {System}
    PROVE  Compliant(RewriteUnit(f))
<1>1. ASSUME NEW k \in DOMAIN f
      PROVE  ~Offends(RewriteExecStart(f[k]))
  <2>1. f[k] \in Line
    BY RewriteFile
  <2> QED
    BY <2>1, RewriteLine DEF Offends, Extracts
<1> QED
  BY <1>1, RewriteFile DEF Compliant

\* The check and both ways of rewriting agree on what needs no change.
THEOREM CompliantIsLeftAlone ==
    ASSUME NEW f \in Files, Compliant(f)
    PROVE  RewriteUnit(f) = f /\ ReconcileUnit(f) = f
<1>1. ASSUME NEW k \in DOMAIN f
      PROVE  RewriteExecStart(f[k]) = f[k] /\ ReconcileLine(f[k]) = f[k]
  <2>1. f[k] \in Line /\ ~Offends(f[k])
    BY RewriteFile DEF Compliant
  <2>2. f[k].dir \in {System, HomeLocal}
    BY <2>1 DEF Offends
  <2>3. f[k].dir = HomeLocal => [f[k] EXCEPT !.dir = HomeLocal] = f[k]
    BY <2>1 DEF Line
  <2>4. f[k].dir = System => ~Extracts(f[k])
    BY DEF Extracts, FleetDirs, System, UsrLocal, HomeLocal, HomeCargo,
           TildeLocal, TildeCargo, AbsLocal, AbsCargo
  <2>5. f[k].dir \notin ShellDirs
    BY <2>2 DEF ShellDirs, System, UsrLocal, HomeLocal, HomeCargo, TildeCargo
  <2> QED
    BY <2>2, <2>3, <2>4, <2>5 DEF RewriteExecStart, ReconcileLine
<1> QED
  BY <1>1, RewriteFile, ReconciledFile DEF RewriteUnit, ReconcileUnit, Files

\* The shell does less than the library but nothing else: what it leaves, the
\* library finishes, with the result it would have had without the shell.
THEOREM ShellAgreesWithLibrary ==
    ASSUME NEW f \in Files, \A k \in DOMAIN f : ~f[k].nested
    PROVE  RewriteUnit(ReconcileUnit(f)) = RewriteUnit(f)
<1>1. ASSUME NEW k \in DOMAIN f
      PROVE  RewriteExecStart(ReconcileLine(f[k])) = RewriteExecStart(f[k])
  <2> DEFINE l == f[k]
  <2>1. l \in Line /\ ~l.nested
    BY RewriteFile
  <2>2. CASE ~l.flag /\ l.dir \in ShellDirs
    <3>1. Extracts(l)
      BY <2>1, <2>2 DEF Extracts, ShellDirs, FleetDirs
    <3>2. ReconcileLine(l) = [l EXCEPT !.dir = HomeLocal]
      BY <2>2 DEF ReconcileLine
    <3>3. RewriteExecStart(l) = [l EXCEPT !.dir = HomeLocal]
      BY <3>1 DEF RewriteExecStart
    <3>4. [[l EXCEPT !.dir = HomeLocal] EXCEPT !.dir = HomeLocal] = [l EXCEPT !.dir = HomeLocal]
      BY <2>1 DEF Line
    <3>5. RewriteExecStart([l EXCEPT !.dir = HomeLocal]) = [l EXCEPT !.dir = HomeLocal]
      BY <3>4 DEF RewriteExecStart
    <3> QED
      BY <3>2, <3>3, <3>5
  <2>3. CASE ~(~l.flag /\ l.dir \in ShellDirs)
    BY <2>3 DEF ReconcileLine
  <2> QED
    BY <2>2, <2>3
<1> QED
  BY <1>1, ReconciledFile DEF RewriteUnit

\* Neither way of rewriting takes away what the doctor found: a unit whose
\* binary is in ~/.local/bin as well stays healthy.
THEOREM RewriteHarmless ==
    ASSUME NEW f \in Files, f # <<>>,
           NEW bins, "local" \in DOMAIN bins, "nowhere" \notin DOMAIN bins,
           f[1].bin \in bins["local"],
           ~Missing(f, bins)
    PROVE  ~Missing(RewriteUnit(f), bins) /\ ~Missing(ReconcileUnit(f), bins)
<1>1. 1 \in DOMAIN f /\ f[1] \in Line
  BY DEF Files
<1>2. Exists(f[1], bins)
  BY DEF Missing
<1>3. ASSUME NEW l \in Line, ~l.nested, l.dir = HomeLocal, l.bin = f[1].bin
      PROVE  Exists(l, bins)
  <2>1. Place(l) = "local"
    BY <1>3 DEF Place, HomeLocal, AbsLocal, HomeCargo, AbsCargo, UsrLocal, System
  <2> QED
    BY <1>3, <2>1 DEF Exists
<1>4. Exists(RewriteExecStart(f[1]), bins)
  <2>1. CASE Extracts(f[1])
    BY <1>1, <1>3, <2>1, RewriteLine DEF Extracts
  <2>2. CASE ~Extracts(f[1])
    BY <1>2, <2>2 DEF RewriteExecStart
  <2> QED
    BY <2>1, <2>2
<1>5. Exists(ReconcileLine(f[1]), bins)
  <2>1. ~f[1].nested
    <3>1. SUFFICES ASSUME f[1].nested PROVE FALSE
      OBVIOUS
    <3>2. Place(f[1]) = "nowhere"
      BY <3>1 DEF Place
    <3> QED
      BY <1>2, <3>2 DEF Exists
  <2>2. CASE ~f[1].flag /\ f[1].dir \in ShellDirs
    BY <1>1, <1>3, <2>1, <2>2, ReconciledLine
  <2>3. CASE ~(~f[1].flag /\ f[1].dir \in ShellDirs)
    BY <1>2, <2>3 DEF ReconcileLine
  <2> QED
    BY <2>2, <2>3
<1>6. RewriteUnit(f)[1] = RewriteExecStart(f[1]) /\ ReconcileUnit(f)[1] = ReconcileLine(f[1])
  BY <1>1 DEF RewriteUnit, ReconcileUnit
<1> QED
  BY <1>4, <1>5, <1>6 DEF Missing

=============================================================================
