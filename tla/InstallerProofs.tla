-------------------------- MODULE InstallerProofs --------------------------
(***************************************************************************)
(* Proofs about Installer, for any users, units, companions and bounds.    *)
(***************************************************************************)
EXTENDS Installer, InstallConventionProofs, TLAPS

\* Every mode has its own commands.
ModeSteps ==
    [dev |-> {"idle", "cargo-install", "reconcile", "install-system", "doctor"},
     kiosk |-> {"idle", "install-binaries", "greetd-config", "enable-linger", "tmpfiles-rule",
                "recovery-service", "installed-marker", "enable-user-target"},
     uninstall |-> {"idle", "remove-recovery-service", "remove-greetd-config",
                    "remove-tmpfiles-rule", "disable-linger"}]

StepOK == step \in ModeSteps[mode]

-----------------------------------------------------------------------------
(* Types *)

\* A command that leaves a disk leaves the rest of the state in its type, in
\* whatever step it is, if the next step is one of the mode's.
LEMMA CommandType ==
    ASSUME TypeOK, NEW here, NEW effect \in Disk, NEW ok \in BOOLEAN, NEW next,
           here # "idle", Command(here, effect, ok, next)
    PROVE  TypeOK'
<1>1. disk' \in Disk
  BY DEF Command
<1>2. UNCHANGED <<flags, worked, seen, settled, runs, edits>>
  BY DEF Command
<1>3. outcome' \in {"none", "dry", "interrupted", "complete", "failed", "ungated",
                    "kiosk", "uninstalled"}
      /\ (step' # "idle" => outcome' = "none")
  BY DEF TypeOK, Command
<1>4. smooth' \in BOOLEAN /\ faults' \in 0..MaxFaults
  <2>1. CASE ok
    BY <2>1 DEF TypeOK, Command
  <2>2. CASE ~ok
    <3>1. /\ faults \in 0..MaxFaults /\ MaxFaults \in Nat
          /\ faults < MaxFaults /\ faults' = faults + 1
      BY <2>2, InstallerAssumption DEF TypeOK, Command
    <3>2. smooth' = FALSE
      BY <2>2 DEF Command
    <3>3. faults' \in 0..MaxFaults
      BY <3>1
    <3> QED
      BY <3>2, <3>3
  <2> QED
    BY <2>1, <2>2
<1> QED
  BY <1>1, <1>2, <1>3, <1>4 DEF TypeOK, flags

\* The same for commands that do their work or nothing.
LEMMA WholeType ==
    ASSUME TypeOK, NEW here, NEW effect \in Disk, NEW next,
           here # "idle", Whole(here, effect, next)
    PROVE  TypeOK'
<1>1. PICK ok \in BOOLEAN : Command(here, IF ok THEN effect ELSE disk, ok, next)
  BY DEF Whole
<1>2. (IF ok THEN effect ELSE disk) \in Disk
  BY DEF TypeOK
<1> QED
  BY <1>1, <1>2, CommandType

\* An edit that leaves a disk is no threat to the types.
LEMMA EditType ==
    ASSUME TypeOK, NEW d \in Disk, Edit(d)
    PROVE  TypeOK'
<1>1. /\ disk' \in Disk /\ step' = step /\ step = "idle" /\ outcome' = "none"
      /\ seen' = {} /\ settled' = FALSE
  BY DEF Edit
<1>2. UNCHANGED <<flags, smooth, worked, faults, runs>>
  BY DEF Edit
<1>3. edits \in 0..MaxEdits /\ edits < MaxEdits /\ edits' = edits + 1 /\ MaxEdits \in Nat
  BY InstallerAssumption DEF TypeOK, Edit
<1>4. edits' \in 0..MaxEdits
  BY <1>3
<1> QED
  BY <1>1, <1>2, <1>4 DEF TypeOK, flags

\* What the commands of the three scripts leave is a disk, in a dry run too.
LEMMA EffectTypes ==
    ASSUME disk \in Disk, user \in Users
    PROVE  /\ Runit([disk EXCEPT !.bins["local"] = @ \cup Owned]) \in Disk
           /\ \A done \in SUBSET Units : Reconciled(done) \in Disk
           /\ \A k \in 0..Len(Artifacts) :
                Runit([disk EXCEPT !.shipped = @ \cup {Artifacts[i] : i \in 1..k}]) \in Disk
           /\ \A done \in SUBSET Owned :
                Wet(Runit([disk EXCEPT !.bins["usr"] = @ \cup done])) \in Disk
           /\ Wet(Runit(disk)) \in Disk
           /\ Runit([disk EXCEPT !.linger = @ \cup {user}]) \in Disk
           /\ Runit([disk EXCEPT !.linger = @ \ {user}]) \in Disk
           /\ Wet(Runit([disk EXCEPT !.tmpfiles = user])) \in Disk
           /\ Runit([disk EXCEPT !.tmpfiles = "none"]) \in Disk
           /\ Wet(Runit([disk EXCEPT !.recovery = user])) \in Disk
           /\ Runit([disk EXCEPT !.recovery = "none"]) \in Disk
           /\ Wet(Runit([disk EXCEPT !.marker = TRUE])) \in Disk
           /\ Wet(Runit(IF Artifacts[1] \in disk.shipped
                        THEN [disk EXCEPT !.enabled = @ \cup {user}] ELSE disk)) \in Disk
           /\ Runit([disk EXCEPT !.greetd = "none"]) \in Disk
<1>0. ASSUME NEW d \in Disk
      PROVE  Runit(d) \in Disk /\ Wet(Runit(d)) \in Disk
  BY DEF Runit, Wet
<1>1. [disk EXCEPT !.bins["local"] = @ \cup Owned] \in Disk
  BY InstallerAssumption DEF Disk
<1>2. ASSUME NEW done \in SUBSET Units
      PROVE  Reconciled(done) \in Disk
  <2>1. \A u \in Units : disk.units[u] \in Files /\ ReconcileUnitFile(disk.units[u]) \in Files
    BY ReconciledFile DEF Disk, ReconcileUnitFile
  <2> QED
    BY <2>1 DEF Disk, Reconciled
<1>3. ASSUME NEW k \in 0..Len(Artifacts)
      PROVE  [disk EXCEPT !.shipped = @ \cup {Artifacts[i] : i \in 1..k}] \in Disk
  <2>1. {Artifacts[i] : i \in 1..k} \subseteq {Artifacts[1], Artifacts[2]}
    BY DEF Artifacts
  <2> QED
    BY <2>1 DEF Disk
<1>4. ASSUME NEW done \in SUBSET Owned
      PROVE  [disk EXCEPT !.bins["usr"] = @ \cup done] \in Disk
  BY InstallerAssumption DEF Disk
<1>5. /\ [disk EXCEPT !.linger = @ \cup {user}] \in Disk
      /\ [disk EXCEPT !.linger = @ \ {user}] \in Disk
  BY DEF Disk
<1>6. /\ [disk EXCEPT !.tmpfiles = user] \in Disk
      /\ [disk EXCEPT !.tmpfiles = "none"] \in Disk
      /\ [disk EXCEPT !.recovery = user] \in Disk
      /\ [disk EXCEPT !.recovery = "none"] \in Disk
      /\ [disk EXCEPT !.marker = TRUE] \in Disk
      /\ [disk EXCEPT !.greetd = "none"] \in Disk
  BY DEF Disk
<1>7. (IF Artifacts[1] \in disk.shipped
       THEN [disk EXCEPT !.enabled = @ \cup {user}] ELSE disk) \in Disk
  BY DEF Disk
<1>8. /\ Runit([disk EXCEPT !.bins["local"] = @ \cup Owned]) \in Disk
      /\ Wet(Runit(disk)) \in Disk
  BY <1>0, <1>1
<1>9. \A k \in 0..Len(Artifacts) :
         Runit([disk EXCEPT !.shipped = @ \cup {Artifacts[i] : i \in 1..k}]) \in Disk
  BY <1>0, <1>3
<1>10. \A done \in SUBSET Owned :
         Wet(Runit([disk EXCEPT !.bins["usr"] = @ \cup done])) \in Disk
  BY <1>0, <1>4
<1>11. /\ Runit([disk EXCEPT !.linger = @ \cup {user}]) \in Disk
       /\ Runit([disk EXCEPT !.linger = @ \ {user}]) \in Disk
  BY <1>0, <1>5
<1>12. /\ Wet(Runit([disk EXCEPT !.tmpfiles = user])) \in Disk
       /\ Runit([disk EXCEPT !.tmpfiles = "none"]) \in Disk
       /\ Wet(Runit([disk EXCEPT !.recovery = user])) \in Disk
       /\ Runit([disk EXCEPT !.recovery = "none"]) \in Disk
       /\ Wet(Runit([disk EXCEPT !.marker = TRUE])) \in Disk
       /\ Runit([disk EXCEPT !.greetd = "none"]) \in Disk
  BY <1>0, <1>6
<1>13. Wet(Runit(IF Artifacts[1] \in disk.shipped
                 THEN [disk EXCEPT !.enabled = @ \cup {user}] ELSE disk)) \in Disk
  BY <1>0, <1>7
<1> QED
  BY <1>2, <1>8, <1>9, <1>10, <1>11, <1>12, <1>13

\* In every reachable state the disk holds what it can hold and the rest of the
\* state has its type, for any users, companions and bounds.
THEOREM InstallerTypeCorrect == Spec => []TypeOK
<1>1. Init => TypeOK
  <2> SUFFICES ASSUME Init PROVE TypeOK
    OBVIOUS
  <2>1. disk \in Disk
    <3>1. PICK g \in {"none", "distro"} :
            disk = [bins |-> [p \in {"local", "cargo", "usr"} |-> {}],
                    units |-> [u \in Units |-> <<>>], shipped |-> {}, greetd |-> g,
                    linger |-> {}, tmpfiles |-> "none", recovery |-> "none",
                    marker |-> FALSE, enabled |-> {}]
      BY DEF Init
    <3>2. [u \in Units |-> <<>>] \in [Units -> Files]
      BY DEF Files
    <3>3. [p \in {"local", "cargo", "usr"} |-> {}] \in [{"local", "cargo", "usr"} -> SUBSET Binaries]
      OBVIOUS
    <3> QED
      BY <3>1, <3>2, <3>3 DEF Disk
  <2>2. faults \in 0..MaxFaults /\ runs \in 0..MaxRuns /\ edits \in 0..MaxEdits
    BY InstallerAssumption DEF Init
  <2> QED
    BY <2>1, <2>2 DEF Init, TypeOK
<1>2. TypeOK /\ [Next]_vars => TypeOK'
  <2> SUFFICES ASSUME TypeOK, [Next]_vars PROVE TypeOK'
    OBVIOUS
  <2>0. disk \in Disk /\ user \in Users
    BY DEF TypeOK
  <2>1. ASSUME NEW m \in DOMAIN FirstStep, NEW u \in Users, NEW d \in BOOLEAN, Start(m, u, d)
        PROVE  TypeOK'
    <3>1. runs \in 0..MaxRuns /\ runs < MaxRuns /\ runs' = runs + 1 /\ MaxRuns \in Nat
      BY <2>1, InstallerAssumption DEF Start, TypeOK
    <3>2. runs' \in 0..MaxRuns
      BY <3>1
    <3>3. m \in {"dev", "kiosk", "uninstall"}
      BY DEF FirstStep
    <3>4. worked' \subseteq Units
      BY <2>1 DEF Start, Runnable
    <3>5. settled' \in BOOLEAN
      BY <2>1 DEF Start
    <3>6. smooth' = TRUE /\ outcome' = "none" /\ dry' = d /\ mode' = m /\ user' = u
      BY <2>1 DEF Start
    <3>7. UNCHANGED <<disk, faults, edits>> /\ seen' = {}
      BY <2>1 DEF Start
    <3> QED
      BY <3>2, <3>3, <3>4, <3>5, <3>6, <3>7 DEF TypeOK
  <2>2. CASE CargoInstall
    BY <2>0, <2>2, EffectTypes, WholeType DEF CargoInstall
  <2>3. CASE Reconcile
    <3>1. PICK done \in SUBSET Units :
            Command("reconcile", Reconciled(done), done = Units, "install-system")
      BY <2>3 DEF Reconcile
    <3> QED
      BY <2>0, <3>1, EffectTypes, CommandType
  <2>4. CASE InstallSystem
    <3>1. PICK k \in 0..Len(Artifacts) :
            Command("install-system",
                Runit([disk EXCEPT !.shipped = @ \cup {Artifacts[i] : i \in 1..k}]),
                k = Len(Artifacts), "doctor")
      BY <2>4 DEF InstallSystem
    <3> QED
      BY <2>0, <3>1, EffectTypes, CommandType
  <2>5. CASE Ungated
    <3>1. outcome' \in {"dry", "ungated"} /\ step' = "idle" /\ settled' \in BOOLEAN
      BY <2>5 DEF Ungated
    <3>2. UNCHANGED <<disk, flags, smooth, worked, seen, bounds>>
      BY <2>5 DEF Ungated
    <3> QED
      BY <3>1, <3>2 DEF TypeOK, flags, bounds
  <2>21. CASE Doctor
    <3>1. PICK shown \in SUBSET Units :
            /\ step' = "idle" /\ seen' = shown
            /\ outcome' = IF Failures(shown) # {} THEN "failed" ELSE "complete"
            /\ IF shown = Units THEN UNCHANGED <<smooth, faults>>
                                ELSE /\ faults < MaxFaults
                                     /\ smooth' = FALSE /\ faults' = faults + 1
            /\ settled' = (outcome' = "complete" /\ (smooth' \/ settled))
            /\ UNCHANGED <<disk, flags, worked, runs, edits>>
      BY <2>21 DEF Doctor
    <3>2. smooth' \in BOOLEAN /\ faults' \in 0..MaxFaults
      <4>1. smooth \in BOOLEAN /\ faults \in 0..MaxFaults /\ MaxFaults \in Nat
        BY InstallerAssumption DEF TypeOK
      <4>2. CASE shown = Units
        BY <3>1, <4>1, <4>2
      <4>3. CASE shown # Units
        <5>1. faults < MaxFaults /\ smooth' = FALSE /\ faults' = faults + 1
          BY <3>1, <4>3
        <5>2. faults' \in 0..MaxFaults
          BY <4>1, <5>1
        <5> QED
          BY <5>1, <5>2
      <4> QED
        BY <4>2, <4>3
    <3>3. settled' \in BOOLEAN
      BY <3>1
    <3>4. outcome' \in {"failed", "complete"}
      BY <3>1
    <3> QED
      BY <3>1, <3>2, <3>3, <3>4 DEF TypeOK, flags
  <2>6. CASE InstallBinaries
    <3>1. PICK done \in SUBSET Owned :
            Command("install-binaries", Wet(Runit([disk EXCEPT !.bins["usr"] = @ \cup done])),
                    done = Owned, "greetd-config")
      BY <2>6 DEF InstallBinaries
    <3> QED
      BY <2>0, <3>1, EffectTypes, CommandType
  <2>7. CASE GreetdConfig
    BY <2>0, <2>7, EffectTypes, CommandType DEF GreetdConfig
  <2>8. CASE EnableLinger
    BY <2>0, <2>8, EffectTypes, WholeType DEF EnableLinger
  <2>9. CASE TmpfilesRule
    BY <2>0, <2>9, EffectTypes, WholeType DEF TmpfilesRule
  <2>10. CASE RecoveryService
    BY <2>0, <2>10, EffectTypes, WholeType DEF RecoveryService
  <2>11. CASE InstalledMarker
    BY <2>0, <2>11, EffectTypes, WholeType DEF InstalledMarker
  <2>12. CASE EnableUserTarget
    BY <2>0, <2>12, EffectTypes, WholeType DEF EnableUserTarget
  <2>13. CASE RemoveRecoveryService
    BY <2>0, <2>13, EffectTypes, WholeType DEF RemoveRecoveryService
  <2>14. CASE RemoveGreetdConfig
    BY <2>0, <2>14, EffectTypes, WholeType DEF RemoveGreetdConfig
  <2>15. CASE RemoveTmpfilesRule
    BY <2>0, <2>15, EffectTypes, WholeType DEF RemoveTmpfilesRule
  <2>16. CASE DisableLinger
    BY <2>0, <2>16, EffectTypes, WholeType DEF DisableLinger
  <2>17. CASE Interrupted
    <3>1. /\ faults \in 0..MaxFaults /\ MaxFaults \in Nat
          /\ faults < MaxFaults /\ faults' = faults + 1
      BY <2>17, InstallerAssumption DEF Interrupted, TypeOK
    <3>2. faults' \in 0..MaxFaults
      BY <3>1
    <3>3. step' = "idle" /\ outcome' = "interrupted" /\ smooth' = FALSE
      BY <2>17 DEF Interrupted
    <3>4. UNCHANGED <<disk, flags, worked, seen, settled, runs, edits>>
      BY <2>17 DEF Interrupted
    <3> QED
      BY <3>2, <3>3, <3>4 DEF TypeOK, flags
  <2>18. CASE CompanionInstalled
    <3>1. PICK c \in Provided :
            Edit([disk EXCEPT !.units[c.unit] = c.file, !.bins[c.place] = @ \cup {c.unit}])
      BY <2>18 DEF CompanionInstalled
    <3>2. c.unit \in Units /\ c.unit \in Binaries /\ c.file \in Files
          /\ c.place \in {"local", "cargo", "usr"}
      BY InstallerAssumption
    <3>3. [disk EXCEPT !.units[c.unit] = c.file, !.bins[c.place] = @ \cup {c.unit}] \in Disk
      BY <2>0, <3>2 DEF Disk
    <3> QED
      BY <3>1, <3>3, EditType
  <2>19. CASE GreetdByHand
    <3>1. PICK u \in Users : Edit([disk EXCEPT !.greetd = u])
      BY <2>19 DEF GreetdByHand
    <3>2. [disk EXCEPT !.greetd = u] \in Disk
      BY <2>0 DEF Disk
    <3> QED
      BY <3>1, <3>2, EditType
  <2>20. CASE UNCHANGED vars
    BY <2>20 DEF vars, flags, bounds, TypeOK
  <2> QED
    BY <2>1, <2>2, <2>3, <2>4, <2>5, <2>6, <2>7, <2>8, <2>9, <2>10, <2>11, <2>12, <2>13,
       <2>14, <2>15, <2>16, <2>17, <2>18, <2>19, <2>20, <2>21
       DEF Next, DevInstall, KioskInstall, KioskUninstall
<1> QED
  BY <1>1, <1>2, PTL DEF Spec

-----------------------------------------------------------------------------
(* What a run without failing commands has done at each of its commands *)

\* The wiring that an uninstall has removed, and a kiosk install has written,
\* before its next command.
Progress ==
    smooth /\ ~dry =>
        /\ step \in {"remove-greetd-config", "remove-tmpfiles-rule", "disable-linger"}
              => disk.recovery = "none"
        /\ step \in {"remove-tmpfiles-rule", "disable-linger"} => disk.greetd \notin Users
        /\ step = "disable-linger" => disk.tmpfiles = "none"
        /\ step \in {"greetd-config", "enable-linger", "tmpfiles-rule", "recovery-service",
                     "installed-marker", "enable-user-target"}
              => Owned \subseteq disk.bins["usr"]
        /\ step \in {"tmpfiles-rule", "recovery-service", "installed-marker",
                     "enable-user-target"} => user \in disk.linger
        /\ step \in {"recovery-service", "installed-marker", "enable-user-target"}
              => disk.tmpfiles = user
        /\ step \in {"installed-marker", "enable-user-target"} => disk.recovery = user
        /\ step = "enable-user-target" => disk.marker = TRUE

WiringInv == TypeOK /\ StepOK /\ Progress /\ UninstallReverts /\ KioskRepairs

\* A command changes its step; if the run is still without failures after it,
\* the run was so before, and the command has done its work.
LEMMA CommandDone ==
    ASSUME TypeOK, NEW here, NEW effect, NEW ok \in BOOLEAN, NEW next,
           here # "idle", Command(here, effect, ok, next)
    PROVE  /\ step = here /\ step' = next /\ mode' = mode /\ user' = user /\ dry' = dry
           /\ smooth' => smooth /\ ok
           /\ disk' = effect
           /\ next # "idle" => outcome' = "none"
           /\ next = "idle" => outcome' = IF dry THEN "dry"
                                          ELSE IF mode = "kiosk" THEN "kiosk" ELSE "uninstalled"
<1>1. step = here /\ step' = next /\ mode' = mode /\ user' = user /\ dry' = dry
  BY DEF Command, flags
<1>2. smooth' => smooth /\ ok
  BY DEF Command
<1>3. disk' = effect
  BY DEF Command
<1>4. outcome = "none"
  BY <1>1 DEF TypeOK
<1>5. outcome' = IF next # "idle" THEN outcome
                 ELSE IF dry THEN "dry"
                 ELSE IF mode = "kiosk" THEN "kiosk" ELSE "uninstalled"
  BY DEF Command
<1> QED
  BY <1>1, <1>2, <1>3, <1>4, <1>5

\* The same for commands that do their work or nothing.
LEMMA WholeDone ==
    ASSUME TypeOK, NEW here, NEW effect, NEW next,
           here # "idle", Whole(here, effect, next)
    PROVE  /\ step = here /\ step' = next /\ mode' = mode /\ user' = user /\ dry' = dry
           /\ smooth' => smooth /\ disk' = effect
           /\ next # "idle" => outcome' = "none"
           /\ next = "idle" => outcome' = IF dry THEN "dry"
                                          ELSE IF mode = "kiosk" THEN "kiosk" ELSE "uninstalled"
<1>1. PICK ok \in BOOLEAN : Command(here, IF ok THEN effect ELSE disk, ok, next)
  BY DEF Whole
<1>2. smooth' => smooth /\ ok
  BY <1>1, CommandDone
<1>3. disk' = IF ok THEN effect ELSE disk
  BY <1>1, CommandDone
<1> QED
  BY <1>1, <1>2, <1>3, CommandDone

\* WiringInv is inductive.
LEMMA WiringStep == WiringInv /\ TypeOK' /\ [Next]_vars => WiringInv'
<1> SUFFICES ASSUME WiringInv, TypeOK', [Next]_vars PROVE WiringInv'
  OBVIOUS
<1>0. /\ TypeOK /\ StepOK /\ Progress /\ TypeOK' /\ disk \in Disk
      /\ smooth \in BOOLEAN /\ dry \in BOOLEAN
  BY DEF WiringInv, TypeOK
<1>1. ASSUME NEW m \in DOMAIN FirstStep, NEW u \in Users, NEW d \in BOOLEAN, Start(m, u, d)
      PROVE  WiringInv'
  <2>1. mode' = m /\ step' = FirstStep[m] /\ outcome' = "none"
    BY <1>1 DEF Start
  <2>2. StepOK'
    BY <2>1 DEF StepOK, FirstStep, ModeSteps
  <2>3. Progress'
    BY <2>1 DEF Progress, FirstStep
  <2> QED
    BY <1>0, <2>1, <2>2, <2>3 DEF WiringInv, UninstallReverts, KioskRepairs
<1>2. CASE CargoInstall
  <2>1. /\ step = "cargo-install" /\ step' = "reconcile"
        /\ mode' = mode /\ user' = user /\ dry' = dry /\ outcome' = "none"
        /\ smooth' /\ ~dry => smooth /\ disk' = [disk EXCEPT !.bins["local"] = @ \cup Owned]
    BY <1>0, <1>2, WholeDone DEF CargoInstall, Runit, Wet
  <2>2. mode = "dev"
    BY <1>0, <2>1 DEF StepOK, ModeSteps, TypeOK
  <2>3. Progress'
    BY <1>0, <2>1 DEF Progress
  <2>4. StepOK'
    BY <2>1, <2>2 DEF StepOK, ModeSteps
  <2> QED
    BY <1>0, <2>1, <2>3, <2>4 DEF WiringInv, UninstallReverts, KioskRepairs
<1>3. CASE Reconcile
  <2>1. PICK done \in SUBSET Units :
          Command("reconcile", Reconciled(done), done = Units, "install-system")
    BY <1>3 DEF Reconcile
  <2>2. /\ step = "reconcile" /\ step' = "install-system"
        /\ mode' = mode /\ user' = user /\ dry' = dry /\ outcome' = "none"
    BY <1>0, <2>1 DEF Command, flags, TypeOK
  <2>3. mode = "dev"
    BY <1>0, <2>2 DEF StepOK, ModeSteps, TypeOK
  <2>4. StepOK'
    BY <2>2, <2>3 DEF StepOK, ModeSteps
  <2>5. Progress'
    BY <2>2 DEF Progress
  <2> QED
    BY <1>0, <2>2, <2>4, <2>5 DEF WiringInv, UninstallReverts, KioskRepairs
<1>4. CASE InstallSystem
  <2>1. PICK k \in 0..Len(Artifacts) :
          Command("install-system",
              Runit([disk EXCEPT !.shipped = @ \cup {Artifacts[i] : i \in 1..k}]),
              k = Len(Artifacts), "doctor")
    BY <1>4 DEF InstallSystem
  <2>2. /\ step = "install-system" /\ step' = "doctor"
        /\ mode' = mode /\ user' = user /\ dry' = dry /\ outcome' = "none"
    BY <1>0, <2>1 DEF Command, flags, TypeOK
  <2>3. mode = "dev"
    BY <1>0, <2>2 DEF StepOK, ModeSteps, TypeOK
  <2>4. StepOK'
    BY <2>2, <2>3 DEF StepOK, ModeSteps
  <2>5. Progress'
    BY <2>2 DEF Progress
  <2> QED
    BY <1>0, <2>2, <2>4, <2>5 DEF WiringInv, UninstallReverts, KioskRepairs
<1>5. CASE Ungated \/ Doctor
  <2>1. /\ step' = "idle" /\ outcome' \in {"dry", "ungated", "failed", "complete"}
        /\ mode' = mode
    BY <1>5 DEF Ungated, Doctor, flags
  <2>2. StepOK'
    BY <1>0, <2>1 DEF StepOK, ModeSteps, TypeOK
  <2>3. Progress'
    BY <2>1 DEF Progress
  <2> QED
    BY <1>0, <2>1, <2>2, <2>3 DEF WiringInv, UninstallReverts, KioskRepairs
<1>6. CASE InstallBinaries
  <2>1. PICK done \in SUBSET Owned :
          Command("install-binaries", Wet(Runit([disk EXCEPT !.bins["usr"] = @ \cup done])),
                  done = Owned, "greetd-config")
    BY <1>6 DEF InstallBinaries
  <2>2. /\ step = "install-binaries" /\ step' = "greetd-config"
        /\ mode' = mode /\ user' = user /\ dry' = dry /\ outcome' = "none"
        /\ smooth' => smooth /\ done = Owned
        /\ ~dry => disk' = [disk EXCEPT !.bins["usr"] = @ \cup done]
    <3>1. /\ step = "install-binaries" /\ step' = "greetd-config"
          /\ mode' = mode /\ user' = user /\ dry' = dry /\ outcome' = "none"
      BY <1>0, <2>1 DEF Command, flags, TypeOK
    <3>2. smooth' => smooth /\ done = Owned
      BY <2>1 DEF Command
    <3>3. ~dry => disk' = [disk EXCEPT !.bins["usr"] = @ \cup done]
      BY <2>1 DEF Command, Runit, Wet
    <3> QED
      BY <3>1, <3>2, <3>3
  <2>3. mode = "kiosk"
    BY <1>0, <2>2 DEF StepOK, ModeSteps, TypeOK
  <2>4. StepOK'
    BY <2>2, <2>3 DEF StepOK, ModeSteps
  <2>5. smooth' /\ ~dry => Owned \subseteq disk'.bins["usr"]
    BY <1>0, <2>2 DEF Disk
  <2>6. Progress'
    BY <2>2, <2>5 DEF Progress
  <2> QED
    BY <1>0, <2>2, <2>4, <2>6 DEF WiringInv, UninstallReverts, KioskRepairs
<1>7. CASE GreetdConfig
  <2>1. /\ step = "greetd-config" /\ step' = "enable-linger"
        /\ mode' = mode /\ user' = user /\ dry' = dry /\ outcome' = "none"
        /\ smooth' => smooth
        /\ ~dry => disk' = disk
    <3>1. /\ step = "greetd-config" /\ step' = "enable-linger"
          /\ mode' = mode /\ user' = user /\ dry' = dry /\ outcome' = "none"
      BY <1>0, <1>7 DEF GreetdConfig, Command, flags, TypeOK
    <3>2. smooth' => smooth
      BY <1>7 DEF GreetdConfig, Command
    <3>3. ~dry => disk' = disk
      BY <1>7 DEF GreetdConfig, Command, Runit, Wet
    <3> QED
      BY <3>1, <3>2, <3>3
  <2>2. mode = "kiosk"
    BY <1>0, <2>1 DEF StepOK, ModeSteps, TypeOK
  <2>3. StepOK'
    BY <2>1, <2>2 DEF StepOK, ModeSteps
  <2>4. Progress'
    BY <1>0, <2>1 DEF Progress
  <2> QED
    BY <1>0, <2>1, <2>3, <2>4 DEF WiringInv, UninstallReverts, KioskRepairs
<1>8. CASE EnableLinger
  <2>1. /\ step = "enable-linger" /\ step' = "tmpfiles-rule"
        /\ mode' = mode /\ user' = user /\ dry' = dry /\ outcome' = "none"
        /\ smooth' /\ ~dry => smooth /\ disk' = [disk EXCEPT !.linger = @ \cup {user}]
    BY <1>0, <1>8, WholeDone DEF EnableLinger, Runit, Wet
  <2>2. mode = "kiosk"
    BY <1>0, <2>1 DEF StepOK, ModeSteps, TypeOK
  <2>3. Progress'
    BY <1>0, <2>1 DEF Progress, Disk
  <2>4. StepOK'
    BY <2>1, <2>2 DEF StepOK, ModeSteps
  <2> QED
    BY <1>0, <2>1, <2>3, <2>4 DEF WiringInv, UninstallReverts, KioskRepairs
<1>9. CASE TmpfilesRule
  <2>1. /\ step = "tmpfiles-rule" /\ step' = "recovery-service"
        /\ mode' = mode /\ user' = user /\ dry' = dry /\ outcome' = "none"
        /\ smooth' /\ ~dry => smooth /\ disk' = [disk EXCEPT !.tmpfiles = user]
    BY <1>0, <1>9, WholeDone DEF TmpfilesRule, Runit, Wet
  <2>2. mode = "kiosk"
    BY <1>0, <2>1 DEF StepOK, ModeSteps, TypeOK
  <2>3. Progress'
    BY <1>0, <2>1 DEF Progress, Disk
  <2>4. StepOK'
    BY <2>1, <2>2 DEF StepOK, ModeSteps
  <2> QED
    BY <1>0, <2>1, <2>3, <2>4 DEF WiringInv, UninstallReverts, KioskRepairs
<1>10. CASE RecoveryService
  <2>1. /\ step = "recovery-service" /\ step' = "installed-marker"
        /\ mode' = mode /\ user' = user /\ dry' = dry /\ outcome' = "none"
        /\ smooth' /\ ~dry => smooth /\ disk' = [disk EXCEPT !.recovery = user]
    BY <1>0, <1>10, WholeDone DEF RecoveryService, Runit, Wet
  <2>2. mode = "kiosk"
    BY <1>0, <2>1 DEF StepOK, ModeSteps, TypeOK
  <2>3. Progress'
    BY <1>0, <2>1 DEF Progress, Disk
  <2>4. StepOK'
    BY <2>1, <2>2 DEF StepOK, ModeSteps
  <2> QED
    BY <1>0, <2>1, <2>3, <2>4 DEF WiringInv, UninstallReverts, KioskRepairs
<1>11. CASE InstalledMarker
  <2>1. /\ step = "installed-marker" /\ step' = "enable-user-target"
        /\ mode' = mode /\ user' = user /\ dry' = dry /\ outcome' = "none"
        /\ smooth' /\ ~dry => smooth /\ disk' = [disk EXCEPT !.marker = TRUE]
    BY <1>0, <1>11, WholeDone DEF InstalledMarker, Runit, Wet
  <2>2. mode = "kiosk"
    BY <1>0, <2>1 DEF StepOK, ModeSteps, TypeOK
  <2>3. Progress'
    BY <1>0, <2>1 DEF Progress, Disk
  <2>4. StepOK'
    BY <2>1, <2>2 DEF StepOK, ModeSteps
  <2> QED
    BY <1>0, <2>1, <2>3, <2>4 DEF WiringInv, UninstallReverts, KioskRepairs
<1>12. CASE EnableUserTarget
  <2> DEFINE effect == IF Artifacts[1] \in disk.shipped
                       THEN [disk EXCEPT !.enabled = @ \cup {user}] ELSE disk
  <2>1. /\ step = "enable-user-target" /\ step' = "idle"
        /\ mode' = mode /\ user' = user /\ dry' = dry
        /\ smooth' /\ ~dry => smooth /\ disk' = effect
        /\ outcome' = IF dry THEN "dry" ELSE IF mode = "kiosk" THEN "kiosk" ELSE "uninstalled"
    BY <1>0, <1>12, WholeDone DEF EnableUserTarget, Runit, Wet
  <2>2. mode = "kiosk"
    BY <1>0, <2>1 DEF StepOK, ModeSteps, TypeOK
  <2>3. StepOK' /\ Progress'
    BY <2>1, <2>2 DEF StepOK, ModeSteps, Progress
  <2>4. outcome' \in {"dry", "kiosk"} /\ (outcome' = "kiosk" => ~dry)
    BY <2>1, <2>2
  <2>5. ASSUME smooth', ~dry
        PROVE  /\ user \in disk'.linger /\ disk'.tmpfiles = user /\ disk'.recovery = user
               /\ disk'.marker = TRUE /\ Owned \subseteq disk'.bins["usr"]
               /\ Artifacts[1] \in disk'.shipped => user \in disk'.enabled
    <3>1. /\ user \in disk.linger /\ disk.tmpfiles = user /\ disk.recovery = user
          /\ disk.marker = TRUE /\ Owned \subseteq disk.bins["usr"]
      BY <1>0, <2>1, <2>5 DEF Progress
    <3>2. disk' = effect
      BY <2>1, <2>5
    <3> QED
      BY <1>0, <3>1, <3>2 DEF Disk
  <2>6. UninstallReverts'
    BY <2>4 DEF UninstallReverts
  <2>7. KioskRepairs'
    BY <2>1, <2>4, <2>5 DEF KioskRepairs
  <2> QED
    BY <1>0, <2>3, <2>6, <2>7 DEF WiringInv
<1>13. CASE RemoveRecoveryService
  <2>1. /\ step = "remove-recovery-service" /\ step' = "remove-greetd-config"
        /\ mode' = mode /\ user' = user /\ dry' = dry /\ outcome' = "none"
        /\ smooth' /\ ~dry => smooth /\ disk' = [disk EXCEPT !.recovery = "none"]
    BY <1>0, <1>13, WholeDone DEF RemoveRecoveryService, Runit, Wet
  <2>2. mode = "uninstall"
    BY <1>0, <2>1 DEF StepOK, ModeSteps, TypeOK
  <2>3. Progress'
    BY <1>0, <2>1 DEF Progress, Disk
  <2>4. StepOK'
    BY <2>1, <2>2 DEF StepOK, ModeSteps
  <2> QED
    BY <1>0, <2>1, <2>3, <2>4 DEF WiringInv, UninstallReverts, KioskRepairs
<1>14. CASE RemoveGreetdConfig
  <2>1. /\ step = "remove-greetd-config" /\ step' = "remove-tmpfiles-rule"
        /\ mode' = mode /\ user' = user /\ dry' = dry /\ outcome' = "none"
        /\ smooth' /\ ~dry => smooth /\ disk' = [disk EXCEPT !.greetd = "none"]
    BY <1>0, <1>14, WholeDone DEF RemoveGreetdConfig, Runit, Wet
  <2>2. mode = "uninstall"
    BY <1>0, <2>1 DEF StepOK, ModeSteps, TypeOK
  <2>3. Progress'
    BY <1>0, <2>1, InstallerAssumption DEF Progress, Disk
  <2>4. StepOK'
    BY <2>1, <2>2 DEF StepOK, ModeSteps
  <2> QED
    BY <1>0, <2>1, <2>3, <2>4 DEF WiringInv, UninstallReverts, KioskRepairs
<1>15. CASE RemoveTmpfilesRule
  <2>1. /\ step = "remove-tmpfiles-rule" /\ step' = "disable-linger"
        /\ mode' = mode /\ user' = user /\ dry' = dry /\ outcome' = "none"
        /\ smooth' /\ ~dry => smooth /\ disk' = [disk EXCEPT !.tmpfiles = "none"]
    BY <1>0, <1>15, WholeDone DEF RemoveTmpfilesRule, Runit, Wet
  <2>2. mode = "uninstall"
    BY <1>0, <2>1 DEF StepOK, ModeSteps, TypeOK
  <2>3. Progress'
    BY <1>0, <2>1 DEF Progress, Disk
  <2>4. StepOK'
    BY <2>1, <2>2 DEF StepOK, ModeSteps
  <2> QED
    BY <1>0, <2>1, <2>3, <2>4 DEF WiringInv, UninstallReverts, KioskRepairs
<1>16. CASE DisableLinger
  <2>1. /\ step = "disable-linger" /\ step' = "idle"
        /\ mode' = mode /\ user' = user /\ dry' = dry
        /\ smooth' /\ ~dry => smooth /\ disk' = [disk EXCEPT !.linger = @ \ {user}]
        /\ outcome' = IF dry THEN "dry" ELSE IF mode = "kiosk" THEN "kiosk" ELSE "uninstalled"
    BY <1>0, <1>16, WholeDone DEF DisableLinger, Runit, Wet
  <2>2. mode = "uninstall"
    BY <1>0, <2>1 DEF StepOK, ModeSteps, TypeOK
  <2>3. StepOK' /\ Progress'
    BY <2>1, <2>2 DEF StepOK, ModeSteps, Progress
  <2>4. outcome' \in {"dry", "uninstalled"} /\ (outcome' = "uninstalled" => ~dry)
    BY <2>1, <2>2
  <2>5. ASSUME smooth', ~dry
        PROVE  /\ disk'.greetd \notin Users /\ disk'.recovery = "none"
               /\ disk'.tmpfiles = "none" /\ user \notin disk'.linger
    <3>1. disk.greetd \notin Users /\ disk.recovery = "none" /\ disk.tmpfiles = "none"
      BY <1>0, <2>1, <2>5 DEF Progress
    <3>2. disk' = [disk EXCEPT !.linger = @ \ {user}]
      BY <2>1, <2>5
    <3> QED
      BY <1>0, <3>1, <3>2 DEF Disk
  <2>6. UninstallReverts'
    BY <2>1, <2>4, <2>5 DEF UninstallReverts
  <2>7. KioskRepairs'
    BY <2>4 DEF KioskRepairs
  <2> QED
    BY <1>0, <2>3, <2>6, <2>7 DEF WiringInv
<1>17. CASE Interrupted
  <2>1. step' = "idle" /\ outcome' = "interrupted" /\ mode' = mode
    BY <1>17 DEF Interrupted, flags
  <2>2. StepOK' /\ Progress'
    BY <1>0, <2>1 DEF StepOK, ModeSteps, Progress, TypeOK
  <2> QED
    BY <1>0, <2>1, <2>2 DEF WiringInv, UninstallReverts, KioskRepairs
<1>18. ASSUME NEW d, Edit(d)
       PROVE  WiringInv'
  <2>1. step = "idle" /\ step' = "idle" /\ outcome' = "none" /\ mode' = mode
    BY <1>18 DEF Edit, flags
  <2>2. StepOK' /\ Progress'
    BY <1>0, <2>1 DEF StepOK, ModeSteps, Progress, TypeOK
  <2> QED
    BY <1>0, <2>1, <2>2 DEF WiringInv, UninstallReverts, KioskRepairs
<1>19. CASE CompanionInstalled \/ GreetdByHand
  BY <1>18, <1>19 DEF CompanionInstalled, GreetdByHand
<1>20. CASE UNCHANGED vars
  BY <1>0, <1>20 DEF vars, flags, bounds, WiringInv, StepOK, Progress, UninstallReverts,
                     KioskRepairs
<1> QED
  BY <1>1, <1>2, <1>3, <1>4, <1>5, <1>6, <1>7, <1>8, <1>9, <1>10, <1>11, <1>12, <1>13,
     <1>14, <1>15, <1>16, <1>17, <1>19, <1>20
     DEF Next, DevInstall, KioskInstall, KioskUninstall

\* WiringInv holds of a machine on which nothing has run.
LEMMA WiringInit == Init => StepOK /\ Progress /\ UninstallReverts /\ KioskRepairs
  BY DEF Init, StepOK, ModeSteps, Progress, UninstallReverts, KioskRepairs

LEMMA WiringInvariant == Spec => []WiringInv
<1>1. Init /\ TypeOK => WiringInv
  BY WiringInit DEF WiringInv
<1> QED
  BY <1>1, WiringStep, InstallerTypeCorrect, PTL DEF Spec

\* Whatever installs were cut short or went wrong before, and for whomever:
\* after an uninstall whose commands succeed nobody is logged in at boot, and the
\* recovery service, the tmpfiles rule and the linger of its user are gone.
THEOREM UninstallAlwaysReverts == Spec => []UninstallReverts
<1>1. WiringInv => UninstallReverts
  BY DEF WiringInv
<1> QED
  BY <1>1, WiringInvariant, PTL

\* And after a kiosk install whose commands succeed its wiring but for the
\* autologin is there, and that of one user.
THEOREM KioskAlwaysRepairs == Spec => []KioskRepairs
<1>1. WiringInv => KioskRepairs
  BY DEF WiringInv
<1> QED
  BY <1>1, WiringInvariant, PTL

-----------------------------------------------------------------------------
(* What one command can do to the disk *)

\* The commands of the three scripts; the doctor only looks.
ScriptCommand ==
    CargoInstall \/ Reconcile \/ InstallSystem \/ KioskInstall \/ KioskUninstall

\* Around each command: a run stays the run it is, and only the last command of
\* a dry run, a kiosk install or an uninstall has an outcome.
Framed ==
    /\ UNCHANGED <<mode, user, dry, worked, seen, settled>>
    /\ step # "idle"
    /\ dry => disk' = disk /\ outcome' \in {"none", "dry"}
    /\ outcome' \in {"none", "dry", "kiosk", "uninstalled"}
    /\ outcome' # "none" => step' = "idle" /\ (dry \/ mode # "dev")
    /\ outcome' = "dry" => dry

\* The tests inside reconcile_unit_file keep the sed from a dry run.
LEMMA ReconciledDry ==
    ASSUME TypeOK, dry, NEW done \in SUBSET Units
    PROVE  Reconciled(done) = disk
<1>1. disk \in Disk /\ disk.units \in [Units -> Files]
  BY DEF TypeOK, Disk
<1>2. [u \in Units |-> IF u \in done THEN ReconcileUnitFile(disk.units[u])
                       ELSE disk.units[u]] = disk.units
  BY <1>1 DEF ReconcileUnitFile
<1> QED
  BY <1>1, <1>2 DEF Reconciled, Disk

LEMMA CommandFrame ==
    ASSUME TypeOK, StepOK, ScriptCommand
    PROVE  Framed
<1>1. ASSUME NEW here, NEW effect, NEW ok, NEW next, Command(here, effect, ok, next),
             here # "idle", next # "idle" \/ mode # "dev", dry => effect = disk
      PROVE  Framed
  <2>1. step = here /\ step' = next /\ UNCHANGED <<mode, user, dry, worked, seen, settled>>
    BY <1>1 DEF Command, flags
  <2>2. outcome = "none"
    BY <1>1, <2>1 DEF TypeOK
  <2>3. outcome' = IF next # "idle" THEN "none"
                   ELSE IF dry THEN "dry"
                   ELSE IF mode = "kiosk" THEN "kiosk" ELSE "uninstalled"
    BY <1>1, <2>2 DEF Command
  <2>4. dry => disk' = disk
    BY <1>1 DEF Command
  <2> QED
    BY <1>1, <2>1, <2>3, <2>4 DEF Framed
<1>2. ASSUME NEW here, NEW effect, NEW next, Whole(here, effect, next),
             here # "idle", next # "idle" \/ mode # "dev", dry => effect = disk
      PROVE  Framed
  <2>1. PICK ok \in BOOLEAN : Command(here, IF ok THEN effect ELSE disk, ok, next)
    BY <1>2 DEF Whole
  <2>2. dry => (IF ok THEN effect ELSE disk) = disk
    BY <1>2
  <2> QED
    BY <1>1, <1>2, <2>1, <2>2
<1>3. step \in ModeSteps[mode] /\ mode \in {"dev", "kiosk", "uninstall"}
  BY DEF StepOK, TypeOK
<1>4. ASSUME NEW here, NEW effect, NEW next, Whole(here, effect, next),
             here \in {"enable-user-target", "disable-linger"}
      PROVE  mode # "dev"
  BY <1>3, <1>4 DEF Whole, Command, ModeSteps
<1>5. CASE CargoInstall
  BY <1>2, <1>5 DEF CargoInstall, Runit
<1>6. CASE Reconcile
  BY <1>1, <1>6, ReconciledDry DEF Reconcile
<1>7. CASE InstallSystem
  BY <1>1, <1>7 DEF InstallSystem, Runit
<1>8. CASE InstallBinaries
  BY <1>1, <1>8 DEF InstallBinaries, Runit, Wet
<1>13. CASE GreetdConfig
  BY <1>1, <1>13 DEF GreetdConfig, Runit, Wet
<1>9. CASE EnableLinger
  BY <1>2, <1>9 DEF EnableLinger, Runit
<1>14. CASE TmpfilesRule
  BY <1>2, <1>14 DEF TmpfilesRule, Runit, Wet
<1>15. CASE RecoveryService
  BY <1>2, <1>15 DEF RecoveryService, Runit, Wet
<1>16. CASE InstalledMarker
  BY <1>2, <1>16 DEF InstalledMarker, Runit, Wet
<1>10. CASE EnableUserTarget
  BY <1>2, <1>4, <1>10 DEF EnableUserTarget, Runit, Wet
<1>11. CASE RemoveRecoveryService
  BY <1>2, <1>11 DEF RemoveRecoveryService, Runit
<1>17. CASE RemoveGreetdConfig
  BY <1>2, <1>17 DEF RemoveGreetdConfig, Runit
<1>18. CASE RemoveTmpfilesRule
  BY <1>2, <1>18 DEF RemoveTmpfilesRule, Runit
<1>12. CASE DisableLinger
  BY <1>2, <1>4, <1>12 DEF DisableLinger, Runit
<1> QED
  BY <1>5, <1>6, <1>7, <1>8, <1>9, <1>10, <1>11, <1>12, <1>13, <1>14, <1>15, <1>16, <1>17, <1>18
     DEF ScriptCommand, KioskInstall, KioskUninstall

\* A command leaves the disk as it is or has its effect.
LEMMA CommandWrites ==
    ASSUME NEW here, NEW effect, NEW ok, NEW next, Command(here, effect, ok, next)
    PROVE  step = here /\ step' = next /\ disk' = effect
BY DEF Command

LEMMA WholeWrites ==
    ASSUME NEW here, NEW effect, NEW next, Whole(here, effect, next)
    PROVE  step = here /\ step' = next /\ disk' \in {disk, effect}
<1>1. PICK ok \in BOOLEAN : Command(here, IF ok THEN effect ELSE disk, ok, next)
  BY DEF Whole
<1> QED
  BY <1>1, CommandWrites

\* What each command can leave behind, its tests of DRY_RUN worked off.
LEMMA Leaves ==
    /\ CargoInstall => disk' \in {disk, [disk EXCEPT !.bins["local"] = @ \cup Owned]}
    /\ Reconcile => \E done \in SUBSET Units : disk' = Reconciled(done)
    /\ InstallSystem => \E k \in 0..Len(Artifacts) :
         disk' \in {disk, [disk EXCEPT !.shipped = @ \cup {Artifacts[i] : i \in 1..k}]}
    /\ InstallBinaries => \E done \in SUBSET Owned :
         disk' \in {disk, [disk EXCEPT !.bins["usr"] = @ \cup done]}
    /\ GreetdConfig => disk' = disk
    /\ EnableLinger => disk' \in {disk, [disk EXCEPT !.linger = @ \cup {user}]}
    /\ TmpfilesRule => disk' \in {disk, [disk EXCEPT !.tmpfiles = user]}
    /\ RecoveryService => disk' \in {disk, [disk EXCEPT !.recovery = user]}
    /\ InstalledMarker => disk' \in {disk, [disk EXCEPT !.marker = TRUE]}
    /\ EnableUserTarget => disk' \in {disk, [disk EXCEPT !.enabled = @ \cup {user}]}
    /\ RemoveRecoveryService => disk' \in {disk, [disk EXCEPT !.recovery = "none"]}
    /\ RemoveGreetdConfig => disk' \in {disk, [disk EXCEPT !.greetd = "none"]}
    /\ RemoveTmpfilesRule => disk' \in {disk, [disk EXCEPT !.tmpfiles = "none"]}
    /\ DisableLinger => disk' \in {disk, [disk EXCEPT !.linger = @ \ {user}]}
<1>1. ASSUME NEW e
      PROVE  Runit(e) \in {disk, e} /\ Wet(Runit(e)) \in {disk, e}
  BY DEF Runit, Wet
<1>2. CargoInstall => disk' \in {disk, [disk EXCEPT !.bins["local"] = @ \cup Owned]}
  BY <1>1, WholeWrites DEF CargoInstall
<1>3. Reconcile => \E done \in SUBSET Units : disk' = Reconciled(done)
  BY CommandWrites DEF Reconcile
<1>4. InstallSystem => \E k \in 0..Len(Artifacts) :
         disk' \in {disk, [disk EXCEPT !.shipped = @ \cup {Artifacts[i] : i \in 1..k}]}
  BY <1>1, CommandWrites DEF InstallSystem
<1>5. InstallBinaries => \E done \in SUBSET Owned :
         disk' \in {disk, [disk EXCEPT !.bins["usr"] = @ \cup done]}
  BY <1>1, CommandWrites DEF InstallBinaries
<1>6. GreetdConfig => disk' = disk
  BY <1>1, CommandWrites DEF GreetdConfig
<1>7. /\ EnableLinger => disk' \in {disk, [disk EXCEPT !.linger = @ \cup {user}]}
      /\ DisableLinger => disk' \in {disk, [disk EXCEPT !.linger = @ \ {user}]}
  BY <1>1, WholeWrites DEF EnableLinger, DisableLinger
<1>8. /\ TmpfilesRule => disk' \in {disk, [disk EXCEPT !.tmpfiles = user]}
      /\ RemoveTmpfilesRule => disk' \in {disk, [disk EXCEPT !.tmpfiles = "none"]}
  BY <1>1, WholeWrites DEF TmpfilesRule, RemoveTmpfilesRule
<1>9. /\ RecoveryService => disk' \in {disk, [disk EXCEPT !.recovery = user]}
      /\ RemoveRecoveryService => disk' \in {disk, [disk EXCEPT !.recovery = "none"]}
  BY <1>1, WholeWrites DEF RecoveryService, RemoveRecoveryService
<1>10. /\ InstalledMarker => disk' \in {disk, [disk EXCEPT !.marker = TRUE]}
       /\ RemoveGreetdConfig => disk' \in {disk, [disk EXCEPT !.greetd = "none"]}
  BY <1>1, WholeWrites DEF InstalledMarker, RemoveGreetdConfig
<1>11. EnableUserTarget => disk' \in {disk, [disk EXCEPT !.enabled = @ \cup {user}]}
  <2> DEFINE effect == IF Artifacts[1] \in disk.shipped
                       THEN [disk EXCEPT !.enabled = @ \cup {user}] ELSE disk
  <2>1. effect \in {disk, [disk EXCEPT !.enabled = @ \cup {user}]}
    OBVIOUS
  <2>2. EnableUserTarget => disk' \in {disk, Wet(Runit(effect))}
    BY WholeWrites DEF EnableUserTarget
  <2>3. Wet(Runit(effect)) \in {disk, effect}
    BY <1>1
  <2> HIDE DEF effect
  <2> QED
    BY <2>1, <2>2, <2>3
<1> QED
  BY <1>2, <1>3, <1>4, <1>5, <1>6, <1>7, <1>8, <1>9, <1>10, <1>11

\* A dry run of any mode, on any machine, changes nothing and is not refused:
\* each command is kept from it by its own test.
THEOREM DryRunsAreDry == Spec => DryRunWritesNothing
<1>1. WiringInv /\ [Next]_vars
        => [dry /\ step # "idle" => disk' = disk /\ outcome' \in {"none", "dry"}]_vars
  <2> SUFFICES ASSUME WiringInv, Next, dry, step # "idle"
               PROVE  disk' = disk /\ outcome' \in {"none", "dry"}
    BY DEF vars
  <2>0. TypeOK /\ StepOK /\ outcome = "none"
    BY DEF WiringInv, TypeOK
  <2>1. CASE ScriptCommand
    <3>1. Framed
      BY <2>0, <2>1, CommandFrame
    <3> QED
      BY <3>1 DEF Framed
  <2>2. CASE Ungated \/ Doctor
    BY <2>2 DEF Ungated, Doctor
  <2>3. CASE Interrupted
    BY <2>3 DEF Interrupted
  <2>4. ~(\E m \in DOMAIN FirstStep, u \in Users, d \in BOOLEAN : Start(m, u, d))
    BY DEF Start
  <2>5. ~CompanionInstalled /\ ~GreetdByHand
    BY DEF CompanionInstalled, GreetdByHand, Edit
  <2> QED
    BY <2>1, <2>2, <2>3, <2>4, <2>5 DEF Next, DevInstall, ScriptCommand
<1> QED
  BY <1>1, WiringInvariant, PTL DEF Spec, DryRunWritesNothing

-----------------------------------------------------------------------------
(* NothingBroken *)

\* Nothing that a unit needs in order to run is taken away.
Grows(d, e) ==
    /\ e.units = d.units
    /\ d.shipped \subseteq e.shipped
    /\ \A p \in {"local", "cargo", "usr"} : d.bins[p] \subseteq e.bins[p]

\* Units for which systemd has a file.
Present(d) == {u \in Units : Effective(d, u) # <<>>}

LEMMA RunnableGrows ==
    ASSUME NEW d \in Disk, NEW e \in Disk, Grows(d, e)
    PROVE  Present(d) \subseteq Present(e) /\ Runnable(d) \subseteq Runnable(e)
<1>1. Packaged # <<>>
  <2>1. Len(Packaged) = 1 /\ Len(<<>>) = 0
    BY DEF Packaged
  <2> QED
    BY <2>1
<1>2. ASSUME NEW u \in Units, Effective(d, u) # <<>>
      PROVE  Effective(e, u) = Effective(d, u)
  BY <1>1, <1>2 DEF Effective, Grows
<1>3. DOMAIN d.bins = {"local", "cargo", "usr"} /\ DOMAIN e.bins = {"local", "cargo", "usr"}
  BY DEF Disk
<1>4. ASSUME NEW f, ~Missing(f, d.bins)
      PROVE  ~Missing(f, e.bins)
  BY <1>3, <1>4 DEF Missing, Exists, Grows
<1>5. Present(d) \subseteq Present(e)
  BY <1>2 DEF Present
<1>6. ASSUME NEW u \in Runnable(d)
      PROVE  u \in Runnable(e)
  <2>1. u \in Units /\ Effective(d, u) # <<>> /\ ~Missing(Effective(d, u), d.bins)
    BY DEF Runnable
  <2>2. Effective(e, u) = Effective(d, u)
    BY <1>2, <2>1
  <2>3. ~Missing(Effective(d, u), e.bins)
    BY <1>4, <2>1
  <2> QED
    BY <2>1, <2>2, <2>3 DEF Runnable
<1> QED
  BY <1>5, <1>6

\* The sed of the developer install changes paths and leaves every unit its file.
LEMMA ReconcileKeepsFiles ==
    ASSUME TypeOK, Reconcile
    PROVE  Present(disk) \subseteq Present(disk')
<1>0. disk \in Disk
  BY DEF TypeOK
<1>1. PICK done \in SUBSET Units : disk' = Reconciled(done)
  BY Leaves
<1>2. ASSUME NEW u \in Units, disk.units[u] # <<>>
      PROVE  ReconcileUnit(disk.units[u]) # <<>>
  <2>1. disk.units[u] \in Files
    BY <1>0 DEF Disk
  <2>2. DOMAIN ReconcileUnit(disk.units[u]) = DOMAIN disk.units[u]
        /\ ReconcileUnit(disk.units[u]) \in Files
    BY <2>1, ReconciledFile
  <2>3. Len(ReconcileUnit(disk.units[u])) = Len(disk.units[u]) /\ Len(disk.units[u]) # 0
    BY <1>2, <2>1, <2>2 DEF Files
  <2> QED
    BY <2>2, <2>3 DEF Files
<1>3. disk'.shipped = disk.shipped
  BY <1>0, <1>1 DEF Disk, Reconciled
<1>4. \A u \in Units : disk'.units[u] \in {disk.units[u], ReconcileUnit(disk.units[u])}
  BY <1>0, <1>1 DEF Disk, Reconciled, ReconcileUnitFile
<1>5. ASSUME NEW u \in Units, Effective(disk, u) # <<>>
      PROVE  Effective(disk', u) # <<>>
  <2>1. CASE disk.units[u] # <<>>
    BY <1>2, <1>4, <2>1 DEF Effective
  <2>2. CASE disk.units[u] = <<>>
    <3>1. u = "wmd-init" /\ Artifacts[2] \in disk'.shipped
      BY <1>3, <1>5, <2>2 DEF Effective
    <3>2. Packaged # <<>>
      <4>1. Len(Packaged) = 1 /\ Len(<<>>) = 0
        BY DEF Packaged
      <4> QED
        BY <4>1
    <3> QED
      BY <3>1, <3>2 DEF Effective
  <2> QED
    BY <2>1, <2>2
<1> QED
  BY <1>5 DEF Present

\* Every other command takes nothing away that a unit runs from.
LEMMA OthersGrow ==
    ASSUME TypeOK, ScriptCommand, ~Reconcile
    PROVE  Grows(disk, disk')
<1>0. disk \in Disk
  BY DEF TypeOK
<1>1. ASSUME disk' = disk
      PROVE  Grows(disk, disk')
  BY <1>1 DEF Grows
<1>2. CASE CargoInstall
  <2>1. disk' \in {disk, [disk EXCEPT !.bins["local"] = @ \cup Owned]}
    BY <1>2, Leaves
  <2> QED
    BY <1>0, <1>1, <2>1 DEF Grows, Disk
<1>3. CASE InstallSystem
  <2>1. PICK k \in 0..Len(Artifacts) :
          disk' \in {disk, [disk EXCEPT !.shipped = @ \cup {Artifacts[i] : i \in 1..k}]}
    BY <1>3, Leaves
  <2> QED
    BY <1>0, <1>1, <2>1 DEF Grows, Disk
<1>4. CASE InstallBinaries
  <2>1. PICK done \in SUBSET Owned : disk' \in {disk, [disk EXCEPT !.bins["usr"] = @ \cup done]}
    BY <1>4, Leaves
  <2> QED
    BY <1>0, <1>1, <2>1 DEF Grows, Disk
<1>5. CASE GreetdConfig
  BY <1>1, <1>5, Leaves
<1>6. CASE EnableLinger \/ DisableLinger
  <2>1. disk' \in {disk, [disk EXCEPT !.linger = @ \cup {user}], [disk EXCEPT !.linger = @ \ {user}]}
    BY <1>6, Leaves
  <2> QED
    BY <1>0, <2>1 DEF Grows, Disk
<1>7. CASE TmpfilesRule \/ RemoveTmpfilesRule
  <2>1. disk' \in {disk, [disk EXCEPT !.tmpfiles = user], [disk EXCEPT !.tmpfiles = "none"]}
    BY <1>7, Leaves
  <2> QED
    BY <1>0, <2>1 DEF Grows, Disk
<1>8. CASE RecoveryService \/ RemoveRecoveryService
  <2>1. disk' \in {disk, [disk EXCEPT !.recovery = user], [disk EXCEPT !.recovery = "none"]}
    BY <1>8, Leaves
  <2> QED
    BY <1>0, <2>1 DEF Grows, Disk
<1>9. CASE InstalledMarker
  <2>1. disk' \in {disk, [disk EXCEPT !.marker = TRUE]}
    BY <1>9, Leaves
  <2> QED
    BY <1>0, <2>1 DEF Grows, Disk
<1>10. CASE EnableUserTarget
  <2>1. disk' \in {disk, [disk EXCEPT !.enabled = @ \cup {user}]}
    BY <1>10, Leaves
  <2> QED
    BY <1>0, <2>1 DEF Grows, Disk
<1>11. CASE RemoveGreetdConfig
  <2>1. disk' \in {disk, [disk EXCEPT !.greetd = "none"]}
    BY <1>11, Leaves
  <2> QED
    BY <1>0, <2>1 DEF Grows, Disk
<1> QED
  BY <1>2, <1>3, <1>4, <1>5, <1>6, <1>7, <1>8, <1>9, <1>10, <1>11
     DEF ScriptCommand, KioskInstall, KioskUninstall

\* In a developer install a unit may lose its binary on the way, when the sed
\* has rewritten it, but never its file; the gate at its end asks for the rest.
WorkedInv ==
    /\ step # "idle" => worked \subseteq Present(disk)
    /\ step # "idle" /\ (mode # "dev" \/ dry) => worked \subseteq Runnable(disk)
    /\ NothingBroken

LEMMA WorkedStep ==
    ASSUME TypeOK, TypeOK', StepOK, WorkedInv, [Next]_vars
    PROVE  WorkedInv'
<1>0. disk \in Disk /\ disk' \in Disk /\ (step # "idle" => outcome = "none")
  BY DEF TypeOK
<1>1. CASE \E m \in DOMAIN FirstStep, u \in Users, d \in BOOLEAN : Start(m, u, d)
  <2>1. worked' = Runnable(disk) /\ disk' = disk /\ outcome' = "none"
    BY <1>1 DEF Start
  <2>2. Runnable(disk) \subseteq Present(disk)
    BY DEF Runnable, Present
  <2> QED
    BY <2>1, <2>2 DEF WorkedInv, NothingBroken
<1>2. CASE ScriptCommand
  <2>1. /\ UNCHANGED <<mode, dry, worked>> /\ step # "idle"
        /\ dry => disk' = disk
        /\ outcome' \in {"none", "dry", "kiosk", "uninstalled"}
        /\ outcome' # "none" => dry \/ mode # "dev"
    BY <1>2, CommandFrame DEF Framed
  <2>2. /\ worked \subseteq Present(disk)
        /\ mode # "dev" \/ dry => worked \subseteq Runnable(disk)
    BY <2>1 DEF WorkedInv
  <2>3. Present(disk) \subseteq Present(disk')
    BY <1>0, <1>2, ReconcileKeepsFiles, OthersGrow, RunnableGrows
  <2>4. mode # "dev" \/ dry => Runnable(disk) \subseteq Runnable(disk')
    <3>1. CASE dry
      BY <2>1, <3>1
    <3>2. CASE mode # "dev"
      <4>1. ~Reconcile
        <5>1. mode \in {"kiosk", "uninstall"} /\ step \in ModeSteps[mode]
          BY <3>2 DEF StepOK, TypeOK
        <5>2. step # "reconcile"
          BY <5>1 DEF ModeSteps
        <5> QED
          BY <5>2 DEF Reconcile, Command
      <4> QED
        BY <1>0, <1>2, <4>1, OthersGrow, RunnableGrows
    <3> QED
      BY <3>1, <3>2
  <2> QED
    BY <2>1, <2>2, <2>3, <2>4 DEF WorkedInv, NothingBroken
<1>3. CASE Ungated
  <2>1. /\ step = "doctor" /\ step' = "idle" /\ disk' = disk /\ UNCHANGED <<worked, dry, mode>>
        /\ outcome' = IF dry THEN "dry" ELSE "ungated"
    BY <1>3 DEF Ungated, flags
  <2>2. CASE dry
    <3>1. worked \subseteq Runnable(disk)
      BY <2>1, <2>2 DEF WorkedInv
    <3> QED
      BY <2>1, <3>1 DEF WorkedInv, NothingBroken
  <2>3. CASE ~dry
    BY <2>1, <2>3 DEF WorkedInv, NothingBroken
  <2> QED
    BY <2>2, <2>3
<1>7. CASE Doctor
  <2>1. PICK shown \in SUBSET Units :
          /\ step = "doctor" /\ step' = "idle" /\ seen' = shown /\ UNCHANGED <<disk, worked>>
          /\ outcome' = IF Failures(shown) # {} THEN "failed" ELSE "complete"
    BY <1>7 DEF Doctor, flags
  <2>2. CASE outcome' = "failed"
    BY <2>1, <2>2 DEF WorkedInv, NothingBroken
  <2>3. CASE outcome' = "complete"
    <3>1. Failures(shown) = {}
      BY <2>1, <2>3
    <3>2. Present(disk) \cap shown \subseteq Runnable(disk)
      BY <3>1 DEF Failures, Present, Runnable
    <3>3. worked \cap shown \subseteq Runnable(disk)
      BY <2>1, <3>2 DEF WorkedInv
    <3> QED
      BY <2>1, <2>3, <3>3 DEF WorkedInv, NothingBroken, Runnable
  <2> QED
    BY <2>1, <2>2, <2>3
<1>4. CASE Interrupted
  BY <1>4 DEF Interrupted, WorkedInv, NothingBroken
<1>5. CASE CompanionInstalled \/ GreetdByHand
  <2>1. step = "idle" /\ step' = "idle" /\ outcome' = "none"
    BY <1>5 DEF CompanionInstalled, GreetdByHand, Edit
  <2> QED
    BY <2>1 DEF WorkedInv, NothingBroken
<1>6. CASE UNCHANGED vars
  BY <1>6 DEF vars, flags, WorkedInv, NothingBroken
<1> QED
  BY <1>1, <1>2, <1>3, <1>4, <1>5, <1>6, <1>7 DEF Next, DevInstall, ScriptCommand

\* Whatever fails on the way: after a kiosk install, an uninstall or a dry run
\* every unit that could run when it began can still run; after a developer
\* install that ends as complete, every one of them that its gate was shown.
THEOREM NothingIsBroken == Spec => []NothingBroken
<1>1. Init => WorkedInv
  BY DEF Init, WorkedInv, NothingBroken
<1>2. WiringInv /\ WiringInv' /\ WorkedInv /\ [Next]_vars => WorkedInv'
  BY WorkedStep DEF WiringInv
<1>3. WorkedInv => NothingBroken
  BY DEF WorkedInv
<1> QED
  BY <1>1, <1>2, <1>3, WiringInvariant, PTL DEF Spec

-----------------------------------------------------------------------------
(* Reconverges *)

\* What a developer install without failures leaves, and what the next one
\* would write again.
Established(d) ==
    /\ Owned \subseteq d.bins["local"]
    /\ \A u \in Units : ReconcileUnit(d.units[u]) = d.units[u]
    /\ d.shipped = {Artifacts[1], Artifacts[2]}

\* What a developer install has brought about before its next command, as long
\* as none has failed, and what holds once one has succeeded.
SettledInv ==
    /\ smooth /\ ~dry =>
          /\ step \in {"reconcile", "install-system", "doctor"}
                => Owned \subseteq disk.bins["local"]
          /\ step \in {"install-system", "doctor"}
                => \A u \in Units : ReconcileUnit(disk.units[u]) = disk.units[u]
          /\ step = "doctor" => disk.shipped = {Artifacts[1], Artifacts[2]}
    /\ settled => /\ Established(disk) /\ Failures(Units) = {}
                  /\ step # "idle" => mode = "dev" \/ dry

\* The sed has nothing to do on what it has written.
LEMMA ReconcileTwice ==
    ASSUME NEW f \in Files
    PROVE  ReconcileUnit(ReconcileUnit(f)) = ReconcileUnit(f)
<1>1. /\ ReconcileUnit(f) \in Files /\ DOMAIN ReconcileUnit(f) = DOMAIN f
      /\ \A k \in DOMAIN f : f[k] \in Line /\ ReconcileUnit(f)[k] = ReconcileLine(f[k])
  BY ReconciledFile
<1>2. ASSUME NEW l \in Line
      PROVE  ReconcileLine(ReconcileLine(l)) = ReconcileLine(l)
  <2>1. HomeLocal \notin ShellDirs
    BY DEF HomeLocal, ShellDirs, UsrLocal, HomeCargo, TildeCargo
  <2>2. CASE ~l.flag /\ l.dir \in ShellDirs
    <3>1. ReconcileLine(l).dir = HomeLocal
      BY <2>2, ReconciledLine
    <3> QED
      BY <2>1, <3>1 DEF ReconcileLine
  <2>3. CASE ~(~l.flag /\ l.dir \in ShellDirs)
    BY <2>3 DEF ReconcileLine
  <2> QED
    BY <2>2, <2>3
<1>3. \A k \in DOMAIN f : ReconcileLine(ReconcileUnit(f)[k]) = ReconcileUnit(f)[k]
  BY <1>1, <1>2
<1>4. ReconcileUnit(ReconcileUnit(f)) = [k \in DOMAIN f |-> ReconcileLine(ReconcileUnit(f)[k])]
  BY <1>1 DEF ReconcileUnit
<1>5. ReconcileUnit(f) = [k \in DOMAIN f |-> ReconcileLine(f[k])]
  BY DEF ReconcileUnit
<1> QED
  BY <1>1, <1>3, <1>4, <1>5

LEMMA ArtifactsAre ==
    /\ Len(Artifacts) = 2
    /\ \A k \in 0..Len(Artifacts) :
          {Artifacts[i] : i \in 1..k} \subseteq {Artifacts[1], Artifacts[2]}
    /\ {Artifacts[i] : i \in 1..Len(Artifacts)} = {Artifacts[1], Artifacts[2]}
BY DEF Artifacts

\* On what is established, the commands of a developer install change nothing.
LEMMA NothingToDo ==
    ASSUME TypeOK, Established(disk)
    PROVE  /\ [disk EXCEPT !.bins["local"] = @ \cup Owned] = disk
           /\ \A done \in SUBSET Units : Reconciled(done) = disk
           /\ \A k \in 0..Len(Artifacts) :
                [disk EXCEPT !.shipped = @ \cup {Artifacts[i] : i \in 1..k}] = disk
<1>0. disk \in Disk
  BY DEF TypeOK
<1>1. [disk EXCEPT !.bins["local"] = @ \cup Owned] = disk
  <2>1. disk.bins \in [{"local", "cargo", "usr"} -> SUBSET Binaries]
    BY <1>0 DEF Disk
  <2>2. disk.bins["local"] \cup Owned = disk.bins["local"]
    BY DEF Established
  <2>3. [disk.bins EXCEPT !["local"] = @ \cup Owned] = disk.bins
    BY <2>1, <2>2
  <2> QED
    BY <1>0, <2>3 DEF Disk
<1>2. ASSUME NEW done \in SUBSET Units
      PROVE  Reconciled(done) = disk
  <2>1. disk.units \in [Units -> Files]
    BY <1>0 DEF Disk
  <2>2. [u \in Units |-> IF u \in done THEN ReconcileUnitFile(disk.units[u])
                         ELSE disk.units[u]] = disk.units
    BY <2>1 DEF Established, ReconcileUnitFile
  <2> QED
    BY <1>0, <2>2 DEF Disk, Reconciled
<1>3. ASSUME NEW k \in 0..Len(Artifacts)
      PROVE  [disk EXCEPT !.shipped = @ \cup {Artifacts[i] : i \in 1..k}] = disk
  <2>1. disk.shipped \cup {Artifacts[i] : i \in 1..k} = disk.shipped
    BY ArtifactsAre DEF Established
  <2> QED
    BY <1>0, <2>1 DEF Disk
<1> QED
  BY <1>1, <1>2, <1>3

\* So a developer install after one that succeeded changes nothing, whether its
\* commands succeed or fail, and the doctor finds what it found then.
LEMMA SettledStep ==
    ASSUME TypeOK, StepOK, SettledInv, settled, step # "idle", [Next]_vars
    PROVE  disk' = disk /\ outcome' \notin {"failed", "ungated"}
<1>0. outcome = "none" /\ Established(disk) /\ Failures(Units) = {} /\ (mode = "dev" \/ dry)
  BY DEF TypeOK, SettledInv
<1>1. CASE ScriptCommand
  <2>1. outcome' \notin {"failed", "ungated"} /\ (dry => disk' = disk)
    BY <1>1, CommandFrame DEF Framed
  <2>2. CASE dry
    BY <2>1, <2>2
  <2>3. CASE mode = "dev"
    <3>1. step \in ModeSteps["dev"]
      BY <2>3 DEF StepOK
    <3>2. ~KioskInstall /\ ~KioskUninstall
      <4>1. step \notin {"install-binaries", "greetd-config", "enable-linger", "tmpfiles-rule",
                         "recovery-service", "installed-marker", "enable-user-target",
                         "remove-recovery-service", "remove-greetd-config",
                         "remove-tmpfiles-rule", "disable-linger"}
        BY <3>1 DEF ModeSteps
      <4> QED
        BY <4>1 DEF KioskInstall, KioskUninstall, InstallBinaries, GreetdConfig, EnableLinger,
              TmpfilesRule, RecoveryService, InstalledMarker, EnableUserTarget,
              RemoveRecoveryService, RemoveGreetdConfig, RemoveTmpfilesRule, DisableLinger,
              Whole, Command
    <3>3. CASE CargoInstall
      <4>1. disk' \in {disk, [disk EXCEPT !.bins["local"] = @ \cup Owned]}
        BY <3>3, Leaves
      <4> QED
        BY <1>0, <2>1, <4>1, NothingToDo
    <3>4. CASE Reconcile
      <4>1. \E done \in SUBSET Units : disk' = Reconciled(done)
        BY <3>4, Leaves
      <4> QED
        BY <1>0, <2>1, <4>1, NothingToDo
    <3>5. CASE InstallSystem
      <4>1. PICK k \in 0..Len(Artifacts) :
              disk' \in {disk, [disk EXCEPT !.shipped = @ \cup {Artifacts[i] : i \in 1..k}]}
        BY <3>5, Leaves
      <4> QED
        BY <1>0, <2>1, <4>1, NothingToDo
    <3> QED
      BY <1>1, <3>2, <3>3, <3>4, <3>5 DEF ScriptCommand
  <2> QED
    BY <1>0, <2>2, <2>3
<1>2. CASE Ungated
  <2>1. "wm" \in disk.bins["local"]
    BY <1>0 DEF Established, Owned
  <2> QED
    BY <1>0, <1>2, <2>1 DEF Ungated
<1>7. CASE Doctor
  <2>1. PICK shown \in SUBSET Units :
          /\ disk' = disk
          /\ outcome' = IF Failures(shown) # {} THEN "failed" ELSE "complete"
    BY <1>7 DEF Doctor
  <2>2. Failures(shown) = {}
    BY <1>0 DEF Failures
  <2> QED
    BY <2>1, <2>2
<1>3. CASE Interrupted
  BY <1>3 DEF Interrupted
<1>4. CASE UNCHANGED vars
  BY <1>0, <1>4 DEF vars
<1>5. ~(\E m \in DOMAIN FirstStep, u \in Users, d \in BOOLEAN : Start(m, u, d))
  BY DEF Start
<1>6. ~CompanionInstalled /\ ~GreetdByHand
  BY DEF CompanionInstalled, GreetdByHand, Edit
<1> QED
  BY <1>1, <1>2, <1>3, <1>4, <1>5, <1>6, <1>7 DEF Next, DevInstall, ScriptCommand

\* The commands of a developer install bring about what the doctor's gate and
\* the next install find.
LEMMA DevProgress ==
    ASSUME TypeOK, StepOK, SettledInv, ScriptCommand, smooth', ~dry
    PROVE  /\ step' \in {"reconcile", "install-system", "doctor"}
                => Owned \subseteq disk'.bins["local"]
           /\ step' \in {"install-system", "doctor"}
                => \A u \in Units : ReconcileUnit(disk'.units[u]) = disk'.units[u]
           /\ step' = "doctor" => disk'.shipped = {Artifacts[1], Artifacts[2]}
<1>0. disk \in Disk
  BY DEF TypeOK
<1>1. CASE CargoInstall
  <2>1. step' = "reconcile" /\ disk' = [disk EXCEPT !.bins["local"] = @ \cup Owned]
    BY <1>1, WholeDone DEF CargoInstall, Runit
  <2> QED
    BY <1>0, <2>1 DEF Disk
<1>2. CASE Reconcile
  <2>1. PICK done \in SUBSET Units :
          Command("reconcile", Reconciled(done), done = Units, "install-system")
    BY <1>2 DEF Reconcile
  <2>2. step = "reconcile" /\ step' = "install-system" /\ disk' = Reconciled(done)
    BY <2>1 DEF Command
  <2>3. smooth /\ done = Units
    BY <2>1 DEF Command
  <2>4. \A u \in Units : disk'.units[u] = ReconcileUnit(disk.units[u]) /\ disk.units[u] \in Files
    BY <1>0, <2>2, <2>3 DEF Disk, Reconciled, ReconcileUnitFile
  <2>5. \A u \in Units : ReconcileUnit(disk'.units[u]) = disk'.units[u]
    BY <2>4, ReconcileTwice
  <2>6. Owned \subseteq disk'.bins["local"]
    BY <1>0, <2>2, <2>3 DEF SettledInv, Disk, Reconciled
  <2> QED
    BY <2>2, <2>5, <2>6
<1>3. CASE InstallSystem
  <2>1. PICK k \in 0..Len(Artifacts) :
          Command("install-system",
              Runit([disk EXCEPT !.shipped = @ \cup {Artifacts[i] : i \in 1..k}]),
              k = Len(Artifacts), "doctor")
    BY <1>3 DEF InstallSystem
  <2>2. /\ step = "install-system" /\ step' = "doctor"
        /\ disk' = [disk EXCEPT !.shipped = @ \cup {Artifacts[i] : i \in 1..k}]
    BY <2>1 DEF Command, Runit
  <2>3. smooth /\ k = Len(Artifacts)
    BY <2>1 DEF Command
  <2>4. /\ disk'.shipped = {Artifacts[1], Artifacts[2]}
        /\ disk'.bins = disk.bins /\ disk'.units = disk.units
    BY <1>0, <2>2, <2>3, ArtifactsAre DEF Disk
  <2> QED
    BY <2>2, <2>3, <2>4 DEF SettledInv
<1>4. CASE KioskInstall \/ KioskUninstall
  <2>1. step' \notin {"reconcile", "install-system", "doctor"}
    BY <1>4 DEF KioskInstall, KioskUninstall, InstallBinaries, GreetdConfig, EnableLinger,
                TmpfilesRule, RecoveryService, InstalledMarker, EnableUserTarget,
                RemoveRecoveryService, RemoveGreetdConfig, RemoveTmpfilesRule, DisableLinger,
                Whole, Command
  <2> QED
    BY <2>1
<1> QED
  BY <1>1, <1>2, <1>3, <1>4 DEF ScriptCommand

LEMMA SettledNext ==
    ASSUME TypeOK, StepOK, SettledInv, [Next]_vars
    PROVE  SettledInv'
<1>1. CASE \E m \in DOMAIN FirstStep, u \in Users, d \in BOOLEAN : Start(m, u, d)
  <2>1. PICK m \in DOMAIN FirstStep, u \in Users, d \in BOOLEAN : Start(m, u, d)
    BY <1>1
  <2>2. /\ mode' = m /\ dry' = d /\ disk' = disk /\ step' = FirstStep[m]
        /\ settled' => settled /\ (m = "dev" \/ d)
    BY <2>1 DEF Start
  <2>3. step' \notin {"reconcile", "install-system", "doctor"}
    BY <2>2 DEF FirstStep
  <2> QED
    BY <2>2, <2>3 DEF SettledInv, Failures
<1>2. CASE ScriptCommand
  <2>1. UNCHANGED <<mode, dry, settled>> /\ step # "idle"
    BY <1>2, CommandFrame DEF Framed
  <2>2. settled => disk' = disk
    BY <2>1, SettledStep
  <2>3. settled' => /\ Established(disk') /\ Failures(Units)' = {}
                    /\ step' # "idle" => mode' = "dev" \/ dry'
    BY <2>1, <2>2 DEF SettledInv, Failures
  <2> QED
    BY <1>2, <2>1, <2>3, DevProgress DEF SettledInv
<1>3. CASE Ungated
  <2>1. /\ step' = "idle" /\ disk' = disk /\ Failures(Units)' = Failures(Units)
        /\ settled' => settled
    BY <1>3 DEF Ungated, Failures
  <2> QED
    BY <2>1 DEF SettledInv
<1>7. CASE Doctor
  <2>1. PICK shown \in SUBSET Units :
          /\ step = "doctor" /\ step' = "idle" /\ disk' = disk /\ ~dry
          /\ outcome' = IF Failures(shown) # {} THEN "failed" ELSE "complete"
          /\ IF shown = Units THEN UNCHANGED <<smooth, faults>>
                              ELSE /\ faults < MaxFaults
                                   /\ smooth' = FALSE /\ faults' = faults + 1
          /\ settled' = (outcome' = "complete" /\ (smooth' \/ settled))
    BY <1>7 DEF Doctor
  <2>2. Failures(Units)' = Failures(Units)
    BY <2>1 DEF Failures
  <2>3. ASSUME settled'
        PROVE  Established(disk) /\ Failures(Units) = {}
    <3>1. CASE settled
      BY <3>1 DEF SettledInv
    <3>2. CASE ~settled
      <4>1. outcome' = "complete" /\ smooth'
        BY <2>1, <2>3, <3>2
      <4>2. shown = Units /\ smooth' = smooth
        BY <2>1, <4>1
      <4>3. Failures(Units) = {}
        BY <2>1, <4>1, <4>2
      <4> QED
        BY <2>1, <4>1, <4>2, <4>3 DEF SettledInv, Established
    <3> QED
      BY <3>1, <3>2
  <2> QED
    BY <2>1, <2>2, <2>3 DEF SettledInv
<1>4. CASE Interrupted
  BY <1>4 DEF Interrupted, SettledInv, Failures
<1>5. CASE CompanionInstalled \/ GreetdByHand
  <2>1. step' = "idle" /\ settled' = FALSE
    BY <1>5 DEF CompanionInstalled, GreetdByHand, Edit
  <2> QED
    BY <2>1 DEF SettledInv
<1>6. CASE UNCHANGED vars
  BY <1>6 DEF vars, flags, SettledInv, Failures
<1> QED
  BY <1>1, <1>2, <1>3, <1>4, <1>5, <1>6, <1>7 DEF Next, DevInstall, ScriptCommand

\* Once a developer install has succeeded, with its gate shown every unit, and
\* as long as nobody else changes the machine, every further one leaves the disk as it is and is not refused,
\* also when its commands fail or it is cut short.
THEOREM InstallConverges == Spec => Reconverges
<1>1. Init => SettledInv
  BY DEF Init, SettledInv
<1>2. WiringInv /\ SettledInv /\ [Next]_vars => SettledInv'
  BY SettledNext DEF WiringInv
<1>3. WiringInv /\ SettledInv /\ [Next]_vars
        => [settled /\ step # "idle" =>
              /\ disk' = disk
              /\ outcome' \notin {"failed", "ungated"}]_vars
  BY SettledStep DEF WiringInv
<1> QED
  BY <1>1, <1>2, <1>3, WiringInvariant, PTL DEF Spec, Reconverges

-----------------------------------------------------------------------------
(* FollowsPlan *)

\* One step of the script as the plan has it: the k-th step of the mode, with
\* what it may write and what comes after it.
AsPlanned(k) ==
    /\ k \in DOMAIN Plan[mode] /\ Plan[mode][k].id = step
    /\ Written(disk, disk') \subseteq Plan[mode][k].writes \cup Unplanned(step)
    /\ \/ step' = "idle" /\ (k = Len(Plan[mode]) \/ outcome' = "interrupted")
       \/ k < Len(Plan[mode]) /\ step' = Plan[mode][k + 1].id

\* The plans of kiosk.rs, spelled out.
LEMMA PlanIs ==
    /\ DOMAIN Plan = {"kiosk", "uninstall"}
    /\ Plan["kiosk"] = KioskSteps(user) /\ Plan["uninstall"] = UninstallSteps(user)
    /\ Len(KioskSteps(user)) = 7 /\ DOMAIN KioskSteps(user) = 1..7
    /\ Len(UninstallSteps(user)) = 4 /\ DOMAIN UninstallSteps(user) = 1..4
<1>1. DOMAIN Plan = {"kiosk", "uninstall"}
  BY DEF Plan
<1>2. Plan["kiosk"] = KioskSteps(user) /\ Plan["uninstall"] = UninstallSteps(user)
  BY DEF Plan
<1>3. Len(KioskSteps(user)) = 7 /\ DOMAIN KioskSteps(user) = 1..7
  BY DEF KioskSteps
<1>4. Len(UninstallSteps(user)) = 4 /\ DOMAIN UninstallSteps(user) = 1..4
  BY DEF UninstallSteps
<1> QED
  BY <1>1, <1>2, <1>3, <1>4

\* The files that the commands of the two kiosk scripts write.
LEMMA WrittenBy ==
    ASSUME disk \in Disk
    PROVE  /\ Written(disk, disk) = {}
           /\ \A done \in SUBSET Owned :
                Written(disk, [disk EXCEPT !.bins["usr"] = @ \cup done])
                   \subseteq {<<"usr", "wmd-init">>, <<"usr", "wm">>}
           /\ \A x \in {user, "none"} :
                /\ Written(disk, [disk EXCEPT !.greetd = x]) \subseteq {<<"greetd">>}
                /\ Written(disk, [disk EXCEPT !.tmpfiles = x]) \subseteq {<<"tmpfiles">>}
                /\ Written(disk, [disk EXCEPT !.recovery = x]) \subseteq {<<"recovery">>}
           /\ Written(disk, [disk EXCEPT !.marker = TRUE]) \subseteq {<<"marker">>}
           /\ Written(disk, [disk EXCEPT !.linger = @ \cup {user}]) \subseteq {<<"linger", user>>}
           /\ Written(disk, [disk EXCEPT !.linger = @ \ {user}]) \subseteq {<<"linger", user>>}
           /\ Written(disk, [disk EXCEPT !.enabled = @ \cup {user}]) \subseteq {<<"enabled", user>>}
<1>1. Written(disk, disk) = {}
  BY DEF Written
<1>2. ASSUME NEW done \in SUBSET Owned
      PROVE  Written(disk, [disk EXCEPT !.bins["usr"] = @ \cup done])
                \subseteq {<<"usr", "wmd-init">>, <<"usr", "wm">>}
  BY DEF Written, Disk, Owned
<1>3. ASSUME NEW x \in {user, "none"}
      PROVE  /\ Written(disk, [disk EXCEPT !.greetd = x]) \subseteq {<<"greetd">>}
             /\ Written(disk, [disk EXCEPT !.tmpfiles = x]) \subseteq {<<"tmpfiles">>}
             /\ Written(disk, [disk EXCEPT !.recovery = x]) \subseteq {<<"recovery">>}
  BY DEF Written, Disk
<1>4. Written(disk, [disk EXCEPT !.marker = TRUE]) \subseteq {<<"marker">>}
  BY DEF Written, Disk
<1>5. /\ Written(disk, [disk EXCEPT !.linger = @ \cup {user}]) \subseteq {<<"linger", user>>}
      /\ Written(disk, [disk EXCEPT !.linger = @ \ {user}]) \subseteq {<<"linger", user>>}
  BY DEF Written, Disk
<1>6. Written(disk, [disk EXCEPT !.enabled = @ \cup {user}]) \subseteq {<<"enabled", user>>}
  BY DEF Written, Disk
<1> QED
  BY <1>1, <1>2, <1>3, <1>4, <1>5, <1>6

LEMMA KioskAsPlanned ==
    ASSUME TypeOK, StepOK, KioskInstall
    PROVE  mode = "kiosk" /\ \E k \in 1..7 : AsPlanned(k)
<1>0. disk \in Disk
  BY DEF TypeOK
<1>1. mode = "kiosk"
  <2>1. step \in {"install-binaries", "greetd-config", "enable-linger", "tmpfiles-rule",
                  "recovery-service", "installed-marker", "enable-user-target"}
    BY DEF KioskInstall, InstallBinaries, GreetdConfig, EnableLinger, TmpfilesRule,
           RecoveryService, InstalledMarker, EnableUserTarget, Whole, Command
  <2> QED
    BY <2>1 DEF StepOK, ModeSteps, TypeOK
<1> DEFINE Id(k) == <<"install-binaries", "greetd-config", "enable-linger", "tmpfiles-rule",
                      "recovery-service", "installed-marker", "enable-user-target">>[k]
<1>2. \A k \in 1..7 : KioskSteps(user)[k].id = Id(k)
  BY DEF KioskSteps
<1>3. ASSUME NEW k \in 1..7, step = Id(k),
             Written(disk, disk') \subseteq KioskSteps(user)[k].writes \cup Unplanned(step),
             \/ k = 7 /\ step' = "idle"
             \/ k < 7 /\ step' = Id(k + 1)
      PROVE  AsPlanned(k)
  BY <1>1, <1>2, <1>3, PlanIs DEF AsPlanned
<1>11. /\ KioskSteps(user)[1].writes = {<<"usr", b>> : b \in KioskBinaries}
       /\ KioskSteps(user)[2].writes = {<<"greetd">>}
       /\ KioskSteps(user)[3].writes = {<<"linger", user>>}
       /\ KioskSteps(user)[4].writes = {<<"tmpfiles">>}
       /\ KioskSteps(user)[5].writes = {<<"recovery">>}
       /\ KioskSteps(user)[6].writes = {<<"marker">>}
  BY DEF KioskSteps
<1>4. CASE InstallBinaries
  <2>1. step = Id(1) /\ step' = Id(2)
    BY <1>4 DEF InstallBinaries, Command
  <2>2. Written(disk, disk') \subseteq {<<"usr", "wmd-init">>, <<"usr", "wm">>}
    BY <1>0, <1>4, Leaves, WrittenBy
  <2>3. <<"usr", "wmd-init">> \in KioskSteps(user)[1].writes
    BY <1>11 DEF KioskBinaries
  <2>4. Unplanned(step) = {<<"usr", "wm">>}
    BY <2>1 DEF Unplanned
  <2> QED
    BY <1>1, <1>3, <2>1, <2>2, <2>3, <2>4
<1>5. CASE GreetdConfig
  <2>1. step = Id(2) /\ step' = Id(3)
    BY <1>5 DEF GreetdConfig, Command
  <2>2. Written(disk, disk') = {}
    BY <1>0, <1>5, Leaves, WrittenBy
  <2> QED
    BY <1>1, <1>3, <2>1, <2>2
<1>6. CASE EnableLinger
  <2>1. step = Id(3) /\ step' = Id(4)
    BY <1>6 DEF EnableLinger, Whole, Command
  <2>2. Written(disk, disk') \subseteq {<<"linger", user>>}
    BY <1>0, <1>6, Leaves, WrittenBy
  <2> QED
    BY <1>1, <1>3, <1>11, <2>1, <2>2
<1>7. CASE TmpfilesRule
  <2>1. step = Id(4) /\ step' = Id(5)
    BY <1>7 DEF TmpfilesRule, Whole, Command
  <2>2. Written(disk, disk') \subseteq {<<"tmpfiles">>}
    BY <1>0, <1>7, Leaves, WrittenBy
  <2> QED
    BY <1>1, <1>3, <1>11, <2>1, <2>2
<1>8. CASE RecoveryService
  <2>1. step = Id(5) /\ step' = Id(6)
    BY <1>8 DEF RecoveryService, Whole, Command
  <2>2. Written(disk, disk') \subseteq {<<"recovery">>}
    BY <1>0, <1>8, Leaves, WrittenBy
  <2> QED
    BY <1>1, <1>3, <1>11, <2>1, <2>2
<1>9. CASE InstalledMarker
  <2>1. step = Id(6) /\ step' = Id(7)
    BY <1>9 DEF InstalledMarker, Whole, Command
  <2>2. Written(disk, disk') \subseteq {<<"marker">>}
    BY <1>0, <1>9, Leaves, WrittenBy
  <2> QED
    BY <1>1, <1>3, <1>11, <2>1, <2>2
<1>10. CASE EnableUserTarget
  <2>1. step = Id(7) /\ step' = "idle"
    BY <1>10 DEF EnableUserTarget, Whole, Command
  <2>2. Written(disk, disk') \subseteq {<<"enabled", user>>}
    BY <1>0, <1>10, Leaves, WrittenBy
  <2>3. Unplanned(step) = {<<"enabled", user>>}
    BY <2>1 DEF Unplanned
  <2> QED
    BY <1>1, <1>3, <2>1, <2>2, <2>3
<1> QED
  BY <1>4, <1>5, <1>6, <1>7, <1>8, <1>9, <1>10 DEF KioskInstall

LEMMA UninstallAsPlanned ==
    ASSUME TypeOK, StepOK, KioskUninstall
    PROVE  mode = "uninstall" /\ \E k \in 1..4 : AsPlanned(k)
<1>0. disk \in Disk
  BY DEF TypeOK
<1>1. mode = "uninstall"
  <2>1. step \in {"remove-recovery-service", "remove-greetd-config", "remove-tmpfiles-rule",
                  "disable-linger"}
    BY DEF KioskUninstall, RemoveRecoveryService, RemoveGreetdConfig, RemoveTmpfilesRule,
           DisableLinger, Whole, Command
  <2> QED
    BY <2>1 DEF StepOK, ModeSteps, TypeOK
<1> DEFINE Id(k) == <<"remove-recovery-service", "remove-greetd-config",
                      "remove-tmpfiles-rule", "disable-linger">>[k]
<1>2. \A k \in 1..4 : UninstallSteps(user)[k].id = Id(k)
  BY DEF UninstallSteps
<1>3. ASSUME NEW k \in 1..4, step = Id(k),
             Written(disk, disk') \subseteq UninstallSteps(user)[k].writes,
             \/ k = 4 /\ step' = "idle"
             \/ k < 4 /\ step' = Id(k + 1)
      PROVE  AsPlanned(k)
  BY <1>1, <1>2, <1>3, PlanIs DEF AsPlanned
<1>8. /\ UninstallSteps(user)[1].writes = {<<"recovery">>}
      /\ UninstallSteps(user)[2].writes = {<<"greetd">>}
      /\ UninstallSteps(user)[3].writes = {<<"tmpfiles">>}
      /\ UninstallSteps(user)[4].writes = {<<"linger", user>>}
  BY DEF UninstallSteps
<1>4. CASE RemoveRecoveryService
  <2>1. step = Id(1) /\ step' = Id(2)
    BY <1>4 DEF RemoveRecoveryService, Whole, Command
  <2>2. Written(disk, disk') \subseteq {<<"recovery">>}
    BY <1>0, <1>4, Leaves, WrittenBy
  <2> QED
    BY <1>1, <1>3, <1>8, <2>1, <2>2
<1>5. CASE RemoveGreetdConfig
  <2>1. step = Id(2) /\ step' = Id(3)
    BY <1>5 DEF RemoveGreetdConfig, Whole, Command
  <2>2. Written(disk, disk') \subseteq {<<"greetd">>}
    BY <1>0, <1>5, Leaves, WrittenBy
  <2> QED
    BY <1>1, <1>3, <1>8, <2>1, <2>2
<1>6. CASE RemoveTmpfilesRule
  <2>1. step = Id(3) /\ step' = Id(4)
    BY <1>6 DEF RemoveTmpfilesRule, Whole, Command
  <2>2. Written(disk, disk') \subseteq {<<"tmpfiles">>}
    BY <1>0, <1>6, Leaves, WrittenBy
  <2> QED
    BY <1>1, <1>3, <1>8, <2>1, <2>2
<1>7. CASE DisableLinger
  <2>1. step = Id(4) /\ step' = "idle"
    BY <1>7 DEF DisableLinger, Whole, Command
  <2>2. Written(disk, disk') \subseteq {<<"linger", user>>}
    BY <1>0, <1>7, Leaves, WrittenBy
  <2> QED
    BY <1>1, <1>3, <1>8, <2>1, <2>2
<1> QED
  BY <1>4, <1>5, <1>6, <1>7 DEF KioskUninstall

\* A run that is cut short at a command stops there.
LEMMA InterruptedAsPlanned ==
    ASSUME TypeOK, StepOK, Interrupted, mode \in {"kiosk", "uninstall"}
    PROVE  \E k \in DOMAIN Plan[mode] : AsPlanned(k)
<1>1. /\ step' = "idle" /\ outcome' = "interrupted" /\ disk' = disk /\ step # "idle"
      /\ Written(disk, disk') = {}
  BY WrittenBy DEF Interrupted, TypeOK
<1>2. \E k \in DOMAIN Plan[mode] : Plan[mode][k].id = step
  <2>1. CASE mode = "kiosk"
    <3>1. step \in {"install-binaries", "greetd-config", "enable-linger", "tmpfiles-rule",
                    "recovery-service", "installed-marker", "enable-user-target"}
      BY <1>1, <2>1 DEF StepOK, ModeSteps
    <3>2. /\ KioskSteps(user)[1].id = "install-binaries" /\ KioskSteps(user)[2].id = "greetd-config"
          /\ KioskSteps(user)[3].id = "enable-linger" /\ KioskSteps(user)[4].id = "tmpfiles-rule"
          /\ KioskSteps(user)[5].id = "recovery-service" /\ KioskSteps(user)[6].id = "installed-marker"
          /\ KioskSteps(user)[7].id = "enable-user-target"
      BY DEF KioskSteps
    <3>3. \E k \in 1..7 : KioskSteps(user)[k].id = step
      BY <3>1, <3>2
    <3> QED
      BY <2>1, <3>3, PlanIs
  <2>2. CASE mode = "uninstall"
    <3>1. step \in {"remove-recovery-service", "remove-greetd-config",
                    "remove-tmpfiles-rule", "disable-linger"}
      BY <1>1, <2>2 DEF StepOK, ModeSteps
    <3>2. /\ UninstallSteps(user)[1].id = "remove-recovery-service"
          /\ UninstallSteps(user)[2].id = "remove-greetd-config"
          /\ UninstallSteps(user)[3].id = "remove-tmpfiles-rule"
          /\ UninstallSteps(user)[4].id = "disable-linger"
      BY DEF UninstallSteps
    <3>3. \E k \in 1..4 : UninstallSteps(user)[k].id = step
      BY <3>1, <3>2
    <3> QED
      BY <2>2, <3>3, PlanIs
  <2> QED
    BY <2>1, <2>2
<1> QED
  BY <1>1, <1>2 DEF AsPlanned

\* Whatever fails, the script takes the steps of the plan that is printed, in
\* its order and to its end unless it is cut short, and each writes only the
\* files that the plan names for it, but for the two of Unplanned.
THEOREM ScriptFollowsPlan == Spec => FollowsPlan
<1>1. WiringInv /\ [Next]_vars
        => [step # "idle" /\ mode \in DOMAIN Plan =>
              \E k \in DOMAIN Plan[mode] :
                 /\ Plan[mode][k].id = step
                 /\ Written(disk, disk') \subseteq Plan[mode][k].writes \cup Unplanned(step)
                 /\ \/ step' = "idle" /\ (k = Len(Plan[mode]) \/ outcome' = "interrupted")
                    \/ k < Len(Plan[mode]) /\ step' = Plan[mode][k + 1].id]_vars
  <2> SUFFICES ASSUME WiringInv, Next, step # "idle", mode \in DOMAIN Plan
               PROVE  \E k \in DOMAIN Plan[mode] : AsPlanned(k)
    BY DEF AsPlanned
  <2>0. TypeOK /\ StepOK /\ mode \in {"kiosk", "uninstall"}
    BY PlanIs DEF WiringInv
  <2>1. CASE KioskInstall
    BY <2>0, <2>1, KioskAsPlanned, PlanIs
  <2>2. CASE KioskUninstall
    BY <2>0, <2>2, UninstallAsPlanned, PlanIs
  <2>3. CASE Interrupted
    BY <2>0, <2>3, InterruptedAsPlanned
  <2>4. ~DevInstall
    <3>1. step \notin {"cargo-install", "reconcile", "install-system", "doctor"}
      BY <2>0 DEF StepOK, ModeSteps
    <3> QED
      BY <3>1 DEF DevInstall, CargoInstall, Reconcile, InstallSystem, Ungated, Doctor,
         Whole, Command
  <2>5. ~(\E m \in DOMAIN FirstStep, u \in Users, d \in BOOLEAN : Start(m, u, d))
    BY DEF Start
  <2>6. ~CompanionInstalled /\ ~GreetdByHand
    BY DEF CompanionInstalled, GreetdByHand, Edit
  <2> QED
    BY <2>1, <2>2, <2>3, <2>4, <2>5, <2>6 DEF Next
<1> QED
  BY <1>1, WiringInvariant, PTL DEF Spec, FollowsPlan

=============================================================================
