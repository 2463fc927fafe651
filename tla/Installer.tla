----------------------------- MODULE Installer -----------------------------
(***************************************************************************)
(* install.sh and pkg/install-system.sh on one machine: developer install, *)
(* kiosk install and kiosk uninstall, run one after the other in any       *)
(* order, wet or dry, for any user.  install.sh runs without `set -e': a   *)
(* command that fails is passed over and the script goes on.  Any command  *)
(* may fail and any run may be cut short between two commands, MaxFaults   *)
(* times in all; MaxRuns bounds the runs and MaxEdits what others change   *)
(* in between.                                                             *)
(***************************************************************************)
EXTENDS InstallConvention, FiniteSets

CONSTANTS Users,      \* possible values of --user
          Units,      \* units that are reconciled and that the doctor discovers
          Provided,   \* what the installers of companion crates leave behind
          MaxFaults, MaxRuns, MaxEdits

VARIABLES
    disk,      \* everything the scripts write
    mode, user, dry,   \* the flags of the current, or else the last, run
    step,      \* its next command, "idle" between runs
    outcome,   \* how the last run ended
    smooth,    \* history: none of its commands has failed
    worked,    \* history: units that could run when it began
    seen,      \* history: units that the gate of the last run was shown
    settled,   \* history: nothing but developer installs since one succeeded
    faults, runs, edits

flags == <<mode, user, dry>>
bounds == <<faults, runs, edits>>
vars == <<disk, flags, step, outcome, smooth, worked, seen, settled, bounds>>

\* PLATFORM_BINARIES, built by this repository.
Owned == {"wmd-init", "wm"}

\* The order of the installs in pkg/install-system.sh, which runs with set -e.
Artifacts == <<"wintermute.target", "wmd-init.service">>

\* pkg/systemd/user/wmd-init.service
Packaged == <<[flag |-> FALSE, dir |-> HomeLocal, nested |-> FALSE,
               bin |-> "wmd-init", args |-> FALSE]>>

ASSUME InstallerAssumption ==
    /\ Owned \subseteq Binaries /\ Units \subseteq Binaries
    /\ Provided \subseteq [unit: Units, place: {"local", "cargo", "usr"}, file: Files]
    /\ Users \cap {"none", "distro"} = {}
    /\ MaxFaults \in Nat /\ MaxRuns \in Nat /\ MaxEdits \in Nat

Disk == [bins: [{"local", "cargo", "usr"} -> SUBSET Binaries],
         units: [Units -> Files],                  \* ~/.config/systemd/user
         shipped: SUBSET {Artifacts[1], Artifacts[2]},  \* /usr/lib/systemd/user
         greetd: Users \cup {"none", "distro"},
         linger: SUBSET Users,
         tmpfiles: Users \cup {"none"},
         recovery: Users \cup {"none"},
         marker: BOOLEAN,
         enabled: SUBSET Users]

\* What systemd loads: the user's copy, or the packaged unit behind it.
Effective(d, u) ==
    IF d.units[u] = <<>> /\ u = "wmd-init" /\ Artifacts[2] \in d.shipped
    THEN Packaged
    ELSE d.units[u]

Runnable(d) == {u \in Units : Effective(d, u) # <<>> /\ ~Missing(Effective(d, u), d.bins)}

TypeOK ==
    /\ disk \in Disk
    /\ mode \in {"dev", "kiosk", "uninstall"} /\ user \in Users /\ dry \in BOOLEAN
    /\ outcome \in {"none", "dry", "interrupted", "complete", "failed", "ungated",
                    "kiosk", "uninstalled"}
    /\ step # "idle" => outcome = "none"
    /\ smooth \in BOOLEAN /\ worked \subseteq Units /\ seen \subseteq Units /\ settled \in BOOLEAN
    /\ faults \in 0..MaxFaults /\ runs \in 0..MaxRuns /\ edits \in 0..MaxEdits

\* A machine on which nothing of this repository has been installed.
Init ==
    /\ disk \in {[bins |-> [p \in {"local", "cargo", "usr"} |-> {}],
                  units |-> [u \in Units |-> <<>>], shipped |-> {}, greetd |-> g,
                  linger |-> {}, tmpfiles |-> "none", recovery |-> "none",
                  marker |-> FALSE, enabled |-> {}] : g \in {"none", "distro"}}
    /\ mode = "dev" /\ user \in Users /\ dry = FALSE
    /\ step = "idle" /\ outcome = "none"
    /\ smooth = TRUE /\ worked = {} /\ seen = {} /\ settled = FALSE
    /\ faults = 0 /\ runs = 0 /\ edits = 0

-----------------------------------------------------------------------------
(* Running a script *)

FirstStep == [dev |-> "cargo-install", kiosk |-> "install-binaries",
              uninstall |-> "remove-recovery-service"]

\* Mutant: the result of the run before is still there.
StartKeepsOutcome(m, u, d) ==
    /\ step = "idle" /\ runs < MaxRuns
    /\ mode' = m /\ user' = u /\ dry' = d
    /\ step' = FirstStep[m] /\ smooth' = TRUE
    /\ worked' = Runnable(disk) /\ seen' = {}
    /\ settled' = (settled /\ (m = "dev" \/ d))
    /\ runs' = runs + 1
    /\ UNCHANGED <<disk, outcome, faults, edits>>

Start(m, u, d) ==
    /\ step = "idle" /\ runs < MaxRuns
    /\ mode' = m /\ user' = u /\ dry' = d
    /\ step' = FirstStep[m] /\ outcome' = "none" /\ smooth' = TRUE
    /\ worked' = Runnable(disk) /\ seen' = {}
    /\ settled' = (settled /\ (m = "dev" \/ d))
    /\ runs' = runs + 1
    /\ UNCHANGED <<disk, faults, edits>>

\* runit: a command is announced or run.
Runit(effect) == IF dry THEN disk ELSE effect

\* [ $DRY_RUN -eq 0 ] around a whole step, its runits included.
Wet(effect) == IF dry THEN disk ELSE effect

\* One command and what it leaves behind; the script goes on whatever its status.
Command(here, effect, ok, next) ==
    /\ step = here /\ step' = next
    /\ disk' = effect
    /\ IF ok THEN UNCHANGED <<smooth, faults>>
             ELSE /\ ~dry /\ faults < MaxFaults
                  /\ smooth' = FALSE /\ faults' = faults + 1
    /\ outcome' = IF next # "idle" THEN outcome
                  ELSE IF dry THEN "dry"
                  ELSE IF mode = "kiosk" THEN "kiosk" ELSE "uninstalled"
    /\ UNCHANGED <<flags, worked, seen, settled, runs, edits>>

\* A command that does its work or, on failure, nothing.
Whole(here, effect, next) ==
    \E ok \in BOOLEAN : Command(here, IF ok THEN effect ELSE disk, ok, next)

\* ^C or a power failure between two commands.
Interrupted ==
    /\ step # "idle" /\ ~dry /\ faults < MaxFaults
    /\ step' = "idle" /\ outcome' = "interrupted" /\ smooth' = FALSE
    /\ faults' = faults + 1
    /\ UNCHANGED <<disk, flags, worked, seen, settled, runs, edits>>

-----------------------------------------------------------------------------
(* dev_install *)

CargoInstall ==
    Whole("cargo-install", Runit([disk EXCEPT !.bins["local"] = @ \cup Owned]), "reconcile")

\* reconcile_unit_file has a test of DRY_RUN of its own.
ReconcileUnitFile(f) == IF dry THEN f ELSE ReconcileUnit(f)

Reconciled(done) ==
    [disk EXCEPT !.units = [u \in Units |->
        IF u \in done THEN ReconcileUnitFile(@[u]) ELSE @[u]]]

\* One sed per unit file; each may fail by itself.
Reconcile ==
    \E done \in SUBSET Units :
        Command("reconcile", Reconciled(done), done = Units, "install-system")

\* Mutant: what an earlier version installed is removed first.
InstallSystemAfresh ==
    \E k \in 0..Len(Artifacts) :
        Command("install-system",
                Runit([disk EXCEPT !.shipped = {Artifacts[i] : i \in 1..k}]),
                k = Len(Artifacts), "doctor")

\* install-system.sh ends at its first failure.
InstallSystem ==
    \E k \in 0..Len(Artifacts) :
        Command("install-system",
                Runit([disk EXCEPT !.shipped = @ \cup {Artifacts[i] : i \in 1..k}]),
                k = Len(Artifacts), "doctor")

\* Without a wm in ~/.local/bin there is no gate: a warning, and exit 0.
Ungated ==
    /\ step = "doctor" /\ (dry \/ "wm" \notin disk.bins["local"])
    /\ step' = "idle" /\ outcome' = IF dry THEN "dry" ELSE "ungated"
    /\ settled' = (settled /\ dry)
    /\ UNCHANGED <<disk, flags, smooth, worked, seen, bounds>>

\* Mutant: only units that come with this repository are looked at.
FailuresOfOwned(shown) ==
    {u \in shown \cap Owned : Missing(Effective(disk, u), disk.bins)}

\* run_doctor: the units whose binary is not where the unit says, of those that
\* systemctl lists and shows.
Failures(shown) == {u \in shown : Missing(Effective(disk, u), disk.bins)}

\* The gate.  discover_units and probe_unit do not look at the status of
\* systemctl: a user manager that gives no answer, or not every answer, hides
\* units from the doctor, and those pass.
Doctor ==
    \E shown \in SUBSET Units :
        /\ step = "doctor" /\ ~dry /\ "wm" \in disk.bins["local"]
        /\ step' = "idle" /\ seen' = shown
        /\ outcome' = IF Failures(shown) # {} THEN "failed" ELSE "complete"
        /\ IF shown = Units THEN UNCHANGED <<smooth, faults>>
                            ELSE /\ faults < MaxFaults
                                 /\ smooth' = FALSE /\ faults' = faults + 1
        /\ settled' = (outcome' = "complete" /\ (smooth' \/ settled))
        /\ UNCHANGED <<disk, flags, worked, runs, edits>>

-----------------------------------------------------------------------------
(* kiosk_install *)

\* The two binaries built here, each only if it was built.
InstallBinaries ==
    \E done \in SUBSET Owned :
        Command("install-binaries", Wet(Runit([disk EXCEPT !.bins["usr"] = @ \cup done])),
                done = Owned, "greetd-config")

\* The body of the config holds double quotes and is pasted between double
\* quotes into the command of an inner bash: install is called with the rest of
\* the first quoted line as arguments, --cmd among them, and refuses.
GreetdConfig == Command("greetd-config", Wet(Runit(disk)), TRUE, "enable-linger")

\* Mutant: the command without runit.
EnableLingerAnyway ==
    Whole("enable-linger", [disk EXCEPT !.linger = @ \cup {user}], "tmpfiles-rule")

EnableLinger ==
    Whole("enable-linger", Runit([disk EXCEPT !.linger = @ \cup {user}]), "tmpfiles-rule")

\* Mutant: a rule that is there is not written again.
TmpfilesRuleOnce ==
    Whole("tmpfiles-rule",
          Wet(Runit([disk EXCEPT !.tmpfiles = IF @ = "none" THEN user ELSE @])),
          "recovery-service")

TmpfilesRule ==
    Whole("tmpfiles-rule", Wet(Runit([disk EXCEPT !.tmpfiles = user])), "recovery-service")

\* Mutant: the marker is skipped.
RecoveryServiceThenTarget ==
    Whole("recovery-service", Wet(Runit([disk EXCEPT !.recovery = user])),
          "enable-user-target")

RecoveryService ==
    Whole("recovery-service", Wet(Runit([disk EXCEPT !.recovery = user])),
          "installed-marker")

InstalledMarker ==
    Whole("installed-marker", Wet(Runit([disk EXCEPT !.marker = TRUE])),
          "enable-user-target")

\* systemctl enable needs the unit file, which a kiosk install does not bring.
EnableUserTarget ==
    Whole("enable-user-target",
          Wet(Runit(IF Artifacts[1] \in disk.shipped
                    THEN [disk EXCEPT !.enabled = @ \cup {user}] ELSE disk)), "idle")

-----------------------------------------------------------------------------
(* kiosk_uninstall *)

RemoveRecoveryService ==
    Whole("remove-recovery-service", Runit([disk EXCEPT !.recovery = "none"]),
          "remove-greetd-config")

\* rm -f, whoever wrote it.
RemoveGreetdConfig ==
    Whole("remove-greetd-config", Runit([disk EXCEPT !.greetd = "none"]),
          "remove-tmpfiles-rule")

\* Mutant: only a finished install, known by its marker, is reverted.
RemoveTmpfilesRuleIfInstalled ==
    Whole("remove-tmpfiles-rule",
          Runit(IF disk.marker THEN [disk EXCEPT !.tmpfiles = "none"] ELSE disk),
          "disable-linger")

RemoveTmpfilesRule ==
    Whole("remove-tmpfiles-rule", Runit([disk EXCEPT !.tmpfiles = "none"]), "disable-linger")

DisableLinger ==
    Whole("disable-linger", Runit([disk EXCEPT !.linger = @ \ {user}]), "idle")

-----------------------------------------------------------------------------
(* The others: installers of companion crates, the caregiver *)

Edit(d) ==
    /\ step = "idle" /\ edits < MaxEdits
    /\ disk' = d /\ d # disk
    /\ edits' = edits + 1 /\ outcome' = "none" /\ seen' = {} /\ settled' = FALSE
    /\ UNCHANGED <<flags, step, smooth, worked, faults, runs>>

CompanionInstalled ==
    \E c \in Provided :
        Edit([disk EXCEPT !.units[c.unit] = c.file, !.bins[c.place] = @ \cup {c.unit}])

\* "copy config.toml.example to config.toml", as install-system.sh asks.
GreetdByHand == \E u \in Users : Edit([disk EXCEPT !.greetd = u])

-----------------------------------------------------------------------------

DevInstall == CargoInstall \/ Reconcile \/ InstallSystem \/ Ungated \/ Doctor

KioskInstall ==
    \/ InstallBinaries \/ GreetdConfig \/ EnableLinger \/ TmpfilesRule
    \/ RecoveryService \/ InstalledMarker \/ EnableUserTarget

KioskUninstall ==
    RemoveRecoveryService \/ RemoveGreetdConfig \/ RemoveTmpfilesRule \/ DisableLinger

Next ==
    \/ \E m \in DOMAIN FirstStep, u \in Users, d \in BOOLEAN : Start(m, u, d)
    \/ DevInstall \/ KioskInstall \/ KioskUninstall
    \/ Interrupted \/ CompanionInstalled \/ GreetdByHand

Spec == Init /\ [][Next]_vars

-----------------------------------------------------------------------------
(* The plan of kiosk.rs: the steps in order, and the files each writes *)

\* KIOSK_BINARIES; wm is not one of them.
KioskBinaries == {"wm-tts", "wm-stt", "wm-audio", "wm-dialog", "wmd", "wmd-init", "wm-bootstrap"}

\* The plan names a file of the linger directory for the last step as well.
KioskSteps(u) ==
    <<[id |-> "install-binaries",   writes |-> {<<"usr", b>> : b \in KioskBinaries}],
      [id |-> "greetd-config",      writes |-> {<<"greetd">>}],
      [id |-> "enable-linger",      writes |-> {<<"linger", u>>}],
      [id |-> "tmpfiles-rule",      writes |-> {<<"tmpfiles">>}],
      [id |-> "recovery-service",   writes |-> {<<"recovery">>}],
      [id |-> "installed-marker",   writes |-> {<<"marker">>}],
      [id |-> "enable-user-target", writes |-> {<<"linger", u>>}]>>

UninstallSteps(u) ==
    <<[id |-> "remove-recovery-service", writes |-> {<<"recovery">>}],
      [id |-> "remove-greetd-config",    writes |-> {<<"greetd">>}],
      [id |-> "remove-tmpfiles-rule",    writes |-> {<<"tmpfiles">>}],
      [id |-> "disable-linger",          writes |-> {<<"linger", u>>}]>>

Plan == [kiosk |-> KioskSteps(user), uninstall |-> UninstallSteps(user)]

\* The files in which two disks differ.
Written(d, e) ==
    LET Changed(s, t) == (s \ t) \cup (t \ s)
    IN  {<<p>> : p \in {q \in {"units", "greetd", "tmpfiles", "recovery", "marker"} : d[q] # e[q]}}
        \cup {<<"local", b>> : b \in Changed(d.bins["local"], e.bins["local"])}
        \cup {<<"cargo", b>> : b \in Changed(d.bins["cargo"], e.bins["cargo"])}
        \cup {<<"usr", b>> : b \in Changed(d.bins["usr"], e.bins["usr"])}
        \cup {<<"shipped", a>> : a \in Changed(d.shipped, e.shipped)}
        \cup {<<"linger", u>> : u \in Changed(d.linger, e.linger)}
        \cup {<<"enabled", u>> : u \in Changed(d.enabled, e.enabled)}

\* What a kiosk install writes besides: wm, and the wants link of the target.
Unplanned(s) ==
    CASE s = "install-binaries"   -> {<<"usr", "wm">>}
      [] s = "enable-user-target" -> {<<"enabled", user>>}
      [] OTHER                    -> {}

-----------------------------------------------------------------------------
(* Properties *)

\* install.sh and the plan it prints come from different files.  The script
\* takes the steps of the plan in the plan's order, leaves none out unless it is
\* cut short, and writes no file that the plan does not name for the step, but
\* for the two of Unplanned.
FollowsPlan ==
    [][step # "idle" /\ mode \in DOMAIN Plan =>
          \E k \in DOMAIN Plan[mode] :
             /\ Plan[mode][k].id = step
             /\ Written(disk, disk') \subseteq Plan[mode][k].writes \cup Unplanned(step)
             /\ \/ step' = "idle" /\ (k = Len(Plan[mode]) \/ outcome' = "interrupted")
                \/ k < Len(Plan[mode]) /\ step' = Plan[mode][k + 1].id]_vars

\* Every command of the three modes is kept from a dry run by a test of its own,
\* runit's or the step's.  Through all of them, on any machine, a dry run
\* changes nothing, and it is not refused, however broken the fleet is.
DryRunWritesNothing ==
    [][dry /\ step # "idle" => disk' = disk /\ outcome' \in {"none", "dry"}]_vars

\* However many installs, for whichever users, were cut short or went wrong
\* before: after an uninstall whose commands succeed nobody is logged in at
\* boot, and the recovery service, the tmpfiles rule and the linger of its user
\* are gone.  The marker and the enabled target stay, the greetd config of the
\* distribution does not.
UninstallReverts ==
    outcome = "uninstalled" /\ smooth =>
        /\ disk.greetd \notin Users /\ disk.recovery = "none" /\ disk.tmpfiles = "none"
        /\ user \notin disk.linger

\* A kiosk install whose commands succeed repairs what earlier runs left: all
\* its wiring is there and is that of one and the same user.  The autologin is
\* not part of this (AutologinWired), nor the target when no developer install
\* has brought its unit file.
KioskRepairs ==
    outcome = "kiosk" /\ smooth =>
        /\ user \in disk.linger /\ disk.tmpfiles = user /\ disk.recovery = user
        /\ disk.marker /\ Owned \subseteq disk.bins["usr"]
        /\ Artifacts[1] \in disk.shipped => user \in disk.enabled

\* Rewriting unit files can take a unit away from the only place its binary is
\* at, and uninstalling "leaves wm-* binaries intact".  Also when commands fail
\* on the way: after a kiosk install, an uninstall or a dry run, whatever could
\* run when it began can still run; after a developer install that ends as
\* complete, whatever of it the gate was shown.
NothingBroken ==
    /\ outcome \in {"kiosk", "uninstalled", "dry"} => worked \subseteq Runnable(disk)
    /\ outcome = "complete" => worked \cap seen \subseteq Runnable(disk)

\* "Re-running this script on an already-installed fleet converges to the same
\* state without errors": after an install that ended as complete without a
\* failing command, its gate shown all units, even when commands of the later
\* run fail or its gate is shown less.
Reconverges ==
    [][settled /\ step # "idle" =>
          /\ disk' = disk
          /\ outcome' \notin {"failed", "ungated"}]_vars

-----------------------------------------------------------------------------
(* What the documentation says and the code does not do *)

\* install.sh: "kiosk install: /usr/local/bin/ + greetd autologin + ...".  After
\* an install in which nothing else went wrong, the user is logged in at boot.
AutologinWired == outcome = "kiosk" /\ smooth => disk.greetd = user

=============================================================================
