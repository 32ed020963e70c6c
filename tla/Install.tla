------------------------------- MODULE Install -------------------------------
(***************************************************************************)
(* install.sh: attempts to install, one at a time under flock.  An attempt *)
(* stages a release of its own, replaces the entry points one by one and   *)
(* rolls all of it back when a command fails or a signal comes.  A second  *)
(* signal finds the traps reset; SIGKILL comes any time.                   *)
(* The nine hook and launcher links and the two compatibility links are    *)
(* one entry, "launcher"; an attempt and its release have one name.        *)
(***************************************************************************)
EXTENDS Integers, Sequences

CONSTANTS
    Attempts,   \* attempts to install, each with its release directory
    Old,        \* the release of an earlier install
    Legacy,     \* what flat installs and earlier versions wrote
    Linked,     \* a link through current
    Absent, Off,
    Sigkill     \* whether SIGKILL happens

Releases == Attempts \cup {Old}
Values == Releases \cup {Legacy, Linked, Absent}

\* The order in which entries are replaced.
Order == <<"current", "launcher", "unit">>
Names == {"current", "launcher", "unit"}

ASSUME InstallAssumption ==
    /\ Old \notin Attempts /\ Sigkill \in BOOLEAN
    /\ {Legacy, Linked, Absent, Off} \cap Releases = {}
    /\ Legacy # Linked /\ Legacy # Absent /\ Linked # Absent /\ Legacy # Off

VARIABLES
    standalone, \* no AXP_HOST, root, systemd: the unit is this script's
    entry,      \* what each entry point holds
    next,       \* the link .current.next, or Absent
    stage,      \* per release: how far its directory is
    running,    \* the release the daemon runs, or Off
    enabled,    \* the unit is enabled
    me,         \* the attempt that has the flock, or had it last
    pc,         \* where it is
    changed,    \* how many entries of Order are in CHANGED
    left,       \* how many of them the rollback has still to restore
    backup,     \* the copies in TRANSACTION
    newUnit, wasActive, failed,
    before,     \* the system as the attempt found it
    outcome     \* per attempt: how it ended

disk == <<entry, next, stage>>
service == <<running, enabled>>
script == <<me, changed, newUnit, wasActive, before>>
vars == <<standalone, disk, service, script, pc, left, backup, failed, outcome>>

Forward == {"staging", "remembering", "linking", "switching", "enabling",
            "restarting", "committing"}
Backward == {"restoring", "disabling", "reviving", "ending", "removing", "cleaning"}

\* A release is built, passes its health check and is removed file by file.
Stages == {"none", "partial", "checked", "removing", "removed"}

TypeOK ==
    /\ standalone \in BOOLEAN
    /\ entry \in [Names -> Values]
    /\ entry["current"] \in Releases \cup {Absent}
    /\ entry["launcher"] \in {Legacy, Linked, Absent}
    /\ next \in Releases \cup {Absent}
    /\ stage \in [Releases -> Stages]
    /\ running \in Releases \cup {Legacy, Off} /\ enabled \in BOOLEAN
    /\ me \in Releases
    /\ pc \in {"idle"} \cup Forward \cup Backward
    /\ changed \in 0..Len(Order) /\ left \in 0..changed
    /\ backup \in [Names -> Values]
    /\ newUnit \in BOOLEAN /\ wasActive \in BOOLEAN /\ failed \in BOOLEAN
    /\ before \in [entry : [Names -> Values], running : Releases \cup {Legacy, Off},
                   enabled : BOOLEAN]
    /\ outcome \in [Attempts -> {"none", "committed", "rolled_back", "incomplete",
                                 "interrupted", "killed"}]
    /\ pc # "idle" => me \in Attempts
    /\ pc \in {"linking", "switching"} => changed > 0
    /\ pc = "remembering" => changed < Len(Order)
    /\ pc = "restoring" => left > 0

\* Nothing, a flat install or a release is there.  A host runs the daemon or not;
\* a standalone daemon runs, if it does, from the unit.
Init ==
    /\ standalone \in BOOLEAN
    /\ \E n \in {<<Absent, Absent>>, <<Absent, Legacy>>, <<Old, Linked>>},
          u \in {Absent, Legacy}, run \in BOOLEAN :
         /\ entry = [e \in Names |-> CASE e = "current" -> n[1]
                                       [] e = "launcher" -> n[2]
                                       [] e = "unit" -> u]
         /\ u # Absent => standalone /\ n[2] # Absent
         /\ run => n[2] # Absent /\ (standalone => u # Absent)
         /\ running = IF ~run THEN Off ELSE IF n[2] = Legacy THEN Legacy ELSE Old
         /\ enabled \in {FALSE, u # Absent}
    /\ next = Absent
    /\ stage = [r \in Releases |-> IF r = Old THEN "checked" ELSE "none"]
    /\ me = Old /\ pc = "idle"
    /\ changed = 0 /\ left = 0
    /\ backup = [n \in Names |-> Absent]
    /\ newUnit = FALSE /\ wasActive = FALSE /\ failed = FALSE
    /\ before = [entry |-> entry, running |-> running, enabled |-> enabled]
    /\ outcome = [r \in Attempts |-> "none"]

-----------------------------------------------------------------------------
Go(from, to) == pc = from /\ pc' = to

\* What the unit's ExecStart may start, given the entries: the launcher, through
\* current.  What is left of a release that was half removed starts or does not.
BootsOf(e) ==
    LET r == e["current"] IN
    IF e["launcher"] = Legacy THEN {Legacy}
    ELSE IF e["launcher"] # Linked \/ r = Absent THEN {Off}
    ELSE IF stage[r] = "checked" THEN {r}
    ELSE IF stage[r] = "removing" THEN {r, Off}
    ELSE {Off}

Boots == BootsOf(entry)

Begin(r) ==
    /\ Go("idle", "staging") /\ stage[r] = "none"
    /\ me' = r
    /\ stage' = [stage EXCEPT ![r] = "partial"]
    /\ changed' = 0 /\ left' = 0
    /\ backup' = [n \in Names |-> Absent]
    /\ newUnit' = FALSE /\ wasActive' = FALSE /\ failed' = FALSE
    /\ before' = [entry |-> entry, running |-> running, enabled |-> enabled]
    /\ UNCHANGED <<standalone, entry, next, service, outcome>>

\* The virtualenv, the package and the offline health check.
Staged ==
    /\ Go("staging", "remembering")
    /\ stage' = [stage EXCEPT ![me] = "checked"]
    /\ UNCHANGED <<standalone, entry, next, service, script, left, backup, failed, outcome>>

\* cp -a of what the entry holds, if it holds anything.
\* Mutant of Copy: nothing is copied.
CopyNothing(n) == Absent
Copy(n) == entry[n]

\* remember; for the unit, its state is looked at too.
Remember(n) ==
    /\ Go("remembering", IF n = "current" THEN "linking" ELSE "switching")
    /\ n = Order[changed + 1]
    /\ backup' = [backup EXCEPT ![n] = Copy(n)]
    /\ changed' = changed + 1
    /\ newUnit' = (n = "unit" /\ entry[n] = Absent)
    /\ wasActive' = (n = "unit" /\ entry[n] # Absent /\ running # Off)
    /\ UNCHANGED <<standalone, disk, service, me, left, failed, before, outcome>>

\* ln -s of .current.next.  A link left there by an earlier attempt is followed
\* into what is left of that attempt's release; if nothing is, ln fails.
Link ==
    /\ Go("linking", "switching")
    /\ next # Absent => stage[next] # "removed"
    /\ next' = IF next = Absent THEN me ELSE next
    /\ UNCHANGED <<standalone, entry, stage, service, script, left, backup, failed, outcome>>

\* A unit that was there and stopped is left so.
\* Mutant of Restarts: every unit is restarted.
RestartsAny == standalone
Restarts == wasActive

AfterSwitch ==
    IF changed < (IF standalone THEN 3 ELSE 2) THEN "remembering"
    ELSE IF newUnit THEN "enabling"
    ELSE IF Restarts THEN "restarting"
    ELSE "committing"

\* mv -T over the entry; the unit is reloaded.
Switch(n) ==
    /\ Go("switching", AfterSwitch)
    /\ n = Order[changed]
    /\ entry' = [entry EXCEPT ![n] = CASE n = "current" -> next
                                       [] n = "launcher" -> Linked
                                       [] n = "unit" -> me]
    /\ next' = IF n = "current" THEN Absent ELSE next
    /\ UNCHANGED <<standalone, stage, service, script, left, backup, failed, outcome>>

Enable ==
    /\ Go("enabling", "restarting")
    /\ enabled' = TRUE
    /\ UNCHANGED <<standalone, disk, running, script, left, backup, failed, outcome>>

\* Mutant of Restarted: the unit is only started, which leaves a daemon that runs.
RestartedIfOff == IF running = Off THEN Boots ELSE {running}
Restarted == Boots

Restart ==
    /\ Go("restarting", "committing")
    /\ running' \in Restarted
    /\ UNCHANGED <<standalone, disk, enabled, script, left, backup, failed, outcome>>

Commit ==
    /\ Go("committing", "cleaning")
    /\ outcome' = [outcome EXCEPT ![me] = "committed"]
    /\ UNCHANGED <<standalone, disk, service, script, left, backup, failed>>

-----------------------------------------------------------------------------
\* Mutant of FirstUndone: the loop does not look whether anything was changed.
FirstUndoneAlways == "restoring"
FirstUndone == IF changed = 0 THEN "ending" ELSE "restoring"

\* A command fails, or the first signal comes: finish starts to roll back.
Fail ==
    /\ pc \in Forward /\ pc' = FirstUndone
    /\ left' = changed
    /\ UNCHANGED <<standalone, disk, service, script, backup, failed, outcome>>

\* A restart that fails may have stopped the daemon, or started it.
RestartFails ==
    /\ Go("restarting", "restoring")
    /\ left' = changed
    /\ running' \in {running, Off} \cup Boots
    /\ UNCHANGED <<standalone, disk, enabled, script, backup, failed, outcome>>

AfterRestore ==
    IF left > 1 THEN "restoring"
    ELSE IF newUnit THEN "disabling"
    ELSE IF changed = 3 THEN "reviving"
    ELSE "ending"

\* The copy is moved back; an entry without one is removed.
\* Mutant of Restored: an entry without one is left.
RestoredCopies(n) == IF backup[n] = Absent THEN entry[n] ELSE backup[n]
Restored(n) == backup[n]

\* Last entry first.
Restore ==
    /\ Go("restoring", AfterRestore) /\ left' = left - 1
    /\ LET n == Order[left] IN
         /\ entry' = [entry EXCEPT ![n] = Restored(n)]
         /\ backup' = [backup EXCEPT ![n] = Absent]
    /\ UNCHANGED <<standalone, next, stage, service, script, failed, outcome>>

RestoreFails ==
    /\ Go("restoring", AfterRestore) /\ left' = left - 1
    /\ failed' = TRUE
    /\ UNCHANGED <<standalone, disk, service, script, backup, outcome>>

\* systemctl disable --now, of a unit whose file is gone already.
Disable ==
    /\ Go("disabling", "reviving")
    /\ \/ enabled' = FALSE /\ running' = Off /\ UNCHANGED failed
       \/ enabled' \in {enabled, FALSE} /\ failed' = TRUE /\ UNCHANGED running
    /\ UNCHANGED <<standalone, disk, script, left, backup, outcome>>

\* daemon-reload, and restart of what was active.
Revive ==
    /\ Go("reviving", "ending")
    /\ \/ running' \in (IF wasActive THEN Boots ELSE {running}) /\ UNCHANGED failed
       \/ running' \in (IF wasActive THEN {running, Off} \cup Boots ELSE {running}) /\ failed' = TRUE
    /\ UNCHANGED <<standalone, disk, enabled, script, left, backup, outcome>>

\* Mutant of Keeps: the release is removed all the same.
KeepsNothing == FALSE
Keeps == failed

\* An incomplete rollback keeps the release and the copies, and the link.
Retain ==
    /\ Go("ending", "idle") /\ Keeps
    /\ outcome' = [outcome EXCEPT ![me] = "incomplete"]
    /\ UNCHANGED <<standalone, disk, service, script, left, backup, failed>>

\* rm -rf of the release, which takes its time: Cut may come in the middle of it.
Remove ==
    /\ Go("ending", "removing") /\ ~Keeps
    /\ stage' = [stage EXCEPT ![me] = "removing"]
    /\ UNCHANGED <<standalone, entry, next, service, script, left, backup, failed, outcome>>

Removed ==
    /\ Go("removing", "cleaning")
    /\ stage' = [stage EXCEPT ![me] = "removed"]
    /\ outcome' = [outcome EXCEPT ![me] = "rolled_back"]
    /\ UNCHANGED <<standalone, entry, next, service, script, left, backup, failed>>

\* The temporary links and the transaction directory are removed.
Clean ==
    /\ Go("cleaning", "idle")
    /\ next' = Absent
    /\ backup' = [n \in Names |-> Absent]
    /\ UNCHANGED <<standalone, entry, stage, service, script, left, failed, outcome>>

\* The script is gone: by SIGKILL, or, once finish has reset the traps, by a
\* signal or an rm that fails.
Cut ==
    /\ Go(pc, "idle") /\ pc # "idle"
    /\ \E how \in {"interrupted", "killed"} :
         /\ how = "interrupted" => pc \in Backward
         /\ how = "killed" => Sigkill
         /\ outcome' = [outcome EXCEPT ![me] = IF @ = "none" THEN how ELSE @]
    /\ UNCHANGED <<standalone, disk, service, script, left, backup, failed>>

\* The daemon dies and systemd starts it again (Restart=always).
SystemdRestarts ==
    /\ running # Off /\ running' \in Boots
    /\ UNCHANGED <<standalone, disk, enabled, script, pc, left, backup, failed, outcome>>

Next ==
    \/ \E r \in Attempts : Begin(r)
    \/ \E n \in Names : Remember(n) \/ Switch(n)
    \/ Staged \/ Link \/ Enable \/ Restart \/ Commit
    \/ Fail \/ RestartFails \/ Restore \/ RestoreFails \/ Disable \/ Revive
    \/ Retain \/ Remove \/ Removed \/ Clean
    \/ Cut \/ SystemdRestarts

Spec == Init /\ [][Next]_vars

-----------------------------------------------------------------------------
Ended(how) == pc = "idle" /\ me \in Attempts /\ outcome[me] = how

Usable(r) ==
    \/ stage[r] = "checked"
    \/ stage[r] = "removing" /\ r \in Attempts /\ outcome[r] \in {"interrupted", "killed"}

\* Some earlier attempt was cut short while it removed its release.
HalfRemoved == \E r \in Attempts \ {me} : stage[r] = "removing"

\* Whatever failed, was cut short or was left behind by earlier attempts, current
\* names a whole release, or one whose removal was cut short (a later attempt
\* finds the link to it and follows it): never one that is being built, being
\* removed or gone.
CurrentUsable == entry["current"] # Absent => Usable(entry["current"])

\* "errors during activation (including standalone service operations) restore
\* the previous entrypoints and unit file" (README.md): after a rollback the
\* entries are what they were; if the unit was touched, one that was there is as
\* before and runs, or does not, from them, and one that was not is off.  (A daemon
\* that died while current led to a half removed release may be off, too.)
RollbackRestores ==
    LET there == before.entry["unit"] # Absent IN
    Ended("rolled_back") =>
        /\ entry = before.entry
        /\ changed = 3 =>
             /\ enabled = (there /\ before.enabled)
             /\ IF there /\ before.running # Off
                THEN running \in Boots \/ (HalfRemoved /\ running = Off)
                ELSE running = Off

\* "If rollback itself fails, the hook [...] retains the candidate and
\* transaction backups" (README.md): of each entry that still differs there is
\* a copy, or nothing was there; so it is when the script was cut short.
Recoverable ==
    pc = "idle" => \A n \in Names : entry[n] = before.entry[n]
                     \/ before.entry[n] \in {backup[n], Absent}
                     \/ (me \in Attempts /\ outcome[me] = "committed")

\* "preserve existing enablement/stopped state" (README.md): at no moment of an
\* attempt is an existing unit enabled or disabled, or a stopped one started.
StoppedStaysStopped ==
    before.entry["unit"] # Absent =>
        /\ enabled = before.enabled
        /\ before.running = Off => running = Off

\* After an install, current names its release and a standalone daemon that was
\* started or active runs it, unless an earlier attempt was cut short.
CommitActivates ==
    Ended("committed") /\ (\A r \in Attempts : outcome[r] \in {"none", "committed", "rolled_back"}) =>
        /\ entry["current"] = me /\ entry["launcher"] = Linked
        /\ standalone /\ (before.entry["unit"] = Absent \/ before.running # Off) => running = me

\* "Activation atomically replaces the `current` symlink" (README.md): after an
\* install that committed, current names its release.
CommittedIsCurrent == Ended("committed") => entry["current"] = me
=============================================================================
