---------------------------- MODULE InstallProofs ----------------------------
(***************************************************************************)
(* The safety of Install, for any number of attempts.  The invariant says, *)
(* for each place of the script, which entries still hold what the attempt *)
(* found, which have their copy and which are new, what the releases that  *)
(* something names are like, and how the daemon stands.                    *)
(***************************************************************************)
EXTENDS Install, TLAPS

\* What the places of the script imply.
ScriptOK ==
    /\ \A r \in Attempts : stage[r] = "none" => outcome[r] = "none"
    /\ \A r \in Releases : stage[r] = "removing" => Usable(r) \/ (r = me /\ pc = "removing")
    /\ pc \notin {"idle", "cleaning"} => outcome[me] = "none"
    /\ pc = "cleaning" => outcome[me] \in {"committed", "rolled_back"}
    /\ pc \in Forward \cup {"removing"} => ~failed
    /\ pc \in Forward \ {"staging"} => stage[me] = "checked"
    /\ pc # "idle" => stage[me] # "none"
    /\ pc = "removing" => stage[me] = "removing"
    /\ changed = 3 => standalone
    /\ pc = "remembering" => changed < IF standalone THEN 3 ELSE 2
    /\ pc = "staging" => changed = 0
    /\ pc = "linking" => changed = 1
    /\ pc \in {"enabling", "disabling"} => newUnit
    /\ pc = "restarting" => newUnit \/ wasActive
    /\ newUnit \/ wasActive => changed = 3
    /\ pc = "committing" => changed = IF standalone THEN 3 ELSE 2
    /\ pc = "idle" /\ me \in Attempts => outcome[me] # "none"
    /\ me \notin Attempts => entry = before.entry /\ changed = 0

\* What was found out about the unit agrees with the system as it was.
UnitOK ==
    /\ newUnit => before.entry["unit"] = Absent
    /\ wasActive => before.entry["unit"] # Absent /\ before.running # Off
    /\ changed = 3 /\ before.entry["unit"] = Absent => newUnit

\* Releases that something names are usable; only the link that is left may name
\* one that is gone.
LinksOK ==
    /\ CurrentUsable
    /\ next # Absent => Usable(next) \/ stage[next] = "removed" \/ (next = me /\ pc = "removing")
    /\ pc = "switching" /\ changed = 1 => next # Absent /\ Usable(next)
    /\ before.entry["current"] \in Releases \cup {Absent}
    /\ before.entry["launcher"] \in {Legacy, Linked, Absent}
    /\ pc # "idle" /\ before.entry["current"] # Absent =>
         Usable(before.entry["current"]) /\ before.entry["current"] # me

Same(n) == entry[n] = before.entry[n]
Copied(n) == backup[n] = before.entry[n]

\* The entries from the first to this one still have to be restored.
Pending == IF pc \in Forward THEN changed ELSE IF pc = "restoring" THEN left ELSE 0

\* The entries that hold the new version already.
Switched == IF pc \in {"linking", "switching"} THEN changed - 1 ELSE changed

EntriesOK ==
    /\ pc \notin {"idle", "cleaning"} => \A i \in 1..3 :
         IF i <= Pending THEN Copied(Order[i])
         ELSE Same(Order[i]) \/ (failed /\ Copied(Order[i]))
    /\ pc \in Forward =>
         /\ \A i \in 1..3 : i > Switched => Same(Order[i])
         /\ Switched > 0 => entry["current"] # Absent
         /\ Switched > 1 => entry["launcher"] = Linked

\* How an attempt may be found once it is over.
EndedOK ==
    /\ Recoverable
    /\ me \in Attempts /\ outcome[me] = "rolled_back" => entry = before.entry /\ stage[me] = "removed"

\* What the launcher started before.
FoundBoots == BootsOf(before.entry)

There == before.entry["unit"] # Absent

\* How the daemon stands: it is touched once the unit has been looked at.
ServiceOK ==
    /\ changed < 3 /\ running # Off => before.running # Off
    /\ pc \in Forward /\ changed < 3 /\ before.running # Off /\ Off \notin FoundBoots =>
         running # Off \/ HalfRemoved
    /\ changed = 3 /\ There /\ ~wasActive => running = Off
    /\ pc # "idle" /\ changed = 3 /\ There /\ ~wasActive /\ before.running # Off =>
         Off \in FoundBoots \/ HalfRemoved
    /\ pc \in {"reviving", "ending", "removing"} /\ newUnit /\ ~failed => ~enabled /\ running = Off
    /\ pc \in {"ending", "removing"} /\ wasActive /\ ~failed => running \in Boots

RolledBackOK ==
    me \in Attempts /\ outcome[me] = "rolled_back" /\ changed = 3 =>
        /\ enabled = (There /\ before.enabled)
        /\ IF There /\ before.running # Off
           THEN running \in Boots \/ (HalfRemoved /\ running = Off)
           ELSE running = Off

\* No attempt was cut short or left something behind.
AllClean == \A r \in Attempts : outcome[r] \in {"none", "committed", "rolled_back"}

Activated ==
    /\ entry["current"] = me /\ entry["launcher"] = Linked /\ stage[me] = "checked"
    /\ standalone /\ (~There \/ before.running # Off) => running = me

CommitOK ==
    /\ pc \in Forward /\ changed > 0 /\ Switched > 0 => next = Absent
    /\ pc = "cleaning" /\ outcome[me] = "committed" => next = Absent
    /\ AllClean =>
         /\ next # Absent => stage[next] = "removed" \/ (next = me /\ pc # "idle")
         /\ before.running # Off => Off \notin FoundBoots
         /\ pc \in Forward /\ Switched > 0 => entry["current"] = me
         /\ pc = "committing" \/ (me \in Attempts /\ outcome[me] = "committed") => Activated

Inv ==
    /\ TypeOK /\ ScriptOK /\ UnitOK /\ LinksOK /\ EntriesOK /\ EndedOK
    /\ StoppedStaysStopped /\ ServiceOK /\ RolledBackOK /\ CommitOK

-----------------------------------------------------------------------------
LEMMA Constants ==
  /\ Order[1] = "current" /\ Order[2] = "launcher" /\ Order[3] = "unit" /\ Len(Order) = 3
  /\ Names = {Order[i] : i \in 1..3}
  BY DEF Order, Names

\* A removal is cut short only together with its attempt.
LEMMA CleanHistory ==
  ASSUME Inv, AllClean
  PROVE  ~HalfRemoved
  BY DEF Inv, ScriptOK, Usable, AllClean, HalfRemoved, Releases

\* Unless an earlier release is half removed, what could be started before can
\* be started all along.
LEMMA BootStands ==
  ASSUME Inv, pc \in Forward, ~HalfRemoved, Off \notin FoundBoots
  PROVE  Off \notin Boots
  <1>1. entry["current"] # Absent => entry["current"] \in Releases /\ stage[entry["current"]] = "checked"
    <2>1. entry["current"] # Absent => entry["current"] \in Releases /\ Usable(entry["current"])
      BY DEF Inv, LinksOK, CurrentUsable, TypeOK
    <2>2. stage[me] # "removing"
      BY DEF Inv, TypeOK, ScriptOK, Usable, Forward
    <2> QED BY <2>1, <2>2 DEF Usable, HalfRemoved
  <1>2. Switched <= 0 => Same("current")
    BY Constants DEF Inv, EntriesOK, Switched, TypeOK
  <1>3. Switched <= 1 => Same("launcher")
    BY Constants DEF Inv, EntriesOK, Switched, TypeOK
  <1>4. Switched > 0 => entry["current"] # Absent
    BY DEF Inv, EntriesOK
  <1>5. Switched > 1 => entry["launcher"] = Linked
    BY DEF Inv, EntriesOK
  <1>6. Switched \in Int
    BY Constants DEF Inv, TypeOK, Switched
  <1> QED
    BY <1>1, <1>2, <1>3, <1>4, <1>5, <1>6, InstallAssumption DEF FoundBoots, Boots, BootsOf, Same, Releases, HalfRemoved

\* One lemma per action, one step per conjunct of the invariant, the conjuncts
\* that follow from themselves together in one step.

\* A new attempt starts from what earlier ones left: CommitOK has to carry over
\* that a daemon that runs can be started again.
LEMMA BeginKeeps ==
  ASSUME Inv, NEW r \in Attempts, Begin(r)
  PROVE  Inv'
  <1> USE Constants, InstallAssumption DEF Inv, Begin, Go, disk, service, script, Releases, Forward, Backward
  <1>1. TypeOK'
    <2>1. before' \in [entry : [Names -> Values], running : Releases \cup {Legacy, Off}, enabled : BOOLEAN]
      BY DEF TypeOK
    <2>2. backup' \in [Names -> Values]
      BY DEF Values
    <2>3. stage' \in [Releases -> Stages]
      BY DEF TypeOK, Stages
    <2>4. me' \in Attempts /\ pc' = "staging" /\ changed' \in 0..3 /\ left' \in 0..changed'
      OBVIOUS
    <2> QED BY <2>1, <2>2, <2>3, <2>4 DEF TypeOK
  <1>2. ScriptOK'
    BY DEF ScriptOK, TypeOK, Usable
  <1>3. UnitOK' /\ StoppedStaysStopped' /\ ServiceOK' /\ RolledBackOK'
    BY DEF UnitOK, StoppedStaysStopped, ServiceOK, RolledBackOK
  <1>4. LinksOK'
    BY DEF LinksOK, TypeOK, CurrentUsable, Usable
  <1>5. EntriesOK'
    BY DEF EntriesOK, Same, Pending, Switched
  <1>6. EndedOK'
    BY DEF EndedOK, ScriptOK, Recoverable
  <1>7. CommitOK'
    <2>1. FoundBoots' = Boots
      BY DEF LinksOK, CurrentUsable, Usable, FoundBoots, Boots, BootsOf, HalfRemoved
    <2>2. AllClean /\ running # Off => Off \notin Boots
      <3> SUFFICES ASSUME AllClean, running # Off PROVE Off \notin Boots
        OBVIOUS
      <3>1. CASE me \in Attempts /\ outcome[me] = "committed"
        BY <3>1 DEF CommitOK, Activated, Boots, BootsOf
      <3>2. CASE me \notin Attempts \/ outcome[me] = "rolled_back"
        <4>1. entry = before.entry /\ Boots = FoundBoots
          BY <3>2 DEF EndedOK, ScriptOK, LinksOK, CurrentUsable, Usable, FoundBoots, Boots, BootsOf, HalfRemoved
        <4>2. before.running # Off
          <5>1. changed < 3 => before.running # Off
            BY DEF ServiceOK
          <5>2. changed = 3 => me \in Attempts /\ outcome[me] = "rolled_back"
            BY <3>2 DEF ScriptOK
          <5>3. changed = 3 => before.running # Off
            BY <5>2 DEF RolledBackOK
          <5> QED BY <5>1, <5>3 DEF TypeOK
        <4> QED BY <4>1, <4>2 DEF CommitOK
      <3>3. me \in Attempts => outcome[me] \in {"committed", "rolled_back"}
        BY DEF ScriptOK, AllClean
      <3> QED BY <3>1, <3>2, <3>3
    <2>3. next # Absent => next # r
      BY DEF LinksOK, Usable
    <2>4. outcome'[r] = "none"
      BY DEF ScriptOK
    <2> QED BY <2>1, <2>2, <2>3, <2>4 DEF CommitOK, TypeOK, AllClean, Switched
  <1> QED BY <1>1, <1>2, <1>3, <1>4, <1>5, <1>6, <1>7

LEMMA StagedKeeps ==
  ASSUME Inv, Staged
  PROVE  Inv'
  <1> USE Constants, InstallAssumption DEF Inv, Staged, Go, disk, service, script, Releases, Forward, Backward
  <1>1. TypeOK'
    BY DEF TypeOK, Stages, ScriptOK
  <1>2. ScriptOK'
    BY DEF ScriptOK, TypeOK, Usable
  <1>3. UnitOK' /\ StoppedStaysStopped'
    BY DEF UnitOK, StoppedStaysStopped
  <1>4. LinksOK'
    BY DEF LinksOK, CurrentUsable, Usable
  <1>5. EntriesOK'
    BY DEF EntriesOK, Same, Copied, Pending, Switched
  <1>6. EndedOK'
    BY DEF EndedOK, ScriptOK, Recoverable
  <1>7. ServiceOK'
    BY DEF ServiceOK, LinksOK, TypeOK, There, FoundBoots, BootsOf, HalfRemoved
  <1>8. RolledBackOK'
    BY DEF RolledBackOK, ScriptOK
  <1>9. CommitOK'
    BY DEF CommitOK, AllClean, Switched, Activated, There, FoundBoots, BootsOf, HalfRemoved
  <1> QED BY <1>1, <1>2, <1>3, <1>4, <1>5, <1>6, <1>7, <1>8, <1>9

\* remember: the copy of an entry is of what the attempt found; with the unit
\* is_active is asked, so from here on wasActive is true of the system as it was.
LEMMA RememberKeeps ==
  ASSUME Inv, NEW n \in Names, Remember(n)
  PROVE  Inv'
  <1> USE Constants, InstallAssumption DEF Inv, Remember, Go, Copy, disk, service, script, Releases, Forward, Backward
  <1>1. TypeOK' /\ StoppedStaysStopped'
    BY DEF TypeOK, StoppedStaysStopped
  <1>2. ScriptOK'
    BY DEF ScriptOK, TypeOK, Usable
  <1>3. UnitOK'
    BY DEF UnitOK, TypeOK, ScriptOK, EntriesOK, Pending, Same, StoppedStaysStopped
  <1>4. LinksOK'
    BY DEF LinksOK, CurrentUsable, Usable
  <1>5. EntriesOK'
    BY DEF EntriesOK, TypeOK, Same, Copied, Pending, Switched
  <1>6. EndedOK'
    BY DEF EndedOK, Recoverable
  <1>7. ServiceOK'
    <2>1. changed \in {0, 1, 2} /\ n = Order[changed + 1] /\ pc \in Forward
      BY DEF TypeOK
    <2>2. n = IF changed = 0 THEN "current" ELSE IF changed = 1 THEN "launcher" ELSE "unit"
      BY <2>1
    <2>3. n = "unit" => entry[n] = before.entry[n] /\ changed' = 3
      BY <2>1, <2>2 DEF EntriesOK, Switched, Same
    <2>4. n # "unit" => changed' < 3 /\ ~newUnit' /\ ~wasActive'
      <3>1. n # "unit" => changed' < 3
        BY <2>1, <2>2
      <3>2. n # "unit" => ~newUnit' /\ ~wasActive'
        BY Zenon
      <3> QED BY <3>1, <3>2
    <2>5. n = "unit" /\ There => (wasActive' <=> running # Off)
      BY <2>3 DEF There
    <2>6. pc' \in Forward /\ pc' \notin {"reviving", "ending"} /\ pc \notin {"reviving", "ending"}
      OBVIOUS
    <2>7. There' = There /\ FoundBoots' = FoundBoots /\ HalfRemoved' = HalfRemoved
      BY DEF There, FoundBoots, BootsOf, HalfRemoved
    <2> QED BY <2>1, <2>2, <2>3, <2>4, <2>5, <2>6, <2>7 DEF ServiceOK
  <1>8. RolledBackOK'
    BY DEF RolledBackOK, ScriptOK
  <1>9. CommitOK'
    BY DEF CommitOK, TypeOK, AllClean, Switched, Activated, There, FoundBoots, BootsOf, HalfRemoved
  <1> QED BY <1>1, <1>2, <1>3, <1>4, <1>5, <1>6, <1>7, <1>8, <1>9

\* ln -s fails over a left-over link, or follows it: with a clean history there
\* is none, which is the part of CommitOK that Activated rests on.
LEMMA LinkKeeps ==
  ASSUME Inv, Link
  PROVE  Inv'
  <1> USE Constants, InstallAssumption DEF Inv, Link, Go, disk, service, script, Releases, Forward, Backward
  <1>1. TypeOK' /\ ScriptOK' /\ UnitOK' /\ StoppedStaysStopped'
    BY DEF TypeOK, ScriptOK, UnitOK, StoppedStaysStopped, Usable
  <1>2. LinksOK'
    BY DEF LinksOK, ScriptOK, CurrentUsable, Usable
  <1>3. EntriesOK'
    BY DEF EntriesOK, Same, Copied, Pending, Switched
  <1>4. EndedOK'
    BY DEF EndedOK, Recoverable
  <1>5. ServiceOK'
    BY DEF ServiceOK, There, FoundBoots, BootsOf, HalfRemoved
  <1>6. RolledBackOK'
    BY DEF RolledBackOK, There, Boots, BootsOf, HalfRemoved
  <1>7. CommitOK'
    BY DEF CommitOK, ScriptOK, AllClean, Switched, FoundBoots, BootsOf, HalfRemoved
  <1> QED BY <1>1, <1>2, <1>3, <1>4, <1>5, <1>6, <1>7

\* mv -Tf: one entry more is new, its copy was made before.
LEMMA SwitchKeeps ==
  ASSUME Inv, NEW n \in Names, Switch(n)
  PROVE  Inv'
  <1> USE Constants, InstallAssumption DEF Inv, Switch, Go, AfterSwitch, Restarts, disk, service, script, Releases, Forward, Backward
  <1>1. TypeOK'
    BY DEF TypeOK, Values
  <1>2. ScriptOK'
    BY DEF ScriptOK, TypeOK, Usable
  <1>3. UnitOK' /\ StoppedStaysStopped'
    BY DEF UnitOK, StoppedStaysStopped
  <1>4. LinksOK'
    BY DEF LinksOK, TypeOK, CurrentUsable, Usable
  <1>5. EntriesOK'
    <2>1. changed \in {1, 2, 3} /\ n = Order[changed] /\ pc' \in Forward /\ changed' = changed
      BY DEF TypeOK
    <2>2. Switched = changed - 1 /\ Switched' = changed /\ Pending = changed /\ Pending' = changed
      BY <2>1 DEF Switched, Pending
    <2>3. \A i \in 1..3 : i > changed => Same(Order[i])'
      BY <2>1, <2>2 DEF EntriesOK, Same, TypeOK
    <2>4. \A i \in 1..3 : i <= changed => Copied(Order[i])'
      BY <2>1, <2>2 DEF EntriesOK, Copied
    <2>5. entry'["current"] # Absent
      BY <2>1, <2>2 DEF EntriesOK, LinksOK, TypeOK
    <2>6. changed > 1 => entry'["launcher"] = Linked
      BY <2>1, <2>2 DEF EntriesOK, TypeOK
    <2> QED BY <2>1, <2>2, <2>3, <2>4, <2>5, <2>6 DEF EntriesOK
  <1>6. EndedOK'
    BY DEF EndedOK, ScriptOK, Recoverable
  <1>7. ServiceOK'
    BY DEF ServiceOK, There, FoundBoots, BootsOf, HalfRemoved
  <1>8. RolledBackOK'
    BY DEF RolledBackOK, There, Boots, BootsOf, HalfRemoved
  <1>9. CommitOK'
    <2>1. AllClean /\ changed = 1 => next = me
      BY DEF CommitOK, LinksOK, Usable, TypeOK
    <2>2. changed \in 1..3 /\ stage[me] = "checked"
      BY DEF TypeOK, ScriptOK
    <2>3. Switched = changed - 1 /\ Switched' = changed /\ AllClean' = AllClean
      BY DEF Switched, AllClean
    <2>4. pc' \in Forward /\ outcome'[me] = "none"
      BY DEF ScriptOK
    <2>5. next' = Absent
      BY <2>2, <2>3 DEF CommitOK
    <2>6. AllClean => entry'["current"] = me /\ (changed > 1 => entry'["launcher"] = Linked)
      BY <2>1, <2>2, <2>3 DEF CommitOK, TypeOK, EntriesOK
    <2>7. pc' = "committing" /\ AllClean => Activated'
      <3>1. ASSUME pc' = "committing", AllClean, standalone
            PROVE  There /\ before.running = Off
        BY <2>2, <3>1, CleanHistory DEF UnitOK, There, ServiceOK, CommitOK, TypeOK
      <3> QED BY <2>2, <2>6, <3>1 DEF Activated, There, ScriptOK
    <2> QED BY <2>2, <2>3, <2>4, <2>5, <2>6, <2>7 DEF CommitOK, FoundBoots, BootsOf, HalfRemoved
  <1> QED BY <1>1, <1>2, <1>3, <1>4, <1>5, <1>6, <1>7, <1>8, <1>9

LEMMA EnableKeeps ==
  ASSUME Inv, Enable
  PROVE  Inv'
  <1> USE Constants, InstallAssumption DEF Inv, Enable, Go, disk, service, script, Releases, Forward, Backward
  <1>1. TypeOK' /\ ScriptOK' /\ UnitOK'
    BY DEF TypeOK, ScriptOK, UnitOK, Usable
  <1>2. LinksOK'
    BY DEF LinksOK, CurrentUsable, Usable
  <1>3. EntriesOK'
    BY DEF EntriesOK, Same, Copied, Pending, Switched
  <1>4. EndedOK'
    BY DEF EndedOK, Recoverable
  <1>5. StoppedStaysStopped'
    BY DEF StoppedStaysStopped, ScriptOK, UnitOK
  <1>6. ServiceOK'
    BY DEF ServiceOK, There, FoundBoots, BootsOf, HalfRemoved
  <1>7. RolledBackOK'
    BY DEF RolledBackOK, ScriptOK
  <1>8. CommitOK'
    BY DEF CommitOK, AllClean, Switched, Activated, There, FoundBoots, BootsOf, HalfRemoved
  <1> QED BY <1>1, <1>2, <1>3, <1>4, <1>5, <1>6, <1>7, <1>8

LEMMA RestartKeeps ==
  ASSUME Inv, Restart
  PROVE  Inv'
  <1> USE Constants, InstallAssumption DEF Inv, Restart, Go, Restarted, disk, service, script, Releases, Forward, Backward
  <1>1. TypeOK'
    BY DEF TypeOK, Boots, BootsOf
  <1>2. ScriptOK' /\ UnitOK'
    BY DEF ScriptOK, UnitOK, Usable
  <1>3. LinksOK'
    BY DEF LinksOK, CurrentUsable, Usable
  <1>4. EntriesOK'
    BY DEF EntriesOK, Same, Copied, Pending, Switched
  <1>5. EndedOK'
    BY DEF EndedOK, Recoverable
  <1>6. StoppedStaysStopped'
    BY DEF StoppedStaysStopped, ScriptOK, UnitOK
  <1>7. ServiceOK'
    BY DEF ServiceOK, ScriptOK, UnitOK, There
  <1>8. RolledBackOK'
    BY DEF RolledBackOK, ScriptOK
  <1>9. CommitOK'
    <2>1. changed = 3 /\ standalone /\ stage[me] = "checked" /\ me \in Releases
      BY DEF ScriptOK, TypeOK
    <2>2. Switched = 3 /\ Switched' = 3 /\ AllClean' = AllClean /\ FoundBoots' = FoundBoots
      BY <2>1 DEF Switched, AllClean, FoundBoots, BootsOf, HalfRemoved
    <2>3. entry["launcher"] = Linked /\ (AllClean => entry["current"] = me)
      BY <2>2 DEF EntriesOK, CommitOK
    <2>4. AllClean => running' = me
      BY <2>1, <2>3 DEF Boots, BootsOf
    <2> QED BY <2>1, <2>2, <2>3, <2>4 DEF CommitOK, Activated, There
  <1> QED BY <1>1, <1>2, <1>3, <1>4, <1>5, <1>6, <1>7, <1>8, <1>9

LEMMA CommitKeeps ==
  ASSUME Inv, Commit
  PROVE  Inv'
  <1> USE Constants, InstallAssumption DEF Inv, Commit, Go, disk, service, script, Releases, Forward, Backward
  <1>1. TypeOK' /\ UnitOK' /\ EntriesOK' /\ StoppedStaysStopped'
    BY DEF TypeOK, UnitOK, EntriesOK, StoppedStaysStopped
  <1>2. ScriptOK'
    BY DEF ScriptOK, TypeOK, Usable
  <1>3. LinksOK'
    BY DEF LinksOK, ScriptOK, TypeOK, CurrentUsable, Usable
  <1>4. EndedOK'
    BY DEF EndedOK, Recoverable
  <1>5. ServiceOK'
    BY DEF ServiceOK, There, FoundBoots, BootsOf, HalfRemoved
  <1>6. RolledBackOK'
    BY DEF RolledBackOK, There, Boots, BootsOf, HalfRemoved
  <1>7. CommitOK'
    BY DEF CommitOK, ScriptOK, AllClean, Switched, Activated, There, FoundBoots, BootsOf, HalfRemoved
  <1> QED BY <1>1, <1>2, <1>3, <1>4, <1>5, <1>6, <1>7

\* The rollback starts: what was remembered is pending, whatever was replaced.
LEMMA FailKeeps ==
  ASSUME Inv, Fail
  PROVE  Inv'
  <1> USE Constants, InstallAssumption DEF Inv, Fail, FirstUndone, disk, service, script, Releases, Forward, Backward
  <1>1. TypeOK' /\ ScriptOK' /\ UnitOK' /\ StoppedStaysStopped'
    BY DEF TypeOK, ScriptOK, UnitOK, StoppedStaysStopped, Usable
  <1>2. LinksOK'
    BY DEF LinksOK, CurrentUsable, Usable
  <1>3. EntriesOK'
    BY DEF EntriesOK, Same, Copied, Pending
  <1>4. EndedOK'
    BY DEF EndedOK, Recoverable
  <1>5. ServiceOK'
    BY DEF ServiceOK, ScriptOK, There, FoundBoots, BootsOf, HalfRemoved
  <1>6. RolledBackOK'
    BY DEF RolledBackOK, There, Boots, BootsOf, HalfRemoved
  <1>7. CommitOK'
    BY DEF CommitOK, AllClean, Activated, There, FoundBoots, BootsOf, HalfRemoved
  <1> QED BY <1>1, <1>2, <1>3, <1>4, <1>5, <1>6, <1>7

LEMMA RestartFailsKeeps ==
  ASSUME Inv, RestartFails
  PROVE  Inv'
  <1> USE Constants, InstallAssumption DEF Inv, RestartFails, Go, disk, service, script, Releases, Forward, Backward
  <1>1. TypeOK'
    BY DEF TypeOK, ScriptOK, Boots, BootsOf
  <1>2. ScriptOK' /\ UnitOK'
    BY DEF ScriptOK, UnitOK, Usable
  <1>3. LinksOK'
    BY DEF LinksOK, CurrentUsable, Usable
  <1>4. EntriesOK'
    BY DEF EntriesOK, Same, Copied, Pending
  <1>5. EndedOK'
    BY DEF EndedOK, Recoverable
  <1>6. StoppedStaysStopped'
    BY DEF StoppedStaysStopped, ScriptOK, UnitOK
  <1>7. ServiceOK'
    BY DEF ServiceOK, ScriptOK, UnitOK, There
  <1>8. RolledBackOK'
    BY DEF RolledBackOK, ScriptOK
  <1>9. CommitOK'
    BY DEF CommitOK, ScriptOK, AllClean, FoundBoots, BootsOf, HalfRemoved
  <1> QED BY <1>1, <1>2, <1>3, <1>4, <1>5, <1>6, <1>7, <1>8, <1>9

\* One entry less is pending; what current then names is what it named before.
LEMMA RestoreKeeps ==
  ASSUME Inv, Restore
  PROVE  Inv'
  <1> USE Constants, InstallAssumption DEF Inv, Restore, Go, AfterRestore, Restored, disk, service, script, Releases, Forward, Backward
  <1>1. TypeOK'
    <2>1. Copied(Order[left]) /\ Order[left] \in Names /\ left \in 1..3
      BY DEF TypeOK, EntriesOK, Pending
    <2>2. entry' \in [Names -> Values] /\ backup' \in [Names -> Values]
      BY <2>1 DEF TypeOK, Values
    <2>3. entry'["current"] \in Releases \cup {Absent} /\ entry'["launcher"] \in {Legacy, Linked, Absent}
      BY <2>1 DEF TypeOK, LinksOK, Copied
    <2> QED BY <2>1, <2>2, <2>3 DEF TypeOK
  <1>2. ScriptOK'
    BY DEF ScriptOK, TypeOK, Usable
  <1>3. UnitOK' /\ StoppedStaysStopped'
    BY DEF UnitOK, StoppedStaysStopped
  <1>4. LinksOK'
    <2>1. Copied(Order[left]) /\ Order[left] \in Names /\ left \in 1..3
      BY DEF TypeOK, EntriesOK, Pending
    <2>2. entry'["current"] \in {entry["current"], before.entry["current"]}
      BY <2>1 DEF TypeOK, Copied
    <2> QED BY <2>2 DEF LinksOK, CurrentUsable, Usable
  <1>5. EntriesOK'
    BY DEF EntriesOK, TypeOK, Same, Copied, Pending
  <1>6. EndedOK'
    BY DEF EndedOK, ScriptOK, Recoverable
  <1>7. ServiceOK'
    BY DEF ServiceOK, ScriptOK, There, FoundBoots, BootsOf, HalfRemoved
  <1>8. RolledBackOK'
    BY DEF RolledBackOK, ScriptOK
  <1>9. CommitOK'
    BY DEF CommitOK, ScriptOK, AllClean, FoundBoots, BootsOf, HalfRemoved
  <1> QED BY <1>1, <1>2, <1>3, <1>4, <1>5, <1>6, <1>7, <1>8, <1>9

LEMMA RestoreFailsKeeps ==
  ASSUME Inv, RestoreFails
  PROVE  Inv'
  <1> USE Constants, InstallAssumption DEF Inv, RestoreFails, Go, AfterRestore, disk, service, script, Releases, Forward, Backward
  <1>1. TypeOK' /\ ScriptOK' /\ UnitOK' /\ StoppedStaysStopped'
    BY DEF TypeOK, ScriptOK, UnitOK, StoppedStaysStopped, Usable
  <1>2. LinksOK'
    BY DEF LinksOK, CurrentUsable, Usable
  <1>3. EntriesOK'
    BY DEF EntriesOK, TypeOK, Same, Copied, Pending
  <1>4. EndedOK'
    BY DEF EndedOK, Recoverable
  <1>5. ServiceOK'
    BY DEF ServiceOK, There, FoundBoots, BootsOf, HalfRemoved
  <1>6. RolledBackOK'
    BY DEF RolledBackOK, There, Boots, BootsOf, HalfRemoved
  <1>7. CommitOK'
    BY DEF CommitOK, AllClean, Activated, There, FoundBoots, BootsOf, HalfRemoved
  <1> QED BY <1>1, <1>2, <1>3, <1>4, <1>5, <1>6, <1>7

LEMMA DisableKeeps ==
  ASSUME Inv, Disable
  PROVE  Inv'
  <1> USE Constants, InstallAssumption DEF Inv, Disable, Go, disk, service, script, Releases, Forward, Backward
  <1>1. TypeOK'
    <2>1. enabled' \in BOOLEAN /\ failed' \in BOOLEAN /\ running' \in Releases \cup {Legacy, Off}
      BY DEF TypeOK
    <2> QED BY <2>1 DEF TypeOK
  <1>2. ScriptOK' /\ UnitOK'
    BY DEF ScriptOK, UnitOK, Usable
  <1>3. LinksOK'
    BY DEF LinksOK, CurrentUsable, Usable
  <1>4. EntriesOK'
    BY DEF EntriesOK, TypeOK, Same, Copied, Pending
  <1>5. EndedOK'
    BY DEF EndedOK, Recoverable
  <1>6. StoppedStaysStopped'
    BY DEF StoppedStaysStopped, ScriptOK, UnitOK
  <1>7. ServiceOK'
    BY DEF ServiceOK, There, FoundBoots, BootsOf, HalfRemoved
  <1>8. RolledBackOK'
    BY DEF RolledBackOK, ScriptOK
  <1>9. CommitOK'
    BY DEF CommitOK, ScriptOK, AllClean, FoundBoots, BootsOf, HalfRemoved
  <1> QED BY <1>1, <1>2, <1>3, <1>4, <1>5, <1>6, <1>7, <1>8, <1>9

LEMMA ReviveKeeps ==
  ASSUME Inv, Revive
  PROVE  Inv'
  <1> USE Constants, InstallAssumption DEF Inv, Revive, Go, disk, service, script, Releases, Forward, Backward
  <1>1. TypeOK'
    <2>1. failed' \in BOOLEAN /\ running' \in Releases \cup {Legacy, Off}
      BY DEF TypeOK, Boots, BootsOf
    <2> QED BY <2>1 DEF TypeOK
  <1>2. ScriptOK' /\ UnitOK'
    BY DEF ScriptOK, UnitOK, Usable
  <1>3. LinksOK'
    BY DEF LinksOK, CurrentUsable, Usable
  <1>4. EntriesOK'
    BY DEF EntriesOK, Same, Copied, Pending
  <1>5. EndedOK'
    BY DEF EndedOK, Recoverable
  <1>6. StoppedStaysStopped'
    BY DEF StoppedStaysStopped, UnitOK
  <1>7. ServiceOK'
    BY DEF ServiceOK, UnitOK, There, FoundBoots, Boots, BootsOf, HalfRemoved
  <1>8. RolledBackOK'
    BY DEF RolledBackOK, ScriptOK
  <1>9. CommitOK'
    BY DEF CommitOK, ScriptOK, AllClean, FoundBoots, BootsOf, HalfRemoved
  <1> QED BY <1>1, <1>2, <1>3, <1>4, <1>5, <1>6, <1>7, <1>8, <1>9

\* Nothing is pending, but the rollback was not complete: the release stays.
LEMMA RetainKeeps ==
  ASSUME Inv, Retain
  PROVE  Inv'
  <1> USE Constants, InstallAssumption DEF Inv, Retain, Go, Keeps, disk, service, script, Releases, Forward, Backward
  <1>1. TypeOK' /\ UnitOK' /\ EntriesOK' /\ StoppedStaysStopped'
    BY DEF TypeOK, UnitOK, EntriesOK, StoppedStaysStopped
  <1>2. ScriptOK'
    <2>1. me \in Attempts /\ stage[me] \notin {"none", "removing"}
      BY DEF TypeOK, ScriptOK, Usable
    <2> QED BY <2>1 DEF ScriptOK, TypeOK, Usable
  <1>3. LinksOK'
    BY DEF LinksOK, ScriptOK, CurrentUsable, Usable, TypeOK
  <1>4. EndedOK'
    BY DEF EndedOK, TypeOK, EntriesOK, Same, Copied, Pending, Recoverable
  <1>5. ServiceOK'
    BY DEF ServiceOK, There, FoundBoots, Boots, BootsOf, HalfRemoved
  <1>6. RolledBackOK' /\ CommitOK'
    BY DEF RolledBackOK, CommitOK, TypeOK, AllClean
  <1> QED BY <1>1, <1>2, <1>3, <1>4, <1>5, <1>6

\* Entries and service are as found, and only then the release goes, which no
\* entry names any more; the link may.
LEMMA RemoveKeeps ==
  ASSUME Inv, Remove
  PROVE  Inv'
  <1> USE Constants, InstallAssumption DEF Inv, Remove, Go, Keeps, disk, service, script, Releases, Forward, Backward
  <1>1. TypeOK' /\ UnitOK' /\ EntriesOK' /\ StoppedStaysStopped'
    BY DEF TypeOK, Stages, UnitOK, EntriesOK, Pending, Same, Copied, StoppedStaysStopped
  <1>2. me \in Attempts /\ outcome[me] = "none" /\ entry["current"] = before.entry["current"]
    BY DEF TypeOK, ScriptOK, EntriesOK, Pending, Same
  <1>3. ScriptOK'
    BY <1>2 DEF ScriptOK, TypeOK, Usable
  <1>4. LinksOK'
    BY <1>2 DEF LinksOK, CurrentUsable, Usable, TypeOK
  <1>5. EndedOK'
    BY <1>2 DEF EndedOK, Recoverable
  <1>6. Boots' = Boots /\ FoundBoots' = FoundBoots /\ HalfRemoved' = HalfRemoved
    BY <1>2 DEF LinksOK, Boots, FoundBoots, BootsOf, HalfRemoved, TypeOK
  <1>7. ServiceOK'
    BY <1>6 DEF ServiceOK, There
  <1>8. RolledBackOK'
    BY <1>2 DEF RolledBackOK
  <1>9. CommitOK'
    BY <1>2, <1>6 DEF CommitOK, TypeOK, AllClean
  <1> QED BY <1>1, <1>3, <1>4, <1>5, <1>7, <1>8, <1>9

LEMMA RemovedKeeps ==
  ASSUME Inv, Removed
  PROVE  Inv'
  <1> USE Constants, InstallAssumption DEF Inv, Removed, Go, disk, service, script, Releases, Forward, Backward
  <1>1. TypeOK' /\ UnitOK' /\ EntriesOK' /\ StoppedStaysStopped'
    BY DEF TypeOK, Stages, UnitOK, EntriesOK, StoppedStaysStopped
  <1>2. me \in Attempts /\ outcome[me] = "none" /\ entry = before.entry
    <2>1. \A i \in 1..3 : Same(Order[i])
      BY DEF ScriptOK, EntriesOK, Pending
    <2>2. entry \in [Names -> Values] /\ before.entry \in [Names -> Values]
      BY DEF TypeOK
    <2>3. entry = before.entry
      BY <2>1, <2>2 DEF Same
    <2> QED BY <2>3 DEF TypeOK, ScriptOK
  <1>3. ScriptOK'
    BY <1>2 DEF ScriptOK, TypeOK, Usable
  <1>4. LinksOK'
    BY <1>2 DEF LinksOK, CurrentUsable, Usable, TypeOK
  <1>5. EndedOK'
    BY <1>2 DEF EndedOK, TypeOK, Recoverable
  <1>6. Boots' = Boots /\ FoundBoots' = Boots /\ FoundBoots = Boots /\ HalfRemoved' = HalfRemoved
    BY <1>2 DEF LinksOK, Boots, FoundBoots, BootsOf, HalfRemoved, TypeOK
  <1>7. ServiceOK'
    BY <1>6 DEF ServiceOK, There
  <1>8. RolledBackOK'
    <2> SUFFICES ASSUME changed = 3
                 PROVE  /\ enabled = (There /\ before.enabled)
                        /\ IF There /\ before.running # Off
                           THEN running \in Boots \/ (HalfRemoved /\ running = Off)
                           ELSE running = Off
      BY <1>6 DEF RolledBackOK, There, TypeOK
    <2>1. ~failed
      BY DEF ScriptOK
    <2>2. CASE There
      <3>1. wasActive => running \in Boots /\ before.running # Off
        BY <2>1 DEF ServiceOK, UnitOK
      <3>2. ~wasActive => running = Off /\ (before.running # Off => Off \in Boots \/ HalfRemoved)
        BY <2>2, <1>6 DEF ServiceOK
      <3>3. enabled = before.enabled /\ before.enabled \in BOOLEAN
        BY <2>2 DEF StoppedStaysStopped, There, TypeOK
      <3> QED BY <2>2, <3>1, <3>2, <3>3
    <2>3. CASE ~There
      <3>1. enabled = FALSE /\ running = Off
        BY <2>1, <2>3 DEF ServiceOK, UnitOK, There, TypeOK
      <3> QED BY <2>3, <3>1
    <2> QED BY <2>2, <2>3
  <1>9. CommitOK'
    BY <1>2, <1>6 DEF CommitOK, TypeOK, AllClean
  <1> QED BY <1>1, <1>3, <1>4, <1>5, <1>7, <1>8, <1>9

LEMMA CleanKeeps ==
  ASSUME Inv, Clean
  PROVE  Inv'
  <1> USE Constants, InstallAssumption DEF Inv, Clean, Go, disk, service, script, Releases, Forward, Backward
  <1>1. TypeOK'
    BY DEF TypeOK, Values
  <1>2. ScriptOK' /\ UnitOK' /\ EntriesOK' /\ StoppedStaysStopped'
    BY DEF ScriptOK, UnitOK, EntriesOK, StoppedStaysStopped, Usable
  <1>3. LinksOK'
    BY DEF LinksOK, CurrentUsable, Usable
  <1>4. EndedOK'
    BY DEF EndedOK, ScriptOK, Recoverable
  <1>5. ServiceOK'
    BY DEF ServiceOK, There, FoundBoots, BootsOf, HalfRemoved
  <1>6. RolledBackOK'
    BY DEF RolledBackOK, There, Boots, BootsOf, HalfRemoved
  <1>7. CommitOK'
    BY DEF CommitOK, AllClean, Activated, There, FoundBoots, BootsOf, HalfRemoved
  <1> QED BY <1>1, <1>2, <1>3, <1>4, <1>5, <1>6, <1>7

\* A signal or a kill stops the script where it is: the copies stay.
LEMMA CutKeeps ==
  ASSUME Inv, Cut
  PROVE  Inv'
  <1> USE Constants, InstallAssumption DEF Inv, Cut, Go, disk, service, script, Releases, Forward, Backward
  <1>1. TypeOK' /\ UnitOK' /\ EntriesOK' /\ StoppedStaysStopped'
    BY DEF TypeOK, UnitOK, EntriesOK, StoppedStaysStopped
  <1>2. ScriptOK'
    <2>1. me \in Attempts /\ outcome'[me] # "none"
      BY DEF TypeOK, ScriptOK
    <2> QED BY <2>1 DEF ScriptOK, TypeOK, Usable
  <1>3. LinksOK'
    BY DEF LinksOK, ScriptOK, TypeOK, CurrentUsable, Usable
  <1>4. EndedOK'
    BY DEF EndedOK, ScriptOK, EntriesOK, Same, Copied, Recoverable
  <1>5. ServiceOK'
    BY DEF ServiceOK, There, FoundBoots, BootsOf, HalfRemoved
  <1>6. RolledBackOK'
    BY DEF RolledBackOK, There, Boots, BootsOf, HalfRemoved
  <1>7. CommitOK'
    <2>1. me \in Attempts
      BY DEF TypeOK
    <2>2. CASE pc = "cleaning"
      <3>1. outcome' = outcome
        BY <2>1, <2>2 DEF ScriptOK, TypeOK
      <3>2. outcome[me] = "rolled_back" => stage[me] = "removed"
        BY <2>1 DEF EndedOK
      <3> QED BY <2>1, <2>2, <3>1, <3>2 DEF CommitOK, ScriptOK, AllClean, Activated, There, FoundBoots, BootsOf, Switched, HalfRemoved
    <2>3. CASE pc # "cleaning"
      <3>1. outcome'[me] \in {"interrupted", "killed"}
        BY <2>1, <2>3 DEF ScriptOK, TypeOK
      <3> QED BY <2>1, <3>1 DEF CommitOK, AllClean
    <2> QED BY <2>2, <2>3
  <1> QED BY <1>1, <1>2, <1>3, <1>4, <1>5, <1>6, <1>7

\* systemd starts what the entries lead to at the moment (BootStands).
LEMMA SystemdRestartsKeeps ==
  ASSUME Inv, SystemdRestarts
  PROVE  Inv'
  <1> USE Constants, InstallAssumption DEF Inv, SystemdRestarts, disk, service, script, Releases, Forward, Backward
  <1>1. TypeOK'
    BY DEF TypeOK, Boots, BootsOf
  <1>2. ScriptOK' /\ UnitOK' /\ StoppedStaysStopped'
    BY DEF ScriptOK, UnitOK, StoppedStaysStopped, Usable
  <1>3. LinksOK'
    BY DEF LinksOK, CurrentUsable, Usable
  <1>4. EntriesOK'
    BY DEF EntriesOK, Same, Copied, Pending, Switched
  <1>5. EndedOK'
    BY DEF EndedOK, Recoverable
  <1>6. ServiceOK'
    <2>1. pc \in Forward /\ ~HalfRemoved /\ Off \notin FoundBoots => Off \notin Boots
      BY BootStands
    <2> QED BY <2>1 DEF ServiceOK, There, FoundBoots, Boots, BootsOf, TypeOK, HalfRemoved
  <1>7. RolledBackOK'
    BY DEF RolledBackOK, There, Boots, BootsOf
  <1>8. CommitOK'
    BY DEF CommitOK, TypeOK, AllClean, Switched, Activated, FoundBoots, Boots, BootsOf, HalfRemoved
  <1> QED BY <1>1, <1>2, <1>3, <1>4, <1>5, <1>6, <1>7, <1>8

-----------------------------------------------------------------------------
LEMMA InitInv == Init => Inv
  <1> SUFFICES ASSUME Init PROVE Inv
    OBVIOUS
  <1> USE Constants, InstallAssumption DEF Releases
  <1>1. TypeOK
    <2>1. entry \in [Names -> Values]
      BY DEF Init, Values
    <2>2. PICK n \in {<<Absent, Absent>>, <<Absent, Legacy>>, <<Old, Linked>>}, run \in BOOLEAN :
            /\ entry["current"] = n[1] /\ entry["launcher"] = n[2]
            /\ running = IF ~run THEN Off ELSE IF n[2] = Legacy THEN Legacy ELSE Old
      BY DEF Init, Names
    <2>3. /\ entry["current"] \in Releases \cup {Absent} /\ entry["launcher"] \in {Legacy, Linked, Absent}
          /\ running \in Releases \cup {Legacy, Off}
      BY <2>2
    <2>4. enabled \in BOOLEAN
      BY DEF Init
    <2>5. before \in [entry : [Names -> Values], running : Releases \cup {Legacy, Off}, enabled : BOOLEAN]
      BY <2>1, <2>3, <2>4 DEF Init
    <2>6. /\ backup \in [Names -> Values] /\ next \in Releases \cup {Absent}
          /\ stage \in [Releases -> Stages]
          /\ outcome \in [Attempts -> {"none", "committed", "rolled_back", "incomplete",
                                       "interrupted", "killed"}]
      BY DEF Init, Values, Stages
    <2>7. /\ changed = 0 /\ left = 0 /\ pc = "idle" /\ me = Old /\ standalone \in BOOLEAN
          /\ newUnit = FALSE /\ wasActive = FALSE /\ failed = FALSE
      BY DEF Init
    <2>8. me \in Releases /\ changed \in 0..Len(Order) /\ left \in 0..changed
      BY <2>7
    <2>9. newUnit \in BOOLEAN /\ wasActive \in BOOLEAN /\ failed \in BOOLEAN
      BY <2>7
    <2> QED BY <2>1, <2>3, <2>4, <2>5, <2>6, <2>7, <2>8, <2>9 DEF TypeOK
  <1>2. /\ before = [entry |-> entry, running |-> running, enabled |-> enabled]
        /\ pc = "idle" /\ changed = 0 /\ me \notin Attempts /\ next = Absent
        /\ newUnit = FALSE /\ wasActive = FALSE
    BY DEF Init
  <1>3. ScriptOK /\ UnitOK
    <2>1. \A r \in Releases : stage[r] # "removing"
      BY DEF Init
    <2>2. /\ \A r \in Attempts : outcome[r] = "none"
          /\ entry = before.entry /\ me \notin Attempts
      BY <1>2 DEF Init
    <2> QED BY <1>2, <2>1, <2>2 DEF ScriptOK, UnitOK, Forward
  <1>4. entry["current"] = Absent \/ (entry["current"] = Old /\ stage[Old] = "checked")
    BY DEF Init, Names
  <1>5. LinksOK
    BY <1>1, <1>2, <1>4 DEF LinksOK, CurrentUsable, Usable, TypeOK
  <1>6. EntriesOK /\ EndedOK /\ StoppedStaysStopped /\ RolledBackOK
    BY <1>2 DEF EntriesOK, EndedOK, Recoverable, StoppedStaysStopped, RolledBackOK, Forward
  <1>7. ServiceOK
    BY <1>2 DEF ServiceOK, Forward
  <1>8. CommitOK
    <2>1. running # Off => Off \notin FoundBoots
      BY <1>2 DEF Init, FoundBoots, BootsOf, Names, HalfRemoved
    <2> QED BY <1>2, <2>1 DEF CommitOK, Forward
  <1> QED BY <1>1, <1>3, <1>5, <1>6, <1>7, <1>8 DEF Inv

LEMMA NextInv == Inv /\ [Next]_vars => Inv'
  <1> SUFFICES ASSUME Inv, [Next]_vars PROVE Inv'
    OBVIOUS
  <1>1. CASE UNCHANGED vars
    BY <1>1 DEF vars, disk, service, script, Inv, TypeOK, ScriptOK, UnitOK, LinksOK, CurrentUsable, Usable,
                EntriesOK, Same, Copied, Pending, Switched, EndedOK, Recoverable,
                StoppedStaysStopped, ServiceOK, RolledBackOK, CommitOK, AllClean, Activated,
                There, FoundBoots, Boots, BootsOf, HalfRemoved, Usable
  <1>2. CASE \E r \in Attempts : Begin(r)
    BY <1>2, BeginKeeps
  <1>3. CASE \E n \in Names : Remember(n) \/ Switch(n)
    BY <1>3, RememberKeeps, SwitchKeeps
  <1>4. CASE Staged \/ Link \/ Enable \/ Restart \/ Commit
    BY <1>4, StagedKeeps, LinkKeeps, EnableKeeps, RestartKeeps, CommitKeeps
  <1>5. CASE Fail \/ RestartFails \/ Restore \/ RestoreFails \/ Disable \/ Revive
    BY <1>5, FailKeeps, RestartFailsKeeps, RestoreKeeps, RestoreFailsKeeps, DisableKeeps, ReviveKeeps
  <1>6. CASE Retain \/ Remove \/ Removed \/ Clean
    BY <1>6, RetainKeeps, RemoveKeeps, RemovedKeeps, CleanKeeps
  <1>7. CASE Cut \/ SystemdRestarts
    BY <1>7, CutKeeps, SystemdRestartsKeeps
  <1> QED BY <1>1, <1>2, <1>3, <1>4, <1>5, <1>6, <1>7 DEF Next

LEMMA Invariant == Spec => []Inv
  BY InitInv, NextInv, PTL DEF Spec

-----------------------------------------------------------------------------
\* Every variable keeps its type, for any number of attempts.
THEOREM TypeCorrect == Spec => []TypeOK
  <1>1. Inv => TypeOK
    BY DEF Inv
  <1> QED BY Invariant, <1>1, PTL

\* The link that the launcher goes through never names a release that is being
\* built or removed, or gone: a release is built and checked before it is linked
\* (install.sh:119-148) and removed only after the entries are back (103-105).
\* What a removal that was cut short has left it may name: the left-over link
\* leads a later attempt there (104, 110, 147).
THEOREM CurrentStaysUsable == Spec => []CurrentUsable
  <1>1. Inv => CurrentUsable
    BY DEF Inv, LinksOK
  <1> QED BY Invariant, <1>1, PTL

\* An attempt that fails and says it was rolled back leaves the entries and, if
\* it had touched the unit, the service as it found them (install.sh:81-111).  Only
\* a daemon that died while current led to a half removed release may be off.
THEOREM RollbackIsComplete == Spec => []RollbackRestores
  <1>1. Inv => RollbackRestores
    BY DEF Inv, RollbackRestores, Ended, EndedOK, RolledBackOK, There
  <1> QED BY Invariant, <1>1, PTL

\* Wherever the script is cut short, or a rollback fails, what it replaced is
\* in the transaction directory (install.sh:74-80, 105-107).
THEOREM NothingIsLost == Spec => []Recoverable
  <1>1. Inv => Recoverable
    BY DEF Inv, EndedOK
  <1> QED BY Invariant, <1>1, PTL

\* A stopped daemon is not started, nor a unit that was there enabled or
\* disabled, by an attempt that succeeds, fails or dies (install.sh:94-101, 167-204).
THEOREM UnitIsLeftAlone == Spec => []StoppedStaysStopped
  <1>1. Inv => StoppedStaysStopped
    BY DEF Inv
  <1> QED BY Invariant, <1>1, PTL

\* An attempt that commits after a history without accidents has put its
\* release in place, and the daemon that should run runs it (install.sh:146-154,
\* 198-204).
THEOREM CommitsActivate == Spec => []CommitActivates
  <1>1. Inv => CommitActivates
    BY DEF Inv, CommitActivates, Ended, CommitOK, AllClean, Activated, There
  <1> QED BY Invariant, <1>1, PTL
=============================================================================
