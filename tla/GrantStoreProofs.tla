-------------------------- MODULE GrantStoreProofs --------------------------
(***************************************************************************)
(* The safety of GrantStore for any number of commands, grants, requests.  *)
(***************************************************************************)
EXTENDS GrantStore, TLAPS

\* c holds everything that d holds.
Within(d, c) == d.granted \subseteq c.granted /\ d.revoked \subseteq c.revoked

\* What o was asked for is done in c, or there was nothing to do.
Effected(o, c) ==
    IF o \in Issues THEN o \in c.granted
    ELSE target[o] \in c.granted => target[o] \in c.revoked

\* A command that works on the file holds the lock, and what it prepared is the
\* file with its change.
LockOK ==
    \A o \in Ops :
        /\ at[o] \in Held => lock = o
        /\ at[o] \in {"prepared", "replaced", "synced"} => Effected(o, data[o])
        /\ at[o] = "prepared" => Within(file, data[o])
        /\ at[o] \in {"replaced", "synced"} => file = data[o]
        /\ at[o] = "synced" => maybe = {file}

\* The disk lags behind the file, never beyond it.
DiskOK == file \in maybe /\ \A c \in maybe : Within(c, file)

\* A request that is under way reads a content at least as new as the reports it
\* began after.
RequestsOK ==
    \A r \in Requests : req[r] \in {"opened", "accepted"} => barred[r] \subseteq snapshot[r].revoked

AcceptedOK ==
    \A r \in Requests : req[r] = "accepted" => presents[r] \notin snapshot[r].revoked

Inv == TypeOK /\ LockOK /\ DiskOK /\ ReportedIsKept /\ RequestsOK /\ AcceptedOK

USE GrantAssumption

LEMMA InitInv == Init => Inv
  <1> SUFFICES ASSUME Init PROVE Inv
    OBVIOUS
  <1>1. TypeOK
    BY DEF Init, TypeOK, Contents, Empty
  <1>2. LockOK
    BY DEF Init, LockOK, Held
  <1>3. DiskOK /\ ReportedIsKept
    BY DEF Init, DiskOK, Within, ReportedIsKept
  <1>4. RequestsOK /\ AcceptedOK
    BY DEF Init, RequestsOK, AcceptedOK
  <1> QED BY <1>1, <1>2, <1>3, <1>4 DEF Inv

\* A command's change keeps what was there and does what was asked.
LEMMA ChangedGrows ==
  ASSUME NEW o \in Ops, NEW c \in Contents
  PROVE  Changed(o, c) \in Contents /\ Within(c, Changed(o, c)) /\ Effected(o, Changed(o, c))
  BY DEF Ops, Contents, Changed, Within, Effected

\* Steps of a command that change neither the file nor what was reported.
LEMMA QuietStepInv ==
  ASSUME Inv, NEW o \in Ops, Begin(o) \/ Acquire(o) \/ Abort(o)
  PROVE  Inv'
  <1>1. TypeOK'
    BY DEF Inv, TypeOK, Begin, Acquire, Abort, Go, reqVars, Going, Held
  <1>2. LockOK'
    BY DEF Inv, TypeOK, LockOK, Begin, Acquire, Abort, Go, reqVars, Going, Held, Effected, Within, Ops
  <1>3. DiskOK' /\ ReportedIsKept'
    BY DEF Inv, DiskOK, ReportedIsKept, Within, Begin, Acquire, Abort, Go
  <1>4. RequestsOK' /\ AcceptedOK'
    BY DEF Inv, RequestsOK, AcceptedOK, Begin, Acquire, Abort, reqVars
  <1> QED BY <1>1, <1>2, <1>3, <1>4 DEF Inv

LEMMA PrepareInv ==
  ASSUME Inv, NEW o \in Ops, Prepare(o)
  PROVE  Inv'
  <1>0. /\ Changed(o, file) \in Contents
        /\ Within(file, Changed(o, file)) /\ Effected(o, Changed(o, file))
    BY ChangedGrows DEF Inv, TypeOK
  <1>1. TypeOK'
    BY <1>0 DEF Inv, TypeOK, Prepare, Go, reqVars, Going, Held
  <1>2. LockOK'
    BY <1>0 DEF Inv, TypeOK, LockOK, Prepare, Go, Held, Effected, Within
  <1>3. DiskOK' /\ ReportedIsKept'
    BY DEF Inv, DiskOK, ReportedIsKept, Within, Prepare
  <1>4. RequestsOK' /\ AcceptedOK'
    BY DEF Inv, RequestsOK, AcceptedOK, Prepare, reqVars
  <1> QED BY <1>1, <1>2, <1>3, <1>4 DEF Inv

LEMMA ReplaceInv ==
  ASSUME Inv, NEW o \in Ops, Replace(o)
  PROVE  Inv' /\ Within(file, file')
  <1>0. Within(file, data[o]) /\ Effected(o, data[o]) /\ data[o] \in Contents /\ lock = o
    BY DEF Inv, TypeOK, LockOK, Replace, Go, Held
  <1>1. TypeOK'
    BY <1>0 DEF Inv, TypeOK, Replace, Go, reqVars, Going, Held
  <1>2. LockOK'
    BY <1>0 DEF Inv, TypeOK, LockOK, Replace, Go, Held, Effected, Within, Ops
  <1>3. DiskOK'
    BY <1>0 DEF Inv, DiskOK, Within, Replace
  <1>4. ReportedIsKept'
    <2>1. \A p \in Ops : told[p] = "ok" =>
            IF p \in Issues THEN p \in data[o].granted ELSE target[p] \in data[o].revoked
      BY <1>0 DEF Inv, ReportedIsKept, Within
    <2> QED BY <2>1 DEF Inv, ReportedIsKept, Replace
  <1>5. RequestsOK' /\ AcceptedOK'
    BY DEF Inv, RequestsOK, AcceptedOK, Replace, reqVars
  <1> QED BY <1>0, <1>1, <1>2, <1>3, <1>4, <1>5 DEF Inv, Replace

LEMMA SyncInv ==
  ASSUME Inv, NEW o \in Ops, Sync(o)
  PROVE  Inv'
  <1>1. TypeOK'
    BY DEF Inv, TypeOK, Sync, Go, reqVars, Going, Held
  <1>2. LockOK'
    BY DEF Inv, TypeOK, LockOK, Sync, Go, Held, Effected, Within, Ops
  <1>3. DiskOK' /\ ReportedIsKept'
    BY DEF Inv, DiskOK, ReportedIsKept, Within, Sync
  <1>4. RequestsOK' /\ AcceptedOK'
    BY DEF Inv, RequestsOK, AcceptedOK, Sync, reqVars
  <1> QED BY <1>1, <1>2, <1>3, <1>4 DEF Inv

LEMMA ReturnInv ==
  ASSUME Inv, NEW o \in Ops, Return(o)
  PROVE  Inv'
  <1>0. file = data[o] /\ maybe = {file} /\ Effected(o, file) /\ lock = o
    BY DEF Inv, LockOK, Return, Go, Held
  <1>1. TypeOK'
    BY DEF Inv, TypeOK, Return, Go, reqVars, Going, Held
  <1>2. LockOK'
    BY <1>0 DEF Inv, TypeOK, LockOK, Return, Go, Held, Effected, Within, Ops
  <1>3. DiskOK'
    BY DEF Inv, DiskOK, Within, Return
  <1>4. ReportedIsKept'
    BY <1>0 DEF Inv, TypeOK, ReportedIsKept, Return, Effected
  <1>5. RequestsOK' /\ AcceptedOK'
    BY DEF Inv, RequestsOK, AcceptedOK, Return, reqVars
  <1> QED BY <1>1, <1>2, <1>3, <1>4, <1>5 DEF Inv

LEMMA PowerLossInv ==
  ASSUME Inv, PowerLoss
  PROVE  Inv'
  <1>1. TypeOK'
    BY DEF Inv, TypeOK, PowerLoss, Going, Held
  <1>2. LockOK'
    BY DEF Inv, TypeOK, LockOK, PowerLoss, Going, Held
  <1>3. DiskOK' /\ ReportedIsKept'
    BY DEF Inv, DiskOK, ReportedIsKept, Within, PowerLoss
  <1>4. RequestsOK' /\ AcceptedOK'
    BY DEF Inv, TypeOK, RequestsOK, AcceptedOK, PowerLoss
  <1> QED BY <1>1, <1>2, <1>3, <1>4 DEF Inv

LEMMA OpenInv ==
  ASSUME Inv, NEW r \in Requests, NEW g \in Issues, Open(r, g)
  PROVE  Inv'
  <1>0. KnownRevoked \subseteq file.revoked /\ KnownRevoked \subseteq Issues
    BY DEF Inv, ReportedIsKept, KnownRevoked, Ops
  <1>1. TypeOK'
    BY <1>0 DEF Inv, TypeOK, Open, opVars
  <1>2. LockOK' /\ DiskOK' /\ ReportedIsKept'
    BY DEF Inv, LockOK, DiskOK, ReportedIsKept, Open, opVars, Effected, Within
  <1>3. RequestsOK' /\ AcceptedOK'
    BY <1>0 DEF Inv, TypeOK, RequestsOK, AcceptedOK, Open
  <1> QED BY <1>1, <1>2, <1>3 DEF Inv

LEMMA DecideInv ==
  ASSUME Inv, NEW r \in Requests, Decide(r)
  PROVE  Inv'
  <1>1. TypeOK'
    BY DEF Inv, TypeOK, Decide, opVars
  <1>2. LockOK' /\ DiskOK' /\ ReportedIsKept'
    BY DEF Inv, LockOK, DiskOK, ReportedIsKept, Decide, opVars, Effected, Within
  <1>3. RequestsOK' /\ AcceptedOK'
    BY DEF Inv, TypeOK, RequestsOK, AcceptedOK, Decide
  <1> QED BY <1>1, <1>2, <1>3 DEF Inv

LEMMA UnchangedInv == Inv /\ UNCHANGED vars => Inv'
  BY DEF Inv, TypeOK, LockOK, DiskOK, ReportedIsKept, RequestsOK, AcceptedOK, vars, opVars, reqVars,
     Effected, Within

LEMMA NextInv == Inv /\ [Next]_vars => Inv'
  BY QuietStepInv, PrepareInv, ReplaceInv, SyncInv, ReturnInv, PowerLossInv, OpenInv, DecideInv,
     UnchangedInv DEF Next, Step

LEMMA GrantInvariant == Spec => []Inv
  BY InitInv, NextInv, PTL DEF Spec

\* Every reachable state is well typed.
THEOREM TypeCorrect == Spec => []TypeOK
  BY GrantInvariant, PTL DEF Inv

\* What issue and revoke reported is in the file and on the disk, through lost
\* locks, failures, deaths and power losses (access.py:102-124).
THEOREM ReportsAreKept == Spec => []ReportedIsKept
  BY GrantInvariant, PTL DEF Inv

\* No request that began after a revocation was reported is accepted with the
\* grant (access.py:165-173, docs/access.md).
THEOREM RevocationsHold == Spec => []RevokedIsRefused
  <1>1. Inv => RevokedIsRefused
    BY DEF Inv, RequestsOK, AcceptedOK, RevokedIsRefused
  <1> QED BY <1>1, GrantInvariant, PTL

\* flock and atomic replace prevent lost updates (access.py:76).
THEOREM NoLostUpdates == Spec => NothingUndone
  <1>1. ASSUME Inv, [Next]_vars
        PROVE  [ \/ file.granted \subseteq file'.granted /\ file.revoked \subseteq file'.revoked
                 \/ PowerLoss ]_vars
    <2>1. CASE UNCHANGED vars
      BY <2>1
    <2>2. CASE PowerLoss
      BY <2>2
    <2>3. ASSUME NEW o \in Ops, Replace(o)
          PROVE  Within(file, file')
      BY <1>1, <2>3, ReplaceInv
    <2>4. ASSUME NEW o \in Ops, Begin(o) \/ Acquire(o) \/ Prepare(o) \/ Sync(o) \/ Return(o) \/ Abort(o)
          PROVE  file' = file
      BY <2>4 DEF Begin, Acquire, Prepare, Sync, Return, Abort
    <2>5. ASSUME NEW r \in Requests, Decide(r) \/ \E g \in Issues : Open(r, g)
          PROVE  file' = file
      BY <2>5 DEF Decide, Open
    <2> QED BY <1>1, <2>1, <2>2, <2>3, <2>4, <2>5 DEF Next, Step, Within
  <1> QED BY <1>1, GrantInvariant, PTL DEF Spec, NothingUndone
=============================================================================
