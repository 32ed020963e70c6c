----------------------------- MODULE GrantStore -----------------------------
(***************************************************************************)
(* mintbot_mcp/access.py, class GrantStore: the file of restricted grants, *)
(* changed by `mintbot-mcp access issue` and `revoke`, each a process of   *)
(* its own, and read by the daemon at every request.  A change is made     *)
(* under flock in a copy that replaces the file.  Processes may fail or    *)
(* die anywhere and the machine may lose power.  A grant is named after    *)
(* the command that issues it; tools, projects and expiry are in           *)
(* HttpAccess, the checks of issue's arguments change nothing.             *)
(***************************************************************************)
CONSTANTS
    Issues,    \* access issue commands, and the grants they issue
    Revokes,   \* access revoke commands
    target,    \* target[v]: the grant that v revokes
    Requests,  \* HTTP requests with a grant's secret
    NoOp

Ops == Issues \cup Revokes

ASSUME GrantAssumption ==
    /\ Issues \cap Revokes = {} /\ NoOp \notin Ops
    /\ target \in [Revokes -> Issues]

VARIABLES
    file,    \* the content of grants.json
    maybe,   \* the contents the disk may hold after a power loss
    lock,    \* the command that holds the flock
    at,      \* per command: where in _mutate it is
    data,    \* per command: the copy it changed
    told,    \* per command: what its caller was told
    req,     \* per request: where in authenticate it is
    presents, snapshot, \* per request: the grant it presents, the file it opened
    barred   \* per request: the grants known to be revoked when it began

opVars == <<lock, at, data, told>>
reqVars == <<req, presents, snapshot, barred>>
vars == <<file, maybe, opVars, reqVars>>

Contents == [granted : SUBSET Issues, revoked : SUBSET Issues]
Empty == [granted |-> {}, revoked |-> {}]
Held == {"locked", "prepared", "replaced", "synced"}
Going == {"waiting"} \cup Held

TypeOK ==
    /\ file \in Contents
    /\ maybe \subseteq Contents
    /\ lock \in Ops \cup {NoOp}
    /\ at \in [Ops -> {"idle", "returned", "failed"} \cup Going]
    /\ data \in [Ops -> Contents]
    /\ told \in [Ops -> {"nothing", "ok", "not_found"}]
    /\ req \in [Requests -> {"idle", "opened", "accepted", "refused", "lost"}]
    /\ presents \in [Requests -> Issues \cup {NoOp}]
    /\ snapshot \in [Requests -> Contents]
    /\ barred \in [Requests -> SUBSET Issues]

Init ==
    /\ file = Empty /\ maybe = {Empty}
    /\ lock = NoOp
    /\ at = [o \in Ops |-> "idle"]
    /\ data = [o \in Ops |-> Empty]
    /\ told = [o \in Ops |-> "nothing"]
    /\ req = [r \in Requests |-> "idle"]
    /\ presents = [r \in Requests |-> NoOp]
    /\ snapshot = [r \in Requests |-> Empty]
    /\ barred = [r \in Requests |-> {}]

-----------------------------------------------------------------------------
Go(o, from, to) == at[o] = from /\ at' = [at EXCEPT ![o] = to]

\* What a command makes of a content; an unknown grant is not revoked.
Changed(o, c) ==
    IF o \in Issues THEN [c EXCEPT !.granted = @ \cup {o}]
    ELSE IF target[o] \in c.granted THEN [c EXCEPT !.revoked = @ \cup {target[o]}]
    ELSE c

Begin(o) == Go(o, "idle", "waiting") /\ UNCHANGED <<file, maybe, lock, data, told, reqVars>>

\* flock(LOCK_EX)
\* Mutant of Acquire: no lock.
AcquireUnlocked(o) ==
    /\ Go(o, "waiting", "locked")
    /\ lock' = o
    /\ UNCHANGED <<file, maybe, data, told, reqVars>>
Acquire(o) ==
    /\ lock = NoOp
    /\ Go(o, "waiting", "locked")
    /\ lock' = o
    /\ UNCHANGED <<file, maybe, data, told, reqVars>>

\* Read the file, change the copy, write and fsync it under another name.
Prepare(o) ==
    /\ Go(o, "locked", "prepared")
    /\ data' = [data EXCEPT ![o] = Changed(o, file)]
    /\ UNCHANGED <<file, maybe, lock, told, reqVars>>

\* os.replace: seen by every reader at once, not yet sure to last.
Replace(o) ==
    /\ Go(o, "prepared", "replaced")
    /\ file' = data[o]
    /\ maybe' = maybe \cup {data[o]}
    /\ UNCHANGED <<lock, data, told, reqVars>>

\* fsync of the directory
\* Mutant of Sync: it is left out.
SyncNothing(o) ==
    /\ Go(o, "replaced", "synced")
    /\ maybe' = maybe
    /\ UNCHANGED <<file, lock, data, told, reqVars>>
Sync(o) ==
    /\ Go(o, "replaced", "synced")
    /\ maybe' = {file}
    /\ UNCHANGED <<file, lock, data, told, reqVars>>

\* The lock file is closed and the caller told.
Return(o) ==
    /\ Go(o, "synced", "returned")
    /\ lock' = NoOp
    /\ told' = [told EXCEPT ![o] =
                 IF o \in Issues \/ target[o] \in data[o].granted THEN "ok" ELSE "not_found"]
    /\ UNCHANGED <<file, maybe, data, reqVars>>

\* An error is raised, or the process is killed: closing the file unlocks it.
\* Mutant of Abort: the lock is a file that somebody would have to remove.
AbortKeepsLock(o) ==
    /\ at[o] \in Going
    /\ at' = [at EXCEPT ![o] = "failed"]
    /\ UNCHANGED <<file, maybe, lock, data, told, reqVars>>
Abort(o) ==
    /\ at[o] \in Going
    /\ at' = [at EXCEPT ![o] = "failed"]
    /\ lock' = IF lock = o THEN NoOp ELSE lock
    /\ UNCHANGED <<file, maybe, data, told, reqVars>>

PowerLoss ==
    /\ file' \in maybe
    /\ maybe' = {file'}
    /\ lock' = NoOp
    /\ at' = [o \in Ops |-> IF at[o] \in Going THEN "failed" ELSE at[o]]
    /\ req' = [r \in Requests |-> IF req[r] = "opened" THEN "lost" ELSE req[r]]
    /\ UNCHANGED <<data, told, presents, snapshot, barred>>

-----------------------------------------------------------------------------
\* Grants whose revocation was reported.
KnownRevoked == {target[v] : v \in {w \in Revokes : told[w] = "ok"}}

\* authenticate opens the file; a replaced file stays what it was for those who
\* have it open.
Open(r, g) ==
    /\ req[r] = "idle"
    /\ req' = [req EXCEPT ![r] = "opened"]
    /\ presents' = [presents EXCEPT ![r] = g]
    /\ snapshot' = [snapshot EXCEPT ![r] = file]
    /\ barred' = [barred EXCEPT ![r] = KnownRevoked]
    /\ UNCHANGED <<file, maybe, opVars>>

\* The grant is looked for in what was read; a file that cannot be read refuses.
Decide(r) ==
    /\ req[r] = "opened"
    /\ \/ /\ presents[r] \in snapshot[r].granted \ snapshot[r].revoked
          /\ req' = [req EXCEPT ![r] = "accepted"]
       \/ req' = [req EXCEPT ![r] = "refused"]
    /\ UNCHANGED <<file, maybe, opVars, presents, snapshot, barred>>

Step(o) == Acquire(o) \/ Prepare(o) \/ Replace(o) \/ Sync(o) \/ Return(o)

Next ==
    \/ \E o \in Ops : Begin(o) \/ Step(o) \/ Abort(o)
    \/ PowerLoss
    \/ \E r \in Requests : Decide(r) \/ \E g \in Issues : Open(r, g)

Spec == Init /\ [][Next]_vars

\* A command that can go on does: nobody is asked anything in between.
FairSpec == Spec /\ \A o \in Ops : WF_vars(Step(o))

-----------------------------------------------------------------------------
\* "flock + atomic replace prevent lost updates" (access.py:76): no command
\* undoes another; only a power loss takes back what was not reported yet.
NothingUndone ==
    [][ \/ file.granted \subseteq file'.granted /\ file.revoked \subseteq file'.revoked
        \/ PowerLoss ]_vars

\* What a command reported is so, and would be after a power loss.
ReportedIsKept ==
    \A o \in Ops, c \in maybe \cup {file} : told[o] = "ok" =>
        IF o \in Issues THEN o \in c.granted ELSE target[o] \in c.revoked

\* "A revocation prevents new HTTP requests" (docs/access.md): no request that
\* began after it was reported is accepted, across a power loss too.
RevokedIsRefused ==
    \A r \in Requests : req[r] = "accepted" => presents[r] \notin barred[r]

\* Every command ends, whatever becomes of the one that holds the lock.
CommandsEnd == \A o \in Ops : at[o] = "waiting" ~> at[o] \in {"returned", "failed"}
=============================================================================
