----------------------------- MODULE ClaimTable -----------------------------
(***************************************************************************)
(* What mintbot_mcp/idempotency.py promises its callers, without time,     *)
(* reply bodies or the steps of a transaction: an identity (credential and *)
(* idempotency key) is given to one turn and one payload for as long as    *)
(* the state file lives, and the recorded outcome of a turn only moves     *)
(* forward until it is final.                                              *)
(***************************************************************************)
CONSTANTS
    Ids,        \* (credential, idempotency_key) pairs
    Payloads,   \* fingerprints of {message, session_id, project_id}
    Turns,      \* turn ids, minted by uuid4 and never twice
    NoTurn,     \* an identity that is not claimed
    NoPayload

VARIABLES
    owner,        \* owner[i]: the turn that holds identity i
    fingerprint,  \* fingerprint[i]: the payload identity i was claimed with
    outcome       \* outcome[t]: the recorded status of turn t, "free" if none

vars == <<owner, fingerprint, outcome>>

FinalStatus == {"done", "error", "cancelled"}
Outcome == {"free", "unknown", "running"} \cup FinalStatus

\* Which status may be recorded over which.  A final status may only be
\* recorded again unchanged (the second save of a cancelled turn).
Follows == {<<"unknown", "running">>, <<"unknown", "error">>}
             \cup ({"running"} \X FinalStatus)
             \cup {<<s, s>> : s \in FinalStatus}

TypeOK == /\ owner \in [Ids -> Turns \cup {NoTurn}]
          /\ fingerprint \in [Ids -> Payloads \cup {NoPayload}]
          /\ outcome \in [Turns -> Outcome]

Init == /\ owner = [i \in Ids |-> NoTurn]
        /\ fingerprint = [i \in Ids |-> NoPayload]
        /\ outcome = [t \in Turns |-> "free"]

\* The only way an identity is ever claimed.
Claim(i, p, t) ==
    /\ owner[i] = NoTurn
    /\ outcome[t] = "free"
    /\ owner' = [owner EXCEPT ![i] = t]
    /\ fingerprint' = [fingerprint EXCEPT ![i] = p]
    /\ outcome' = [outcome EXCEPT ![t] = "unknown"]

Record(t, s) ==
    /\ <<outcome[t], s>> \in Follows
    /\ outcome' = [outcome EXCEPT ![t] = s]
    /\ UNCHANGED <<owner, fingerprint>>

Next == \/ \E i \in Ids, p \in Payloads, t \in Turns : Claim(i, p, t)
        \/ \E t \in Turns, s \in Outcome : Record(t, s)

Spec == Init /\ [][Next]_vars
=============================================================================
