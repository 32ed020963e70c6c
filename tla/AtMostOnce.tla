----------------------------- MODULE AtMostOnce -----------------------------
(***************************************************************************)
(* What README.md ("Project-aware chat and safe retries") promises of      *)
(* chat_send with an idempotency_key: of all calls that use one key at     *)
(* most one is given the key, only that one may ever send its message to   *)
(* the agent, it does so at most once and not after its outcome is         *)
(* settled, and a settled outcome stays.  How many processes serve the     *)
(* calls, and which of them crash, does not matter.                        *)
(***************************************************************************)
CONSTANTS
    Ids,     \* (credential, idempotency_key) pairs
    Turns,   \* chat_send calls, each with the turn it would start
    NoTurn

VARIABLES
    owner,    \* owner[i]: the call that was given identity i
    sent,     \* the turns whose message went out to the agent
    outcome   \* "free", "open" once a key was given, or how the turn ended

vars == <<owner, sent, outcome>>

Settled == {"done", "error", "cancelled", "refused"}

Init == /\ owner = [i \in Ids |-> NoTurn]
        /\ sent = {}
        /\ outcome = [t \in Turns |-> "free"]

Win(i, t) ==
    /\ owner[i] = NoTurn /\ outcome[t] = "free"
    /\ owner' = [owner EXCEPT ![i] = t]
    /\ outcome' = [outcome EXCEPT ![t] = "open"]
    /\ UNCHANGED sent

\* Only a turn that holds its key, or that never asked for one, is sent.
Send(t, keyed) ==
    /\ t \notin sent
    /\ keyed => outcome[t] = "open" /\ \E i \in Ids : owner[i] = t
    /\ ~keyed => outcome[t] = "free"
    /\ sent' = sent \cup {t}
    /\ UNCHANGED <<owner, outcome>>

\* A refused turn was never sent, a done one was.
Settle(t, s) ==
    /\ outcome[t] = "open" /\ s \in Settled
    /\ s = "refused" => t \notin sent
    /\ s = "done" => t \in sent
    /\ outcome' = [outcome EXCEPT ![t] = s]
    /\ UNCHANGED <<owner, sent>>

Next == \/ \E i \in Ids, t \in Turns : Win(i, t)
        \/ \E t \in Turns, keyed \in BOOLEAN : Send(t, keyed)
        \/ \E t \in Turns, s \in Settled : Settle(t, s)

Spec == Init /\ [][Next]_vars
=============================================================================
