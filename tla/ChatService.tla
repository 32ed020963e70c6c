---------------------------- MODULE ChatService -----------------------------
(***************************************************************************)
(* The chat tools of mintbot_mcp/server.py over the store and the turns of *)
(* several processes (the HTTP daemon and any stdio process share the      *)
(* SQLite file), with crashes, restarts, storage failures, abandoned       *)
(* handlers and the agent (Hermes) at the other end of the stream.         *)
(*                                                                         *)
(* A step is what one process runs between two awaits.  A call of          *)
(* chat_send is also the name of the turn it would start: turn ids are     *)
(* fresh uuids.  Time is left out: a wait may return at any moment and     *)
(* eviction may take any finished turn of a process (TurnRegistry has the  *)
(* exact rule, IdempotencyStore the replies that go with an outcome).      *)
(***************************************************************************)
EXTENDS FiniteSets

CONSTANTS
    Procs,      \* server processes on one state directory
    Sends,      \* calls of chat_send
    Waits,      \* calls of chat_wait
    Cancels,    \* calls of chat_cancel
    Creds,      \* credentials
    Keys,       \* idempotency keys
    Payloads,   \* {message, session_id, project_id}
    NoTurn, NoKey, None

Calls == Sends \cup Waits \cup Cancels
Ids == Creds \X Keys

ASSUME ChatAssumption ==
    /\ Sends \cap (Waits \cup Cancels) = {} /\ Waits \cap Cancels = {}
    /\ NoTurn \notin Sends /\ NoKey \notin Keys
    /\ None \notin Procs \cup Creds \cup Payloads

VARIABLES
    procState,             \* per process
    owner, payloadOf,      \* per identity: the claim in the SQLite file
    outcome,               \* per turn: the status in the SQLite file
    at, proc, cred,        \* per call: where its handler is, process, credential
    key, payload,          \* per call of chat_send: its arguments
    subject, held, answer, \* per call: the turn it is about, the status it
                           \* read from the store, the status it replied with
    mem, pump,             \* per turn: Turn.status and where its pump task is
    kept,                  \* the turns in the registry of their process
    hermes                 \* per turn: the agent's side of the request

claims == <<owner, payloadOf, outcome>>
calls == <<at, proc, cred, key, payload, subject, held, answer>>
turns == <<mem, kept, pump>>
vars == <<procState, claims, calls, turns, hermes>>

Final == {"done", "error", "cancelled", "refused"}  \* "refused": the error that
                                                    \* chat_send saves itself
Outcome == {"free", "unknown", "running"} \cup Final
Waiting == {"replaying", "context", "waiting", "checking", "reading"}
Answer == {"none", "unknown", "running", "unavailable", "conflict",
           "denied", "unknown_turn"} \cup Final

TypeOK ==
    /\ procState \in [Procs -> {"up", "stopping", "down"}]
    /\ owner \in [Ids -> Sends \cup {NoTurn}]
    /\ payloadOf \in [Ids -> Payloads \cup {None}]
    /\ outcome \in [Sends -> Outcome]
    /\ at \in [Calls -> {"idle", "returned", "lost"} \cup Waiting]
    /\ proc \in [Calls -> Procs \cup {None}]
    /\ cred \in [Calls -> Creds \cup {None}]
    /\ key \in [Sends -> Keys \cup {NoKey}]
    /\ payload \in [Sends -> Payloads \cup {None}]
    /\ subject \in [Calls -> Sends \cup {NoTurn}]
    /\ held \in [Calls -> Outcome]
    /\ answer \in [Calls -> Answer]
    /\ mem \in [Sends -> {"absent", "running", "done", "error", "cancelled"}]
    /\ kept \subseteq Sends
    /\ pump \in [Sends -> {"none", "created", "streaming", "interrupted", "ended"}]
    /\ hermes \in [Sends -> {"idle", "sent", "running", "finished", "stopped", "lost"}]

Init ==
    /\ procState = [p \in Procs |-> "up"]
    /\ owner = [i \in Ids |-> NoTurn]
    /\ payloadOf = [i \in Ids |-> None]
    /\ outcome = [t \in Sends |-> "free"]
    /\ at = [c \in Calls |-> "idle"]
    /\ proc = [c \in Calls |-> None]
    /\ cred = [c \in Calls |-> None]
    /\ key = [t \in Sends |-> NoKey]
    /\ payload = [t \in Sends |-> None]
    /\ subject = [c \in Calls |-> NoTurn]
    /\ held = [c \in Calls |-> "free"]
    /\ answer = [c \in Calls |-> "none"]
    /\ mem = [t \in Sends |-> "absent"]
    /\ kept = {}
    /\ pump = [t \in Sends |-> "none"]
    /\ hermes = [t \in Sends |-> "idle"]

-----------------------------------------------------------------------------
Keyed(t) == key[t] # NoKey

\* What the store says of a row: a running turn is of unknown outcome to
\* whoever finds it in the file.
Reported(s) == IF s = "running" THEN "unknown" ELSE s

\* A snapshot of a turn that was started carries its session id, so that the
\* session's project is checked, with an await, before it is handed out.
HasSession(s) == s \notin {"unknown", "refused"}

\* TurnRegistry._evict in process p, as far as it goes without time.
Evict(p) ==
    \E gone \in SUBSET {t \in kept : proc[t] = p /\ mem[t] # "running"} : kept' = kept \ gone

\* TurnRegistry.get in process p, after its eviction.
Found(t, p) == t \in kept' /\ proc[t] = p

Reply(c, s) ==
    /\ at' = [at EXCEPT ![c] = "returned"]
    /\ answer' = [answer EXCEPT ![c] = s]

Goto(c, place) == at' = [at EXCEPT ![c] = place] /\ UNCHANGED answer

\* Turn.persist, if the turn has a key: the save goes through or raises.
Saved(t, s) == outcome' = IF Keyed(t) THEN [outcome EXCEPT ![t] = s] ELSE outcome
SaveFails(t) == Keyed(t) /\ UNCHANGED outcome

-----------------------------------------------------------------------------
(* chat_send                                                               *)

\* A handler of process p takes the call; its arguments are recorded.
Arrive(c, p, cr, k, pl) ==
    /\ c \in Sends /\ at[c] = "idle" /\ procState[p] = "up"
    /\ proc' = [proc EXCEPT ![c] = p]
    /\ cred' = [cred EXCEPT ![c] = cr]
    /\ key' = [key EXCEPT ![c] = k]
    /\ payload' = [payload EXCEPT ![c] = pl]
    /\ UNCHANGED <<procState, mem, pump, hermes>>

SendUnkeyed(c, p, cr, pl) ==
    /\ Arrive(c, p, cr, NoKey, pl)
    /\ subject' = [subject EXCEPT ![c] = c]
    /\ Goto(c, "context")
    /\ UNCHANGED <<claims, held, kept>>

\* reserve commits a new claim.
\* Mutant of ReserveFresh: a claim whose outcome is unknown is taken over.
ReserveFreshOrUnknown(c, p, cr, k, pl) ==
    /\ Arrive(c, p, cr, k, pl)
    /\ \/ owner[<<cr, k>>] = NoTurn
       \/ owner[<<cr, k>>] # NoTurn /\ outcome[owner[<<cr, k>>]] = "unknown"
    /\ owner' = [owner EXCEPT ![<<cr, k>>] = c]
    /\ payloadOf' = [payloadOf EXCEPT ![<<cr, k>>] = pl]
    /\ outcome' = [outcome EXCEPT ![c] = "unknown"]
    /\ subject' = [subject EXCEPT ![c] = c]
    /\ Goto(c, "context")
    /\ UNCHANGED <<held, kept>>
ReserveFresh(c, p, cr, k, pl) ==
    /\ Arrive(c, p, cr, k, pl)
    /\ owner[<<cr, k>>] = NoTurn
    /\ owner' = [owner EXCEPT ![<<cr, k>>] = c]
    /\ payloadOf' = [payloadOf EXCEPT ![<<cr, k>>] = pl]
    /\ outcome' = [outcome EXCEPT ![c] = "unknown"]
    /\ subject' = [subject EXCEPT ![c] = c]
    /\ Goto(c, "context")
    /\ UNCHANGED <<held, kept>>

\* reserve refuses a key used with another payload, or the store is out of reach.
ReserveRefused(c, p, cr, k, pl) ==
    /\ Arrive(c, p, cr, k, pl)
    /\ \/ owner[<<cr, k>>] # NoTurn /\ payloadOf[<<cr, k>>] # pl /\ Reply(c, "conflict")
       \/ Reply(c, "unavailable")
    /\ UNCHANGED <<claims, subject, held, kept>>

\* reserve finds the key.  A snapshot without a session is returned at once (or
\* denied): its turn was never registered, so that get finds nothing.
ReserveReplay(c, p, cr, k, pl) ==
    LET t == owner[<<cr, k>>] IN
    /\ t # NoTurn /\ payloadOf[<<cr, k>>] = pl
    /\ Arrive(c, p, cr, k, pl)
    /\ subject' = [subject EXCEPT ![c] = t]
    /\ held' = [held EXCEPT ![c] = Reported(outcome[t])]
    /\ \/ HasSession(outcome[t]) /\ Goto(c, "replaying") /\ UNCHANGED kept
       \/ ~HasSession(outcome[t]) /\ Reply(c, "denied") /\ UNCHANGED kept
       \/ ~HasSession(outcome[t]) /\ Evict(p) /\ ~Found(t, p) /\ Reply(c, outcome[t])
    /\ UNCHANGED claims

\* session_context returns for a retry: wait for the turn if this process has
\* it, else reply with the snapshot read before the await.
\* Mutant of ReplayChecked: a turn of unknown outcome is started anew.
ReplayRunsAgain(c) ==
    /\ at[c] = "replaying"
    /\ Evict(proc[c])
    /\ IF Found(subject[c], proc[c]) /\ cred[subject[c]] = cred[c]
       THEN Goto(c, "waiting")
       ELSE Goto(c, "context")
    /\ UNCHANGED <<procState, claims, proc, cred, key, payload, subject, held, mem, pump, hermes>>
ReplayChecked(c) ==
    /\ at[c] = "replaying"
    /\ Evict(proc[c])
    /\ IF Found(subject[c], proc[c]) /\ cred[subject[c]] = cred[c]
       THEN Goto(c, "waiting")
       ELSE Reply(c, IF Found(subject[c], proc[c]) THEN "denied" ELSE held[c])
    /\ UNCHANGED <<procState, claims, proc, cred, key, payload, subject, held, mem, pump, hermes>>

\* session_context (and session_messages) accept: TurnRegistry.start persists
\* the running turn, creates its task and registers it.
Start(c) ==
    /\ at[c] = "context"
    /\ Saved(c, "running")
    /\ \E gone \in SUBSET {t \in kept : proc[t] = proc[c] /\ mem[t] # "running"} :
         kept' = (kept \ gone) \cup {c}
    /\ mem' = [mem EXCEPT ![c] = "running"]
    /\ pump' = [pump EXCEPT ![c] = "created"]
    /\ Goto(c, "waiting")
    /\ UNCHANGED <<procState, owner, payloadOf, proc, cred, key, payload, subject, held, hermes>>

\* start raises because the running turn cannot be persisted: no task exists.
StartFails(c) ==
    /\ at[c] = "context"
    /\ SaveFails(c)
    /\ Evict(proc[c])
    /\ Reply(c, "unavailable")
    /\ UNCHANGED <<procState, owner, payloadOf, proc, cred, key, payload, subject, held, mem, pump, hermes>>

\* The session or project is refused, or a backend fails: a keyed call saves
\* the error under its key, and reports it unless the save fails.
\* Mutant of ContextRefused: the error is saved but the call goes on.
ContextRefusedGoesOn(c) ==
    /\ at[c] = "context" /\ outcome[c] # "refused"
    /\ Saved(c, "refused")
    /\ UNCHANGED <<procState, owner, payloadOf, calls, turns, hermes>>
ContextRefused(c) ==
    /\ at[c] = "context"
    /\ \/ Saved(c, "refused") /\ Reply(c, "refused")
       \/ SaveFails(c) /\ Reply(c, "unavailable")
    /\ UNCHANGED <<procState, owner, payloadOf, proc, cred, key, payload, subject, held, turns, hermes>>

\* wait() returns the snapshot of the Turn object, over or not (its deadline).
WaitReturns(c) ==
    /\ at[c] = "waiting"
    /\ Reply(c, mem[subject[c]])
    /\ UNCHANGED <<procState, claims, proc, cred, key, payload, subject, held, turns, hermes>>

-----------------------------------------------------------------------------
(* chat_wait and chat_cancel: visible_turn finds the turn in the registry, *)
(* or else its row in the store, and then checks its session.              *)

Follow(c, p, cr, t) ==
    /\ c \in Waits \cup Cancels /\ at[c] = "idle" /\ procState[p] = "up"
    /\ proc' = [proc EXCEPT ![c] = p]
    /\ cred' = [cred EXCEPT ![c] = cr]
    /\ subject' = [subject EXCEPT ![c] = t]
    /\ Evict(p)
    /\ UNCHANGED <<procState, claims, key, payload, mem, pump, hermes>>

FollowRegistered(c, p, cr, t) ==
    /\ Follow(c, p, cr, t)
    /\ Found(t, p)
    /\ IF cred[t] = cr THEN Goto(c, "checking") ELSE Reply(c, "denied")
    /\ UNCHANGED held

\* lookup(credential, turn_id)
\* Mutant of RowFor: any credential may look a turn up.
RowForAnyone(t, cr) == Keyed(t) /\ outcome[t] # "free"
RowFor(t, cr) == Keyed(t) /\ outcome[t] # "free" /\ cred[t] = cr

FollowSaved(c, p, cr, t) ==
    /\ Follow(c, p, cr, t)
    /\ ~Found(t, p)
    /\ RowFor(t, cr)
    /\ held' = [held EXCEPT ![c] = Reported(outcome[t])]
    /\ IF HasSession(outcome[t])
       THEN Goto(c, "reading")
       ELSE Reply(c, outcome[t]) \/ Reply(c, "denied")

FollowMissing(c, p, cr, t) ==
    /\ Follow(c, p, cr, t)
    /\ ~Found(t, p)
    /\ \/ ~RowFor(t, cr) /\ Reply(c, "unknown_turn")
       \/ Reply(c, "unavailable")
    /\ UNCHANGED held

\* The session of a stored turn was checked.
SavedChecked(c) ==
    /\ at[c] = "reading"
    /\ Reply(c, held[c])
    /\ UNCHANGED <<procState, claims, proc, cred, key, payload, subject, held, turns, hermes>>

\* session_context refuses, or the canonical project has changed.
CheckRefused(c) ==
    /\ at[c] \in {"replaying", "checking", "reading"}
    /\ Reply(c, "denied")
    /\ UNCHANGED <<procState, claims, proc, cred, key, payload, subject, held, turns, hermes>>

WaitChecked(c) ==
    /\ c \in Waits /\ at[c] = "checking"
    /\ Goto(c, "waiting")
    /\ UNCHANGED <<procState, claims, proc, cred, key, payload, subject, held, turns, hermes>>

\* TurnRegistry.cancel looks the turn up again, after the await: it may be gone
\* or over.  A running one is cancelled, finished and saved.
CancelNothing(c) ==
    /\ c \in Cancels /\ at[c] = "checking"
    /\ LET t == subject[c] IN
         \/ t \notin kept /\ Reply(c, "unknown_turn")
         \/ t \in kept /\ mem[t] # "running" /\ Reply(c, mem[t])
    /\ UNCHANGED <<procState, claims, proc, cred, key, payload, subject, held, turns, hermes>>

\* Mutant of CancelRunning: task.cancel() is forgotten.
CancelStatusOnly(c) ==
    /\ c \in Cancels /\ at[c] = "checking"
    /\ LET t == subject[c] IN
         /\ t \in kept /\ mem[t] = "running"
         /\ mem' = [mem EXCEPT ![t] = "cancelled"]
         /\ pump' = pump
         /\ \/ Saved(t, "cancelled") /\ Reply(c, "cancelled")
            \/ SaveFails(t) /\ Reply(c, "unavailable")
    /\ UNCHANGED <<procState, owner, payloadOf, proc, cred, key, payload, subject, held, kept, hermes>>
CancelRunning(c) ==
    /\ c \in Cancels /\ at[c] = "checking"
    /\ LET t == subject[c] IN
         /\ t \in kept /\ mem[t] = "running"
         /\ mem' = [mem EXCEPT ![t] = "cancelled"]
         /\ pump' = [pump EXCEPT ![t] = IF @ = "created" THEN "ended" ELSE "interrupted"]
         /\ \/ Saved(t, "cancelled") /\ Reply(c, "cancelled")
            \/ SaveFails(t) /\ Reply(c, "unavailable")
    /\ UNCHANGED <<procState, owner, payloadOf, proc, cred, key, payload, subject, held, kept, hermes>>

\* The client goes away or cancels the request: CancelledError at an await.
\* Nothing is saved; a claim taken before stays, of unknown outcome.
Abandon(c) ==
    /\ at[c] \in Waiting
    /\ Goto(c, "lost")
    /\ UNCHANGED <<procState, claims, proc, cred, key, payload, subject, held, turns, hermes>>

-----------------------------------------------------------------------------
(* The pump of turn t and the agent                                        *)

\* The task's first step: the request goes out.
PumpBegin(t) ==
    /\ pump[t] = "created"
    /\ pump' = [pump EXCEPT ![t] = "streaming"]
    /\ hermes' = [hermes EXCEPT ![t] = "sent"]
    /\ UNCHANGED <<procState, claims, calls, mem, kept>>

PumpEnds(t, s) ==
    /\ pump' = [pump EXCEPT ![t] = "ended"]
    /\ mem' = [mem EXCEPT ![t] = s]
    /\ UNCHANGED <<procState, owner, payloadOf, calls, kept, hermes>>

\* The stream ends and the turn is saved as done.
PumpDone(t) ==
    /\ pump[t] = "streaming" /\ hermes[t] \in {"running", "finished"}
    /\ PumpEnds(t, "done")
    /\ Saved(t, "done")

\* The stream cannot be opened or breaks, or saving "done" raises: the turn is
\* an error, which is saved or not.
PumpError(t) ==
    /\ pump[t] \in {"created", "streaming"}
    /\ PumpEnds(t, "error")
    /\ Saved(t, "error") \/ SaveFails(t)

\* CancelledError in the pump: finish("cancelled"), a second time after
\* chat_cancel, the first time when the process shuts down.
PumpCancelled(t) ==
    /\ pump[t] = "interrupted"
    /\ PumpEnds(t, "cancelled")
    /\ Saved(t, "cancelled") \/ SaveFails(t)

\* The stream of an ended pump is closed.
Closed(t) == pump[t] = "ended"

\* The agent receives the request, even late; it is lost only with its stream.
HermesReceive(t) ==
    /\ hermes[t] = "sent"
    /\ \/ hermes' = [hermes EXCEPT ![t] = "running"]
       \/ Closed(t) /\ hermes' = [hermes EXCEPT ![t] = "lost"]
    /\ UNCHANGED <<procState, claims, calls, turns>>

HermesFinish(t) ==
    /\ hermes[t] = "running"
    /\ hermes' = [hermes EXCEPT ![t] = "finished"]
    /\ UNCHANGED <<procState, claims, calls, turns>>

\* The agent notices that nobody reads its stream and stops.
HermesStop(t) ==
    /\ hermes[t] = "running" /\ Closed(t)
    /\ hermes' = [hermes EXCEPT ![t] = "stopped"]
    /\ UNCHANGED <<procState, claims, calls, turns>>

-----------------------------------------------------------------------------
(* Processes                                                               *)

HandlersLost(p) ==
    /\ at' = [c \in Calls |-> IF proc[c] = p /\ at[c] \in Waiting THEN "lost" ELSE at[c]]
    /\ UNCHANGED <<proc, cred, key, payload, subject, held, answer>>

\* The process dies: handlers, tasks and registry are gone, streams closed.
Crash(p) ==
    /\ procState[p] \in {"up", "stopping"}
    /\ procState' = [procState EXCEPT ![p] = "down"]
    /\ HandlersLost(p)
    /\ kept' = {t \in kept : proc[t] # p}
    /\ mem' = [t \in Sends |-> IF proc[t] = p THEN "absent" ELSE mem[t]]
    /\ pump' = [t \in Sends |->
                 IF proc[t] = p /\ pump[t] # "none" THEN "ended" ELSE pump[t]]
    /\ UNCHANGED <<claims, hermes>>

\* An orderly shutdown: every task is cancelled; pumps that had begun still
\* record that before the process is gone.
Shutdown(p) ==
    /\ procState[p] = "up"
    /\ procState' = [procState EXCEPT ![p] = "stopping"]
    /\ HandlersLost(p)
    /\ pump' = [t \in Sends |->
                 IF proc[t] # p THEN pump[t]
                 ELSE CASE pump[t] = "created" -> "ended"
                        [] pump[t] = "streaming" -> "interrupted"
                        [] OTHER -> pump[t]]
    /\ UNCHANGED <<claims, mem, kept, hermes>>

Restart(p) ==
    /\ procState[p] = "down"
    /\ procState' = [procState EXCEPT ![p] = "up"]
    /\ UNCHANGED <<claims, calls, turns, hermes>>

-----------------------------------------------------------------------------
SendStep(c) ==
    \/ \E p \in Procs, cr \in Creds, pl \in Payloads :
         \/ SendUnkeyed(c, p, cr, pl)
         \/ \E k \in Keys : \/ ReserveFresh(c, p, cr, k, pl)
                            \/ ReserveRefused(c, p, cr, k, pl)
                            \/ ReserveReplay(c, p, cr, k, pl)
    \/ ReplayChecked(c) \/ Start(c) \/ StartFails(c) \/ ContextRefused(c)

FollowStep(c) ==
    \/ \E p \in Procs, cr \in Creds, t \in Sends :
         \/ FollowRegistered(c, p, cr, t)
         \/ FollowSaved(c, p, cr, t)
         \/ FollowMissing(c, p, cr, t)
    \/ SavedChecked(c) \/ WaitChecked(c) \/ CancelNothing(c) \/ CancelRunning(c)

TurnStep(t) ==
    \/ PumpBegin(t) \/ PumpDone(t) \/ PumpError(t) \/ PumpCancelled(t)
    \/ HermesReceive(t) \/ HermesFinish(t) \/ HermesStop(t)

Next ==
    \/ \E c \in Sends : SendStep(c)
    \/ \E c \in Waits \cup Cancels : FollowStep(c)
    \/ \E c \in Calls : WaitReturns(c) \/ CheckRefused(c) \/ Abandon(c)
    \/ \E t \in Sends : TurnStep(t)
    \/ \E p \in Procs : Crash(p) \/ Shutdown(p) \/ Restart(p)

Spec == Init /\ [][Next]_vars

\* The event loop delivers a cancellation to its task; the agent reads what was
\* sent to it and stops a run whose stream was closed (the interruption that
\* chat_cancel's description promises).
Fairness == \A t \in Sends : /\ WF_vars(PumpCancelled(t))
                             /\ WF_vars(HermesReceive(t))
                             /\ WF_vars(HermesStop(t))
FairSpec == Spec /\ Fairness

-----------------------------------------------------------------------------
Sent(t) == hermes[t] # "idle"

\* "An idempotency_key cannot start a second agent turn" (README.md, server.py:
\* 253-256): of all calls of one credential with one key, whatever processes
\* serve them, crash or fail to save, at most one sends its message.
AtMostOnce ==
    \A s, t \in Sends :
        Sent(s) /\ Sent(t) /\ Keyed(s) /\ key[s] = key[t] /\ cred[s] = cred[t] => s = t

\* Replies never contradict each other: whoever is told how a turn ended, from
\* memory or from the store, in whatever process, is told the same.
AnswersAgree ==
    \A c, d \in Calls :
        answer[c] \in Final /\ answer[d] \in Final /\ subject[c] = subject[d]
            => answer[c] = answer[d]

\* What a turn is doing, or how it ended, is told only to the credential that
\* started it (server.py:275-277, 312, 322-323).
OwnTurnsOnly ==
    \A c \in Calls : answer[c] \in Final \cup {"running", "unknown"} => cred[c] = cred[subject[c]]

\* A call that is reported as refused, now or by a later retry, never reached
\* the agent and never will (server.py:286-293).
RefusedNeverSent ==
    \A c \in Calls : answer[c] = "refused" => ~Sent(subject[c])

\* The abstract promise: unkeyed turns have no claim and stay "free" in it.
Promise == INSTANCE AtMostOnce WITH
    Turns <- Sends,
    sent <- {t \in Sends : Sent(t)},
    outcome <- [t \in Sends |->
                 IF outcome[t] \in {"unknown", "running"} THEN "open" ELSE outcome[t]]
KeepsItsPromise == Promise!Spec

\* chat_cancel "stops a running turn: the agent is interrupted" (server.py:333):
\* once a call is told so, the agent's run comes to an end.
CancelStopsAgent ==
    \A c \in Cancels, t \in Sends :
        answer[c] = "cancelled" /\ subject[c] = t ~> hermes[t] \notin {"sent", "running"}
=============================================================================
