---------------------------- MODULE TurnRegistry ----------------------------
(***************************************************************************)
(* mintbot_mcp/chat.py: the turns of one daemon process.  Each action is   *)
(* what the event loop runs between two awaits.  A turn has a pump task    *)
(* that reads the agent's stream, one asyncio.Event shared by every        *)
(* handler that waits for it, and a slot in the registry that eviction     *)
(* takes back.  Reply text, session ids and the durable save that follows  *)
(* finish() are left to the other modules; a save that fails inside        *)
(* finish("done") turns the end into "error" and is part of PumpError.     *)
(***************************************************************************)
EXTENDS Integers, FiniteSets

CONSTANTS
    Turns,     \* turn ids, each started at most once (uuid4)
    Waiters,   \* handlers that wait for a turn, each once
    TTL,       \* TTL_SECONDS, in clock ticks
    MaxTurns,  \* MAX_TURNS
    MaxTime    \* bound of the model: the last clock tick

ASSUME RegistryAssumption ==
    /\ IsFiniteSet(Turns)
    /\ TTL \in Nat /\ MaxTurns \in Nat \ {0} /\ MaxTime \in Nat

VARIABLES
    registered,  \* keys of TurnRegistry._turns
    status,      \* Turn.status, "absent" before start
    finishedAt,  \* Turn.finished_at
    pump,        \* where the task of TurnRegistry._pump is
    changed,     \* the flag of the asyncio.Event Turn.changed
    at,          \* where a waiter is in TurnRegistry.wait
    waitsFor,    \* the turn it waits for
    deadline,    \* when its wait ends
    seen,        \* the status in the snapshot it returned
    now          \* time.monotonic()

turnVars == <<registered, status, finishedAt, pump>>
waitVars == <<waitsFor, deadline, seen>>
vars == <<registered, status, finishedAt, pump, changed, at, waitsFor, deadline, seen, now>>

Final == {"done", "error", "cancelled"}
Status == {"absent", "running"} \cup Final
Pump == {"none", "created", "streaming", "interrupted", "ended"}
InWait == {"arming", "blocked", "woken"}
Place == {"idle", "found", "returned"} \cup InWait

TypeOK ==
    /\ registered \subseteq Turns
    /\ status \in [Turns -> Status]
    /\ finishedAt \in [Turns -> Nat]
    /\ pump \in [Turns -> Pump]
    /\ changed \in [Turns -> BOOLEAN]
    /\ at \in [Waiters -> Place]
    /\ waitsFor \in [Waiters -> Turns]
    /\ deadline \in [Waiters -> Nat]
    /\ seen \in [Waiters -> Status]
    /\ now \in Nat

Init ==
    /\ registered = {}
    /\ status = [t \in Turns |-> "absent"]
    /\ finishedAt = [t \in Turns |-> 0]
    /\ pump = [t \in Turns |-> "none"]
    /\ changed = [t \in Turns |-> FALSE]
    /\ at = [w \in Waiters |-> "idle"]
    /\ waitsFor \in [Waiters -> Turns]
    /\ deadline = [w \in Waiters |-> 0]
    /\ seen = [w \in Waiters |-> "absent"]
    /\ now = 0

Running(t) == status[t] = "running"

-----------------------------------------------------------------------------
\* Mutant of Finished: eviction looks at running turns too.
FinishedOrNot == registered
Finished == {t \in registered : ~Running(t)}

\* The positions sorted(finished, key=finished_at) may give; ties in any order.
Ranks == {rank \in [Finished -> 0 .. Cardinality(Finished) - 1] :
            \A t, u \in Finished :
                /\ rank[t] = rank[u] => t = u
                /\ finishedAt[t] < finishedAt[u] => rank[t] < rank[u]}

\* Mutant of OverCapacity: one turn too many is let in.
OverCapacityByOne(popped) == Cardinality(registered) - popped > MaxTurns
OverCapacity(popped) == Cardinality(registered) - popped >= MaxTurns

\* _evict: the sorted finished turns are popped while they are past the TTL or
\* the registry is full.  Both conditions hold for a prefix, so the turn of
\* rank k is looked at with k turns gone.
Evicted(rank) == {t \in Finished : now - finishedAt[t] > TTL \/ OverCapacity(rank[t])}

\* Event.set(): the flag is raised and every handler blocked on it resumes.
\* Mutant of Wake: only the first waiter of the event resumes.
WakeOne(t) ==
    /\ changed' = [changed EXCEPT ![t] = TRUE]
    /\ LET blocked == {w \in Waiters : at[w] = "blocked" /\ waitsFor[w] = t} IN
         IF blocked = {} THEN at' = at
         ELSE \E w \in blocked : at' = [at EXCEPT ![w] = "woken"]
Wake(t) ==
    /\ changed' = [changed EXCEPT ![t] = TRUE]
    /\ at' = [w \in Waiters |->
               IF at[w] = "blocked" /\ waitsFor[w] = t THEN "woken" ELSE at[w]]

\* Turn.finish
Finish(t, s) ==
    /\ status' = [status EXCEPT ![t] = s]
    /\ finishedAt' = [finishedAt EXCEPT ![t] = now]
    /\ Wake(t)
    /\ UNCHANGED <<waitVars, now>>

-----------------------------------------------------------------------------
\* TurnRegistry.start: evict, create the turn and its task, register it.
Start(t) ==
    /\ status[t] = "absent"
    /\ \E rank \in Ranks : registered' = (registered \ Evicted(rank)) \cup {t}
    /\ status' = [status EXCEPT ![t] = "running"]
    /\ pump' = [pump EXCEPT ![t] = "created"]
    /\ UNCHANGED <<finishedAt, changed, at, waitVars, now>>

\* TurnRegistry.get evicts even when it only reads.  Called by chat_cancel and
\* by the retry of a chat_send, whoever asks for which turn.
Get ==
    /\ \E rank \in Ranks : registered' = registered \ Evicted(rank)
    /\ UNCHANGED <<status, finishedAt, pump, changed, at, waitVars, now>>

\* The task's first step: the request to the agent goes out.
PumpBegin(t) ==
    /\ pump[t] = "created"
    /\ pump' = [pump EXCEPT ![t] = "streaming"]
    /\ UNCHANGED <<registered, status, finishedAt, changed, at, waitVars, now>>

\* A session id or a piece of text arrives.
PumpEvent(t) ==
    /\ pump[t] = "streaming"
    /\ Wake(t)
    /\ UNCHANGED <<turnVars, waitVars, now>>

PumpDone(t) ==
    /\ pump[t] = "streaming"
    /\ pump' = [pump EXCEPT ![t] = "ended"]
    /\ Finish(t, "done")
    /\ UNCHANGED registered

\* The stream fails or names another session, or the save in finish("done")
\* raises: the except clause finishes the turn as an error in the same step.
PumpError(t) ==
    /\ pump[t] = "streaming"
    /\ pump' = [pump EXCEPT ![t] = "ended"]
    /\ Finish(t, "error")
    /\ UNCHANGED registered

\* CancelledError reaches the pump: the turn is finished a second time.
PumpCancelled(t) ==
    /\ pump[t] = "interrupted"
    /\ pump' = [pump EXCEPT ![t] = "ended"]
    /\ Finish(t, "cancelled")
    /\ UNCHANGED registered

\* TurnRegistry.cancel of a running turn: task.cancel() and finish.  A task
\* that never ran is dropped without entering _pump.  (A turn that is over, or
\* that eviction took away, is only reported.)
\* Mutant of Cancel: the turn is marked cancelled but its task goes on.
CancelWithoutTask(t) ==
    /\ t \in registered /\ Running(t)
    /\ pump' = pump
    /\ Finish(t, "cancelled")
    /\ UNCHANGED registered
Cancel(t) ==
    /\ t \in registered /\ Running(t)
    /\ pump' = [pump EXCEPT ![t] = IF @ = "created" THEN "ended" ELSE "interrupted"]
    /\ Finish(t, "cancelled")
    /\ UNCHANGED registered

-----------------------------------------------------------------------------
\* chat_wait finds the turn (get evicts first) and checks its session, which
\* takes time; from here on it holds the Turn object, registered or not.
Find(w) ==
    /\ at[w] = "idle"
    /\ \E rank \in Ranks :
         /\ registered' = registered \ Evicted(rank)
         /\ waitsFor[w] \in registered'
    /\ at' = [at EXCEPT ![w] = "found"]
    /\ UNCHANGED <<status, finishedAt, pump, changed, waitVars, now>>

Return(w) ==
    /\ at' = [at EXCEPT ![w] = "returned"]
    /\ seen' = [seen EXCEPT ![w] = status[waitsFor[w]]]
    /\ UNCHANGED <<changed, waitsFor>>

\* One evaluation of the loop in wait() with deadline d: return the snapshot,
\* or clear the event and wait for it again.
\* Mutants of Loop: the event is cleared before the turn is looked at; the
\* first event ends the wait.
LoopClearFirst(w, d) ==
    LET t == waitsFor[w] IN
    IF Running(t) /\ d > now
    THEN /\ at' = [at EXCEPT ![w] = "arming"]
         /\ changed' = [changed EXCEPT ![t] = FALSE]
         /\ UNCHANGED <<seen, waitsFor>>
    ELSE /\ at' = [at EXCEPT ![w] = "returned"]
         /\ seen' = [seen EXCEPT ![w] = status[t]]
         /\ changed' = [changed EXCEPT ![t] = FALSE]
         /\ UNCHANGED waitsFor
LoopOnce(w, d) ==
    IF at[w] = "found" /\ Running(waitsFor[w]) /\ d > now
    THEN /\ at' = [at EXCEPT ![w] = "arming"]
         /\ changed' = [changed EXCEPT ![waitsFor[w]] = FALSE]
         /\ UNCHANGED <<seen, waitsFor>>
    ELSE Return(w)
Loop(w, d) ==
    IF Running(waitsFor[w]) /\ d > now
    THEN /\ at' = [at EXCEPT ![w] = "arming"]
         /\ changed' = [changed EXCEPT ![waitsFor[w]] = FALSE]
         /\ UNCHANGED <<seen, waitsFor>>
    ELSE Return(w)

\* wait(turn, seconds); the model only waits for deadlines within MaxTime.
WaitStart(w, seconds) ==
    /\ at[w] = "found"
    /\ now + seconds <= MaxTime
    /\ deadline' = [deadline EXCEPT ![w] = now + seconds]
    /\ Loop(w, now + seconds)
    /\ UNCHANGED <<turnVars, now>>

\* changed.wait() starts.  Under Python 3.11 asyncio.wait_for runs it in a task
\* of its own, so other handlers and the pump may act after clear(); later
\* versions take the step at once.
Arm(w) ==
    /\ at[w] = "arming"
    /\ at' = [at EXCEPT ![w] = IF changed[waitsFor[w]] THEN "woken" ELSE "blocked"]
    /\ UNCHANGED <<turnVars, changed, waitVars, now>>

Resume(w) ==
    /\ at[w] = "woken"
    /\ Loop(w, deadline[w])
    /\ UNCHANGED <<turnVars, deadline, now>>

\* wait_for raises TimeoutError.
\* Mutant of Timeout: no timeout once the handler is blocked on the event.
TimeoutArmingOnly(w) ==
    /\ at[w] = "arming" /\ now >= deadline[w]
    /\ Return(w)
    /\ UNCHANGED <<turnVars, deadline, now>>
Timeout(w) ==
    /\ at[w] \in InWait /\ now >= deadline[w]
    /\ Return(w)
    /\ UNCHANGED <<turnVars, deadline, now>>

Tick == now < MaxTime /\ now' = now + 1 /\ UNCHANGED <<turnVars, changed, at, waitVars>>

Next ==
    \/ \E t \in Turns : \/ Start(t) \/ Cancel(t) \/ PumpBegin(t) \/ PumpEvent(t)
                        \/ PumpDone(t) \/ PumpError(t) \/ PumpCancelled(t)
    \/ Get
    \/ \E w \in Waiters : Find(w) \/ Arm(w) \/ Resume(w) \/ Timeout(w)
    \/ \E w \in Waiters, seconds \in 0 .. MaxTime : WaitStart(w, seconds)
    \/ Tick

Spec == Init /\ [][Next]_vars

\* The event loop runs every handler that is ready.  Nothing is assumed of the
\* agent, of start or of cancel.
FairSpec == Spec /\ \A w \in Waiters : WF_vars(Arm(w)) /\ WF_vars(Resume(w))

\* Timers that are due fire and time passes.
Timers == WF_vars(Tick) /\ \A w \in Waiters : WF_vars(Timeout(w))

-----------------------------------------------------------------------------
\* Handlers share one event and each clears it (chat.py:120).  A handler never
\* sleeps on a turn that is over: the clear of one cannot hide the end from
\* another, even between its own clear and its own wait.
NoLostWakeup ==
    \A w \in Waiters : status[waitsFor[w]] \in Final =>
        /\ at[w] # "blocked"
        /\ at[w] = "arming" => changed[waitsFor[w]]

\* wait() reports "running" only when its time is up; text that arrives, and
\* the events of other handlers, do not end it (chat.py:116-124).
RunningOnlyAtDeadline ==
    \A w \in Waiters : at[w] = "returned" /\ seen[w] = "running" => now >= deadline[w]

\* A running turn can always be found again to wait for or to cancel, however
\* many turns are started (tests/test_chat_registry.py:16).
RunningIsRegistered == \A t \in Turns : Running(t) => t \in registered

\* The end of a turn is decided once: a pump that ends after a cancel, and a
\* cancel that comes after the end, change nothing (chat.py:108-109, 131-133).
EndIsForever ==
    [][\A t \in Turns : status[t] \in Final => status'[t] = status[t]]_vars

\* A new turn is let in only if the registry then holds at most MaxTurns, or
\* everything else in it is still running (chat.py:86, 143).
RegistryBounded ==
    [][\A t \in registered' \ registered :
         \/ Cardinality(registered') <= MaxTurns
         \/ \A u \in registered' : status'[u] = "running"]_vars

\* A handler that waits for a turn that ends returns without needing a timer.
EndIsSeen ==
    \A w \in Waiters : (at[w] \in InWait /\ status[waitsFor[w]] \in Final) ~> at[w] = "returned"

\* Every wait ends by its timer when the agent never says anything (chat.py:115-124).
WaitReturns == Timers => \A w \in Waiters : at[w] \in InWait ~> at[w] = "returned"

\* What the unknown_turn message of server.py:320 says: "finished turns are
\* kept for 15 minutes".  Not so when the registry is full.
KeptForTTL ==
    \A t \in Turns : status[t] \in Final /\ now - finishedAt[t] <= TTL => t \in registered
=============================================================================
