------------------------- MODULE ChatServiceProofs --------------------------
(***************************************************************************)
(* The safety of ChatService for any number of processes, calls,           *)
(* credentials and keys.                                                   *)
(***************************************************************************)
EXTENDS ChatService, TLAPS

Identity(t) == <<cred[t], key[t]>>

\* Where a handler stands and what it holds.
HandlersOK ==
    \A c \in Calls :
        /\ at[c] # "idle" => proc[c] \in Procs /\ cred[c] \in Creds
        /\ at[c] = "idle" => answer[c] = "none"
        /\ at[c] \in Waiting =>
             /\ subject[c] \in Sends
             /\ at[subject[c]] # "idle"
             /\ cred[subject[c]] = cred[c]
        /\ at[c] = "context" => c \in Sends /\ subject[c] = c
        /\ at[c] \in {"waiting", "checking"} =>
             proc[subject[c]] = proc[c] /\ mem[subject[c]] # "absent"
        /\ at[c] \in {"replaying", "reading"} =>
             held[c] \in {"unknown", "done", "error", "cancelled"}

\* A turn in memory, its pump, the agent and the stored outcome go together.
TurnsOK ==
    \A t \in Sends :
        /\ at[t] \in {"idle", "context"} => pump[t] = "none"
        /\ pump[t] = "none" => mem[t] = "absent" /\ hermes[t] = "idle"
        /\ pump[t] = "created" => hermes[t] = "idle"
        /\ t \in kept => mem[t] # "absent"
        /\ pump[t] \in {"created", "streaming"} => mem[t] = "running"
        /\ pump[t] = "interrupted" => mem[t] \in {"running", "cancelled"}
        /\ Keyed(t) /\ mem[t] = "running" => outcome[t] = "running"
        /\ Keyed(t) /\ pump[t] = "interrupted" => outcome[t] \in {"running", "cancelled"}

\* A claim belongs to a call that asked for it.
OwnersOK ==
    \A i \in Ids : owner[i] # NoTurn =>
        at[owner[i]] # "idle" /\ Identity(owner[i]) = i /\ outcome[owner[i]] # "free"

\* A turn on its way to the agent, or past it, holds its key.
KeysOK ==
    \A t \in Sends :
        /\ at[t] = "idle" => ~Keyed(t)
        /\ ~Keyed(t) => outcome[t] = "free"
        /\ Keyed(t) /\ (at[t] = "context" \/ pump[t] # "none") => owner[Identity(t)] = t
        /\ Keyed(t) /\ at[t] = "context" => outcome[t] = "unknown"
        /\ outcome[t] = "refused" => pump[t] = "none" /\ at[t] # "context"

ClaimsOK == OwnersOK /\ KeysOK

Inv == TypeOK /\ HandlersOK /\ TurnsOK /\ ClaimsOK

USE ChatAssumption

LEMMA InitInv == Init => Inv
  <1> SUFFICES ASSUME Init PROVE Inv
    OBVIOUS
  <1>1. TypeOK
    BY DEF Init, TypeOK, Outcome, Answer, Waiting
  <1>2. HandlersOK
    BY DEF Init, HandlersOK, Calls, Waiting
  <1>3. TurnsOK
    BY DEF Init, TurnsOK, Keyed
  <1>4. ClaimsOK
    BY DEF Init, ClaimsOK, OwnersOK, KeysOK, Keyed
  <1> QED BY <1>1, <1>2, <1>3, <1>4 DEF Inv

-----------------------------------------------------------------------------
\* A handler goes on, ends or is lost; turns may leave the registry.
LEMMA CallStepInv ==
  ASSUME Inv, NEW c \in Calls, at[c] \in Waiting,
         UNCHANGED <<procState, claims, proc, cred, key, payload, subject, held, mem, pump, hermes>>,
         kept' \subseteq kept,
         \/ \E s \in Answer : Reply(c, s)
         \/ Goto(c, "lost")
         \/ /\ Goto(c, "waiting")
            /\ proc[subject[c]] = proc[c] /\ mem[subject[c]] # "absent"
  PROVE  Inv'
  <1>1. TypeOK'
    BY DEF Calls, Inv, TypeOK, claims, Reply, Goto, Waiting
  <1>2. HandlersOK'
    BY DEF Calls, Inv, TypeOK, HandlersOK, claims, Reply, Goto, Waiting
  <1>3. TurnsOK'
    BY DEF Calls, Inv, TypeOK, TurnsOK, claims, Reply, Goto, Waiting, Keyed
  <1>4. OwnersOK'
    BY DEF Calls, Inv, TypeOK, ClaimsOK, OwnersOK, KeysOK, claims, Reply, Goto, Waiting, Keyed, Identity
  <1>5. KeysOK'
    BY DEF Calls, Inv, TypeOK, ClaimsOK, OwnersOK, KeysOK, claims, Reply, Goto, Waiting, Keyed, Identity
  <1> QED BY <1>1, <1>2, <1>3, <1>4, <1>5 DEF Inv, ClaimsOK

\* What eviction does to the registry.
LEMMA EvictOnlyRemoves ==
  ASSUME NEW p, Evict(p)
  PROVE  kept' \subseteq kept
  BY DEF Evict

LEMMA SendUnkeyedInv ==
  ASSUME Inv, NEW c \in Sends, NEW p \in Procs, NEW cr \in Creds, NEW pl \in Payloads,
         SendUnkeyed(c, p, cr, pl)
  PROVE  Inv'
  <1>0. c \in Calls
    BY DEF Calls
  <1>1. TypeOK'
    BY <1>0 DEF Calls, Inv, TypeOK, SendUnkeyed, Arrive, Goto, claims, Waiting
  <1>2. HandlersOK'
    BY <1>0 DEF Calls, Inv, TypeOK, HandlersOK, SendUnkeyed, Arrive, Goto, claims, Waiting
  <1>3. TurnsOK'
    BY <1>0 DEF Calls, Inv, TypeOK, TurnsOK, ClaimsOK, OwnersOK, KeysOK, SendUnkeyed, Arrive, Goto, claims, Keyed
  <1>4. OwnersOK'
    BY <1>0 DEF Calls, Inv, TypeOK, TurnsOK, ClaimsOK, OwnersOK, KeysOK, SendUnkeyed, Arrive, Goto, claims, Keyed, Identity
  <1>5. KeysOK'
    <2>1. \A t \in Sends \ {c} : /\ at'[t] = at[t] /\ key'[t] = key[t] /\ cred'[t] = cred[t]
                               /\ pump'[t] = pump[t] /\ outcome'[t] = outcome[t]
      BY <1>0 DEF Calls, Inv, TypeOK, SendUnkeyed, Arrive, Goto, claims
    <2>2. at[c] = "idle" /\ at'[c] = "context" /\ key'[c] = NoKey /\ pump'[c] = "none"
          /\ outcome'[c] = "free"
      BY <1>0 DEF Calls, Inv, TypeOK, TurnsOK, ClaimsOK, KeysOK, SendUnkeyed, Arrive, Goto, claims
    <2>3. owner' = owner
      BY DEF SendUnkeyed, claims
    <2> QED BY <1>0, <2>1, <2>2, <2>3 DEF Inv, ClaimsOK, KeysOK, Keyed, Identity
  <1> QED BY <1>1, <1>2, <1>3, <1>4, <1>5 DEF Inv, ClaimsOK

LEMMA ReserveFreshInv ==
  ASSUME Inv, NEW c \in Sends, NEW p \in Procs, NEW cr \in Creds, NEW k \in Keys, NEW pl \in Payloads,
         ReserveFresh(c, p, cr, k, pl)
  PROVE  Inv'
  <1>0. c \in Calls /\ <<cr, k>> \in Ids /\ k # NoKey
    BY DEF Calls, Ids
  <1>1. TypeOK'
    BY <1>0 DEF Calls, Inv, TypeOK, ReserveFresh, Arrive, Goto, Waiting, Outcome
  <1>2. HandlersOK'
    BY <1>0 DEF Calls, Inv, TypeOK, HandlersOK, ReserveFresh, Arrive, Goto, Waiting
  <1>3. TurnsOK'
    BY <1>0 DEF Calls, Inv, TypeOK, TurnsOK, ClaimsOK, OwnersOK, KeysOK, ReserveFresh, Arrive, Goto, Keyed
  <1>4. OwnersOK'
    <2> SUFFICES ASSUME NEW i \in Ids, owner'[i] # NoTurn
                 PROVE  (at[owner[i]] # "idle" /\ Identity(owner[i]) = i /\ outcome[owner[i]] # "free")'
      BY DEF OwnersOK
    <2>1. CASE i = <<cr, k>>
      <3>1. owner'[i] = c
        BY <1>0, <2>1 DEF Inv, TypeOK, ReserveFresh
      <3> QED BY <1>0, <2>1, <3>1 DEF Inv, TypeOK, ReserveFresh, Arrive, Goto, Identity
    <2>2. CASE i # <<cr, k>>
      <3>1. owner'[i] = owner[i]
        BY <1>0, <2>2 DEF Inv, TypeOK, ReserveFresh
      <3>2. owner[i] \in Sends /\ at[owner[i]] # "idle" /\ Identity(owner[i]) = i /\ outcome[owner[i]] # "free"
        BY <3>1 DEF Inv, TypeOK, ClaimsOK, OwnersOK
      <3>3. owner[i] # c
        BY <3>2 DEF ReserveFresh, Arrive
      <3>4. owner[i] \in Calls
        BY <3>2 DEF Calls
      <3> QED BY <1>0, <3>1, <3>2, <3>3, <3>4 DEF Inv, TypeOK, ReserveFresh, Arrive, Goto, Identity
    <2> QED BY <2>1, <2>2
  <1>5. KeysOK'
    <2>1. ASSUME NEW t \in Sends, t # c
          PROVE  /\ at'[t] = at[t] /\ key'[t] = key[t] /\ cred'[t] = cred[t]
                 /\ outcome'[t] = outcome[t] /\ pump'[t] = pump[t] /\ Identity(t)' = Identity(t)
      BY <1>0, <2>1 DEF Calls, Inv, TypeOK, ReserveFresh, Arrive, Goto, Identity
    <2>2. ASSUME NEW t \in Sends, t # c, owner[Identity(t)] = t, Keyed(t), at[t] # "idle"
          PROVE  owner'[Identity(t)] = t
      <3>1. Identity(t) # <<cr, k>>
        BY <2>2 DEF ReserveFresh
      <3>2. cred[t] \in Creds /\ key[t] \in Keys
        BY <2>2 DEF Calls, Inv, TypeOK, HandlersOK, Keyed
      <3> QED BY <1>0, <2>2, <3>1, <3>2 DEF Ids, Identity, Inv, TypeOK, ReserveFresh
    <2>3. /\ at'[c] = "context" /\ key'[c] = k /\ Identity(c)' = <<cr, k>> /\ owner'[<<cr, k>>] = c
          /\ outcome'[c] = "unknown" /\ pump'[c] = "none"
      BY <1>0 DEF Calls, Inv, TypeOK, TurnsOK, ReserveFresh, Arrive, Goto, Identity
    <2>4. \A t \in Sends : pump[t] # "none" \/ at[t] = "context" => at[t] # "idle"
      BY DEF Inv, TurnsOK
    <2>5. ASSUME NEW t \in Sends, t # c
          PROVE  /\ at'[t] = "idle" => ~Keyed(t)'
                 /\ ~Keyed(t)' => outcome'[t] = "free"
                 /\ Keyed(t)' /\ at'[t] = "context" => outcome'[t] = "unknown"
                 /\ outcome'[t] = "refused" => pump'[t] = "none" /\ at'[t] # "context"
      BY <2>1, <2>5 DEF Inv, ClaimsOK, KeysOK, Keyed
    <2>6. ASSUME NEW t \in Sends, t # c, Keyed(t)', at'[t] = "context" \/ pump'[t] # "none"
          PROVE  owner'[Identity(t)'] = t
      <3>1. Keyed(t) /\ at[t] # "idle" /\ owner[Identity(t)] = t
        BY <2>1, <2>4, <2>6 DEF Inv, ClaimsOK, KeysOK, Keyed
      <3> QED BY <2>1, <2>2, <2>6, <3>1
    <2>7. ASSUME NEW t \in Sends
          PROVE (/\ at[t] = "idle" => ~Keyed(t)
                 /\ ~Keyed(t) => outcome[t] = "free"
                 /\ Keyed(t) /\ (at[t] = "context" \/ pump[t] # "none") => owner[Identity(t)] = t
                 /\ Keyed(t) /\ at[t] = "context" => outcome[t] = "unknown"
                 /\ outcome[t] = "refused" => pump[t] = "none" /\ at[t] # "context")'
      <3>1. CASE t = c
        BY <1>0, <2>3, <3>1 DEF Keyed
      <3>2. CASE t # c
        BY <2>5, <2>6, <3>2 DEF Keyed
      <3> QED BY <3>1, <3>2
    <2> QED BY <2>7 DEF KeysOK
  <1> QED BY <1>1, <1>2, <1>3, <1>4, <1>5 DEF Inv, ClaimsOK

\* A call that takes no claim and has no turn leaves the others alone.
LEMMA ReserveRefusedInv ==
  ASSUME Inv, NEW c \in Sends, NEW p \in Procs, NEW cr \in Creds, NEW k \in Keys, NEW pl \in Payloads,
         ReserveRefused(c, p, cr, k, pl)
  PROVE  Inv'
  <1>0. c \in Calls
    BY DEF Calls
  <1>1. TypeOK'
    BY <1>0 DEF Calls, Inv, TypeOK, ReserveRefused, Arrive, Reply, claims, Answer
  <1>2. HandlersOK'
    BY <1>0 DEF Calls, Inv, TypeOK, HandlersOK, ReserveRefused, Arrive, Reply, claims, Waiting
  <1>3. TurnsOK'
    BY <1>0 DEF Calls, Inv, TypeOK, TurnsOK, ReserveRefused, Arrive, Reply, claims, Keyed
  <1>4. OwnersOK'
    BY <1>0 DEF Calls, Inv, TypeOK, TurnsOK, ClaimsOK, OwnersOK, KeysOK, ReserveRefused, Arrive, Reply, claims, Keyed, Identity
  <1>5. KeysOK'
    BY <1>0 DEF Calls, Inv, TypeOK, TurnsOK, ClaimsOK, OwnersOK, KeysOK, ReserveRefused, Arrive, Reply, claims, Keyed, Identity
  <1> QED BY <1>1, <1>2, <1>3, <1>4, <1>5 DEF Inv, ClaimsOK

LEMMA ReserveReplayInv ==
  ASSUME Inv, NEW c \in Sends, NEW p \in Procs, NEW cr \in Creds, NEW k \in Keys, NEW pl \in Payloads,
         ReserveReplay(c, p, cr, k, pl)
  PROVE  Inv'
  <1> DEFINE t == owner[<<cr, k>>]
  <1>0. c \in Calls /\ <<cr, k>> \in Ids
    BY DEF Calls, Ids
  <1>1. t \in Sends /\ at[t] # "idle" /\ t # c /\ cred[t] = cr /\ outcome[t] # "free"
    BY <1>0 DEF Calls, Inv, TypeOK, ClaimsOK, OwnersOK, KeysOK, ReserveReplay, Arrive, Identity
  <1>2. kept' \subseteq kept
    BY EvictOnlyRemoves DEF Calls, Inv, TypeOK, ReserveReplay
  <1>3. TypeOK'
    BY <1>0, <1>1, <1>2, SMTT(30) DEF Calls, Inv, TypeOK, ReserveReplay, Arrive, Goto, Reply, claims, Waiting,
       Answer, Outcome, Final, Reported, HasSession
  <1>4. HandlersOK'
    BY <1>0, <1>1 DEF Calls, Inv, TypeOK, HandlersOK, ReserveReplay, Arrive, Goto, Reply, claims,
       Waiting, Outcome, Final, Reported, HasSession
  <1>5. TurnsOK'
    BY <1>0, <1>2 DEF Calls, Inv, TypeOK, TurnsOK, ReserveReplay, Arrive, Goto, Reply, claims, Keyed
  <1>6. OwnersOK'
    BY <1>0 DEF Calls, Inv, TypeOK, TurnsOK, ClaimsOK, OwnersOK, KeysOK, ReserveReplay, Arrive, Goto, Reply, claims, Keyed, Identity
  <1>7. KeysOK'
    BY <1>0 DEF Calls, Inv, TypeOK, TurnsOK, ClaimsOK, OwnersOK, KeysOK, ReserveReplay, Arrive, Goto, Reply, claims, Keyed, Identity
  <1> QED BY <1>3, <1>4, <1>5, <1>6, <1>7 DEF Inv, ClaimsOK

LEMMA ReplayCheckedInv ==
  ASSUME Inv, NEW c \in Sends, ReplayChecked(c)
  PROVE  Inv'
  <1>0. c \in Calls /\ at[c] \in Waiting /\ subject[c] \in Sends
    BY DEF Calls, Waiting, Inv, HandlersOK, ReplayChecked
  <1>1. kept' \subseteq kept
    BY EvictOnlyRemoves DEF ReplayChecked
  <1>2. held[c] \in Answer
    BY <1>0 DEF Inv, HandlersOK, ReplayChecked, Answer, Final
  <1>3. \/ \E s \in Answer : Reply(c, s)
        \/ /\ Goto(c, "waiting")
           /\ proc[subject[c]] = proc[c] /\ mem[subject[c]] # "absent"
    BY <1>0, <1>1, <1>2 DEF Inv, TurnsOK, ReplayChecked, Found, Answer
  <1> QED BY <1>0, <1>1, <1>3, CallStepInv DEF ReplayChecked

-----------------------------------------------------------------------------
LEMMA StartInv ==
  ASSUME Inv, NEW c \in Sends, Start(c)
  PROVE  Inv'
  <1>0. c \in Calls
    BY DEF Calls
  <1>1. TypeOK'
    BY <1>0 DEF Calls, Inv, TypeOK, Start, Saved, Goto, Waiting, Outcome
  <1>2. HandlersOK'
    BY <1>0 DEF Calls, Inv, TypeOK, HandlersOK, Start, Goto, Waiting
  <1>3. TurnsOK'
    BY <1>0 DEF Calls, Inv, TypeOK, TurnsOK, Start, Saved, Goto, Keyed
  <1>4. OwnersOK'
    BY <1>0 DEF Calls, Inv, TypeOK, ClaimsOK, OwnersOK, KeysOK, Start, Saved, Goto, Keyed, Identity
  <1>5. KeysOK'
    BY <1>0 DEF Calls, Inv, TypeOK, ClaimsOK, OwnersOK, KeysOK, Start, Saved, Goto, Keyed, Identity
  <1> QED BY <1>1, <1>2, <1>3, <1>4, <1>5 DEF Inv, ClaimsOK

LEMMA StartFailsInv ==
  ASSUME Inv, NEW c \in Sends, StartFails(c)
  PROVE  Inv'
  <1>1. c \in Calls /\ at[c] \in Waiting
    BY DEF Calls, Waiting, StartFails
  <1>2. kept' \subseteq kept
    BY EvictOnlyRemoves DEF StartFails
  <1> QED BY <1>1, <1>2, CallStepInv DEF StartFails, SaveFails, claims, Answer

LEMMA ContextRefusedInv ==
  ASSUME Inv, NEW c \in Sends, ContextRefused(c)
  PROVE  Inv'
  <1>0. c \in Calls
    BY DEF Calls
  <1>1. TypeOK'
    BY <1>0 DEF Calls, Inv, TypeOK, ContextRefused, Saved, SaveFails, Reply, turns, Outcome, Answer, Final
  <1>2. HandlersOK'
    BY <1>0 DEF Calls, Inv, TypeOK, HandlersOK, ContextRefused, Reply, turns, Waiting
  <1>3. TurnsOK'
    BY <1>0 DEF Calls, Inv, TypeOK, TurnsOK, ContextRefused, Saved, SaveFails, Reply, turns, Keyed
  <1>4. OwnersOK'
    BY <1>0 DEF Calls, Inv, TypeOK, TurnsOK, ClaimsOK, OwnersOK, KeysOK, ContextRefused, Saved, SaveFails, Reply, turns, Keyed, Identity
  <1>5. KeysOK'
    BY <1>0 DEF Calls, Inv, TypeOK, TurnsOK, ClaimsOK, OwnersOK, KeysOK, ContextRefused, Saved, SaveFails, Reply, turns, Keyed, Identity
  <1> QED BY <1>1, <1>2, <1>3, <1>4, <1>5 DEF Inv, ClaimsOK

-----------------------------------------------------------------------------
\* What Follow leaves of the caller: it has arrived, about a turn t.
LEMMA FollowInv ==
  ASSUME Inv, NEW c \in Waits \cup Cancels, NEW p \in Procs, NEW cr \in Creds, NEW t \in Sends,
         Follow(c, p, cr, t),
         \/ \E s \in Answer : Reply(c, s)
         \/ /\ Goto(c, "checking") /\ at[t] # "idle" /\ cred[t] = cr
            /\ proc[t] = p /\ mem[t] # "absent"
         \/ /\ Goto(c, "reading") /\ at[t] # "idle" /\ cred[t] = cr
            /\ held'[c] \in {"unknown", "done", "error", "cancelled"},
         held' \in [Calls -> Outcome], \A d \in Calls \ {c} : held'[d] = held[d]
  PROVE  Inv'
  <1>0. c \in Calls /\ c \notin Sends /\ t \in Calls /\ kept' \subseteq kept
    BY EvictOnlyRemoves DEF Calls, Follow
  <1>1. TypeOK'
    <2>1. /\ at' \in [Calls -> {"idle", "returned", "lost"} \cup Waiting]
          /\ answer' \in [Calls -> Answer]
      BY <1>0 DEF Inv, TypeOK, Goto, Reply, Waiting
    <2>2. /\ proc' \in [Calls -> Procs \cup {None}]
          /\ cred' \in [Calls -> Creds \cup {None}]
          /\ subject' \in [Calls -> Sends \cup {NoTurn}]
      BY <1>0 DEF Inv, TypeOK, Follow
    <2>3. kept' \subseteq Sends /\ held' \in [Calls -> Outcome]
      BY <1>0 DEF Inv, TypeOK
    <2> QED
      BY <2>1, <2>2, <2>3 DEF Inv, TypeOK, Follow, claims
  <1>2. HandlersOK'
    BY <1>0 DEF Calls, Inv, TypeOK, HandlersOK, Follow, Goto, Reply, claims, Waiting
  <1>3. TurnsOK'
    BY <1>0 DEF Calls, Inv, TypeOK, TurnsOK, Follow, Goto, Reply, claims, Keyed
  <1>4. OwnersOK'
    BY <1>0 DEF Calls, Inv, TypeOK, ClaimsOK, OwnersOK, Follow, Goto, Reply, claims, Identity
  <1>5. KeysOK'
    BY <1>0 DEF Calls, Inv, TypeOK, ClaimsOK, KeysOK, Follow, Goto, Reply, claims, Keyed, Identity
  <1> QED BY <1>1, <1>2, <1>3, <1>4, <1>5 DEF Inv, ClaimsOK

LEMMA FollowRegisteredInv ==
  ASSUME Inv, NEW c \in Waits \cup Cancels, NEW p \in Procs, NEW cr \in Creds, NEW t \in Sends,
         FollowRegistered(c, p, cr, t)
  PROVE  Inv'
  <1>1. t \in kept /\ proc[t] = p
    BY EvictOnlyRemoves DEF FollowRegistered, Follow, Found, Inv, TypeOK, Calls
  <1>2. mem[t] # "absent" /\ at[t] # "idle"
    BY <1>1 DEF Inv, TurnsOK
  <1> QED BY <1>1, <1>2, FollowInv DEF FollowRegistered, Answer, Inv, TypeOK

LEMMA FollowSavedInv ==
  ASSUME Inv, NEW c \in Waits \cup Cancels, NEW p \in Procs, NEW cr \in Creds, NEW t \in Sends,
         FollowSaved(c, p, cr, t)
  PROVE  Inv'
  <1>1. at[t] # "idle" /\ cred[t] = cr /\ outcome[t] \in Outcome \ {"free"}
    BY DEF FollowSaved, RowFor, Inv, TypeOK, ClaimsOK, KeysOK
  <1>2. c \in Calls /\ held' = [held EXCEPT ![c] = Reported(outcome[t])]
    BY DEF Calls, FollowSaved
  <1>3. Reported(outcome[t]) \in Outcome
    BY <1>1 DEF Reported, Outcome
  <1>4. \/ \E s \in Answer : Reply(c, s)
        \/ Goto(c, "reading") /\ Reported(outcome[t]) \in {"unknown", "done", "error", "cancelled"}
    BY <1>1 DEF FollowSaved, HasSession, Reported, Outcome, Answer, Final
  <1> QED BY <1>1, <1>2, <1>3, <1>4, FollowInv DEF FollowSaved, Inv, TypeOK

LEMMA FollowMissingInv ==
  ASSUME Inv, NEW c \in Waits \cup Cancels, NEW p \in Procs, NEW cr \in Creds, NEW t \in Sends,
         FollowMissing(c, p, cr, t)
  PROVE  Inv'
  BY FollowInv DEF FollowMissing, Answer, Inv, TypeOK

\* The steps of a handler that change nothing but where it is.
LEMMA HandlerInv ==
  ASSUME Inv, NEW c \in Calls,
         \/ WaitReturns(c) \/ CheckRefused(c) \/ Abandon(c) \/ SavedChecked(c)
         \/ WaitChecked(c) \/ CancelNothing(c)
  PROVE  Inv'
  <1>1. at[c] \in Waiting
    BY DEF WaitReturns, CheckRefused, Abandon, SavedChecked, WaitChecked, CancelNothing, Waiting
  <1>2. subject[c] \in Sends
    BY <1>1 DEF Inv, HandlersOK
  <1>3. CASE WaitReturns(c)
    <2>1. mem[subject[c]] \in Answer
      BY <1>2, <1>3 DEF Inv, TypeOK, HandlersOK, WaitReturns, Answer, Final
    <2> QED BY <1>1, <1>3, <2>1, CallStepInv DEF WaitReturns, turns
  <1>4. CASE CheckRefused(c) \/ Abandon(c)
    BY <1>1, <1>4, CallStepInv DEF CheckRefused, Abandon, Answer, turns
  <1>5. CASE SavedChecked(c)
    <2>1. held[c] \in Answer
      BY <1>5 DEF Inv, HandlersOK, SavedChecked, Answer, Final
    <2> QED BY <1>1, <1>5, <2>1, CallStepInv DEF SavedChecked, turns
  <1>6. CASE WaitChecked(c)
    <2>1. proc[subject[c]] = proc[c] /\ mem[subject[c]] # "absent"
      BY <1>6 DEF Inv, HandlersOK, WaitChecked
    <2> QED BY <1>1, <1>6, <2>1, CallStepInv DEF WaitChecked, turns
  <1>7. CASE CancelNothing(c)
    <2>1. \E s \in Answer : Reply(c, s)
      BY <1>2, <1>7 DEF Inv, TypeOK, HandlersOK, CancelNothing, Answer, Final
    <2> QED BY <1>1, <1>7, <2>1, CallStepInv DEF CancelNothing, turns
  <1> QED BY <1>3, <1>4, <1>5, <1>6, <1>7

LEMMA CancelRunningInv ==
  ASSUME Inv, NEW c \in Cancels, CancelRunning(c)
  PROVE  Inv'
  <1> DEFINE t == subject[c]
  <1>0. c \in Calls /\ c \notin Sends /\ t \in Sends /\ at[t] \notin {"idle", "context"}
             /\ outcome[t] # "refused" /\ pump[t] # "none"
    BY DEF Calls, Waiting, Inv, TypeOK, HandlersOK, TurnsOK, ClaimsOK, KeysOK, CancelRunning
  <1>1. TypeOK'
    BY <1>0 DEF Inv, TypeOK, CancelRunning, Saved, SaveFails, Reply, Outcome, Final, Answer
  <1>2. HandlersOK'
    BY <1>0 DEF Calls, Inv, TypeOK, HandlersOK, CancelRunning, Reply, Waiting
  <1>3. TurnsOK'
    BY <1>0 DEF Calls, Inv, TypeOK, TurnsOK, CancelRunning, Saved, SaveFails, Reply, Keyed
  <1>4. OwnersOK'
    BY <1>0 DEF Calls, Inv, TypeOK, ClaimsOK, OwnersOK, CancelRunning, Saved, SaveFails, Reply, Identity
  <1>5. KeysOK'
    BY <1>0 DEF Calls, Inv, TypeOK, ClaimsOK, KeysOK, CancelRunning, Saved, SaveFails, Reply, Keyed, Identity
  <1> QED BY <1>1, <1>2, <1>3, <1>4, <1>5 DEF Inv, ClaimsOK

-----------------------------------------------------------------------------
LEMMA PumpBeginInv ==
  ASSUME Inv, NEW t \in Sends, PumpBegin(t)
  PROVE  Inv'
  <1>1. TypeOK'
    BY DEF Inv, TypeOK, PumpBegin, claims, calls
  <1>2. HandlersOK'
    BY DEF Inv, HandlersOK, PumpBegin, claims, calls
  <1>3. TurnsOK'
    BY DEF Inv, TypeOK, TurnsOK, PumpBegin, claims, calls, Keyed
  <1>4. OwnersOK'
    BY DEF Inv, ClaimsOK, OwnersOK, PumpBegin, claims, calls, Identity
  <1>5. KeysOK'
    BY DEF Inv, TypeOK, ClaimsOK, KeysOK, PumpBegin, claims, calls, Keyed, Identity
  <1> QED BY <1>1, <1>2, <1>3, <1>4, <1>5 DEF Inv, ClaimsOK

\* The three ends of a pump.
LEMMA PumpEndsInv ==
  ASSUME Inv, NEW t \in Sends, PumpDone(t) \/ PumpError(t) \/ PumpCancelled(t)
  PROVE  Inv'
  <1>0. /\ \E s \in {"done", "error", "cancelled"} : PumpEnds(t, s) /\ (Saved(t, s) \/ SaveFails(t))
        /\ pump[t] \in {"created", "streaming", "interrupted"}
    BY DEF PumpDone, PumpError, PumpCancelled
  <1>1. TypeOK'
    BY <1>0 DEF Inv, TypeOK, PumpEnds, Saved, SaveFails, calls, Outcome, Final
  <1>2. HandlersOK'
    BY <1>0 DEF Inv, TypeOK, HandlersOK, PumpEnds, calls
  <1>3. TurnsOK'
    BY <1>0 DEF Inv, TypeOK, TurnsOK, PumpEnds, Saved, SaveFails, calls, Keyed
  <1>4. OwnersOK'
    BY <1>0 DEF Inv, TypeOK, ClaimsOK, OwnersOK, PumpEnds, Saved, SaveFails, calls, Identity
  <1>5. KeysOK'
    BY <1>0 DEF Inv, TypeOK, TurnsOK, ClaimsOK, KeysOK, PumpEnds, Saved, SaveFails, calls, Keyed, Identity
  <1> QED BY <1>1, <1>2, <1>3, <1>4, <1>5 DEF Inv, ClaimsOK

LEMMA HermesInv ==
  ASSUME Inv, NEW t \in Sends, HermesReceive(t) \/ HermesFinish(t) \/ HermesStop(t)
  PROVE  Inv'
  <1>0. /\ hermes[t] # "idle" /\ UNCHANGED <<procState, claims, calls, turns>>
        /\ \E h \in {"running", "lost", "finished", "stopped"} : hermes' = [hermes EXCEPT ![t] = h]
    BY DEF HermesReceive, HermesFinish, HermesStop
  <1>1. TypeOK'
    BY <1>0 DEF Inv, TypeOK, claims, calls, turns
  <1>2. HandlersOK' /\ ClaimsOK'
    BY <1>0 DEF Inv, HandlersOK, ClaimsOK, OwnersOK, KeysOK, claims, calls, turns, Keyed, Identity
  <1>3. TurnsOK'
    BY <1>0 DEF Inv, TypeOK, TurnsOK, claims, calls, turns, Keyed
  <1> QED BY <1>1, <1>2, <1>3 DEF Inv

LEMMA CrashInv ==
  ASSUME Inv, NEW p \in Procs, Crash(p)
  PROVE  Inv'
  <1>1. TypeOK'
    BY DEF Inv, TypeOK, Crash, HandlersLost, claims, Waiting
  <1>2. HandlersOK'
    BY DEF Calls, Inv, TypeOK, HandlersOK, Crash, HandlersLost, claims, Waiting
  <1>3. TurnsOK'
    BY DEF Calls, Inv, TypeOK, TurnsOK, Crash, HandlersLost, claims, Waiting, Keyed
  <1>4. OwnersOK'
    BY DEF Calls, Inv, TypeOK, ClaimsOK, OwnersOK, Crash, HandlersLost, claims, Identity
  <1>5. KeysOK'
    BY DEF Calls, Inv, TypeOK, ClaimsOK, KeysOK, Crash, HandlersLost, claims, Waiting, Keyed, Identity
  <1> QED BY <1>1, <1>2, <1>3, <1>4, <1>5 DEF Inv, ClaimsOK

LEMMA ShutdownInv ==
  ASSUME Inv, NEW p \in Procs, Shutdown(p)
  PROVE  Inv'
  <1>0. \A t \in Sends : pump'[t] =
          IF proc[t] = p /\ pump[t] = "created" THEN "ended"
          ELSE IF proc[t] = p /\ pump[t] = "streaming" THEN "interrupted" ELSE pump[t]
    BY DEF Shutdown
  <1>1. TypeOK'
    BY DEF Inv, TypeOK, Shutdown, HandlersLost, claims, Waiting
  <1>2. HandlersOK'
    BY DEF Calls, Inv, TypeOK, HandlersOK, Shutdown, HandlersLost, claims, Waiting
  <1>3. TurnsOK'
    BY <1>0 DEF Calls, Inv, TypeOK, TurnsOK, Shutdown, HandlersLost, claims, Waiting, Keyed
  <1>4. OwnersOK'
    BY DEF Calls, Inv, TypeOK, ClaimsOK, OwnersOK, Shutdown, HandlersLost, claims, Identity
  <1>5. KeysOK'
    BY <1>0 DEF Calls, Inv, TypeOK, ClaimsOK, KeysOK, Shutdown, HandlersLost, claims, Waiting, Keyed, Identity
  <1> QED BY <1>1, <1>2, <1>3, <1>4, <1>5 DEF Inv, ClaimsOK

LEMMA IdleInv ==
  ASSUME Inv, UNCHANGED <<claims, calls, turns, hermes>>, procState' \in [Procs -> {"up", "stopping", "down"}]
  PROVE  Inv'
  BY DEF Inv, TypeOK, HandlersOK, TurnsOK, ClaimsOK, OwnersOK, KeysOK, claims, calls, turns, Keyed, Identity

LEMMA NextInv == Inv /\ [Next]_vars => Inv'
  <1> SUFFICES ASSUME Inv, [Next]_vars PROVE Inv'
    OBVIOUS
  <1>1. ASSUME NEW c \in Sends, SendStep(c) PROVE Inv'
    BY <1>1, SendUnkeyedInv, ReserveFreshInv, ReserveRefusedInv, ReserveReplayInv,
       ReplayCheckedInv, StartInv, StartFailsInv, ContextRefusedInv DEF SendStep
  <1>2. ASSUME NEW c \in Waits \cup Cancels, FollowStep(c) PROVE Inv'
    <2>1. c \in Calls
      BY DEF Calls
    <2>2. CancelRunning(c) => c \in Cancels
      BY DEF CancelRunning
    <2> QED
      BY <1>2, <2>1, <2>2, FollowRegisteredInv, FollowSavedInv, FollowMissingInv, HandlerInv,
         CancelRunningInv DEF FollowStep
  <1>3. ASSUME NEW c \in Calls, WaitReturns(c) \/ CheckRefused(c) \/ Abandon(c) PROVE Inv'
    BY <1>3, HandlerInv
  <1>4. ASSUME NEW t \in Sends, TurnStep(t) PROVE Inv'
    BY <1>4, PumpBeginInv, PumpEndsInv, HermesInv DEF TurnStep
  <1>5. ASSUME NEW p \in Procs, Crash(p) \/ Shutdown(p) PROVE Inv'
    BY <1>5, CrashInv, ShutdownInv
  <1>6. ASSUME NEW p \in Procs, Restart(p) PROVE Inv'
    BY <1>6, IdleInv DEF Restart, Inv, TypeOK
  <1>7. CASE UNCHANGED vars
    BY <1>7, IdleInv DEF vars, Inv, TypeOK
  <1> QED
    BY <1>1, <1>2, <1>3, <1>4, <1>5, <1>6, <1>7 DEF Next

LEMMA ServiceInvariant == Spec => []Inv
  BY InitInv, NextInv, PTL DEF Spec

\* Every state of the service is well typed, whatever the parameters.
THEOREM TypeCorrect == Spec => []TypeOK
  BY ServiceInvariant, PTL DEF Inv

\* Of all calls of one credential with one key, at most one ever sends its
\* message to the agent: for any number of processes, retries, crashes,
\* restarts and failing saves (server.py:253-256, idempotency.py:6-7).
THEOREM KeysRunOnce == Spec => []AtMostOnce
  <1>1. ASSUME Inv, NEW s \in Sends, NEW t \in Sends, Sent(s), Sent(t), Keyed(s),
               key[s] = key[t], cred[s] = cred[t]
        PROVE  s = t
    <2>1. pump[s] # "none" /\ pump[t] # "none" /\ Keyed(t)
      BY <1>1 DEF Inv, TurnsOK, Sent, Keyed
    <2>2. owner[Identity(s)] = s /\ owner[Identity(t)] = t
      BY <1>1, <2>1 DEF Inv, ClaimsOK, KeysOK
    <2> QED BY <1>1, <2>2 DEF Identity
  <1>2. Inv => AtMostOnce
    BY <1>1 DEF AtMostOnce
  <1> QED BY <1>2, ServiceInvariant, PTL

-----------------------------------------------------------------------------
\* A stored end is the turn's end in memory, as long as there is a memory of
\* it, and what a handler holds of a stored end is what is stored.
EndsOK ==
    /\ \A t \in Sends : outcome[t] \in Final =>
         /\ mem[t] # "absent" => mem[t] = outcome[t]
         /\ outcome[t] # "refused" => pump[t] \in {"interrupted", "ended"}
    /\ \A c \in Calls : at[c] \in {"replaying", "reading"} /\ held[c] \in Final =>
         outcome[subject[c]] = held[c]

\* What was told of a turn was told to its credential; a told end is the end
\* in memory and in the store wherever they have one; no refused turn began.
AnswersOK ==
    \A c \in Calls :
        /\ at[c] # "returned" => answer[c] = "none"
        /\ answer[c] \in Final \cup {"running", "unknown"} =>
             /\ subject[c] \in Sends
             /\ at[subject[c]] # "idle"
             /\ cred[subject[c]] = cred[c]
        /\ answer[c] \in Final =>
             /\ at[subject[c]] # "context"
             /\ answer[c] = "refused" <=> pump[subject[c]] = "none"
             /\ mem[subject[c]] # "absent" => answer[c] = mem[subject[c]]
             /\ outcome[subject[c]] \in Final => answer[c] = outcome[subject[c]]

Told == EndsOK /\ AnswersOK /\ AnswersAgree

LEMMA InitTold == Init => Told
  BY DEF Init, Told, EndsOK, AnswersOK, AnswersAgree, Final

\* Steps of a turn: its end in memory and in the store change together.
LEMMA TurnStepTold ==
  ASSUME Inv, Told, NEW t \in Sends, TurnStep(t)
  PROVE  Told'
  <1>1. CASE PumpBegin(t)
    BY <1>1 DEF Inv, TypeOK, TurnsOK, Told, EndsOK, AnswersOK, AnswersAgree, PumpBegin, claims, calls
  <1>2. CASE PumpDone(t) \/ PumpError(t) \/ PumpCancelled(t)
    <2>0. /\ \E s \in {"done", "error", "cancelled"} :
               /\ PumpEnds(t, s) /\ (Saved(t, s) \/ SaveFails(t))
               /\ pump[t] = "interrupted" => s = "cancelled"
          /\ pump[t] \in {"created", "streaming", "interrupted"}
      BY <1>2 DEF PumpDone, PumpError, PumpCancelled
    <2>1. EndsOK'
      BY <2>0 DEF Inv, TypeOK, HandlersOK, TurnsOK, Told, EndsOK, PumpEnds, Saved, SaveFails, calls, Final, Keyed
    <2>2. AnswersOK' /\ AnswersAgree'
      BY <2>0 DEF Inv, TypeOK, TurnsOK, Told, EndsOK, AnswersOK, AnswersAgree, PumpEnds, Saved, SaveFails, calls, Final, Keyed
    <2> QED BY <2>1, <2>2 DEF Told
  <1>3. CASE HermesReceive(t) \/ HermesFinish(t) \/ HermesStop(t)
    BY <1>3 DEF Told, EndsOK, AnswersOK, AnswersAgree, HermesReceive, HermesFinish, HermesStop, claims, calls, turns
  <1> QED BY <1>1, <1>2, <1>3 DEF TurnStep

LEMMA ProcessTold ==
  ASSUME Inv, Told, NEW p \in Procs, Crash(p) \/ Shutdown(p) \/ Restart(p)
  PROVE  Told'
  <1>1. CASE Crash(p)
    BY <1>1 DEF Calls, Inv, TypeOK, TurnsOK, Told, EndsOK, AnswersOK, AnswersAgree, Crash, HandlersLost, claims, Waiting, Final
  <1>2. CASE Shutdown(p)
    <2>0. \A t \in Sends : pump'[t] =
            IF proc[t] = p /\ pump[t] = "created" THEN "ended"
            ELSE IF proc[t] = p /\ pump[t] = "streaming" THEN "interrupted" ELSE pump[t]
      BY <1>2 DEF Shutdown
    <2> QED
      BY <1>2, <2>0 DEF Calls, Inv, TypeOK, TurnsOK, Told, EndsOK, AnswersOK, AnswersAgree, Shutdown, HandlersLost, claims, Waiting, Final
  <1>3. CASE Restart(p)
    BY <1>3 DEF Told, EndsOK, AnswersOK, AnswersAgree, Restart, claims, calls, turns
  <1> QED BY <1>1, <1>2, <1>3

\* What a handler may come to hold of turn t.
MayHold(c, t) ==
    at'[c] \in {"replaying", "reading"} /\ held'[c] \in Final => outcome[t] = held'[c]

\* What a handler may tell of turn t: it is its credential's, and the end, if
\* it is one, is in memory or stored, or the turn was refused before it began.
MayTell(c, t) ==
    /\ answer'[c] \in Final \cup {"running", "unknown"} =>
         t \in Sends /\ at[t] # "idle" /\ cred[t] = cred'[c]
    /\ answer'[c] \in Final =>
         \/ answer'[c] = mem[t]
         \/ answer'[c] = outcome[t]

\* A call takes a step that leaves the turns as they are.
LEMMA CallStepTold ==
  ASSUME Inv, Told, NEW c \in Calls, at[c] \notin {"returned", "lost"},
         UNCHANGED <<outcome, mem, pump>>,
         \A d \in Calls \ {c} : /\ at'[d] = at[d] /\ cred'[d] = cred[d] /\ subject'[d] = subject[d]
                                /\ held'[d] = held[d] /\ answer'[d] = answer[d],
         at'[c] # "idle", at'[c] = "context" => at[c] = "idle",
         at'[c] # "returned" => answer'[c] = "none",
         at[c] # "idle" => cred'[c] = cred[c],
         MayHold(c, subject'[c]), MayTell(c, subject'[c])
  PROVE  Told'
  <1>1. EndsOK'
    BY DEF Told, EndsOK, MayHold
  <1>2. ASSUME NEW t \in Sends, at[t] # "idle"
        PROVE  at'[t] # "idle" /\ cred'[t] = cred[t] /\ (at'[t] = "context" => at[t] = "context")
    BY <1>2 DEF Calls
  <1>3. AnswersOK'
    <2> SUFFICES ASSUME NEW d \in Calls
                 PROVE (/\ at[d] # "returned" => answer[d] = "none"
                        /\ answer[d] \in Final \cup {"running", "unknown"} =>
                             /\ subject[d] \in Sends
                             /\ at[subject[d]] # "idle"
                             /\ cred[subject[d]] = cred[d]
                        /\ answer[d] \in Final =>
                             /\ at[subject[d]] # "context"
                             /\ answer[d] = "refused" <=> pump[subject[d]] = "none"
                             /\ mem[subject[d]] # "absent" => answer[d] = mem[subject[d]]
                             /\ outcome[subject[d]] \in Final => answer[d] = outcome[subject[d]])'
      BY DEF AnswersOK
    <2>1. CASE d # c
      BY <1>2, <2>1 DEF Told, AnswersOK
    <2>2. CASE d = c
      <3>1. answer'[c] \in Final => subject'[c] \in Sends
        BY DEF MayTell
      <3>2. ASSUME answer'[c] \in Final
            PROVE  /\ at[subject'[c]] # "context"
                   /\ answer'[c] = "refused" <=> pump[subject'[c]] = "none"
                   /\ mem[subject'[c]] # "absent" => answer'[c] = mem[subject'[c]]
                   /\ outcome[subject'[c]] \in Final => answer'[c] = outcome[subject'[c]]
        BY <3>1, <3>2 DEF MayTell, Inv, TypeOK, TurnsOK, ClaimsOK, KeysOK, Told, EndsOK, Final
      <3> QED BY <1>2, <2>2, <3>1, <3>2 DEF MayTell
    <2> QED BY <2>1, <2>2
  <1>4. AnswersAgree'
    BY DEF MayTell, Told, EndsOK, AnswersOK, AnswersAgree, Final
  <1> QED BY <1>1, <1>3, <1>4 DEF Told

LEMMA ArriveTold ==
  ASSUME Inv, Told, NEW c \in Sends, NEW p \in Procs, NEW cr \in Creds, NEW pl \in Payloads,
         \/ SendUnkeyed(c, p, cr, pl)
         \/ \E k \in Keys : ReserveRefused(c, p, cr, k, pl) \/ ReserveReplay(c, p, cr, k, pl)
  PROVE  Told'
  <1>0. c \in Calls /\ at[c] = "idle"
    BY DEF Calls, SendUnkeyed, ReserveRefused, ReserveReplay, Arrive
  <1>1. CASE SendUnkeyed(c, p, cr, pl)
    <2>1. answer'[c] = "none"
      BY <1>0, <1>1 DEF Inv, HandlersOK, SendUnkeyed, Goto
    <2>2. MayHold(c, subject'[c]) /\ MayTell(c, subject'[c])
      BY <1>0, <1>1, <2>1 DEF Inv, TypeOK, SendUnkeyed, Goto, MayHold, MayTell, Final
    <2>3. \A d \in Calls \ {c} :
            /\ at'[d] = at[d] /\ cred'[d] = cred[d] /\ subject'[d] = subject[d]
            /\ held'[d] = held[d] /\ answer'[d] = answer[d]
      BY <1>0, <1>1 DEF Inv, TypeOK, SendUnkeyed, Arrive, Goto
    <2>4. at'[c] = "context" /\ UNCHANGED <<outcome, mem, pump>>
      BY <1>0, <1>1 DEF Inv, TypeOK, SendUnkeyed, Arrive, Goto, claims
    <2> QED
      BY <1>0, <2>1, <2>2, <2>3, <2>4, CallStepTold
  <1>2. ASSUME NEW k \in Keys, ReserveRefused(c, p, cr, k, pl) PROVE Told'
    <2>1. MayHold(c, subject'[c]) /\ MayTell(c, subject'[c])
      BY <1>0, <1>2 DEF Inv, TypeOK, ReserveRefused, Reply, MayHold, MayTell, Final
    <2> QED
      BY <1>0, <1>2, <2>1, CallStepTold DEF Inv, TypeOK, ReserveRefused, Arrive, Reply, claims
  <1>3. ASSUME NEW k \in Keys, ReserveReplay(c, p, cr, k, pl) PROVE Told'
    <2> DEFINE t == owner[<<cr, k>>]
    <2>1. t \in Sends /\ at[t] # "idle" /\ t # c /\ cred[t] = cr
      BY <1>0, <1>3 DEF Ids, Inv, TypeOK, ClaimsOK, OwnersOK, ReserveReplay, Arrive, Identity
    <2>2. subject'[c] = t /\ cred'[c] = cr /\ held'[c] = Reported(outcome[t])
      BY <1>0, <1>3 DEF Inv, TypeOK, ReserveReplay, Arrive
    <2>3. MayHold(c, t)
      BY <2>2 DEF MayHold, Reported, Final
    <2>4. \/ at'[c] = "replaying" /\ answer'[c] = "none"
          \/ at'[c] = "returned" /\ answer'[c] \in {"denied", outcome[t]}
      BY <1>0, <1>3 DEF Inv, TypeOK, HandlersOK, ReserveReplay, Goto, Reply
    <2>5. MayTell(c, t)
      BY <2>1, <2>2, <2>4 DEF MayTell, Final
    <2>6. \A d \in Calls \ {c} :
            /\ at'[d] = at[d] /\ cred'[d] = cred[d] /\ subject'[d] = subject[d]
            /\ held'[d] = held[d] /\ answer'[d] = answer[d]
      BY <1>0, <1>3 DEF Inv, TypeOK, ReserveReplay, Arrive, Goto, Reply
    <2> QED
      BY <1>0, <1>3, <2>2, <2>3, <2>4, <2>5, <2>6, CallStepTold DEF ReserveReplay, Arrive, claims
  <1> QED BY <1>1, <1>2, <1>3

\* A turn that is claimed has not been told of.
LEMMA ReserveFreshTold ==
  ASSUME Inv, Told, NEW c \in Sends, NEW p \in Procs, NEW cr \in Creds, NEW k \in Keys, NEW pl \in Payloads,
         ReserveFresh(c, p, cr, k, pl)
  PROVE  Told'
  <1>0. c \in Calls /\ at[c] = "idle" /\ answer[c] = "none"
    BY DEF Calls, ReserveFresh, Arrive, Inv, HandlersOK
  <1>1. EndsOK'
    <2>1. \A d \in Calls : at[d] \in {"replaying", "reading"} => subject[d] # c
      BY <1>0 DEF Inv, HandlersOK, Waiting
    <2> QED
      BY <1>0, <2>1 DEF Inv, TypeOK, HandlersOK, Told, EndsOK, ReserveFresh, Arrive, Goto, Final, Waiting
  <1>2. AnswersOK'
    BY <1>0 DEF Calls, Inv, TypeOK, Told, AnswersOK, ReserveFresh, Arrive, Goto, Final
  <1>3. AnswersAgree'
    BY <1>0 DEF Inv, TypeOK, Told, AnswersAgree, ReserveFresh, Arrive, Goto, Final
  <1> QED BY <1>1, <1>2, <1>3 DEF Told

LEMMA StartTold ==
  ASSUME Inv, Told, NEW c \in Sends, Start(c)
  PROVE  Told'
  <1>0. c \in Calls /\ outcome[c] \notin Final
    BY DEF Calls, Inv, ClaimsOK, KeysOK, Start, Final
  <1>1. EndsOK'
    BY <1>0 DEF Inv, TypeOK, Told, EndsOK, Start, Saved, Goto, Final
  <1>2. AnswersOK'
    BY <1>0 DEF Calls, Inv, TypeOK, Told, AnswersOK, Start, Saved, Goto, Final
  <1>3. AnswersAgree'
    BY DEF Told, AnswersAgree, Start, Goto
  <1> QED BY <1>1, <1>2, <1>3 DEF Told

LEMMA ContextRefusedTold ==
  ASSUME Inv, Told, NEW c \in Sends, ContextRefused(c)
  PROVE  Told'
  <1>0. c \in Calls /\ outcome[c] \notin Final /\ subject[c] = c /\ mem[c] = "absent" /\ pump[c] = "none"
    BY DEF Calls, Inv, HandlersOK, TurnsOK, ClaimsOK, KeysOK, ContextRefused, Final
  <1>1. EndsOK'
    <2>1. /\ \A t \in Sends : outcome'[t] = outcome[t] \/ (t = c /\ outcome'[t] = "refused")
          /\ mem' = mem /\ pump' = pump /\ subject' = subject /\ held' = held
      BY DEF Inv, TypeOK, ContextRefused, Saved, SaveFails, turns
    <2>2. \A d \in Calls : at'[d] \in {"replaying", "reading"} => at[d] = at'[d] /\ subject[d] \in Sends
      BY <1>0 DEF Inv, TypeOK, HandlersOK, Waiting, ContextRefused, Reply
    <2>3. \A d \in Calls : at'[d] \in {"replaying", "reading"} /\ held'[d] \in Final =>
            outcome'[subject'[d]] = held'[d]
      BY <1>0, <2>1, <2>2 DEF Told, EndsOK
    <2>4. \A t \in Sends : outcome'[t] \in Final =>
            /\ mem'[t] # "absent" => mem'[t] = outcome'[t]
            /\ outcome'[t] # "refused" => pump'[t] \in {"interrupted", "ended"}
      BY <1>0, <2>1 DEF Told, EndsOK
    <2> QED BY <2>3, <2>4 DEF EndsOK
  <1>2. AnswersOK'
    BY <1>0 DEF Calls, Inv, TypeOK, TurnsOK, Told, AnswersOK, ContextRefused, Saved, SaveFails, Reply, turns, Final
  <1>3. AnswersAgree'
    BY <1>0 DEF Inv, TypeOK, Told, AnswersOK, AnswersAgree, ContextRefused, Reply, Final
  <1> QED BY <1>1, <1>2, <1>3 DEF Told

\* A handler that has been waiting goes on, about the same turn.
LEMMA WaitingTold ==
  ASSUME Inv, Told, NEW c \in Calls, at[c] \in Waiting,
         UNCHANGED <<outcome, mem, pump, cred, subject, held>>,
         \/ \E s \in {"denied", "unavailable", "unknown_turn", mem[subject[c]]} : Reply(c, s)
         \/ at[c] \in {"replaying", "reading"} /\ Reply(c, held[c])
         \/ Goto(c, "lost")
         \/ Goto(c, "waiting")
  PROVE  Told'
  <1>1. /\ at[c] \notin {"idle", "returned", "lost"} /\ answer[c] = "none"
        /\ subject[c] \in Sends /\ at[subject[c]] # "idle" /\ cred[subject[c]] = cred[c]
    BY DEF Inv, HandlersOK, Waiting, Told, AnswersOK
  <1>2. \A d \in Calls \ {c} : at'[d] = at[d] /\ answer'[d] = answer[d]
    BY DEF Inv, TypeOK, Reply, Goto
  <1>3. \/ at'[c] \in {"lost", "waiting"} /\ answer'[c] = "none"
        \/ /\ at'[c] = "returned"
           /\ \/ answer'[c] \in {"denied", "unavailable", "unknown_turn", mem[subject[c]]}
              \/ at[c] \in {"replaying", "reading"} /\ answer'[c] = held[c]
    BY <1>1 DEF Inv, TypeOK, Reply, Goto
  <1>4. MayHold(c, subject[c])
    BY <1>3 DEF MayHold
  <1>5. MayTell(c, subject[c])
    BY <1>1, <1>3 DEF MayTell, Told, EndsOK, Final
  <1> QED BY <1>1, <1>2, <1>3, <1>4, <1>5, CallStepTold

LEMMA SendStepTold ==
  ASSUME Inv, Told, NEW c \in Sends, SendStep(c)
  PROVE  Told'
  <1>0. c \in Calls
    BY DEF Calls
  <1>1. CASE ReplayChecked(c)
    <2>1. at[c] \in Waiting /\ UNCHANGED <<outcome, mem, pump, cred, subject, held>>
      BY <1>1 DEF ReplayChecked, Waiting, claims
    <2>2. Goto(c, "waiting") \/ Reply(c, "denied") \/ Reply(c, held[c])
      BY <1>1 DEF ReplayChecked
    <2> QED BY <1>0, <1>1, <2>1, <2>2, WaitingTold DEF ReplayChecked
  <1>2. CASE StartFails(c)
    BY <1>0, <1>2, WaitingTold DEF StartFails, SaveFails, Waiting
  <1> QED
    BY <1>1, <1>2, ArriveTold, ReserveFreshTold, StartTold, ContextRefusedTold DEF SendStep

LEMMA FollowTold ==
  ASSUME Inv, Told, NEW c \in Waits \cup Cancels, NEW p \in Procs, NEW cr \in Creds, NEW t \in Sends,
         FollowRegistered(c, p, cr, t) \/ FollowSaved(c, p, cr, t) \/ FollowMissing(c, p, cr, t)
  PROVE  Told'
  <1>0. c \in Calls /\ t \in Calls /\ at[c] = "idle" /\ answer[c] = "none"
    BY DEF Calls, FollowRegistered, FollowSaved, FollowMissing, Follow, Inv, HandlersOK
  <1>1. /\ subject'[c] = t /\ cred'[c] = cr /\ UNCHANGED <<outcome, mem, pump>>
        /\ \A d \in Calls \ {c} : cred'[d] = cred[d] /\ subject'[d] = subject[d]
    BY <1>0 DEF FollowRegistered, FollowSaved, FollowMissing, Follow, Inv, TypeOK, claims
  <1>2. \A d \in Calls \ {c} : at'[d] = at[d] /\ held'[d] = held[d] /\ answer'[d] = answer[d]
    BY <1>0 DEF FollowRegistered, FollowSaved, FollowMissing, Goto, Reply, Inv, TypeOK
  <1>3. CASE FollowSaved(c, p, cr, t)
    <2>1. at[t] # "idle" /\ cred[t] = cr
      BY <1>3 DEF FollowSaved, RowFor, Inv, ClaimsOK, KeysOK
    <2>2. held'[c] = Reported(outcome[t])
      BY <1>0, <1>3 DEF FollowSaved, Inv, TypeOK
    <2>3. \/ at'[c] = "reading" /\ answer'[c] = "none"
          \/ at'[c] = "returned" /\ answer'[c] \in {"denied", outcome[t]}
      BY <1>0, <1>3 DEF FollowSaved, Goto, Reply, Inv, TypeOK
    <2>4. MayHold(c, t)
      BY <2>2 DEF MayHold, Reported, Final
    <2>5. MayTell(c, t)
      BY <1>1, <2>1, <2>3 DEF MayTell, Final
    <2> QED BY <1>0, <1>1, <1>2, <2>3, <2>4, <2>5, CallStepTold
  <1>4. CASE FollowRegistered(c, p, cr, t) \/ FollowMissing(c, p, cr, t)
    <2>1. \/ at'[c] = "checking" /\ answer'[c] = "none"
          \/ at'[c] = "returned" /\ answer'[c] \in {"denied", "unknown_turn", "unavailable"}
      BY <1>0, <1>4 DEF FollowRegistered, FollowMissing, Goto, Reply, Inv, TypeOK
    <2>2. MayHold(c, t) /\ MayTell(c, t)
      BY <2>1 DEF MayHold, MayTell, Final
    <2> QED BY <1>0, <1>1, <1>2, <2>1, <2>2, CallStepTold
  <1> QED BY <1>3, <1>4

LEMMA HandlerTold ==
  ASSUME Inv, Told, NEW c \in Calls,
         \/ WaitReturns(c) \/ CheckRefused(c) \/ Abandon(c) \/ SavedChecked(c)
         \/ WaitChecked(c) \/ CancelNothing(c)
  PROVE  Told'
  <1>1. at[c] \in Waiting /\ UNCHANGED <<outcome, mem, pump, cred, subject, held>>
    BY DEF WaitReturns, CheckRefused, Abandon, SavedChecked, WaitChecked, CancelNothing,
           Waiting, claims, turns
  <1>2. \/ \E s \in {"denied", "unavailable", "unknown_turn", mem[subject[c]]} : Reply(c, s)
        \/ at[c] \in {"replaying", "reading"} /\ Reply(c, held[c])
        \/ Goto(c, "lost")
        \/ Goto(c, "waiting")
    BY DEF WaitReturns, CheckRefused, Abandon, SavedChecked, WaitChecked, CancelNothing
  <1> QED BY <1>1, <1>2, WaitingTold

\* chat_cancel decides the end of a running turn, of which none has been told.
LEMMA CancelRunningTold ==
  ASSUME Inv, Told, NEW c \in Cancels, CancelRunning(c)
  PROVE  Told'
  <1> DEFINE t == subject[c]
  <1>0. /\ c \in Calls /\ c \notin Sends /\ t \in Sends /\ at[t] \notin {"idle", "context"}
        /\ mem[t] = "running" /\ pump[t] # "none" /\ cred[t] = cred[c] /\ outcome[t] \notin Final
    BY DEF Calls, Waiting, Inv, TypeOK, HandlersOK, TurnsOK, ClaimsOK, KeysOK, CancelRunning, Final
  <1>1. /\ \A d \in Calls : answer[d] \in Final => subject[d] # t
        /\ \A d \in Calls : at[d] \in {"replaying", "reading"} /\ held[d] \in Final => subject[d] # t
    BY <1>0 DEF Told, EndsOK, AnswersOK, Final
  <1>2. /\ \A u \in Sends \ {t} : outcome'[u] = outcome[u] /\ mem'[u] = mem[u] /\ pump'[u] = pump[u]
        /\ mem'[t] = "cancelled" /\ pump'[t] \in {"ended", "interrupted"}
        /\ outcome'[t] \in {outcome[t], "cancelled"}
        /\ UNCHANGED <<cred, subject, held>>
    BY <1>0 DEF CancelRunning, Saved, SaveFails, Inv, TypeOK
  <1>3. /\ at'[c] = "returned" /\ answer'[c] \in {"cancelled", "unavailable"}
        /\ \A d \in Calls \ {c} : at'[d] = at[d] /\ answer'[d] = answer[d]
    BY <1>0 DEF CancelRunning, Reply, Inv, TypeOK
  <1>4. EndsOK'
    <2>1. \A u \in Sends : outcome'[u] \in Final =>
            /\ mem'[u] # "absent" => mem'[u] = outcome'[u]
            /\ outcome'[u] # "refused" => pump'[u] \in {"interrupted", "ended"}
      BY <1>0, <1>2 DEF Told, EndsOK
    <2>2. \A d \in Calls : at'[d] \in {"replaying", "reading"} /\ held'[d] \in Final =>
            outcome'[subject'[d]] = held'[d]
      BY <1>1, <1>2, <1>3 DEF Inv, HandlersOK, Waiting, Told, EndsOK
    <2> QED BY <2>1, <2>2 DEF EndsOK
  <1>5. AnswersOK'
    BY <1>0, <1>1, <1>2, <1>3 DEF Calls, Told, AnswersOK, Final
  <1>6. AnswersAgree'
    BY <1>1, <1>2, <1>3 DEF Told, AnswersAgree, Final
  <1> QED BY <1>4, <1>5, <1>6 DEF Told

LEMMA NextTold == Inv /\ Told /\ [Next]_vars => Told'
  <1> SUFFICES ASSUME Inv, Told, [Next]_vars PROVE Told'
    OBVIOUS
  <1>1. ASSUME NEW c \in Waits \cup Cancels, FollowStep(c) PROVE Told'
    <2>1. c \in Calls
      BY DEF Calls
    <2>2. CancelRunning(c) => c \in Cancels
      BY DEF CancelRunning
    <2> QED
      BY <1>1, <2>1, <2>2, FollowTold, HandlerTold, CancelRunningTold DEF FollowStep
  <1>2. ASSUME NEW c \in Calls, WaitReturns(c) \/ CheckRefused(c) \/ Abandon(c) PROVE Told'
    BY <1>2, HandlerTold
  <1>3. CASE UNCHANGED vars
    BY <1>3 DEF vars, claims, calls, turns, Told, EndsOK, AnswersOK, AnswersAgree
  <1> QED
    BY <1>1, <1>2, <1>3, SendStepTold, TurnStepTold, ProcessTold DEF Next

LEMMA ToldInvariant == Spec => [](Inv /\ Told)
  <1>1. Init => Inv /\ Told
    BY InitInv, InitTold
  <1>2. (Inv /\ Told) /\ [Next]_vars => (Inv /\ Told)'
    BY NextInv, NextTold
  <1> QED BY <1>1, <1>2, PTL DEF Spec

\* Whoever is told how a turn ended, from memory or from the store, in
\* whatever process, is told the same (chat.py:50-56, server.py:258-345).
THEOREM RepliesAgree == Spec => []AnswersAgree
  BY ToldInvariant, PTL DEF Told

\* What a turn is doing, or how it ended, is told only to the credential that
\* started it, however handlers, evictions and restarts interleave
\* (server.py:275-277, 312, 322-323).
THEOREM TurnsStayPrivate == Spec => []OwnTurnsOnly
  <1>1. Inv /\ Told => OwnTurnsOnly
    BY DEF Told, AnswersOK, OwnTurnsOnly
  <1> QED BY <1>1, ToldInvariant, PTL

\* A call reported as refused, now or by a later retry, never reached the
\* agent and never will (server.py:286-293).
THEOREM RefusalsAreFinal == Spec => []RefusedNeverSent
  <1>1. Inv /\ Told => RefusedNeverSent
    BY DEF Inv, TurnsOK, Told, AnswersOK, RefusedNeverSent, Sent, Final
  <1> QED BY <1>1, ToldInvariant, PTL

-----------------------------------------------------------------------------
\* The service implements AtMostOnce, the promise of idempotency.py:1-8 and
\* server.py:253-256: every step of a handler, a pump, the agent or a crash wins
\* a key for the one call that may send, sends once, settles an outcome for
\* good, or is invisible to the client.
THEOREM ServiceKeepsItsPromise == Spec => KeepsItsPromise
  <1> DEFINE sent == {t \in Sends : Sent(t)}
             told == [t \in Sends |->
                       IF outcome[t] \in {"unknown", "running"} THEN "open" ELSE outcome[t]]
  <1>1. Init => Promise!Init
    BY DEF Init, Promise!Init, Sent
  <1>2. Inv /\ [Next]_vars => [Promise!Next]_(Promise!vars)
    <2> SUFFICES ASSUME Inv, [Next]_vars PROVE Promise!Next \/ UNCHANGED <<owner, sent, told>>
      BY DEF Promise!vars
    <2>1. ASSUME NEW c \in Sends, NEW p \in Procs, NEW cr \in Creds, NEW k \in Keys, NEW pl \in Payloads,
                 ReserveFresh(c, p, cr, k, pl)
          PROVE  Promise!Win(<<cr, k>>, c)
      <3>1. outcome[c] = "free" /\ <<cr, k>> \in Ids
        BY <2>1 DEF Ids, Inv, ClaimsOK, KeysOK, ReserveFresh, Arrive
      <3>2. sent' = sent
        BY <2>1 DEF ReserveFresh, Arrive, Sent
      <3>3. told' = [told EXCEPT ![c] = "open"]
        BY <2>1 DEF Inv, TypeOK, ReserveFresh
      <3> QED BY <2>1, <3>1, <3>2, <3>3 DEF Promise!Win, ReserveFresh
    <2>2. ASSUME NEW t \in Sends, PumpBegin(t)
          PROVE  \E keyed \in BOOLEAN : Promise!Send(t, keyed)
      <3>1. sent' = sent \cup {t} /\ t \notin sent /\ UNCHANGED <<owner, told>>
        BY <2>2 DEF Inv, TypeOK, TurnsOK, PumpBegin, Sent, claims
      <3>2. at[t] # "idle" /\ mem[t] = "running"
        BY <2>2 DEF Inv, TurnsOK, PumpBegin
      <3>3. CASE Keyed(t)
        <4>1. told[t] = "open" /\ owner[Identity(t)] = t
          BY <2>2, <3>2, <3>3 DEF Inv, TurnsOK, ClaimsOK, KeysOK, PumpBegin
        <4>2. Identity(t) \in Ids
          BY <3>2, <3>3 DEF Ids, Identity, Calls, Inv, TypeOK, HandlersOK, Keyed
        <4>3. Promise!Send(t, TRUE)
          BY <3>1, <4>1, <4>2 DEF Promise!Send
        <4> QED BY <4>3
      <3>4. CASE ~Keyed(t)
        <4>1. told[t] = "free"
          BY <3>4 DEF Inv, ClaimsOK, KeysOK
        <4>2. Promise!Send(t, FALSE)
          BY <3>1, <4>1 DEF Promise!Send
        <4> QED BY <4>2
      <3> QED BY <3>3, <3>4
    \* A save of an end settles a turn, or repeats what is settled.
    <2>3. ASSUME NEW t \in Sends, NEW s \in Final,
                 UNCHANGED owner, sent' = sent,
                 Saved(t, s) \/ SaveFails(t),
                 Keyed(t) => outcome[t] \in {"unknown", "running", s},
                 s = "refused" => t \notin sent, s = "done" => t \in sent
          PROVE  Promise!Settle(t, s) \/ UNCHANGED <<owner, sent, told>>
      <3>1. CASE Keyed(t) /\ Saved(t, s) /\ outcome[t] # s
        <4>1. outcome' = [outcome EXCEPT ![t] = s] /\ outcome \in [Sends -> Outcome]
          BY <3>1 DEF Inv, TypeOK, Saved
        <4>2. told[t] = "open" /\ s \notin {"unknown", "running"}
          BY <2>3, <3>1 DEF Final
        <4>3. told' = [told EXCEPT ![t] = s]
          BY <4>1, <4>2
        <4> QED BY <2>3, <4>2, <4>3 DEF Promise!Settle, Promise!Settled, Final
      <3>2. CASE ~Keyed(t) \/ SaveFails(t) \/ outcome[t] = s
        <4>1. outcome' = outcome
          BY <2>3, <3>2 DEF Inv, TypeOK, Saved, SaveFails
        <4> QED BY <2>3, <4>1
      <3> QED BY <2>3, <3>1, <3>2
    <2>4. ASSUME NEW t \in Sends, PumpDone(t) \/ PumpError(t) \/ PumpCancelled(t)
          PROVE  Promise!Next \/ UNCHANGED <<owner, sent, told>>
      <3>1. PICK s \in {"done", "error", "cancelled"} :
              /\ PumpEnds(t, s) /\ (Saved(t, s) \/ SaveFails(t))
              /\ pump[t] = "interrupted" => s = "cancelled"
              /\ s = "done" => hermes[t] \in {"running", "finished"}
        BY <2>4 DEF PumpDone, PumpError, PumpCancelled
      <3>2. pump[t] \in {"created", "streaming", "interrupted"}
        BY <2>4 DEF PumpDone, PumpError, PumpCancelled
      <3>3. Keyed(t) => outcome[t] \in {"unknown", "running", s}
        BY <3>1, <3>2 DEF Inv, TurnsOK
      <3>4. UNCHANGED owner /\ sent' = sent /\ (s = "done" => t \in sent) /\ s \in Final
        BY <3>1 DEF PumpEnds, Sent, Final
      <3>5. Promise!Settle(t, s) \/ UNCHANGED <<owner, sent, told>>
        BY <2>3, <3>1, <3>3, <3>4
      <3> QED BY <3>4, <3>5 DEF Promise!Next, Promise!Settled, Final
    <2>5. ASSUME NEW c \in Cancels, CancelRunning(c)
          PROVE  Promise!Next \/ UNCHANGED <<owner, sent, told>>
      <3> DEFINE t == subject[c]
      <3>1. t \in Sends /\ mem[t] = "running"
        BY <2>5 DEF Calls, Waiting, Inv, HandlersOK, CancelRunning
      <3>2. Keyed(t) => outcome[t] = "running"
        BY <3>1 DEF Inv, TurnsOK
      <3>3. UNCHANGED owner /\ sent' = sent /\ (Saved(t, "cancelled") \/ SaveFails(t)) /\ "cancelled" \in Final
        BY <2>5 DEF CancelRunning, Sent, Final
      <3>4. Promise!Settle(t, "cancelled") \/ UNCHANGED <<owner, sent, told>>
        BY <2>3, <3>1, <3>2, <3>3
      <3> QED BY <3>1, <3>4 DEF Promise!Next, Promise!Settled
    <2>6. ASSUME NEW c \in Sends, ContextRefused(c)
          PROVE  Promise!Next \/ UNCHANGED <<owner, sent, told>>
      <3>1. Keyed(c) => outcome[c] = "unknown"
        BY <2>6 DEF Inv, ClaimsOK, KeysOK, ContextRefused
      <3>2. UNCHANGED owner /\ sent' = sent /\ c \notin sent /\ (Saved(c, "refused") \/ SaveFails(c)) /\ "refused" \in Final
        BY <2>6 DEF Inv, TurnsOK, ContextRefused, Sent, Final
      <3>3. Promise!Settle(c, "refused") \/ UNCHANGED <<owner, sent, told>>
        BY <2>3, <3>1, <3>2
      <3> QED BY <3>3 DEF Promise!Next, Promise!Settled
    <2>7. ASSUME NEW c \in Sends, Start(c) PROVE UNCHANGED <<owner, sent, told>>
      <3>1. Keyed(c) => outcome[c] = "unknown" /\ outcome' = [outcome EXCEPT ![c] = "running"]
        BY <2>7 DEF Inv, ClaimsOK, KeysOK, Start, Saved
      <3>2. ~Keyed(c) => outcome' = outcome
        BY <2>7 DEF Start, Saved
      <3>3. outcome \in [Sends -> Outcome]
        BY DEF Inv, TypeOK
      <3>4. told' = told
        BY <3>1, <3>2, <3>3
      <3> QED BY <2>7, <3>4 DEF Start, Sent
    <2>8. ASSUME NEW c \in Sends, NEW p \in Procs, NEW cr \in Creds, NEW pl \in Payloads,
                 \/ SendUnkeyed(c, p, cr, pl)
                 \/ \E k \in Keys : ReserveRefused(c, p, cr, k, pl) \/ ReserveReplay(c, p, cr, k, pl)
          PROVE  UNCHANGED <<owner, sent, told>>
      <3>1. UNCHANGED <<owner, outcome, hermes>>
        BY <2>8 DEF SendUnkeyed, ReserveRefused, ReserveReplay, Arrive, claims
      <3> QED BY <3>1 DEF Sent
    <2>9. ASSUME NEW c \in Sends, ReplayChecked(c) \/ StartFails(c)
          PROVE  UNCHANGED <<owner, sent, told>>
      BY <2>9 DEF ReplayChecked, StartFails, SaveFails, claims, Sent
    <2>10. ASSUME NEW c \in Calls, NEW p \in Procs, NEW cr \in Creds, NEW t \in Sends,
                  FollowRegistered(c, p, cr, t) \/ FollowSaved(c, p, cr, t) \/ FollowMissing(c, p, cr, t)
           PROVE  UNCHANGED <<owner, sent, told>>
      BY <2>10 DEF FollowRegistered, FollowSaved, FollowMissing, Follow, claims, Sent
    <2>11. ASSUME NEW c \in Calls,
                  \/ WaitReturns(c) \/ CheckRefused(c) \/ Abandon(c) \/ SavedChecked(c)
                  \/ WaitChecked(c) \/ CancelNothing(c)
           PROVE  UNCHANGED <<owner, sent, told>>
      BY <2>11 DEF WaitReturns, CheckRefused, Abandon, SavedChecked, WaitChecked, CancelNothing, claims, Sent
    <2>12. ASSUME NEW t \in Sends, HermesReceive(t) \/ HermesFinish(t) \/ HermesStop(t)
           PROVE  UNCHANGED <<owner, sent, told>>
      <3>1. \A u \in Sends : Sent(u)' <=> Sent(u)
        BY <2>12 DEF Inv, TypeOK, HermesReceive, HermesFinish, HermesStop, Sent
      <3> QED BY <2>12, <3>1 DEF HermesReceive, HermesFinish, HermesStop, claims
    <2>13. ASSUME NEW p \in Procs, Crash(p) \/ Shutdown(p) \/ Restart(p)
           PROVE  UNCHANGED <<owner, sent, told>>
      BY <2>13 DEF Crash, Shutdown, Restart, claims, Sent
    <2>14. CASE UNCHANGED vars
      BY <2>14 DEF vars, claims, Sent
    <2>15. ASSUME NEW c \in Sends, SendStep(c) PROVE Promise!Next \/ UNCHANGED <<owner, sent, told>>
      <3>1. ASSUME NEW p \in Procs, NEW cr \in Creds, NEW k \in Keys, NEW pl \in Payloads,
                   ReserveFresh(c, p, cr, k, pl)
            PROVE  Promise!Next
        <4>1. <<cr, k>> \in Ids
          BY DEF Ids
        <4> QED BY <2>1, <3>1, <4>1 DEF Promise!Next
      <3> QED BY <2>6, <2>7, <2>8, <2>9, <2>15, <3>1 DEF SendStep
    <2>16. ASSUME NEW c \in Waits \cup Cancels, FollowStep(c)
           PROVE  Promise!Next \/ UNCHANGED <<owner, sent, told>>
      <3>1. c \in Calls /\ (CancelRunning(c) => c \in Cancels)
        BY DEF Calls, CancelRunning
      <3> QED BY <2>5, <2>10, <2>11, <2>16, <3>1 DEF FollowStep
    <2>17. ASSUME NEW t \in Sends, TurnStep(t)
           PROVE  Promise!Next \/ UNCHANGED <<owner, sent, told>>
      <3>1. CASE PumpBegin(t)
        BY <2>2, <3>1 DEF Promise!Next
      <3> QED BY <2>4, <2>12, <2>17, <3>1 DEF TurnStep
    <2> QED BY <2>11, <2>13, <2>14, <2>15, <2>16, <2>17 DEF Next
  <1> QED BY <1>1, <1>2, ServiceInvariant, PTL DEF Spec, KeepsItsPromise, Promise!Spec
=============================================================================
