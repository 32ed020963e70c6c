------------------------- MODULE TurnRegistryProofs -------------------------
(***************************************************************************)
(* The safety of TurnRegistry for any number of turns and waiters.  The    *)
(* invariant ties the status of a turn to the place of its pump, which is  *)
(* why a finished turn is never finished differently, and says that a      *)
(* sleeping waiter sleeps on a running turn.                               *)
(***************************************************************************)
EXTENDS TurnRegistry, FiniteSetTheorems, TLAPS

\* A turn is running exactly as long as its pump may still decide its end.
PumpMatchesStatus ==
    \A t \in Turns : /\ pump[t] \in {"created", "streaming"} <=> status[t] = "running"
                     /\ pump[t] = "none" <=> status[t] = "absent"
                     /\ pump[t] = "interrupted" => status[t] = "cancelled"

Inv == TypeOK /\ PumpMatchesStatus /\ RunningIsRegistered /\ NoLostWakeup

USE RegistryAssumption

LEMMA InitInv == Init => Inv
  BY DEF Init, Inv, TypeOK, PumpMatchesStatus, RunningIsRegistered, NoLostWakeup,
         Running, Status, Pump, Place, InWait, Final

\* Eviction only takes finished turns.
LEMMA EvictedFinished ==
  ASSUME NEW rank
  PROVE  Evicted(rank) \subseteq {t \in registered : ~Running(t)}
  BY DEF Evicted, Finished

LEMMA FinishInv ==
  ASSUME Inv, NEW t \in Turns, NEW s \in Final, Finish(t, s),
         UNCHANGED registered, pump' \in [Turns -> Pump],
         \A u \in Turns \ {t} : pump'[u] = pump[u],
         pump'[t] = "ended" \/ (pump'[t] = "interrupted" /\ s = "cancelled")
  PROVE  Inv'
  <1>1. TypeOK'
    BY DEF Inv, TypeOK, Finish, Wake, waitVars, Status, Place, InWait
  <1>2. PumpMatchesStatus'
    BY DEF Inv, TypeOK, PumpMatchesStatus, Finish, Final, Status
  <1>3. RunningIsRegistered'
    BY DEF Inv, TypeOK, RunningIsRegistered, Running, Finish, Final
  <1>4. NoLostWakeup'
    BY DEF Inv, TypeOK, NoLostWakeup, Finish, Wake, waitVars
  <1> QED BY <1>1, <1>2, <1>3, <1>4 DEF Inv

LEMMA StartInv ==
  ASSUME Inv, NEW t \in Turns, Start(t)
  PROVE  Inv'
  <1>1. PICK rank \in Ranks : registered' = (registered \ Evicted(rank)) \cup {t}
    BY DEF Start
  <1>2. TypeOK'
    BY <1>1 DEF Inv, TypeOK, Start, waitVars, Status, Pump
  <1>3. PumpMatchesStatus'
    BY DEF Inv, TypeOK, PumpMatchesStatus, Start, Status
  <1>4. RunningIsRegistered'
    BY <1>1, EvictedFinished DEF Inv, TypeOK, RunningIsRegistered, Running, Start
  <1>5. NoLostWakeup'
    BY DEF Inv, TypeOK, NoLostWakeup, Start, waitVars, Final
  <1> QED BY <1>2, <1>3, <1>4, <1>5 DEF Inv

\* Get and Find: what is taken out of the registry is not running.
LEMMA EvictInv ==
  ASSUME Inv, NEW rank \in Ranks, registered' = registered \ Evicted(rank),
         UNCHANGED <<status, finishedAt, pump, changed, waitVars, now>>,
         \/ UNCHANGED at
         \/ \E w \in Waiters : at' = [at EXCEPT ![w] = "found"]
  PROVE  Inv'
  <1>1. TypeOK'
    BY DEF Inv, TypeOK, waitVars, Place, InWait
  <1>2. PumpMatchesStatus'
    BY DEF Inv, PumpMatchesStatus
  <1>3. RunningIsRegistered'
    BY EvictedFinished DEF Inv, RunningIsRegistered, Running
  <1>4. NoLostWakeup'
    BY DEF Inv, TypeOK, NoLostWakeup, waitVars
  <1> QED BY <1>1, <1>2, <1>3, <1>4 DEF Inv

\* Returning, or clearing the event of a turn that is running.
LEMMA LoopInv ==
  ASSUME Inv, NEW w \in Waiters, NEW d \in Nat,
         Loop(w, d) \/ (Return(w) /\ UNCHANGED now),
         UNCHANGED <<turnVars, now>>, deadline' \in [Waiters -> Nat]
  PROVE  Inv'
  <1>1. TypeOK'
    BY DEF Inv, TypeOK, Loop, Return, turnVars, Place, InWait, Status
  <1>2. PumpMatchesStatus' /\ RunningIsRegistered'
    BY DEF Inv, PumpMatchesStatus, RunningIsRegistered, Running, turnVars
  <1>3. NoLostWakeup'
    BY DEF Inv, TypeOK, NoLostWakeup, Loop, Return, Running, turnVars, Final
  <1> QED BY <1>1, <1>2, <1>3 DEF Inv

LEMMA PumpBeginInv ==
  ASSUME Inv, NEW t \in Turns, PumpBegin(t)
  PROVE  Inv'
  BY DEF Inv, TypeOK, PumpMatchesStatus, RunningIsRegistered, NoLostWakeup, Running,
         PumpBegin, waitVars, Pump

LEMMA PumpEventInv ==
  ASSUME Inv, NEW t \in Turns, PumpEvent(t)
  PROVE  Inv'
  <1>1. TypeOK'
    BY DEF Inv, TypeOK, PumpEvent, Wake, turnVars, waitVars, Place, InWait
  <1>2. PumpMatchesStatus' /\ RunningIsRegistered'
    BY DEF Inv, PumpMatchesStatus, RunningIsRegistered, Running, PumpEvent, turnVars
  <1>3. NoLostWakeup'
    BY DEF Inv, TypeOK, NoLostWakeup, PumpEvent, Wake, turnVars, waitVars
  <1> QED BY <1>1, <1>2, <1>3 DEF Inv

LEMMA EndInv ==
  ASSUME Inv, NEW t \in Turns,
         PumpDone(t) \/ PumpError(t) \/ PumpCancelled(t) \/ Cancel(t)
  PROVE  Inv'
  <1>1. pump' \in [Turns -> Pump]
    BY DEF Inv, TypeOK, PumpDone, PumpError, PumpCancelled, Cancel, Pump
  <1>2. \A u \in Turns \ {t} : pump'[u] = pump[u]
    BY DEF Inv, TypeOK, PumpDone, PumpError, PumpCancelled, Cancel
  <1>3. CASE PumpDone(t) \/ PumpError(t) \/ PumpCancelled(t)
    <2>1. pump'[t] = "ended" /\ UNCHANGED registered /\ \E s \in Final : Finish(t, s)
      BY <1>3 DEF Inv, TypeOK, PumpDone, PumpError, PumpCancelled, Final
    <2> QED BY <1>1, <1>2, <2>1, FinishInv
  <1>4. CASE Cancel(t)
    <2>1. /\ pump'[t] \in {"ended", "interrupted"} /\ UNCHANGED registered
          /\ Finish(t, "cancelled")
      BY <1>4 DEF Inv, TypeOK, Cancel
    <2> QED BY <1>1, <1>2, <2>1, FinishInv DEF Final
  <1> QED BY <1>3, <1>4

LEMMA ArmInv ==
  ASSUME Inv, NEW w \in Waiters, Arm(w)
  PROVE  Inv'
  BY DEF Inv, TypeOK, PumpMatchesStatus, RunningIsRegistered, NoLostWakeup, Running,
         Arm, turnVars, waitVars, Place, InWait

LEMMA NextInv == Inv /\ [Next]_vars => Inv'
  <1> SUFFICES ASSUME Inv, [Next]_vars PROVE Inv'
    OBVIOUS
  <1>1. ASSUME NEW t \in Turns, Start(t) PROVE Inv'
    BY <1>1, StartInv
  <1>2. ASSUME NEW t \in Turns, PumpBegin(t) PROVE Inv'
    BY <1>2, PumpBeginInv
  <1>3. ASSUME NEW t \in Turns, PumpEvent(t) PROVE Inv'
    BY <1>3, PumpEventInv
  <1>4. ASSUME NEW t \in Turns, PumpDone(t) \/ PumpError(t) \/ PumpCancelled(t) \/ Cancel(t) PROVE Inv'
    BY <1>4, EndInv
  <1>5. CASE Get
    BY <1>5, EvictInv DEF Get
  <1>6. ASSUME NEW w \in Waiters, Find(w) PROVE Inv'
    BY <1>6, EvictInv DEF Find
  <1>7. ASSUME NEW w \in Waiters, NEW seconds \in 0 .. MaxTime, WaitStart(w, seconds) PROVE Inv'
    <2>1. now + seconds \in Nat /\ deadline' \in [Waiters -> Nat]
      BY <1>7 DEF WaitStart, Inv, TypeOK
    <2> QED BY <1>7, <2>1, LoopInv DEF WaitStart
  <1>8. ASSUME NEW w \in Waiters, Resume(w) \/ Timeout(w) PROVE Inv'
    <2>1. deadline[w] \in Nat /\ deadline' \in [Waiters -> Nat]
      BY <1>8 DEF Resume, Timeout, Inv, TypeOK
    <2> QED BY <1>8, <2>1, LoopInv DEF Resume, Timeout
  <1>9. ASSUME NEW w \in Waiters, Arm(w) PROVE Inv'
    BY <1>9, ArmInv
  <1>10. CASE Tick \/ UNCHANGED vars
    BY <1>10 DEF Inv, TypeOK, PumpMatchesStatus, RunningIsRegistered, NoLostWakeup, Running,
                 Tick, vars, turnVars, waitVars
  <1> QED
    BY <1>1, <1>2, <1>3, <1>4, <1>5, <1>6, <1>7, <1>8, <1>9, <1>10 DEF Next

LEMMA RegistryInvariant == Spec => []Inv
  BY InitInv, NextInv, PTL DEF Spec

\* Every state of the registry is well typed, whatever the parameters.
THEOREM TypeCorrect == Spec => []TypeOK
  BY RegistryInvariant, PTL DEF Inv

\* No handler sleeps on a turn that is over, for any number of handlers sharing
\* its event (chat.py:116-124).
THEOREM WakeupsAreNotLost == Spec => []NoLostWakeup
  BY RegistryInvariant, PTL DEF Inv

\* Eviction never takes a running turn out of reach (chat.py:136-144).
THEOREM RunningStaysRegistered == Spec => []RunningIsRegistered
  BY RegistryInvariant, PTL DEF Inv

\* The end of a turn is decided once, whatever order the pump and chat_cancel
\* come in (chat.py:107-112, 131-133).
THEOREM EndsAreFinal == Spec => EndIsForever
  <1>1. Inv /\ [Next]_vars
          => [\A t \in Turns : status[t] \in Final => status'[t] = status[t]]_vars
    <2> SUFFICES ASSUME Inv, Next, NEW u \in Turns, status[u] \in Final
                 PROVE  status'[u] = status[u]
      OBVIOUS
    <2>1. ASSUME NEW t \in Turns, Start(t) PROVE status'[u] = status[u]
      BY <2>1 DEF Inv, TypeOK, Start, Final
    <2>2. ASSUME NEW t \in Turns, PumpDone(t) \/ PumpError(t) \/ Cancel(t) PROVE status'[u] = status[u]
      BY <2>2 DEF Inv, TypeOK, PumpMatchesStatus, PumpDone, PumpError, Cancel, Finish, Running, Final
    <2>3. ASSUME NEW t \in Turns, PumpCancelled(t) PROVE status'[u] = status[u]
      BY <2>3 DEF Inv, TypeOK, PumpMatchesStatus, PumpCancelled, Finish
    <2> QED
      BY <2>1, <2>2, <2>3 DEF Next, PumpBegin, PumpEvent, Get, Find, WaitStart, Arm, Resume,
         Timeout, Tick, turnVars
  <1> QED
    BY <1>1, RegistryInvariant, PTL DEF Spec, EndIsForever

\* wait() reports a running turn only once its time is up: neither text nor
\* the events of other handlers end it early (chat.py:116-124).
THEOREM RunningIsReportedLate == Spec => []RunningOnlyAtDeadline
  <1>1. Init => RunningOnlyAtDeadline
    BY DEF Init, RunningOnlyAtDeadline
  <1>2. Inv /\ RunningOnlyAtDeadline /\ [Next]_vars => RunningOnlyAtDeadline'
    <2> SUFFICES ASSUME Inv, RunningOnlyAtDeadline, [Next]_vars
                 PROVE  RunningOnlyAtDeadline'
      OBVIOUS
    <2>1. ASSUME NEW w \in Waiters, NEW d \in Nat, UNCHANGED <<status, now>>, d = deadline'[w],
                 \A v \in Waiters \ {w} : deadline'[v] = deadline[v],
                 Loop(w, d) \/ (Return(w) /\ now >= d)
          PROVE  RunningOnlyAtDeadline'
      BY <2>1 DEF Inv, TypeOK, RunningOnlyAtDeadline, Loop, Return, Running
    <2>2. ASSUME NEW w \in Waiters, NEW seconds \in 0 .. MaxTime, WaitStart(w, seconds)
          PROVE  RunningOnlyAtDeadline'
      BY <2>1, <2>2 DEF WaitStart, Inv, TypeOK, turnVars
    <2>3. ASSUME NEW w \in Waiters, Resume(w) \/ Timeout(w) PROVE RunningOnlyAtDeadline'
      BY <2>1, <2>3 DEF Resume, Timeout, Inv, TypeOK, turnVars
    <2>4. ASSUME UNCHANGED <<deadline, seen>>, now' = now \/ now' = now + 1,
                 \A w \in Waiters : at'[w] = "returned" => at[w] = "returned"
          PROVE  RunningOnlyAtDeadline'
      BY <2>4 DEF Inv, TypeOK, RunningOnlyAtDeadline
    <2>5. ASSUME NEW t \in Turns, Wake(t), UNCHANGED <<waitVars, now>>
          PROVE  RunningOnlyAtDeadline'
      BY <2>4, <2>5 DEF Wake, waitVars
    <2>6. ASSUME NEW t \in Turns,
                 PumpEvent(t) \/ PumpDone(t) \/ PumpError(t) \/ PumpCancelled(t) \/ Cancel(t)
          PROVE  RunningOnlyAtDeadline'
      BY <2>5, <2>6 DEF PumpEvent, PumpDone, PumpError, PumpCancelled, Cancel, Finish
    <2>7. ASSUME NEW t \in Turns, Start(t) \/ PumpBegin(t) PROVE RunningOnlyAtDeadline'
      BY <2>4, <2>7 DEF Start, PumpBegin, waitVars
    <2>8. ASSUME NEW w \in Waiters, Find(w) \/ Arm(w) PROVE RunningOnlyAtDeadline'
      BY <2>4, <2>8 DEF Find, Arm, waitVars, Inv, TypeOK
    <2>9. CASE Get \/ Tick \/ UNCHANGED vars
      BY <2>4, <2>9 DEF Get, Tick, vars, waitVars
    <2> QED
      BY <2>2, <2>3, <2>6, <2>7, <2>8, <2>9 DEF Next
  <1> QED
    BY <1>1, <1>2, RegistryInvariant, PTL DEF Spec

\* The ranks of the finished turns fill 0 .. n - 1, so at least k + 1 of them
\* have rank k or less.
LEMMA LowRanks ==
  ASSUME IsFiniteSet(Finished), NEW rank \in Ranks, NEW k \in Nat, k < Cardinality(Finished)
  PROVE  Cardinality({t \in Finished : rank[t] <= k}) >= k + 1
  <1> DEFINE n == Cardinality(Finished)
             low == {t \in Finished : rank[t] <= k}
             f == [t \in low |-> rank[t]]
  <1>1. n \in Nat /\ IsFiniteSet(0 .. n - 1) /\ Cardinality(0 .. n - 1) = n
    <2>1. n \in Nat
      BY FS_CardinalityType
    <2>2. 0 \in Int /\ n - 1 \in Int
      BY <2>1
    <2>3. IsFiniteSet(0 .. n - 1) /\ Cardinality(0 .. n - 1) = IF 0 > n - 1 THEN 0 ELSE (n - 1) - 0 + 1
      BY <2>2, FS_Interval
    <2> QED BY <2>1, <2>3
  <1>2. rank \in [Finished -> 0 .. n - 1]
    BY DEF Ranks
  <1>3. rank \in Injection(Finished, 0 .. n - 1)
    BY <1>2 DEF Ranks, Injection, IsInjective
  <1>4. rank \in Surjection(Finished, 0 .. n - 1)
    BY <1>1, <1>3, FS_Injection
  <1>5. \A i \in 0 .. k : \E t \in low : f[t] = i
    BY <1>1, <1>4 DEF Surjection
  <1>6. f \in [low -> 0 .. k]
    BY <1>1, <1>2
  <1>7. f \in Surjection(low, 0 .. k)
    BY <1>5, <1>6 DEF Surjection
  <1>8. IsFiniteSet(low)
    BY FS_Subset
  <1>9. Cardinality(0 .. k) = k + 1
    BY FS_Interval
  <1> QED
    BY <1>7, <1>8, <1>9, FS_Surjection

\* What an eviction leaves, together with a turn that comes in, fits, unless
\* all of it is running.
LEMMA EvictionMakesRoom ==
  ASSUME IsFiniteSet(registered), NEW rank \in Ranks, NEW t,
         NEW u \in Finished \ Evicted(rank)
  PROVE  Cardinality((registered \ Evicted(rank)) \cup {t}) <= MaxTurns
  <1> DEFINE n == Cardinality(registered)
             m == Cardinality(Finished)
             left == registered \ Evicted(rank)
  <1>1. Finished \subseteq registered /\ Evicted(rank) \subseteq registered
    BY DEF Finished, Evicted
  <1>2. IsFiniteSet(Finished) /\ IsFiniteSet(Evicted(rank)) /\ IsFiniteSet(left)
    BY <1>1, FS_Subset
  <1>3. n \in Nat /\ m \in Nat /\ Cardinality(left) \in Nat /\ Cardinality(Evicted(rank)) \in Nat
    BY <1>2, FS_CardinalityType
  <1>4. rank[u] \in 0 .. m - 1 /\ n - rank[u] < MaxTurns
    BY <1>3 DEF Ranks, Evicted, OverCapacity
  <1>5. Cardinality(left) = n - Cardinality(Evicted(rank))
    <2>1. registered \cap Evicted(rank) = Evicted(rank)
      BY <1>1
    <2> QED BY <2>1, FS_Difference
  <1>6. Cardinality(left \cup {t}) \in {Cardinality(left), Cardinality(left) + 1}
    <2>1. Cardinality(left \cup {t}) = IF t \in left THEN Cardinality(left) ELSE Cardinality(left) + 1
      BY <1>2, FS_AddElement
    <2> QED BY <1>3, <2>1
  <1>7. CASE n < MaxTurns
    <2>1. Cardinality(left) <= n
      BY <1>3, <1>5
    <2> QED BY <1>3, <1>6, <1>7, <2>1
  <1>8. CASE n >= MaxTurns
    <2> DEFINE k == n - MaxTurns
               low == {v \in Finished : rank[v] <= k}
    <2>1. k \in Nat /\ k < m
      BY <1>3, <1>4, <1>8
    <2>2. low \subseteq Evicted(rank)
      <3> SUFFICES ASSUME NEW v \in low PROVE v \in Evicted(rank)
        OBVIOUS
      <3>1. rank[v] \in 0 .. m - 1 /\ v \in Finished
        BY DEF Ranks
      <3> QED BY <1>3, <3>1 DEF Evicted, OverCapacity
    <2>3. Cardinality(low) >= k + 1
      BY <1>2, <2>1, LowRanks
    <2>4. Cardinality(low) <= Cardinality(Evicted(rank)) /\ Cardinality(low) \in Nat
      BY <1>2, <2>2, FS_Subset, FS_CardinalityType
    <2>5. Cardinality(left) + 1 <= MaxTurns
      BY <1>3, <1>5, <2>3, <2>4
    <2> QED BY <1>3, <1>6, <2>5
  <1> QED BY <1>3, <1>7, <1>8

\* A registry never takes a turn in beyond its limit unless everything else in
\* it is running, for any limit and number of turns (chat.py:86, 143).
THEOREM RegistryStaysBounded == Spec => RegistryBounded
  <1>1. Inv /\ [Next]_vars =>
          [\A t \in registered' \ registered :
             \/ Cardinality(registered') <= MaxTurns
             \/ \A u \in registered' : status'[u] = "running"]_vars
    <2> SUFFICES ASSUME Inv, Next, NEW t \in registered' \ registered
                 PROVE  \/ Cardinality(registered') <= MaxTurns
                        \/ \A u \in registered' : status'[u] = "running"
      OBVIOUS
    <2>1. PICK s \in Turns : Start(s)
      BY DEF Next, PumpBegin, PumpEvent, PumpDone, PumpError, PumpCancelled, Cancel, Finish,
             Get, Find, WaitStart, Arm, Resume, Timeout, Tick, turnVars
    <2>2. PICK rank \in Ranks : registered' = (registered \ Evicted(rank)) \cup {s}
      BY <2>1 DEF Start
    <2>3. IsFiniteSet(registered)
      BY FS_Subset DEF Inv, TypeOK
    <2>4. CASE Finished \subseteq Evicted(rank)
      <3>1. \A u \in registered' : u = s \/ Running(u)
        BY <2>2, <2>4 DEF Finished
      <3> QED BY <2>1, <2>2, <3>1 DEF Start, Running, Inv, TypeOK
    <2>5. CASE ~(Finished \subseteq Evicted(rank))
      BY <2>2, <2>3, <2>5, EvictionMakesRoom
    <2> QED BY <2>4, <2>5
  <1> QED
    BY <1>1, RegistryInvariant, PTL DEF Spec, RegistryBounded
=============================================================================
