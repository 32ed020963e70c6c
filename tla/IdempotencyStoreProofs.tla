----------------------- MODULE IdempotencyStoreProofs -----------------------
(***************************************************************************)
(* What TLC checks of IdempotencyStore on three claims, for any number of  *)
(* claims, readers and replies.  Inv is the inductive invariant: besides   *)
(* the types it says that a row held by a lookup is still the row in the   *)
(* table (final and too old), which is why its late UPDATE is harmless.    *)
(***************************************************************************)
EXTENDS IdempotencyStore, FiniteSetTheorems, TLAPS

\* A lookup between its steps holds the current, final and old row.
ReadingIsSettled ==
    \A r \in Readers : reading[r] # NotReading =>
        /\ reading[r].turn \in Turns
        /\ reading[r].status \in FinalStatus
        /\ reading[r].status = status[reading[r].turn]
        /\ TooOld(reading[r].turn)

\* Only a finished turn has a stored reply, or one that was dropped.
ReplyIsFinal == \A t \in Turns : reply[t] # "none" => status[t] \in FinalStatus

Inv == TypeOK /\ ReadingIsSettled /\ ReplyIsFinal

USE StoreAssumption

LEMMA InitInv == Init => Inv
  BY DEF Init, Inv, TypeOK, ReadingIsSettled, ReplyIsFinal, NotReading, Open, FinalStatus, Reply

LEMMA ReserveFreshInv ==
  ASSUME Inv, NEW i \in Ids, NEW p \in Payloads, NEW t \in Turns, ReserveFresh(i, p, t)
  PROVE  Inv'
  <1>1. TypeOK'
    BY DEF Inv, TypeOK, ReserveFresh, Open, FinalStatus, Reply
  <1>2. ReadingIsSettled'
    BY DEF Inv, TypeOK, ReadingIsSettled, ReserveFresh, TooOld, FinalStatus
  <1>3. ReplyIsFinal'
    BY DEF Inv, TypeOK, ReplyIsFinal, ReserveFresh, FinalStatus, Reply
  <1> QED BY <1>1, <1>2, <1>3 DEF Inv

LEMMA ReserveReplayInv ==
  ASSUME Inv, NEW i \in Ids, NEW p \in Payloads, ReserveReplay(i, p)
  PROVE  Inv'
  <1>0. owner[i] \in Turns
    BY DEF Inv, TypeOK, ReserveReplay
  <1>1. TypeOK'
    BY <1>0 DEF Inv, TypeOK, ReserveReplay, Reply
  <1>2. ReadingIsSettled'
    BY DEF Inv, ReadingIsSettled, ReserveReplay, TooOld
  <1>3. ReplyIsFinal'
    BY <1>0 DEF Inv, TypeOK, ReplyIsFinal, ReserveReplay, MustExpire, Reply
  <1> QED BY <1>1, <1>2, <1>3 DEF Inv

LEMMA LookupReadInv ==
  ASSUME Inv, NEW r \in Readers, NEW t \in Turns, LookupRead(r, t)
  PROVE  Inv'
  <1>1. TypeOK'
    BY DEF Inv, TypeOK, LookupRead, MustExpire, rows
  <1>2. ReadingIsSettled'
    BY DEF Inv, TypeOK, ReadingIsSettled, LookupRead, MustExpire, TooOld, rows
  <1>3. ReplyIsFinal'
    BY DEF Inv, ReplyIsFinal, LookupRead, rows
  <1> QED BY <1>1, <1>2, <1>3 DEF Inv

\* The late UPDATE of a lookup leaves every outcome as it is.
LEMMA LookupExpireKeepsStatus ==
  ASSUME Inv, NEW r \in Readers, LookupExpire(r)
  PROVE  /\ status' = status
         /\ reading[r].turn \in Turns
         /\ status[reading[r].turn] \in FinalStatus
         /\ TooOld(reading[r].turn)
  BY DEF Inv, TypeOK, ReadingIsSettled, LookupExpire

LEMMA LookupExpireInv ==
  ASSUME Inv, NEW r \in Readers, LookupExpire(r)
  PROVE  Inv'
  <1>0. /\ status' = status
        /\ reading[r].turn \in Turns
        /\ status[reading[r].turn] \in FinalStatus
    BY LookupExpireKeepsStatus
  <1>1. TypeOK'
    BY <1>0 DEF Inv, TypeOK, LookupExpire, NotReading, Reply
  <1>2. ReadingIsSettled'
    BY <1>0 DEF Inv, TypeOK, ReadingIsSettled, LookupExpire, TooOld, NotReading
  <1>3. ReplyIsFinal'
    BY <1>0 DEF Inv, TypeOK, ReplyIsFinal, LookupExpire, Reply
  <1> QED BY <1>1, <1>2, <1>3 DEF Inv

LEMMA LookupAbortInv ==
  ASSUME Inv, NEW r \in Readers, LookupAbort(r)
  PROVE  Inv'
  <1>1. TypeOK'
    BY DEF Inv, TypeOK, LookupAbort, NotReading, rows
  <1>2. ReadingIsSettled'
    BY DEF Inv, TypeOK, ReadingIsSettled, LookupAbort, TooOld, NotReading, rows
  <1>3. ReplyIsFinal'
    BY DEF Inv, ReplyIsFinal, LookupAbort, rows
  <1> QED BY <1>1, <1>2, <1>3 DEF Inv

LEMMA SaveInv ==
  ASSUME Inv, NEW t \in Turns, NEW s \in Open \cup FinalStatus, NEW r \in Reply, Save(t, s, r)
  PROVE  Inv'
  <1>1. TypeOK'
    BY DEF Inv, TypeOK, Save, Reply
  <1>2. ReadingIsSettled'
    BY DEF Inv, TypeOK, ReadingIsSettled, Save, MaySave, TooOld, FinalStatus
  <1>3. ReplyIsFinal'
    BY DEF Inv, TypeOK, ReplyIsFinal, Save, MaySave, Completed, FinalStatus, Reply
  <1> QED BY <1>1, <1>2, <1>3 DEF Inv

LEMMA TickInv == Inv /\ Tick => Inv'
  BY DEF Inv, TypeOK, ReadingIsSettled, ReplyIsFinal, Tick, TooOld, rows

LEMMA NextInv == Inv /\ [Next]_vars => Inv'
  <1> SUFFICES ASSUME Inv, [Next]_vars PROVE Inv'
    OBVIOUS
  <1>1. ASSUME NEW i \in Ids, NEW p \in Payloads, NEW t \in Turns, ReserveFresh(i, p, t) PROVE Inv'
    BY <1>1, ReserveFreshInv
  <1>2. ASSUME NEW i \in Ids, NEW p \in Payloads, ReserveReplay(i, p) PROVE Inv'
    BY <1>2, ReserveReplayInv
  <1>3. ASSUME NEW r \in Readers, NEW t \in Turns, LookupRead(r, t) PROVE Inv'
    BY <1>3, LookupReadInv
  <1>4. ASSUME NEW r \in Readers, LookupExpire(r) PROVE Inv'
    BY <1>4, LookupExpireInv
  <1>5. ASSUME NEW r \in Readers, LookupAbort(r) PROVE Inv'
    BY <1>5, LookupAbortInv
  <1>6. ASSUME NEW t \in Turns, NEW s \in Open \cup FinalStatus, NEW r \in Reply, Save(t, s, r) PROVE Inv'
    BY <1>6, SaveInv
  <1>7. CASE Tick
    BY <1>7, TickInv
  <1>8. CASE UNCHANGED vars
    BY <1>8 DEF Inv, TypeOK, ReadingIsSettled, ReplyIsFinal, TooOld, vars
  <1> QED BY <1>1, <1>2, <1>3, <1>4, <1>5, <1>6, <1>7, <1>8 DEF Next

LEMMA StoreInvariant == Spec => []Inv
  BY InitInv, NextInv, PTL DEF Spec

\* Every state of the store is well typed, whatever the parameters.
THEOREM TypeCorrect == Spec => []TypeOK
  BY StoreInvariant, PTL DEF Inv

-----------------------------------------------------------------------------
\* A final outcome never changes: not by a save, and not by the snapshot a
\* lookup read in an earlier step and writes back (idempotency.py:90).
THEOREM OutcomesAreFinal == Spec => FinalIsForever
  <1>1. Inv /\ [Next]_vars
          => [\A t \in Turns : status[t] \in FinalStatus => status'[t] = status[t]]_vars
    <2> SUFFICES ASSUME Inv, Next,
                        NEW u \in Turns, status[u] \in FinalStatus
                 PROVE  status'[u] = status[u]
      OBVIOUS
    <2>1. ASSUME NEW i \in Ids, NEW p \in Payloads, NEW t \in Turns, ReserveFresh(i, p, t)
          PROVE  status'[u] = status[u]
      BY <2>1 DEF Inv, TypeOK, ReserveFresh, FinalStatus
    <2>2. ASSUME NEW r \in Readers, LookupExpire(r) PROVE status'[u] = status[u]
      BY <2>2, LookupExpireKeepsStatus
    <2>3. ASSUME NEW t \in Turns, NEW s \in Open \cup FinalStatus, NEW r \in Reply, Save(t, s, r)
          PROVE  status'[u] = status[u]
      BY <2>3 DEF Inv, TypeOK, Save, MaySave, FinalStatus
    <2> QED
      BY <2>1, <2>2, <2>3 DEF Next, ReserveReplay, LookupRead, LookupAbort, Tick, rows
  <1> QED
    BY <1>1, StoreInvariant, PTL DEF Spec, FinalIsForever

-----------------------------------------------------------------------------
\* Each step of the store is a step of ClaimTable or leaves its variables alone.
LEMMA StepRefines ==
  ASSUME Inv, [Next]_vars
  PROVE  [Table!Next]_(Table!vars)
  <1>1. ASSUME NEW i \in Ids, NEW p \in Payloads, NEW t \in Turns, ReserveFresh(i, p, t)
        PROVE  Table!Next
    <2>1. Table!Claim(i, p, t)
      BY <1>1 DEF ReserveFresh, Table!Claim
    <2> QED BY <2>1 DEF Table!Next
  <1>2. ASSUME NEW r \in Readers, LookupExpire(r)
        PROVE  UNCHANGED Table!vars
    BY <1>2, LookupExpireKeepsStatus DEF LookupExpire, Table!vars
  <1>3. ASSUME NEW t \in Turns, NEW s \in Open \cup FinalStatus, NEW r \in Reply, Save(t, s, r)
        PROVE  Table!Next
    <2>1. <<status[t], s>> \in Table!Follows
      BY <1>3 DEF Save, MaySave, Table!Follows, FinalStatus, Table!FinalStatus
    <2>2. Table!Record(t, s)
      BY <1>3, <2>1 DEF Save, Table!Record
    <2>3. s \in Table!Outcome
      BY DEF Table!Outcome, Open, FinalStatus, Table!FinalStatus
    <2> QED BY <2>2, <2>3 DEF Table!Next
  <1>4. ASSUME NEW i \in Ids, NEW p \in Payloads, ReserveReplay(i, p)
        PROVE  UNCHANGED Table!vars
    BY <1>4 DEF ReserveReplay, Table!vars
  <1>5. ASSUME NEW r \in Readers, LookupAbort(r) \/ \E t \in Turns : LookupRead(r, t)
        PROVE  UNCHANGED Table!vars
    BY <1>5 DEF LookupAbort, LookupRead, rows, Table!vars
  <1>6. CASE Tick \/ UNCHANGED vars
    BY <1>6 DEF Tick, rows, vars, Table!vars
  <1> QED
    BY <1>1, <1>2, <1>3, <1>4, <1>5, <1>6 DEF Next

\* The store implements ClaimTable: an identity is claimed by one turn and one
\* payload for good, and outcomes only move forward (idempotency.py:3-7).
THEOREM StoreKeepsItsPromise == Spec => KeepsItsPromise
  <1>1. Init => Table!Init
    BY DEF Init, Table!Init
  <1> QED
    BY <1>1, StoreInvariant, StepRefines, PTL DEF Spec, KeepsItsPromise, Table!Spec

-----------------------------------------------------------------------------
Bodies == {t \in Turns : reply[t] = "body"}

LEMMA InitBounded == Init => RepliesBounded
  <1> SUFFICES ASSUME Init PROVE RepliesBounded
    OBVIOUS
  <1>1. {t \in Turns : reply[t] = "body"} = {}
    BY DEF Init
  <1> QED
    BY <1>1, FS_EmptySet DEF RepliesBounded

\* After a save, every reply that is left belongs to one of the newest turns.
LEMMA SaveBounds ==
  ASSUME Inv, NEW t \in Turns, NEW s \in Open \cup FinalStatus, NEW r \in Reply, Save(t, s, r)
  PROVE  RepliesBounded'
  <1> DEFINE status1 == [status EXCEPT ![t] = s]
             updated1 == [updated EXCEPT ![t] = now]
  <1>1. PICK keep \in Newest(status1, updated1) :
          reply' = [u \in Turns |->
            IF u \in Completed(status1) /\ (u \notin keep \/ now - updated1[u] > ReplyTTL)
            THEN "expired"
            ELSE IF u = t THEN r ELSE reply[u]]
    BY DEF Save
  <1>2. ASSUME NEW u \in Turns, reply'[u] = "body" PROVE u \in keep
    <2>1. u \in Completed(status1)
      BY <1>1, <1>2 DEF Inv, TypeOK, ReplyIsFinal, Completed, Save, MaySave, FinalStatus
    <2> QED BY <1>1, <1>2, <2>1
  <1>3. keep \subseteq Turns /\ Cardinality(keep) <= MaxReplies
    BY DEF Newest, Completed
  <1>4. Bodies' \subseteq keep
    BY <1>2 DEF Bodies
  <1>5. IsFiniteSet(keep) /\ Cardinality(Bodies') <= Cardinality(keep)
    BY <1>3, <1>4, FS_Subset
  <1>6. Cardinality(keep) \in Nat /\ Cardinality(Bodies') \in Nat
    BY <1>4, <1>5, FS_Subset, FS_CardinalityType
  <1> QED
    BY <1>3, <1>5, <1>6 DEF RepliesBounded, Bodies

LEMMA NextBounded == Inv /\ RepliesBounded /\ [Next]_vars => RepliesBounded'
  <1> SUFFICES ASSUME Inv, RepliesBounded, [Next]_vars PROVE RepliesBounded'
    OBVIOUS
  <1>1. ASSUME Bodies' \subseteq Bodies PROVE RepliesBounded'
    <2>1. IsFiniteSet(Bodies)
      BY FS_Subset DEF Bodies
    <2>2. Cardinality(Bodies') <= Cardinality(Bodies)
      BY <1>1, <2>1, FS_Subset
    <2>3. Cardinality(Bodies) \in Nat /\ Cardinality(Bodies') \in Nat
      BY <1>1, <2>1, FS_Subset, FS_CardinalityType
    <2> QED BY <2>2, <2>3 DEF RepliesBounded, Bodies
  <1>2. ASSUME NEW t \in Turns, NEW s \in Open \cup FinalStatus, NEW r \in Reply, Save(t, s, r)
        PROVE  RepliesBounded'
    BY <1>2, SaveBounds
  <1>3. ASSUME NEW i \in Ids, NEW p \in Payloads, ReserveReplay(i, p)
        PROVE  Bodies' \subseteq Bodies
    BY <1>3 DEF Inv, TypeOK, ReserveReplay, Bodies
  <1>4. ASSUME NEW r \in Readers, LookupExpire(r) PROVE Bodies' \subseteq Bodies
    BY <1>4 DEF Inv, TypeOK, LookupExpire, Bodies
  <1>5. ASSUME UNCHANGED reply PROVE Bodies' \subseteq Bodies
    BY <1>5 DEF Bodies
  <1> QED
    BY <1>1, <1>2, <1>3, <1>4, <1>5
       DEF Next, ReserveFresh, LookupRead, LookupAbort, Tick, rows, vars

\* At most MaxReplies reply bodies are ever stored (idempotency.py:5).
THEOREM RepliesStayBounded == Spec => []RepliesBounded
  BY StoreInvariant, InitBounded, NextBounded, PTL DEF Spec

-----------------------------------------------------------------------------
\* The finished turns that are at least as new as t.
Newer(t) == {u \in Completed(status) : updated[u] >= updated[t]}

\* No row carries a time that is still to come.
NoFutureUpdate == \A t \in Turns : updated[t] <= now

LEMMA InitNoFuture == Init => NoFutureUpdate
  BY DEF Init, NoFutureUpdate

LEMMA NextNoFuture == Inv /\ NoFutureUpdate /\ [Next]_vars => NoFutureUpdate'
  <1> SUFFICES ASSUME Inv, NoFutureUpdate, [Next]_vars PROVE NoFutureUpdate'
    OBVIOUS
  <1>1. ASSUME NEW t \in Turns, now' = now, updated' = [updated EXCEPT ![t] = now]
        PROVE  NoFutureUpdate'
    BY <1>1 DEF Inv, TypeOK, NoFutureUpdate
  <1>2. ASSUME UNCHANGED updated, now' = now \/ now' = now + 1
        PROVE  NoFutureUpdate'
    BY <1>2 DEF Inv, TypeOK, NoFutureUpdate
  <1> QED
    BY <1>1, <1>2 DEF Next, vars, rows, ReserveFresh, ReserveReplay,
       LookupRead, LookupExpire, LookupAbort, Save, Tick

LEMMA NewerIsFinite ==
  ASSUME NEW t \in Turns
  PROVE  IsFiniteSet(Newer(t)) /\ Cardinality(Newer(t)) \in Nat
  <1>1. Newer(t) \subseteq Turns
    BY DEF Newer, Completed
  <1> QED BY <1>1, FS_Subset, FS_CardinalityType

\* A dropped reply stays accounted for while the newer turns only grow in number.
LEMMA StillAccounted ==
  ASSUME NEW v \in Turns,
         TooOld(v) => TooOld(v)',
         Newer(v) \subseteq Newer(v)',
         TooOld(v) \/ Cardinality(Newer(v)) > MaxReplies
  PROVE  (TooOld(v) \/ Cardinality(Newer(v)) > MaxReplies)'
  <1>1. CASE TooOld(v)
    BY <1>1
  <1>2. CASE Cardinality(Newer(v)) > MaxReplies
    <2>1. Newer(v)' \subseteq Turns
      BY DEF Newer, Completed
    <2>2. IsFiniteSet(Newer(v)') /\ Cardinality(Newer(v)') \in Nat
      BY <2>1, FS_Subset, FS_CardinalityType
    <2>3. Cardinality(Newer(v)) <= Cardinality(Newer(v)')
      BY <1>2, <2>2, FS_Subset
    <2> QED BY <1>2, <2>2, <2>3, NewerIsFinite
  <1> QED BY <1>1, <1>2

\* A save drops the reply of v: v is too old, or outside the newest ones.
LEMMA DroppedBySave ==
  ASSUME Inv, NEW t \in Turns, NEW s \in Open \cup FinalStatus, NEW r \in Reply, Save(t, s, r),
         NEW v \in Turns, reply'[v] = "expired", v = t \/ reply[v] # "expired"
  PROVE  (TooOld(v) \/ Cardinality(Newer(v)) > MaxReplies)'
  <1> DEFINE status1 == [status EXCEPT ![t] = s]
             updated1 == [updated EXCEPT ![t] = now]
  <1>1. PICK keep \in Newest(status1, updated1) :
          reply' = [u \in Turns |->
            IF u \in Completed(status1) /\ (u \notin keep \/ now - updated1[u] > ReplyTTL)
            THEN "expired"
            ELSE IF u = t THEN r ELSE reply[u]]
    BY DEF Save
  <1>2. r # "expired"
    BY DEF Save, MaySave
  <1>3. v \in Completed(status1) /\ (v \notin keep \/ now - updated1[v] > ReplyTTL)
    BY <1>1, <1>2
  <1>4. status' = status1 /\ updated' = updated1 /\ now' = now
    BY DEF Save
  <1>5. CASE now - updated1[v] > ReplyTTL
    BY <1>4, <1>5 DEF TooOld
  <1>6. CASE v \notin keep
    <2>1. /\ keep \subseteq Completed(status1)
          /\ Cardinality(keep) = MaxReplies
          /\ \A k \in keep : updated1[k] >= updated1[v]
      BY <1>3, <1>6 DEF Newest
    <2>2. updated1[v] >= updated1[v]
      BY DEF Inv, TypeOK
    <2>3. keep \cup {v} \subseteq Newer(v)'
      BY <1>3, <1>4, <2>1, <2>2 DEF Newer, Completed
    <2>4. Newer(v)' \subseteq Turns /\ keep \subseteq Turns
      BY <2>1 DEF Newer, Completed
    <2>5. IsFiniteSet(Newer(v)') /\ IsFiniteSet(keep)
      BY <2>4, FS_Subset
    <2>6. Cardinality(keep \cup {v}) = Cardinality(keep) + 1
      BY <1>6, <2>5, FS_AddElement
    <2>7. Cardinality(keep \cup {v}) <= Cardinality(Newer(v)')
      BY <2>3, <2>5, FS_Subset
    <2>8. Cardinality(Newer(v)') \in Nat
      BY <2>5, FS_CardinalityType
    <2> QED BY <2>1, <2>6, <2>7, <2>8
  <1> QED BY <1>3, <1>5, <1>6

LEMMA NextNotDroppedEarly ==
  Inv /\ NoFutureUpdate /\ NotDroppedEarly /\ [Next]_vars => NotDroppedEarly'
  <1> SUFFICES ASSUME Inv, NoFutureUpdate, NotDroppedEarly, [Next]_vars,
                      NEW v \in Turns, reply'[v] = "expired"
               PROVE  (TooOld(v) \/ Cardinality(Newer(v)) > MaxReplies)'
    BY DEF NotDroppedEarly, Newer
  <1>0. ASSUME reply[v] = "expired" PROVE TooOld(v) \/ Cardinality(Newer(v)) > MaxReplies
    BY <1>0 DEF NotDroppedEarly, Newer
  <1>1. ASSUME NEW i \in Ids, NEW p \in Payloads, NEW t \in Turns, ReserveFresh(i, p, t)
        PROVE  (TooOld(v) \/ Cardinality(Newer(v)) > MaxReplies)'
    <2>1. reply[v] = "expired" /\ v # t
      BY <1>1 DEF Inv, ReplyIsFinal, ReserveFresh, FinalStatus
    <2>2. TooOld(v) => TooOld(v)'
      BY <1>1, <2>1 DEF Inv, TypeOK, ReserveFresh, TooOld
    <2>3. Newer(v) \subseteq Newer(v)'
      BY <1>1, <2>1 DEF Inv, TypeOK, ReserveFresh, Newer, Completed, FinalStatus
    <2> QED BY <1>0, <2>1, <2>2, <2>3, StillAccounted
  <1>2. ASSUME NEW i \in Ids, NEW p \in Payloads, ReserveReplay(i, p)
        PROVE  (TooOld(v) \/ Cardinality(Newer(v)) > MaxReplies)'
    <2>1. TooOld(v) => TooOld(v)'
      BY <1>2 DEF ReserveReplay, TooOld
    <2>2. Newer(v)' = Newer(v)
      BY <1>2 DEF ReserveReplay, Newer, Completed
    <2>3. reply[v] = "expired" \/ TooOld(v)
      BY <1>2 DEF Inv, TypeOK, ReserveReplay, MustExpire
    <2> QED BY <1>0, <2>1, <2>2, <2>3, StillAccounted
  <1>3. ASSUME NEW r \in Readers, LookupExpire(r)
        PROVE  (TooOld(v) \/ Cardinality(Newer(v)) > MaxReplies)'
    <2>1. TooOld(v) => TooOld(v)'
      BY <1>3 DEF LookupExpire, TooOld
    <2>2. Newer(v)' = Newer(v)
      BY <1>3, LookupExpireKeepsStatus DEF LookupExpire, Newer, Completed
    <2>3. reply[v] = "expired" \/ TooOld(v)
      BY <1>3, LookupExpireKeepsStatus DEF Inv, TypeOK, LookupExpire
    <2> QED BY <1>0, <2>1, <2>2, <2>3, StillAccounted
  <1>4. ASSUME NEW t \in Turns, NEW s \in Open \cup FinalStatus, NEW r \in Reply, Save(t, s, r)
        PROVE  (TooOld(v) \/ Cardinality(Newer(v)) > MaxReplies)'
    <2>1. CASE v = t \/ reply[v] # "expired"
      BY <1>4, <2>1, DroppedBySave
    <2>2. CASE v # t /\ reply[v] = "expired"
      <3>1. TooOld(v) => TooOld(v)'
        BY <1>4, <2>2 DEF Inv, TypeOK, Save, TooOld
      <3>2. Newer(v) \subseteq Newer(v)'
        BY <1>4, <2>2 DEF Inv, TypeOK, NoFutureUpdate, Save, MaySave, Newer, Completed, FinalStatus
      <3> QED BY <1>0, <2>2, <3>1, <3>2, StillAccounted
    <2> QED BY <2>1, <2>2
  <1>5. CASE Tick
    <2>1. reply[v] = "expired"
      BY <1>5 DEF Tick, rows
    <2>2. TooOld(v) => TooOld(v)'
      BY <1>5 DEF Inv, TypeOK, Tick, rows, TooOld
    <2>3. Newer(v)' = Newer(v)
      BY <1>5 DEF Tick, rows, Newer, Completed
    <2> QED BY <1>0, <2>1, <2>2, <2>3, StillAccounted
  <1>6. ASSUME UNCHANGED vars \/ \E r \in Readers : LookupAbort(r) \/ \E t \in Turns : LookupRead(r, t)
        PROVE  (TooOld(v) \/ Cardinality(Newer(v)) > MaxReplies)'
    <2>1. UNCHANGED <<rows, now>>
      BY <1>6 DEF vars, rows, LookupAbort, LookupRead
    <2>2. reply[v] = "expired" /\ (TooOld(v) => TooOld(v)') /\ Newer(v)' = Newer(v)
      BY <2>1 DEF rows, TooOld, Newer, Completed
    <2> QED BY <1>0, <2>2, StillAccounted
  <1> QED
    BY <1>1, <1>2, <1>3, <1>4, <1>5, <1>6 DEF Next

\* A reply is dropped only past its TTL or behind MaxReplies newer completions
\* (idempotency.py:4-5), however retries, lookups and saves interleave.
THEOREM RepliesAreRetained == Spec => []NotDroppedEarly
  <1>1. Init => NotDroppedEarly
    BY DEF Init, NotDroppedEarly
  <1> QED
    BY <1>1, StoreInvariant, InitNoFuture, NextNoFuture, NextNotDroppedEarly, PTL DEF Spec
=============================================================================
