-------------------------- MODULE IdempotencyStore --------------------------
(***************************************************************************)
(* mintbot_mcp/idempotency.py: the SQLite table of chat claims.  reserve   *)
(* and save run inside BEGIN IMMEDIATE and are one step each; lookup reads *)
(* in autocommit mode and writes the row it read back in a second step, so *)
(* other connections (another handler, or the stdio process next to the    *)
(* HTTP daemon) may act in between.  Reply bodies are "none", "body" or    *)
(* "expired"; their text is left out.  A failing transaction changes       *)
(* nothing and is a stuttering step here (ChatService models its caller).  *)
(***************************************************************************)
EXTENDS Integers, FiniteSets

CONSTANTS
    Ids, Payloads, Turns, NoTurn, NoPayload,   \* as in ClaimTable
    Readers,     \* connections that may be inside lookup
    ReplyTTL,    \* REPLY_TTL, in clock ticks
    MaxReplies,  \* MAX_REPLIES
    MaxTime      \* bound of the model: the last clock tick

ASSUME StoreAssumption ==
    /\ NoTurn \notin Turns /\ NoPayload \notin Payloads
    /\ IsFiniteSet(Turns)
    /\ ReplyTTL \in Nat /\ MaxReplies \in Nat /\ MaxTime \in Nat

VARIABLES
    owner, fingerprint,  \* per identity: columns turn_id and fingerprint
    status, reply,       \* per turn: the two parts of column snapshot
    updated,             \* per turn: column updated
    now,                 \* time.time()
    reading              \* per reader: the row lookup holds between its steps

rows == <<owner, fingerprint, status, reply, updated>>
vars == <<owner, fingerprint, status, reply, updated, now, reading>>

FinalStatus == {"done", "error", "cancelled"}
Open == {"unknown", "running"}
Reply == {"none", "body", "expired"}
NotReading == [turn |-> NoTurn, status |-> "free"]

TypeOK ==
    /\ owner \in [Ids -> Turns \cup {NoTurn}]
    /\ fingerprint \in [Ids -> Payloads \cup {NoPayload}]
    /\ status \in [Turns -> {"free"} \cup Open \cup FinalStatus]
    /\ reply \in [Turns -> Reply]
    /\ updated \in [Turns -> Nat]
    /\ now \in Nat
    /\ reading \in [Readers ->
          [turn : Turns \cup {NoTurn}, status : {"free"} \cup Open \cup FinalStatus]]

Init ==
    /\ owner = [i \in Ids |-> NoTurn]
    /\ fingerprint = [i \in Ids |-> NoPayload]
    /\ status = [t \in Turns |-> "free"]
    /\ reply = [t \in Turns |-> "none"]
    /\ updated = [t \in Turns |-> 0]
    /\ now = 0
    /\ reading = [r \in Readers |-> NotReading]

\* Mutant of Completed: a save that only counts turns that ended well.
CompletedDoneOnly(st) == {t \in Turns : st[t] = "done"}
Completed(st) == {t \in Turns : st[t] \in FinalStatus}

TooOld(t) == now - updated[t] > ReplyTTL

\* Mutants of MustExpire: the age is not compared; an open claim is not exempt.
MustExpireAnyAge(t) == status[t] \in FinalStatus
MustExpireOpen(t) == status[t] # "free" /\ TooOld(t)
MustExpire(t) == status[t] \in FinalStatus /\ TooOld(t)

-----------------------------------------------------------------------------
\* Mutant of ReserveFresh: INSERT OR REPLACE, an existing claim is no obstacle.
ReserveFreshReplacing(i, p, t) ==
    /\ status[t] = "free"
    /\ owner' = [owner EXCEPT ![i] = t]
    /\ fingerprint' = [fingerprint EXCEPT ![i] = p]
    /\ status' = [status EXCEPT ![t] = "unknown"]
    /\ updated' = [updated EXCEPT ![t] = now]
    /\ UNCHANGED <<reply, now, reading>>

\* reserve, no row yet: INSERT a claim of unknown outcome under a new uuid.
ReserveFresh(i, p, t) ==
    /\ owner[i] = NoTurn
    /\ status[t] = "free"
    /\ owner' = [owner EXCEPT ![i] = t]
    /\ fingerprint' = [fingerprint EXCEPT ![i] = p]
    /\ status' = [status EXCEPT ![t] = "unknown"]
    /\ updated' = [updated EXCEPT ![t] = now]
    /\ UNCHANGED <<reply, now, reading>>

\* reserve, the row exists with the same fingerprint: a reply past its TTL is
\* dropped before the snapshot is returned.  (Another fingerprint, or a reply
\* that is still young, leaves the table as it is.)
ReserveReplay(i, p) ==
    /\ owner[i] # NoTurn
    /\ fingerprint[i] = p
    /\ MustExpire(owner[i])
    /\ reply' = [reply EXCEPT ![owner[i]] = "expired"]
    /\ UNCHANGED <<owner, fingerprint, status, updated, now, reading>>

\* lookup, first step: SELECT the row; only a final and old one is rewritten.
LookupRead(r, t) ==
    /\ reading[r] = NotReading
    /\ MustExpire(t)
    /\ reading' = [reading EXCEPT ![r] = [turn |-> t, status |-> status[t]]]
    /\ UNCHANGED <<rows, now>>

\* lookup, second step: UPDATE the row with the snapshot read before, less its
\* reply.  The whole snapshot is written, its status included.
LookupExpire(r) ==
    /\ reading[r] # NotReading
    /\ LET t == reading[r].turn IN
         /\ status' = [status EXCEPT ![t] = reading[r].status]
         /\ reply' = [reply EXCEPT ![t] = "expired"]
    /\ reading' = [reading EXCEPT ![r] = NotReading]
    /\ UNCHANGED <<owner, fingerprint, updated, now>>

\* The reader's UPDATE fails (database is locked) or its process dies.
LookupAbort(r) ==
    /\ reading[r] # NotReading
    /\ reading' = [reading EXCEPT ![r] = NotReading]
    /\ UNCHANGED <<rows, now>>

\* The first turns of SELECT ... ORDER BY updated DESC among the completed
\* ones: at most MaxReplies, none older than one left out; ties are arbitrary.
Newest(st, upd) ==
    {K \in SUBSET Completed(st) :
        /\ \/ K = Completed(st) /\ Cardinality(K) <= MaxReplies
           \/ Cardinality(K) = MaxReplies
        /\ \A k \in K, o \in Completed(st) \ K : upd[k] >= upd[o]}

\* The callers' use of save: TurnRegistry.start records "running", Turn.finish
\* records the end of a running turn with what was streamed, chat_send records
\* a refused request (no reply), and the pump of a cancelled turn records
\* "cancelled" again, which takes it less than ReplyTTL.
MaySave(t, s, r) ==
    \/ status[t] = "unknown" /\ s \in {"running", "error"} /\ r = "none"
    \/ status[t] = "running" /\ s \in FinalStatus /\ r = "body"
    \/ status[t] = "cancelled" /\ ~TooOld(t) /\ s = "cancelled" /\ r = "body"

\* save: UPDATE the row, then drop every reply beyond the newest MaxReplies
\* and every reply past its TTL, in one transaction.
Save(t, s, r) ==
    LET status1 == [status EXCEPT ![t] = s]
        updated1 == [updated EXCEPT ![t] = now]
    IN  /\ MaySave(t, s, r)
        /\ status' = status1
        /\ updated' = updated1
        /\ \E keep \in Newest(status1, updated1) :
             reply' = [u \in Turns |->
               IF u \in Completed(status1) /\ (u \notin keep \/ now - updated1[u] > ReplyTTL)
               THEN "expired"
               ELSE IF u = t THEN r ELSE reply[u]]
        /\ UNCHANGED <<owner, fingerprint, now, reading>>

Tick == now < MaxTime /\ now' = now + 1 /\ UNCHANGED <<rows, reading>>

Next ==
    \/ \E i \in Ids, p \in Payloads, t \in Turns : ReserveFresh(i, p, t)
    \/ \E i \in Ids, p \in Payloads : ReserveReplay(i, p)
    \/ \E r \in Readers, t \in Turns : LookupRead(r, t)
    \/ \E r \in Readers : LookupExpire(r) \/ LookupAbort(r)
    \/ \E t \in Turns, s \in Open \cup FinalStatus, r \in Reply : Save(t, s, r)
    \/ Tick

Spec == Init /\ [][Next]_vars

-----------------------------------------------------------------------------
\* "At most 32 completed replies" (idempotency.py:5): however saves, retries
\* and lookups interleave, no more than MaxReplies bodies are stored.
RepliesBounded == Cardinality({t \in Turns : reply[t] = "body"}) <= MaxReplies

\* "Reply bodies are retained for 15 minutes, at most 32" (idempotency.py:4):
\* a reply is gone only once it is older than ReplyTTL or MaxReplies other
\* completions are at least as new.  No retry, lookup or save drops one early.
NotDroppedEarly ==
    \A t \in Turns : reply[t] = "expired" =>
        \/ TooOld(t)
        \/ Cardinality({u \in Completed(status) : updated[u] >= updated[t]}) > MaxReplies

\* lookup writes back a snapshot read in an earlier step (idempotency.py:79-91):
\* that write, or any other, never changes the outcome of a turn that is over.
FinalIsForever ==
    [][\A t \in Turns : status[t] \in FinalStatus => status'[t] = status[t]]_vars

\* The table keeps its promise: identities are claimed once and for good.
Table == INSTANCE ClaimTable WITH outcome <- status
KeepsItsPromise == Table!Spec
=============================================================================
