-------------------------- MODULE HttpAccessProofs --------------------------
(***************************************************************************)
(* The safety of HttpAccess for any credentials, sessions and requests.    *)
(***************************************************************************)
EXTENDS HttpAccess, TLAPS

\* A session is bound to nobody but the credential that initialised it.
BoundOK ==
    /\ \A s \in Sessions : bound[s] # NoCred => bound[s] = creator[s]
    /\ \A s \in open : creator[s] # NoCred

\* A request inside the gate speaks in a session of its own credential, which
\* was not revoked when it came.
RequestsOK ==
    \A r \in Requests :
        /\ at[r] \in {"admitted", "noticing", "running", "result"} =>
             /\ session[r] # NoSession => creator[session[r]] = cred[r]
             /\ cred[r] # Owner => cred[r] \notin stale[r]
        /\ at[r] \in {"running", "result"} => Allows(cred[r], tool[r])
        /\ at[r] = "result" /\ cred[r] # Owner => answeredAt[r] < expiresAt[cred[r]]

Inv == TypeOK /\ BoundOK /\ RequestsOK

USE AccessAssumption

LEMMA InitInv == Init => Inv
  <1> SUFFICES ASSUME Init PROVE Inv
    OBVIOUS
  <1>1. TypeOK
    BY DEF Init, TypeOK
  <1>2. BoundOK /\ RequestsOK
    BY DEF Init, BoundOK, RequestsOK
  <1> QED BY <1>1, <1>2 DEF Inv

LEMMA RejectInv ==
  ASSUME Inv, NEW r \in Requests, NEW c \in Creds, NEW s \in Sessions \cup {NoSession}, Reject(r, c, s)
  PROVE  Inv'
  <1>1. TypeOK'
    BY DEF Inv, TypeOK, Reject, Arrive, Answer, Creds
  <1>2. BoundOK'
    BY DEF Inv, BoundOK, Reject, Arrive
  <1>3. RequestsOK'
    BY DEF Inv, TypeOK, RequestsOK, Reject, Arrive, Answer, Allows
  <1> QED BY <1>1, <1>2, <1>3 DEF Inv

LEMMA AdmitInv ==
  ASSUME Inv, NEW r \in Requests, NEW c \in Creds, NEW s \in Sessions \cup {NoSession}, Admit(r, c, s)
  PROVE  Inv'
  <1>0. /\ s # NoSession => creator[s] = c
        /\ c # Owner => c \notin revoked
    BY DEF Inv, BoundOK, Admit, Authentic, Creds
  <1>1. TypeOK'
    BY DEF Inv, TypeOK, Admit, Arrive, Creds
  <1>2. BoundOK'
    BY DEF Inv, BoundOK, Admit, Arrive
  <1>3. RequestsOK'
    BY <1>0 DEF Inv, TypeOK, RequestsOK, Admit, Arrive, Allows
  <1> QED BY <1>1, <1>2, <1>3 DEF Inv

LEMMA InitializeInv ==
  ASSUME Inv, NEW r \in Requests, NEW s \in Sessions, Initialize(r, s)
  PROVE  Inv'
  <1>0. cred[r] \in Creds /\ cred[r] # NoCred /\ bound[s] = NoCred
    BY DEF Inv, TypeOK, BoundOK, Initialize, Creds
  <1>1. TypeOK'
    BY <1>0 DEF Inv, TypeOK, Initialize, Creds
  <1>2. BoundOK'
    BY <1>0 DEF Inv, TypeOK, BoundOK, Initialize
  <1>3. RequestsOK'
    <2> SUFFICES ASSUME NEW q \in Requests
                 PROVE (/\ at[q] \in {"admitted", "noticing", "running", "result"} =>
                             /\ session[q] # NoSession => creator[session[q]] = cred[q]
                             /\ cred[q] # Owner => cred[q] \notin stale[q]
                        /\ at[q] \in {"running", "result"} => Allows(cred[q], tool[q])
                        /\ at[q] = "result" /\ cred[q] # Owner => answeredAt[q] < expiresAt[cred[q]])'
      BY DEF RequestsOK
    <2>1. CASE q = r
      BY <1>0, <2>1 DEF Inv, TypeOK, RequestsOK, Initialize
    <2>2. CASE q # r
      <3>1. /\ at'[q] = at[q] /\ session'[q] = session[q] /\ cred'[q] = cred[q] /\ stale'[q] = stale[q]
            /\ tool'[q] = tool[q] /\ answeredAt'[q] = answeredAt[q]
        BY <2>2 DEF Inv, TypeOK, Initialize
      <3>2. ASSUME at[q] \in {"admitted", "noticing", "running", "result"}, session[q] # NoSession
            PROVE  creator'[session[q]] = cred[q]
        <4>1. creator[session[q]] = cred[q] /\ session[q] \in Sessions
          BY <3>2 DEF Inv, TypeOK, RequestsOK
        <4>2. cred[q] # NoCred
          BY <3>2 DEF Inv, TypeOK, Creds
        <4>3. session[q] # s
          BY <4>1, <4>2 DEF Initialize
        <4> QED BY <4>1, <4>3 DEF Inv, TypeOK, Initialize
      <3> QED BY <3>1, <3>2 DEF Inv, RequestsOK, Allows
    <2> QED BY <2>1, <2>2
  <1> QED BY <1>1, <1>2, <1>3 DEF Inv

\* A response binds its session to the credential that has it already.
LEMMA RespondInv ==
  ASSUME Inv, NEW r \in Requests, Bind(r) \/ NoticeEnds(r) \/ Forbid(r) \/ Run(r)
  PROVE  Inv'
  <1>0. /\ session[r] \in Sessions /\ cred[r] \in Creds /\ cred[r] # NoCred
        /\ creator[session[r]] = cred[r] /\ at[r] \in {"noticing", "admitted"}
    BY DEF Inv, TypeOK, RequestsOK, Bind, NoticeEnds, Forbid, Run, Creds
  <1>1. TypeOK'
    BY <1>0 DEF Inv, TypeOK, Bind, NoticeEnds, Forbid, Run, Respond, Answer, asked
  <1>2. BoundOK'
    BY <1>0 DEF Inv, TypeOK, BoundOK, Bind, NoticeEnds, Forbid, Run, Respond
  <1>3. RequestsOK'
    BY <1>0 DEF Inv, TypeOK, RequestsOK, Bind, NoticeEnds, Forbid, Run, Answer, asked, Allows
  <1> QED BY <1>1, <1>2, <1>3 DEF Inv

LEMMA AnswerInv ==
  ASSUME Inv, NEW r \in Requests, NotFound(r) \/ Finish(r)
  PROVE  Inv'
  <1>1. TypeOK'
    BY DEF Inv, TypeOK, NotFound, Finish, Answer, asked
  <1>2. BoundOK'
    BY DEF Inv, BoundOK, NotFound, Finish
  <1>3. at'[r] = "result" /\ cred[r] # Owner => answeredAt'[r] < expiresAt[cred[r]]
    <2>1. ASSUME at'[r] = "result", cred[r] # Owner
          PROVE  Finish(r) /\ ~Expired(cred[r]) /\ cred[r] \in Grants
      BY <2>1 DEF Inv, TypeOK, NotFound, Finish, Answer, Creds
    <2> QED BY <2>1 DEF Inv, TypeOK, Finish, Answer, Expired
  <1>4. RequestsOK'
    BY <1>3 DEF Inv, TypeOK, RequestsOK, NotFound, Finish, Answer, asked, Allows
  <1> QED BY <1>1, <1>2, <1>4 DEF Inv

LEMMA WorldInv ==
  ASSUME Inv, \/ \E g \in Grants : Revoke(g)
              \/ \E s \in Sessions : CloseSession(s)
              \/ Restart \/ Tick \/ UNCHANGED vars
  PROVE  Inv'
  <1>1. TypeOK'
    BY DEF Inv, TypeOK, Revoke, CloseSession, Restart, Tick, asked, vars
  <1>2. BoundOK'
    BY DEF Inv, TypeOK, BoundOK, Revoke, CloseSession, Restart, Tick, asked, vars
  <1>3. RequestsOK'
    BY DEF Inv, TypeOK, RequestsOK, Revoke, CloseSession, Restart, Tick, asked, vars, Allows
  <1> QED BY <1>1, <1>2, <1>3 DEF Inv

LEMMA NextInv == Inv /\ [Next]_vars => Inv'
  BY RejectInv, AdmitInv, InitializeInv, RespondInv, AnswerInv, WorldInv DEF Next, NoticeTimesOut

LEMMA AccessInvariant == Spec => []Inv
  BY InitInv, NextInv, PTL DEF Spec

\* Every reachable state is well typed.
THEOREM TypeCorrect == Spec => []TypeOK
  BY AccessInvariant, PTL DEF Inv

\* A session serves only the credential that initialised it, whatever ends,
\* restarts or is revoked meanwhile (auth.py:61-76).
THEOREM IdentityIsKept == Spec => []SessionKeepsIdentity
  <1>1. Inv => SessionKeepsIdentity
    BY DEF Inv, TypeOK, RequestsOK, SessionKeepsIdentity
  <1> QED BY <1>1, AccessInvariant, PTL

\* No result leaves for a grant that lacks the tool, was revoked before the
\* request or has expired (app.py:44-56, server.py:129-136).
THEOREM ResultsNeedGrants == Spec => []ResultsAreGranted
  <1>1. Inv => ResultsAreGranted
    BY DEF Inv, RequestsOK, ResultsAreGranted, Allows
  <1> QED BY <1>1, AccessInvariant, PTL
=============================================================================
