----------------------------- MODULE HttpAccess -----------------------------
(***************************************************************************)
(* One HTTP request on its way to a tool: BearerAuth (auth.py) finds the   *)
(* credential and ties MCP sessions to it, the SDK dispatches it in the    *)
(* session, AccessMiddleware (app.py) authorises the call and _guarded     *)
(* (server.py) checks the expiry before and after the tool.  Grants are    *)
(* revoked and expire, time passes and the daemon restarts in between.     *)
(* Grants are read as GrantStore shows they are: a revocation that was     *)
(* reported is seen.  Requests for which nothing is checked after the      *)
(* dispatch, such as tools/list, are left out.                             *)
(***************************************************************************)
EXTENDS Naturals

CONSTANTS
    Grants, Owner,       \* credentials: grants and the owner token
    Tools,               \* what a request may ask for
    OwnerOnly,           \* OWNER_ONLY
    granted,             \* granted[g]: Principal.allowed_tools (within PROJECT_TOOLS
                         \* if g is confined to projects)
    expiresAt,           \* expiresAt[g]: Principal.expires_at
    Sessions,            \* mcp-session-id values the SDK may draw, each once
    Requests,
    NoCred, NoSession,
    NoticeTimeout,       \* the 3 seconds of the connection notice
    MaxTime              \* bound of the model: the last clock tick

Creds == Grants \cup {Owner}

ASSUME AccessAssumption ==
    /\ Owner \notin Grants /\ NoCred \notin Creds /\ NoSession \notin Sessions
    /\ OwnerOnly \subseteq Tools
    /\ granted \in [Grants -> SUBSET Tools]
    /\ expiresAt \in [Grants -> Nat]
    /\ NoticeTimeout \in Nat /\ MaxTime \in Nat

VARIABLES
    now,
    revoked,    \* grants revoked in the file
    bound,      \* BearerAuth._sessions
    open,       \* sessions the SDK knows
    creator,    \* per session: the credential that initialised it
    at,         \* per request: where it is
    cred, session, tool, \* per request: what it presents
    stale,      \* per request: the grants revoked before it arrived
    due,        \* per request: when its notice times out
    answeredAt  \* per request: when it was answered

asked == <<cred, session, tool, stale>>
vars == <<now, revoked, bound, open, creator, at, asked, due, answeredAt>>

TypeOK ==
    /\ now \in Nat
    /\ revoked \subseteq Grants
    /\ bound \in [Sessions -> Creds \cup {NoCred}]
    /\ open \subseteq Sessions
    /\ creator \in [Sessions -> Creds \cup {NoCred}]
    /\ at \in [Requests -> {"idle", "admitted", "noticing", "running",
                            "initialized", "result", "refused", "lost"}]
    /\ cred \in [Requests -> Creds \cup {NoCred}]
    /\ session \in [Requests -> Sessions \cup {NoSession}]
    /\ tool \in [Requests -> Tools]
    /\ stale \in [Requests -> SUBSET Grants]
    /\ due \in [Requests -> Nat]
    /\ answeredAt \in [Requests -> Nat]
    /\ \A r \in Requests : /\ at[r] # "idle" => cred[r] \in Creds
                           /\ at[r] \in {"noticing", "running", "result"} => session[r] \in Sessions

Init ==
    /\ now = 0 /\ revoked = {}
    /\ bound = [s \in Sessions |-> NoCred]
    /\ open = {}
    /\ creator = [s \in Sessions |-> NoCred]
    /\ at = [r \in Requests |-> "idle"]
    /\ cred = [r \in Requests |-> NoCred]
    /\ session = [r \in Requests |-> NoSession]
    /\ tool \in [Requests -> Tools]
    /\ stale = [r \in Requests |-> {}]
    /\ due = [r \in Requests |-> 0]
    /\ answeredAt = [r \in Requests |-> 0]

-----------------------------------------------------------------------------
Expired(c) == c \in Grants /\ now >= expiresAt[c]

\* GrantStore.authenticate, or the owner token
Authentic(c) == c = Owner \/ (c \in Grants \ revoked /\ ~Expired(c))

\* Principal.allows_tool
Allows(c, t) == c # Owner => t \in granted[c] \ OwnerOnly

Answer(r, a) ==
    /\ at' = [at EXCEPT ![r] = a]
    /\ answeredAt' = [answeredAt EXCEPT ![r] = now]

Arrive(r, c, s) ==
    /\ at[r] = "idle"
    /\ cred' = [cred EXCEPT ![r] = c]
    /\ session' = [session EXCEPT ![r] = s]
    /\ stale' = [stale EXCEPT ![r] = revoked]
    /\ UNCHANGED <<now, revoked, bound, open, creator, tool, due>>

\* 401: no such credential any more; 403: the session is another's or unknown.
Reject(r, c, s) ==
    /\ ~Authentic(c) \/ ~(s # NoSession => bound[s] = c)
    /\ Arrive(r, c, s)
    /\ Answer(r, "refused")

\* Mutant of Admit: the session is not looked up.
AdmitAnySession(r, c, s) ==
    /\ Authentic(c)
    /\ Arrive(r, c, s)
    /\ at' = [at EXCEPT ![r] = "admitted"]
    /\ UNCHANGED answeredAt
Admit(r, c, s) ==
    /\ Authentic(c) /\ (s # NoSession => bound[s] = c)
    /\ Arrive(r, c, s)
    /\ at' = [at EXCEPT ![r] = "admitted"]
    /\ UNCHANGED answeredAt

\* The SDK opens a session for an initialize without one; the notice goes out.
Initialize(r, s) ==
    /\ at[r] = "admitted" /\ session[r] = NoSession
    /\ now + NoticeTimeout <= MaxTime  \* bound of the model
    /\ s \notin open /\ creator[s] = NoCred
    /\ open' = open \cup {s}
    /\ creator' = [creator EXCEPT ![s] = cred[r]]
    /\ session' = [session EXCEPT ![r] = s]
    /\ at' = [at EXCEPT ![r] = "noticing"]
    /\ due' = [due EXCEPT ![r] = now + NoticeTimeout]
    /\ UNCHANGED <<now, revoked, bound, cred, tool, stale, answeredAt>>

\* bound_send: a response that starts with the session's id binds it.
Respond(r) == bound' = [bound EXCEPT ![session[r]] = cred[r]]

\* The response to initialize may start before the notice is through.
Bind(r) ==
    /\ at[r] = "noticing" /\ bound[session[r]] # cred[r]
    /\ Respond(r)
    /\ UNCHANGED <<now, revoked, open, creator, at, asked, due, answeredAt>>

\* The notice is delivered or fails, or wait_for gives it up.
NoticeEnds(r) ==
    /\ at[r] = "noticing"
    /\ Answer(r, "initialized") /\ Respond(r)
    /\ UNCHANGED <<now, revoked, open, creator, asked, due>>

\* Mutant of TimedOut: there is no timeout.
TimedOutNever(r) == FALSE
TimedOut(r) == now >= due[r]
NoticeTimesOut(r) == TimedOut(r) /\ NoticeEnds(r)

\* The SDK finds no session: nothing is bound.
NotFound(r) ==
    /\ at[r] = "admitted" /\ session[r] \notin open
    /\ Answer(r, "refused")
    /\ UNCHANGED <<now, revoked, bound, open, creator, asked, due>>

\* AccessMiddleware or _guarded refuse the call.
Forbid(r) ==
    /\ at[r] = "admitted" /\ session[r] \in open
    /\ ~Allows(cred[r], tool[r]) \/ Expired(cred[r])
    /\ Answer(r, "refused") /\ Respond(r)
    /\ UNCHANGED <<now, revoked, open, creator, asked, due>>

\* The tool runs as the credential of its own request.
Run(r) ==
    /\ at[r] = "admitted" /\ session[r] \in open
    /\ Allows(cred[r], tool[r]) /\ ~Expired(cred[r])
    /\ at' = [at EXCEPT ![r] = "running"] /\ Respond(r)
    /\ UNCHANGED <<now, revoked, open, creator, asked, due, answeredAt>>

\* The tool returns; its result is withheld if the credential expired meanwhile.
\* Mutant of Finish: the second look at the clock is left out.
FinishAnyway(r) ==
    /\ at[r] = "running"
    /\ Answer(r, "result")
    /\ UNCHANGED <<now, revoked, bound, open, creator, asked, due>>
Finish(r) ==
    /\ at[r] = "running"
    /\ Answer(r, IF Expired(cred[r]) THEN "refused" ELSE "result")
    /\ UNCHANGED <<now, revoked, bound, open, creator, asked, due>>

Revoke(g) ==
    /\ revoked' = revoked \cup {g}
    /\ UNCHANGED <<now, bound, open, creator, at, asked, due, answeredAt>>

\* A client ends its session, or the SDK does; BearerAuth keeps its binding.
CloseSession(s) ==
    /\ open' = open \ {s}
    /\ UNCHANGED <<now, revoked, bound, creator, at, asked, due, answeredAt>>

\* The daemon restarts: sessions, bindings and requests are gone.
Restart ==
    /\ bound' = [s \in Sessions |-> NoCred]
    /\ open' = {}
    /\ at' = [r \in Requests |->
               IF at[r] \in {"admitted", "noticing", "running"} THEN "lost" ELSE at[r]]
    /\ UNCHANGED <<now, revoked, creator, asked, due, answeredAt>>

Tick ==
    /\ now < MaxTime /\ now' = now + 1
    /\ UNCHANGED <<revoked, bound, open, creator, at, asked, due, answeredAt>>

Next ==
    \/ \E r \in Requests, c \in Creds, s \in Sessions \cup {NoSession} :
         Reject(r, c, s) \/ Admit(r, c, s)
    \/ \E r \in Requests, s \in Sessions : Initialize(r, s)
    \/ \E r \in Requests : \/ Bind(r) \/ NoticeEnds(r) \/ NoticeTimesOut(r)
                           \/ NotFound(r) \/ Forbid(r) \/ Run(r) \/ Finish(r)
    \/ \E g \in Grants : Revoke(g)
    \/ \E s \in Sessions : CloseSession(s)
    \/ Restart \/ Tick

Spec == Init /\ [][Next]_vars

\* Timers fire and time passes; the companion that takes notices may be silent.
FairSpec == Spec /\ WF_vars(Tick) /\ \A r \in Requests : WF_vars(NoticeTimesOut(r))

-----------------------------------------------------------------------------
\* "Existing MCP transport sessions cannot switch bearer identity"
\* (docs/access.md): a call that runs in a session comes from the credential
\* that initialised it, through restarts and sessions that end.
SessionKeepsIdentity ==
    \A r \in Requests : at[r] \in {"running", "result"} => creator[session[r]] = cred[r]

\* A result goes only to a credential that was allowed the tool, was not revoked
\* when it asked and has not expired when it is answered (docs/access.md:
\* "Expired/revoked credentials are rejected even on an already initialized
\* session"; server.py:131-136 for calls that outlive their grant).
ResultsAreGranted ==
    \A r \in Requests : at[r] = "result" /\ cred[r] # Owner =>
        /\ tool[r] \in granted[cred[r]] \ OwnerOnly
        /\ cred[r] \notin stale[r]
        /\ answeredAt[r] < expiresAt[cred[r]]

\* "A failed notice does not block the MCP request" (README.md): initialize is
\* answered though the companion never is, unless the daemon goes down.
InitializeAnswered ==
    \A r \in Requests : at[r] = "noticing" ~> at[r] \in {"initialized", "lost"}
=============================================================================
