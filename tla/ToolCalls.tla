------------------------------ MODULE ToolCalls ------------------------------
(***************************************************************************)
(* Tool calls over the backend clients: server.py's tools (chat_wait and   *)
(* chat_cancel apart) with backends.py and config.py:local_key, while the  *)
(* platform rotates the local identity and other calls change the agent.   *)
(* A call makes its requests in stages; those of one stage go out together *)
(* (asyncio.gather).  A request reads the identity and goes out, is        *)
(* handled by the backend, and is answered at once or piece by piece,      *)
(* refused or given up.                                                    *)
(***************************************************************************)
EXTENDS ToolTable, SessionPages

CONSTANTS
    Calls, Scenes,    \* what the calls are: per call a row of the table and a caller
    Owner, Grants,
    Unscoped,         \* grants without a list of projects
    Allowed, Scope,   \* per grant: tool names; projects
    Temporary,        \* grants that may expire
    None,             \* no session, no project
    main,             \* the project of a new session
    Limits, Offsets,  \* of chat_sessions
    Keys, FirstKey, NoKey

Principals == Grants \cup {Owner}
NoTool == [name |-> "none", to |-> "none", changes |-> FALSE]
Sections == {"hermes", "settings", "central"}
UpdateParts == {"preferences", "state"}
Names == Projects \cup {All} \cup Sections \cup UpdateParts \cup {"only"}
Args == [session : Sessions \cup {None}, project : Projects \cup {None},
         limit : Limits, offset : Offsets, flag : BOOLEAN, valid : BOOLEAN]
NoArgs == [session |-> None, project |-> None, limit |-> 2, offset |-> 1,
           flag |-> FALSE, valid |-> TRUE]

ASSUME CallsAssumption ==
    /\ Owner \notin Grants
    /\ Scenes \subseteq [Calls -> (Tools \cup {NoTool}) \X Principals]
    /\ Allowed \in [Grants -> SUBSET ToolNames]
    /\ Scope \in [Grants -> SUBSET Projects]
    /\ Unscoped \subseteq Grants /\ Temporary \subseteq Grants
    /\ None \notin Sessions \cup Projects /\ main \in Projects
    /\ Limits \subseteq Int /\ Offsets \subseteq Int /\ NoArgs \in Args
    /\ FirstKey \in Keys /\ NoKey \notin Keys

VARIABLES
    idFile,      \* local_credentials.json
    accepted,    \* the key that the backends accept
    retired,     \* the keys that they accepted before
    expired,     \* grants
    sessions,    \* of the agent
    persona,     \* the overlay: a paragraph is named by the call that wrote it
    at,          \* per call: "idle", a stage, "answered"
    tool, who, arg,
    req,         \* per call and request of its stage: how far it is
    key,         \* per call and request: the key it carries
    rows, more,  \* chat_sessions: what the replies held
    overlay,     \* persona_set: the overlay it read
    answer,
    changed,     \* history: calls whose last request was carried out
    disturbed,   \* history: calls during or after which another changed the agent
    stood        \* history: per call, the overlay when it began

identity == <<idFile, accepted, retired>>
agent == <<sessions, persona, changed, disturbed>>
call == <<tool, who, arg, stood>>
got == <<rows, more, overlay>>
vars == <<identity, expired, agent, at, call, req, key, got, answer>>

Stages == {"context", "read", "act"}
ReqState == {"none", "todo", "sent", "arriving", "ok", "failed", "lost"}

TypeOK ==
    /\ idFile \in [current : Keys, pending : Keys \cup {NoKey}, activated : BOOLEAN]
    /\ accepted \in Keys /\ retired \subseteq Keys
    /\ expired \subseteq Grants
    /\ sessions \subseteq Sessions /\ persona \subseteq Calls
    /\ changed \subseteq Calls /\ disturbed \subseteq Calls
    /\ at \in [Calls -> Stages \cup {"idle", "answered"}]
    /\ tool \in [Calls -> Tools \cup {NoTool}]
    /\ who \in [Calls -> Principals]
    /\ arg \in [Calls -> Args]
    /\ stood \in [Calls -> SUBSET Calls]
    /\ req \in [Calls -> [Names -> ReqState]]
    /\ key \in [Calls -> [Names -> Keys \cup {NoKey}]]
    /\ rows \in [Calls -> SUBSET Sessions] /\ more \in [Calls -> BOOLEAN]
    /\ overlay \in [Calls -> SUBSET Calls]
    /\ answer \in [Calls -> {"none", "ok", "denied", "error"}]

Init ==
    /\ idFile = [current |-> FirstKey, pending |-> NoKey, activated |-> FALSE]
    /\ accepted = FirstKey /\ retired = {}
    /\ expired = {}
    /\ sessions = Sessions /\ persona = {} /\ changed = {} /\ disturbed = {}
    /\ at = [c \in Calls |-> "idle"]
    /\ \E scene \in Scenes : /\ tool = [c \in Calls |-> scene[c][1]]
                             /\ who = [c \in Calls |-> scene[c][2]]
    /\ arg = [c \in Calls |-> NoArgs]
    /\ stood = [c \in Calls |-> {}]
    /\ req = [c \in Calls |-> [r \in Names |-> "none"]]
    /\ key = [c \in Calls |-> [r \in Names |-> NoKey]]
    /\ rows = [c \in Calls |-> {}] /\ more = [c \in Calls |-> FALSE]
    /\ overlay = [c \in Calls |-> {}]
    /\ answer = [c \in Calls |-> "none"]

-----------------------------------------------------------------------------
\* Principal.project_restricted, allows_tool and require_project.
Restricted(w) == w \in Grants \ Unscoped

AllowsTool(w, name) ==
    \/ w = Owner
    \/ /\ name \in Allowed[w] /\ name \notin OWNER_ONLY
       /\ Restricted(w) => name \in PROJECT_TOOLS

AllowsProject(w, p) == Restricted(w) => p \in Scope[w]

\* Settings.local_key, read for every request.
\* Mutant of LocalKey: an activated rotation is not looked at.
LocalKeyCurrent == idFile.current
LocalKey == IF idFile.activated THEN idFile.pending ELSE idFile.current

-----------------------------------------------------------------------------
\* The requests of a tool.
SessionTools == {"chat_send", "chat_session_messages", "chat_session_delete", "chat_session_rename"}
ByParts == {"settings_overview", "updates_get"}
Flagged == {"persona_set", "extensions_install", "server_reboot"}  \* append, consented, confirm

\* The arguments that a tool takes; those it does not take are left alone.
ArgsOf(t) ==
    {a \in Args :
        /\ t.name \notin SessionTools => a.session = None
        /\ t.name \in SessionTools \ {"chat_send"} => a.session # None
        /\ t.name \notin {"chat_send", "chat_sessions", "project_get"} => a.project = None
        /\ t.name = "project_get" => a.project # None
        /\ t.name # "chat_sessions" => a.limit = NoArgs.limit /\ a.offset = NoArgs.offset
        /\ t.name \notin Flagged => ~a.flag
        /\ t.name \notin CheckedTools => a.valid}

Asked(w, a) ==
    IF a.project # None THEN {a.project} ELSE IF Restricted(w) THEN Scope[w] ELSE {All}

FirstRequests(t, w, a) ==
    IF t.name = "chat_sessions" THEN Asked(w, a)
    ELSE IF t.name = "settings_overview" THEN Sections
    ELSE IF t.name = "updates_get" THEN UpdateParts
    ELSE {"only"}

\* Mutant of FirstStage: an append does not read what is there.
FirstStageUnread(t, a) == IF t.name \in SessionTools THEN "context" ELSE "act"
FirstStage(t, a) ==
    IF t.name \in SessionTools THEN "context"
    ELSE IF t.name = "persona_set" /\ a.flag THEN "read"
    ELSE "act"

To(c, r) ==
    IF tool[c].name = "settings_overview" THEN r
    ELSE IF at[c] = "context" THEN "companion"
    ELSE tool[c].to

\* Preflight changes nothing.
Changes(c) ==
    at[c] = "act" /\ tool[c].changes /\ (tool[c].name = "extensions_install" => arg[c].flag)

TheWindow(c) == Window(Offset(arg[c].offset), Limit(arg[c].limit))

\* session_context: a new session belongs to the project asked for, or to main.
ContextProject(c) ==
    IF arg[c].session # None THEN ProjectOf[arg[c].session]
    ELSE IF arg[c].project # None THEN arg[c].project ELSE main

-----------------------------------------------------------------------------
\* What a call answers; a write that was given up may still arrive.
Answer(c, s) ==
    /\ at' = [at EXCEPT ![c] = "answered"]
    /\ answer' = [answer EXCEPT ![c] = s]
    /\ req' = [req EXCEPT ![c] = [r \in Names |-> IF @[r] = "lost" THEN "lost" ELSE "none"]]
    /\ key' = [key EXCEPT ![c] = [r \in Names |-> NoKey]]

Goto(c, stage, requests) ==
    /\ at' = [at EXCEPT ![c] = stage]
    /\ req' = [req EXCEPT ![c] = [r \in Names |-> IF r \in requests THEN "todo" ELSE "none"]]
    /\ UNCHANGED <<answer, key>>

\* Refused before any request: arguments out of form, out of range or without
\* consent, and projects out of scope.
\* Mutant of Invalid: only the form is checked.
InvalidForm(t, a) == ~a.valid
Invalid(t, a) ==
    \/ ~a.valid
    \/ t.name = "chat_sessions" /\ Window(Offset(a.offset), Limit(a.limit)) > MaxWindow
    \/ t.name = "server_reboot" /\ ~a.flag

Denied(t, w, a) ==
    \/ t.name \in {"chat_sessions", "project_get"} /\ a.project # None /\ ~AllowsProject(w, a.project)
    \/ /\ t.name = "chat_send" /\ (a.project # None \/ a.session = None)
       /\ ~AllowsProject(w, IF a.project # None THEN a.project ELSE main)

Start(c, a) ==
    /\ at[c] = "idle" /\ tool[c] # NoTool /\ a \in ArgsOf(tool[c])
    /\ arg' = [arg EXCEPT ![c] = a]
    /\ stood' = [stood EXCEPT ![c] = persona]
    /\ IF ~AllowsTool(who[c], tool[c].name) \/ who[c] \in expired THEN Answer(c, "denied")
       ELSE IF Invalid(tool[c], a) THEN Answer(c, "error")
       ELSE IF Denied(tool[c], who[c], a) THEN Answer(c, "denied")
       ELSE Goto(c, FirstStage(tool[c], a), FirstRequests(tool[c], who[c], a))
    /\ UNCHANGED <<identity, expired, agent, tool, who, got>>

\* The request is built: it takes the key of the moment.  Central's boundary
\* takes none.
Send(c, r) ==
    /\ req[c][r] = "todo"
    /\ key' = [key EXCEPT ![c][r] = IF To(c, r) = "central" THEN NoKey ELSE LocalKey]
    /\ req' = [req EXCEPT ![c][r] = "sent"]
    /\ UNCHANGED <<identity, expired, agent, at, call, got, answer>>

\* The identity cannot be read, or makes no sense: a file being replaced.
NoIdentity(c, r) ==
    /\ req[c][r] = "todo" /\ To(c, r) # "central"
    /\ req' = [req EXCEPT ![c][r] = "failed"]
    /\ UNCHANGED <<identity, expired, agent, at, call, key, got, answer>>

Ended(c, r, s) ==
    /\ req' = [req EXCEPT ![c][r] = s]
    /\ key' = [key EXCEPT ![c][r] = NoKey]

\* A reply is an error: the key is not (any more) the accepted one, or the
\* backend refuses, is down, or answers what the tool did not ask for.
Reject(c, r) ==
    /\ req[c][r] = "sent"
    /\ Ended(c, r, "failed")
    /\ UNCHANGED <<identity, expired, agent, at, call, got, answer>>

Accepts(c, r) == To(c, r) = "central" \/ key[c][r] = accepted

\* A backend carries out the last request of a call.
Change(c) ==
    /\ changed' = changed \cup {c}
    /\ disturbed' = disturbed \cup {d \in Calls \ {c} : at[d] # "idle"}
    /\ persona' = IF tool[c].name # "persona_set" THEN persona
                  ELSE IF arg[c].flag THEN overlay[c] \cup {c} ELSE {c}
    /\ sessions' = IF tool[c].name = "chat_session_delete" THEN sessions \ {arg[c].session}
                   ELSE sessions

\* The request is carried out and its reply arrives.  A companion that ignores
\* the project of a list sends the newest sessions of all.
Reply(c, r) ==
    /\ req[c][r] = "sent" /\ Accepts(c, r)
    /\ To(c, r) = "hermes" /\ tool[c].name \in SessionTools => arg[c].session \in sessions
    /\ Ended(c, r, "ok")
    /\ IF Changes(c) THEN Change(c) /\ UNCHANGED got
       ELSE /\ overlay' = [overlay EXCEPT ![c] = IF at[c] = "read" THEN persona ELSE @]
            /\ IF tool[c].name # "chat_sessions" THEN UNCHANGED <<rows, more, agent>>
               ELSE \E asked \in {r, All}, told \in BOOLEAN :
                      /\ rows' = [rows EXCEPT ![c] = @ \cup Page(sessions, asked, TheWindow(c))]
                      /\ more' = [more EXCEPT ![c] =
                                    @ \/ (told /\ Truncated(sessions, asked, TheWindow(c)))]
                      /\ disturbed' = IF asked = r THEN disturbed ELSE disturbed \cup {c}
                      /\ UNCHANGED <<sessions, persona, changed>>
    /\ UNCHANGED <<identity, expired, at, call, answer>>

\* The connection breaks, or httpx gives up waiting.  A write may have been
\* carried out, or may be yet.
GiveUp(c, r) ==
    /\ req[c][r] = "sent"
    /\ Ended(c, r, IF Changes(c) THEN "lost" ELSE "failed")
    /\ UNCHANGED <<identity, expired, agent, at, call, got, answer>>

\* Some of the reply is there, the rest is not: the next read has all its time
\* again.  (Nothing depends on the pieces of a reply of Hermes.)
Piece(c, r) ==
    /\ req[c][r] = "sent" /\ To(c, r) # "hermes"
    /\ req' = [req EXCEPT ![c][r] = "arriving"]
    /\ UNCHANGED <<identity, expired, agent, at, call, key, got, answer>>

ReadOn(c, r) ==
    /\ req[c][r] = "arriving"
    /\ req' = [req EXCEPT ![c][r] = "sent"]
    /\ UNCHANGED <<identity, expired, agent, at, call, key, got, answer>>

\* httpx limits a connect and each read, not the request; only Hermes is waited
\* for without a limit (read=None).
\* Mutant of Timeout: panel-local is waited for in the same way.
TimeoutCentralOnly(c, r) == To(c, r) = "central" /\ GiveUp(c, r)
Timeout(c, r) == To(c, r) # "hermes" /\ GiveUp(c, r)
Disconnect(c, r) == To(c, r) = "hermes" /\ GiveUp(c, r)

\* What was given up is carried out after all; its caller has failed.
Late(c, r) ==
    /\ req[c][r] = "lost"
    /\ tool[c].name \in SessionTools => arg[c].session \in sessions
    /\ req' = [req EXCEPT ![c][r] = IF at[c] = "answered" THEN "none" ELSE "failed"]
    /\ Change(c)
    /\ UNCHANGED <<identity, expired, at, call, key, got, answer>>

-----------------------------------------------------------------------------
Pending(c) == {r \in Names : req[c][r] \in {"todo", "sent", "arriving"}}

\* Mutant of Failed: a write that was given up counts as done.
FailedRefused(c) == {r \in Names : req[c][r] = "failed"}
Failed(c) == {r \in Names : req[c][r] \in {"failed", "lost"}}

\* _guarded checks the expiry again before it hands out a result.
\* Mutant of Result: the refusal is an answer of another kind.
ResultExpired(c) == Answer(c, IF who[c] \in expired THEN "expired" ELSE "ok")
Result(c) == Answer(c, IF who[c] \in expired THEN "denied" ELSE "ok")

\* chat_sessions refuses rows of projects that it did not ask for.
Foreign(c) ==
    {s \in rows[c] : \/ ~AllowsProject(who[c], ProjectOf[s])
                     \/ arg[c].project # None /\ ProjectOf[s] # arg[c].project}

\* The first failure of a gather ends the call; requests that only read and
\* are still under way are forgotten.
Fail(c) ==
    /\ at[c] \in Stages /\ tool[c].name \notin ByParts /\ Failed(c) # {}
    /\ Answer(c, "error")
    /\ UNCHANGED <<identity, expired, agent, call, got>>

\* All requests of the stage are answered (an overview keeps errors in place).
\* chat_send has started its turn when the context of its session, and that
\* Hermes has the session, are known: what follows is TurnRegistry's.
\* Mutant of Proceed: the project of the session is not looked at.
ProceedUnchecked(c) ==
    /\ at[c] \in Stages /\ Pending(c) = {} /\ (Failed(c) = {} \/ tool[c].name \in ByParts)
    /\ IF at[c] = "context" /\ arg[c].session = None THEN Result(c)
       ELSE IF at[c] # "act" THEN Goto(c, "act", {"only"})
       ELSE IF tool[c].name = "chat_sessions" /\ Foreign(c) # {} THEN Answer(c, "denied")
       ELSE Result(c)
    /\ UNCHANGED <<identity, expired, agent, call, got>>
Proceed(c) ==
    /\ at[c] \in Stages /\ Pending(c) = {} /\ (Failed(c) = {} \/ tool[c].name \in ByParts)
    /\ IF at[c] = "context" /\ arg[c].project \notin {None, ContextProject(c)} THEN Answer(c, "error")
       ELSE IF at[c] = "context" /\ ~AllowsProject(who[c], ContextProject(c)) THEN Answer(c, "denied")
       ELSE IF at[c] = "context" /\ arg[c].session = None THEN Result(c)
       ELSE IF at[c] # "act" THEN Goto(c, "act", {"only"})
       ELSE IF tool[c].name = "chat_sessions" /\ Foreign(c) # {} THEN Answer(c, "denied")
       ELSE Result(c)
    /\ UNCHANGED <<identity, expired, agent, call, got>>

-----------------------------------------------------------------------------
\* The platform rotates the identity: a successor is written, activated (from
\* then on the backends accept it alone) and promoted.
StageKey(k) ==
    /\ idFile.pending = NoKey /\ k \in Keys \ (retired \cup {accepted})
    /\ idFile' = [idFile EXCEPT !.pending = k]
    /\ UNCHANGED <<accepted, retired>>

ActivateKey ==
    /\ idFile.pending # NoKey /\ ~idFile.activated
    /\ idFile' = [idFile EXCEPT !.activated = TRUE]
    /\ accepted' = idFile.pending /\ retired' = retired \cup {accepted}

PromoteKey ==
    /\ idFile.activated
    /\ idFile' = [current |-> idFile.pending, pending |-> NoKey, activated |-> FALSE]
    /\ UNCHANGED <<accepted, retired>>

Platform ==
    /\ ActivateKey \/ PromoteKey \/ \E k \in Keys : StageKey(k)
    /\ UNCHANGED <<expired, agent, at, call, req, key, got, answer>>

Expire(g) ==
    /\ expired' = expired \cup {g}
    /\ UNCHANGED <<identity, agent, at, call, req, key, got, answer>>

Next ==
    \/ \E c \in Calls, a \in Args : Start(c, a)
    \/ \E c \in Calls, r \in Names : \/ Send(c, r) \/ NoIdentity(c, r) \/ Reply(c, r) \/ Reject(c, r)
                                     \/ Piece(c, r) \/ ReadOn(c, r)
                                     \/ Timeout(c, r) \/ Disconnect(c, r) \/ Late(c, r)
    \/ \E c \in Calls : Proceed(c) \/ Fail(c)
    \/ Platform
    \/ \E g \in Temporary : Expire(g)

Spec == Init /\ [][Next]_vars

\* The event loop runs what is ready, and the timer of a read for which nothing
\* more comes fires.  Nothing is assumed of the backends.
FairSpec ==
    /\ Spec
    /\ \A c \in Calls : /\ WF_vars(Proceed(c)) /\ WF_vars(Fail(c))
                       /\ WF_vars(\E r \in Names : Send(c, r))
                       /\ WF_vars(\E r \in Names : ReadOn(c, r))
    /\ \A c \in Calls, r \in Names : WF_vars(Timeout(c, r))

-----------------------------------------------------------------------------
\* A request sets out with the key that is accepted then, neither a retired one
\* nor a successor before its time, however the daemon got its settings
\* (config.py:114-128): one that is refused for its key was overtaken by a rotation.
FreshKeys ==
    [][\A c \in Calls, r \in Names :
         key'[c][r] # key[c][r] => key'[c][r] \in {NoKey, accepted}]_vars

\* A credential with a project scope makes no request but to the companion,
\* and to Hermes only about sessions of its projects; nor is it shown others
\* (access.md: "Session and turn operations must verify their canonical
\* project, not trust a caller's project claim").
InScope ==
    \A c \in Calls : Restricted(who[c]) =>
        /\ \A r \in Names : req[c][r] # "none" /\ at[c] # "answered" =>
             \/ To(c, r) = "companion"
             \/ To(c, r) = "hermes" /\ ContextProject(c) \in Scope[who[c]]
        /\ answer[c] = "ok" /\ tool[c].name \in SessionTools => ContextProject(c) \in Scope[who[c]]
        /\ answer[c] = "ok" /\ tool[c].name = "chat_sessions" =>
             \A s \in rows[c] : ProjectOf[s] \in Scope[who[c]]

\* An answer tells what happened: "ok" means that the agent was changed if the
\* tool changes it, a refusal that it was not, unless the credential expired
\* while the call was under way; an overview is answered whichever of its parts
\* fail; and no call with arguments that a tool refuses, or without the
\* confirmation it asks for, changes anything.
AnswersTell ==
    \A c \in Calls :
        /\ answer[c] = "ok" =>
             (c \in changed <=> tool[c].changes /\ (tool[c].name = "extensions_install" => arg[c].flag))
        /\ answer[c] = "denied" /\ who[c] \notin expired => c \notin changed
        /\ answer[c] = "error" => tool[c].name \notin ByParts
        /\ c \in changed => arg[c].valid /\ (tool[c].name = "server_reboot" => arg[c].flag)

\* A page of chat_sessions is the slice of everything the caller may see, for
\* one project or merged from several, if no session went away meanwhile.
PagesAreSlices ==
    \A c \in Calls : tool[c].name = "chat_sessions" /\ answer[c] = "ok" /\ c \notin disturbed =>
        LET offset == Offset(arg[c].offset)
            limit == Limit(arg[c].limit)
            asked == Asked(who[c], arg[c]) IN
        IsPage(Selected(rows[c], asked, offset, limit),
               HasMore(rows[c], more[c], offset, limit),
               NextOffset(rows[c], asked, offset, limit), sessions, asked, offset, limit)

\* persona_set reads and writes in two requests: an append keeps the overlay
\* it began with and adds its paragraph, if no other change came in between.
AppendsAdd ==
    \A c \in changed \ disturbed : tool[c].name = "persona_set" /\ arg[c].flag =>
        persona = stood[c] \cup {c}

\* A call that does not wait for Hermes is answered, unless a backend sends its
\* reply in pieces for ever: there is no limit on a whole request, or a call.
UsesHermes(t) == t.to = "hermes" \/ t.name = "settings_overview"

PanelCallsEnd ==
    \A c \in Calls :
        \/ []<><<\E r \in Names : Piece(c, r)>>_vars
        \/ (at[c] \in Stages /\ ~UsesHermes(tool[c])) ~> at[c] = "answered"
=============================================================================
