# Verification of mintbot-mcp

TLA+ models of mintbot-mcp, TLC configurations that check them on small
instances, and proofs for TLAPS.  Paths like `chat.py:143` are relative to
`mintbot_mcp/` unless they name another directory of the repository.

## 1. The system

mintbot-mcp is a daemon on an agent's own machine.  MCP clients talk to it over
HTTP with a bearer token (or over stdio); it talks to Hermes (the agent), to
panel-local (settings, projects) and, through panel-local, to central.

| component | state it keeps | operations | talks to |
|---|---|---|---|
| turn registry (`chat.py`) | the turns of one process: status, end time, task, one `asyncio.Event` each | start, get, wait, cancel, pump, evict | Hermes stream, idempotency store (persist) |
| idempotency store (`idempotency.py`) | SQLite table of claims, shared by all processes and kept over restarts | reserve, lookup, save | - |
| chat tools (`server.py`) | none between calls | `chat_send`, `chat_wait`, `chat_cancel` | registry, store, panel-local (session context), Hermes |
| Hermes client (`backends.py`) | HTTP connection pool | stream a turn, list, read, rename, delete sessions | Hermes |
| grants (`access.py`) | JSON file of grants, a lock file | issue, list, revoke, authenticate | - |
| bearer gate (`auth.py`), access middleware (`app.py`), tool guard (`server.py:_guarded`) | session-to-credential bindings of one daemon run | authenticate a request, bind a session, authorise a dispatch, check expiry before and after a tool | grants |
| settings and tokens (`config.py`, `cli.py`) | token file, the platform's rotating identity file | load settings, create and rotate the token, read the local key | - |
| connection notices (`notifications.py`) | none | one POST per `initialize`, at most 3 s | panel-local |
| other tools (`server.py`), 43 of them, and two resources that call two of them | none between calls | one backend request, or a few in stages: session context first, a read before an append, one list per project | panel-local, central, Hermes |
| backend clients (`backends.py`) | HTTP connection pools | a request with the key of the moment, its timeout | the platform's identity file, panel-local, Hermes |
| installer (`install.sh`, `upgrade.sh`, `uninstall.sh`, `healthcheck.sh`) | releases, `current` and other entry points, unit file, transaction directory | stage, activate, roll back | systemd |
| release tooling (`scripts/`) | published releases | build, sign, promote, prune | GitHub |


How they interact:

- **HTTP request**: `BearerAuth` finds the credential (owner token or grant) and
  the session's binding, the MCP SDK finds the session, `AccessMiddleware`
  authorises the method, `_guarded` the tool.  Grants are read from the file at
  every request, so the command line and the daemon share only that file.
- **chat_send** claims the caller's key in SQLite, awaits the session check at
  panel-local, starts a turn in the registry (whose pump task reads Hermes'
  stream), and waits.  `chat_wait` and `chat_cancel` find the turn in the
  registry of their process, or its row in the file.
- **Processes**: the HTTP daemon and any number of stdio processes share the
  SQLite file and the grant file; registries are private to a process.
- **install.sh** changes the tree under a daemon that keeps running from its
  own release, and asks systemd to restart it.

What is hard in it, and where the properties are aimed (PROJECT.json lists every
hazard with its line):

- *interleaving and stale state*: handlers await between looking a turn up and
  acting on it; two processes use one key; a lookup writes back what it read
  before; two handlers share one `asyncio.Event` and both clear it; the platform
  rotates the local key between two requests of a call; two appends to the
  persona read the same text.
- *crashes and partial failures*: a process dies between the claim and the
  outcome; a save raises after the status changed in memory; an install fails,
  or is interrupted, between two of a dozen replacements, or while it undoes them.
- *retries and timeouts*: a client repeats a key of unknown outcome; the agent
  or the companion stays silent; a grant expires during a call.
- *limits*: 32 replies, 32 turns, 15 minutes, all enforced by whoever comes by;
  pages of sessions cut from several replies that are cut themselves.

What makes each component correct:

| component | correct when |
|---|---|
| idempotency store | an identity is claimed once; outcomes move forward; replies are kept as long as promised and no longer |
| turn registry | an end is decided once; no waiter sleeps through it; running turns can always be found |
| chat tools | one key, one turn, whoever crashes; answers agree; a turn's answers go to its credential only; a cancel stops the agent |
| grants | no command undoes another; what was reported is so, also after a power loss; revocations take effect at once |
| access path | a session stays with its credential; a result is authorised when it is handed out |
| owner token | one token; a rotation replaces it |
| other tools | an answer tells whether the agent was changed; a project credential reaches nothing outside its projects; no request sets out with a key other than the accepted one; panel-local keeps a caller waiting only by sending for ever |
| session listing | a page is a slice of everything the caller may see, whichever projects it was merged from |
| installer | `current` never names a release that is being built, being removed or gone; a failure restores everything or keeps what is needed to restore it; a stopped service stays stopped |

## 2. The modules

| module | models | state | actions |
|---|---|---|---|
| `ClaimTable` | what the store promises (abstract) | owner, payload, outcome per identity and turn | claim, record |
| `IdempotencyStore` | `idempotency.py` | the table's columns, the snapshots readers hold, the clock | `reserve` (new, replay), `lookup` in two steps, `save` with the reply limit, time |
| `TurnRegistry` | `chat.py` in one process | per turn: status, end, slot, pump, event; per waiter: place, deadline | start with eviction, get, pump events and ends, cancel, the steps of `wait`, timers |
| `AtMostOnce` | what an idempotency key promises a client (abstract) | owner of a key, turns sent, outcomes | win a key, send, settle |
| `ChatService` | the chat tools over store, registries and agent | per call: place, arguments, what it read, its answer; per turn: status in memory, pump, row; agent's side; processes up or down | a step per await of the three handlers, the pump, the agent, abandoned handlers, crash, shutdown, restart |
| `GrantStore` | `access.py` under its lock, and `authenticate` | file, contents the disk may fall back to, lock; per command and request: place | the system calls of `_mutate`, failure or death at each, power loss, a request's open and decision |
| `HttpAccess` | `auth.py`, `app.py`, `_guarded` | clock, revoked grants, bindings, SDK sessions; per request: place, credential, session, tool | admit or reject, initialize and its notice, forbid, run, finish, revoke, close, restart, time |
| `ToolTable` | the tools as rows: backend, whether they change the agent, whether their arguments are checked; `OWNER_ONLY` and `PROJECT_TOOLS` of `access.py` | - | - |
| `SessionPages` | the window, merge and slice of `chat_sessions` | - | - |
| `ToolCalls` | all tools but `chat_wait` and `chat_cancel`, with `backends.py` and `local_key` | identity file, accepted and retired keys, expired grants, the agent's sessions and persona; per call: stage, arguments, its requests and their keys, what it read, its answer | start, send, unreadable identity, reply, a piece of a reply and reading on, reject, time out or disconnect, a late write, proceed, fail; the platform stages, activates, promotes a key; a grant expires |
| `OwnerToken` | `ensure_token`, `token --rotate` | two paths and their inodes; per process: next system call | unlink, exists, read, open, write, rename |
| `Install` | `install.sh` | entries, `.current.next`, releases, the service, the script's variables and place | a step per replacement and service command, fail, each step of `finish`, being cut short, restarts by systemd |

`ClaimTable` is implemented by `IdempotencyStore`, `AtMostOnce` by `ChatService`;
both are stated with `INSTANCE ... WITH` as the property `KeepsItsPromise`.
`ChatService` abstracts the two components below it: it has the store's rows
without replies and time (their interleaving is `IdempotencyStore`'s), and
eviction without its order (`TurnRegistry`'s).  `HttpAccess` reads grants as one
step, which `GrantStore` justifies: an authentication that begins after a
revocation was reported sees it.  `ToolCalls` extends `ToolTable` and
`SessionPages`; of `chat_send` it has what comes before the turn, the session
context and its project check, and ends where `ChatService` begins.

`MC*` modules give the constants values; a `.cfg` names one question each.
Definitions named "Mutant of ..." are plausible mistakes: putting one in the
place of its original must violate the property it is paired with in
PROJECT.json, so every property is known to depend on the code.

### Abstractions

- Message text, reply bodies, titles and the shape of answers are left out; a
  payload is the fingerprint that the store compares.  A reply is "none",
  "body" or "expired".
- Time is a small integer clock where a limit is measured in time (the store,
  the registry, the access path) and absent elsewhere, where a wait may return
  and an eviction may happen at any moment.
- The agent is external: it receives what was sent, late, finishes or not, and
  stops a run whose stream was closed, which `chat_cancel`'s description claims.
- In `ChatService` a SQLite transaction is one step that succeeds or raises; a
  crash loses memory and keeps the file.
- In `Install` the nine hook links, the launcher and the compatibility links
  are one entry, because they are replaced by the same loop and all lead
  through `current`; staging is one step, because before the first replacement
  nothing but the candidate's own directory has changed.  `.link.next`, which is
  used like `.current.next`, only ever makes an attempt fail when left over
  (its target is a file, so `ln -s` refuses), which `Fail` covers.  Reloading
  systemd is part of the step before it.  Copies of earlier attempts stay on
  disk; the model keeps those of the latest.
- In `ToolCalls` arguments are a session, a project, a page and a flag (append,
  consented or confirm), and "valid" for whatever form the tool checks;
  the content of replies is left out, except the sessions of a list, the persona
  and the fact of an error.  The parts of an overview that panel-local answers
  are one request.  A retried or duplicated request does not exist in the code
  and not in the model; a write given up by its caller may arrive later.
- The timeouts of `backends.py:185-191,224` limit a connect and each read, not a
  request: a backend that sends its reply in pieces (`Piece`, `ReadOn`) can put
  its end off for ever.  The pieces of Hermes' replies are left out, since no
  timeout ends these anyway.
- In `Install` the removal of a release (`install.sh:104`) is two steps, `Remove`
  and `Removed`, and may be cut short between them.  What is left of a release
  then starts or does not, whenever it is asked to; a daemon that fails to
  start stays off.
- The platform is external to `ToolCalls`: it stages, activates and promotes a
  key, and accepts the new one from the moment of its activation; it lists
  sessions newest first, by the time its rows carry (`PagesAssumption`).  A
  reply may leave `has_more` out, as `server.py:380` allows: then the one
  extra row of the window is what tells.
- What systemd does on `restart` and `disable` is external: success, or failure
  with the daemon left in any state it may be in.

## 3. The runs

Deadlock is not checked: every system here may come to rest (all calls
answered, all attempts made).  Every module has its `TypeOK`, and section 4
proves each of them; the runs `tool_calls`, `token_rotate` and `install` check
it too.

| run | instance | question |
|---|---|---|
| `store` | 3 identities and turns, 2 payloads, 1 reader inside `lookup`, 1 reply, 4 clock ticks | are replies kept and dropped by the rule, outcomes final, identities never given away twice |
| `registry` | 2 turns in a registry of 1, 2 waiters, 2 clock ticks | does eviction only make room with finished turns, is an end decided once, does nobody miss an end or give up early, and does every wait return, without a timer if the turn ended and with one if the agent is silent |
| `kept` (violated) | 3 turns in a registry of 2, 1 waiter | are finished turns kept for 15 minutes |
| `retries` | 2 sends that may share key and payload, 2 processes | one agent turn per key, answers that agree; the service implements `AtMostOnce` |
| `follow` | 1 send, 1 wait, 1 cancel, 2 credentials, 1 process that restarts | do answers agree, do they stay with their credential, does the agent stop after a cancel |
| `grants` | 2 issues, 2 revokes of one grant, 1 request | lost updates, durability, effect of a revocation, does every command get the lock or fail |
| `http_access` | 2 requests, 2 grants with different expiry and the owner, 1 session, 2 tools, a companion that may be silent | session identity, authorised results, is initialize answered |
| `tool_calls` | any tool by the owner or one of 3 grants, alone; two persona writes; a list or a read beside a deletion; 3 sessions in 2 projects, 2 keys, pages of up to 2 | do answers tell what happened, is the project scope kept, are pages slices, do appends add, are keys fresh, do calls to panel-local end unless it sends pieces for ever |
| `token_rotate` | 2 rotations, 2 readers | does the old token stay away |
| `token_fresh` (violated) | 2 creators, no token | is the token created once |
| `install` | 3 attempts, all kinds of installation, every failure | rollback, recovery, service state, activation |
| `install_current` (violated) | 2 attempts, signals only | does a committed install activate its release |

Why the bounds are enough: the rules quantify over pairs (two claims of one
key, two waiters of one event, two commands on one file, a request and a
revocation), and a third participant appears where it has a role of its own: a
third reply or turn that pushes another over a limit of one or two, a third
attempt that starts from what two left.  In `follow` one process is enough: a
turn that was evicted, or whose process restarted, is followed from its row as
another process would; two processes with one key are `retries`'.  Limits are set so small that they are
reached (`MaxReplies` 1, `MaxTurns` 1 or 2, a window of 3 rows, TTLs of at most
one tick) and the clocks run past them.  In `tool_calls` two sessions of
different projects are equally recent and the third has no readable time, so
the merge has ties to break; one key to rotate to is enough, since a request
carries one key, which is compared with the accepted one; two
calls meet only where they touch the same thing (`MCScenes`).  The proofs of section 4 remove the bounds for what they cover.

### Fairness

- `TurnRegistry!FairSpec`: handlers that are ready run: that is asyncio's event
  loop.  Nothing is assumed of the agent.  `EndIsSeen` needs no more;
  `WaitReturns` has the timers and the passing of time as its premise.
- `ChatService!FairSpec`: a cancelled task is given its `CancelledError`; the
  agent reads what was sent and stops a run whose stream is closed.  The last is
  an assumption about Hermes, the one that `chat_cancel`'s description makes.
- `GrantStore!FairSpec`: a command that can go on does.  Weak fairness of the
  lock is enough because the model's commands are finitely many.
- `HttpAccess!FairSpec`: time passes and `wait_for` fires; nothing is assumed of
  the companion.
- `ToolCalls!FairSpec`: the event loop runs what is ready, and the timer of a
  read fires when nothing more comes; nothing is assumed of panel-local, central
  or the platform.  No limit on a whole request is assumed, because there is none:
  only the notice of `app.py:83` has one, from `asyncio.wait_for`.
  So `PanelCallsEnd` promises an answer unless pieces come for ever.
  `HermesClient` has no read timeout (`backends.py:87`), so no fairness is stated
  for what waits for Hermes, and `PanelCallsEnd` leaves those calls out,
  `settings_overview` with them.

### What the runs found

1. *Finished turns are not always kept for 15 minutes* (`kept`): a full registry
   evicts young ones (`chat.py:143`), against the text of the `unknown_turn`
   error (`server.py:320`).  With an idempotency key the outcome can still be
   read from the store; without one it is lost.
2. *The token may be created twice* (`token_fresh`): `config.py:189-199` has no
   lock and one temporary file, against `config.py:188`.  The daemon that lost
   serves a token that no command prints until it restarts.
3. *A left-over `.current.next` is followed* (`install_current`):
   `install.sh:147`.  After an attempt that was cut short between `ln` and
   `mv`, or whose rollback stopped there, the next install commits
   with `current` on the earlier attempt's release.  `CommitActivates` holds
   when no earlier attempt was cut short.  If the earlier attempt was cut short
   in the middle of `rm -rf` of its release (`install.sh:104`), the release that
   is activated is what was left of it.  A daemon that dies meanwhile may then
   stay off even if the install fails and is rolled back, which is the
   exception in `RollbackRestores`.

Three more things that the models show and no document rules out:

- `finish` resets the traps (`install.sh:83`), so a second signal ends the
  rollback half way, although README.md:169 says "Catchable termination
  signals also roll back".  `Recoverable` shows that the copies are then still
  there, and `CurrentUsable` that `current` names a whole release or one whose
  removal was cut short, as in finding 3: not one that is being built, is still
  being removed or is gone.
- Of two appends to the persona that overlap one may be lost
  (`server.py:493`): no lock or version excludes it, and no property does.
  `AppendsAdd` holds for a call that no other change came between.
- A write whose caller gave up may still be carried out (`Late`): a failure
  says that the outcome is unknown, which is why `AnswersTell` asks of the
  answer "error" only that an overview, each of whose parts may fail, never gives it.

## 4. The proofs

For every value of the constants, under the named assumptions of each module
(disjoint names, natural numbers, finite sets of turns where cardinalities are
compared):

| module | theorems | inductive invariant |
|---|---|---|
| `IdempotencyStoreProofs` | `TypeCorrect`, `OutcomesAreFinal`, `StoreKeepsItsPromise` (refinement of `ClaimTable`), `RepliesStayBounded`, `RepliesAreRetained` | types, a reader's snapshot is of a settled row, a reply belongs to a final outcome.  Without the second, `lookup`'s write-back could reopen a turn.  The two theorems on replies add `RepliesBounded` and "no update lies in the future" |
| `TurnRegistryProofs` | `TypeCorrect`, `WakeupsAreNotLost`, `RunningStaysRegistered`, `EndsAreFinal`, `RunningIsReportedLate`, `RegistryStaysBounded` | types, the pump's state fits the turn's status, running turns are registered, no waiter sleeps on an end.  `RegistryStaysBounded` needs no invariant but the types: among n finished turns the n - k first in the order of eviction are n - k turns (`LowRanks`), so an eviction makes exactly the room it is asked for |
| `ChatServiceProofs` | `TypeCorrect`, `KeysRunOnce` (`AtMostOnce`), `RepliesAgree`, `TurnsStayPrivate`, `RefusalsAreFinal`, `ServiceKeepsItsPromise` (refinement of `AtMostOnce`) | types, a handler in a given place holds what that place implies, a turn that was started came from its own call, a row belongs to the call that owns its key.  `KeysRunOnce` is not inductive: what excludes a second turn is that only the owner of a key reaches the place from which it is sent.  Answers add `Told`: wherever the end of a turn is held (memory, row, a handler that read the row, an answer) it is the same end; a refused turn has no pump |
| `GrantStoreProofs` | `TypeCorrect`, `ReportsAreKept`, `RevocationsHold`, `NoLostUpdates` | types, the lock's holder is the one command between lock and unlock and its copy extends the file, the file extends all that the disk may fall back to, what a request opened includes what was known revoked |
| `HttpAccessProofs` | `TypeCorrect`, `IdentityIsKept`, `ResultsNeedGrants` | types, a binding names the creator of its session and a session without creator is bound to nobody, an admitted request was authentic and its session is its own |
| `ToolCallsProofs` | `MergedPageIsSlice`, `TypeCorrect`, `KeysAreFresh` (`FreshKeys`), `ScopeHolds`, `AnswersAreTrue`, `AppendsKeepTheOverlay`, `PagesAreTrue` | `MergedPageIsSlice` is about the operators of `SessionPages`, and `PagesAreTrue` about the calls that use them.  `KeysAreFresh`: the identity file names the accepted key, as pending from its activation until it is promoted and as current otherwise.  The others: for each call, what its stage says of its requests, of the writes made and of the answer (`IdleOK` to `AnswerOK`), that an append still holds the overlay it began with (`AppendOK`), and that the rows gathered are those of the requests answered so far (`PageOK`).  A step of another call or of the platform leaves all this as it is or marks the call as disturbed (`Kept`), so the proof goes call by call |
| `InstallProofs` | `TypeCorrect`, `CurrentStaysUsable`, `RollbackIsComplete`, `NothingIsLost`, `UnitIsLeftAlone`, `CommitsActivate` | for each place of the script: which entries still hold what the attempt found, which have their copy and which are new (`EntriesOK`); releases that a link names are whole or had their removal cut short, and only the link that is left may name one that is gone (`LinksOK`); what was noted about the unit is true of the system as it was (`UnitOK`); how the daemon stands, and when a half removed release may have stopped it (`ServiceOK`, `RolledBackOK`); what a history without accidents leaves (`CommitOK`).  Without `LinksOK` the left-over `.current.next` would break `CurrentUsable`; `EntriesOK` is needed in the middle of a rollback, where an entry may be its copy or not yet |
| `OwnerTokenProofs` | `TypeCorrect`, `RotationIsFinal` (`RotationReplaces`) | a process that has opened no temporary file is named by no path (`Fresh`); the old token stays in its inode, which no open file and, once somebody rotates, no path leads to (`OldIsGone`).  Assumes that there was a token: without one two creators may share a temporary file, which is `token_fresh` |

Every module is proved from its own `ASSUME`s and the theorems of the library;
`RotationIsFinal` alone has a premise of its own.  Together the theorems state
all safety properties, action properties and refinements that the passing runs
check.  The runs keep their place: they tell that the properties can be broken
by a mistake in the code, and they found the strengthenings above before they
were proved.  A liveness property and whatever needs `ENABLED` is beyond the
prover: `EndIsSeen`, `WaitReturns`, `CancelStopsAgent`, `CommandsEnd`,
`InitializeAnswered` and `PanelCallsEnd` are model-checked only.

## 5. What is not modelled

- **Loading of settings** (`config.py`): read once, a pure function of the
  environment.  The identity file is in `ToolCalls`.
- **What tools make of a reply**: field selection, summaries, the wording of
  errors, `include_details`, the text of resources.  A read of the persona
  answers the overlay or an error; a 200 without content, which
  `server.py:494` would take for an empty overlay, contradicts panel-local's interface.
- **Compact transport and SSE charset**: the form of answers.
- **Methods without a tool** (`tools/list`, resource lists): `AccessMiddleware`
  filters what they list, but nothing is checked after the dispatch, so
  `ResultsAreGranted` does not speak of them.
- **A rotated owner token** is refused by the daemon until it restarts; the
  daemon's own copy of the token is not in `OwnerToken`.
- **Health check, uninstall, release scripts**: no state between steps worth a
  model (read-only, or a straight line without rollback).
- **Hermes, panel-local, central, systemd, the MCP SDK**: external; modelled
  only by what this code relies on.

## 6. Plan

Done: all components of section 2 are modelled and checked, and every safety
property of a passing run is proved.  Next, in this order:

1. `OwnerToken` with the daemons that hold a copy of the token and the session
   bindings made under it (`auth.py`, `cli.py:121`).
2. A service that replaces its store: `ChatService` with `IdempotencyStore`'s
   replies, so that a retry after 15 minutes is answered `expired` in both.
3. `CommitsActivate` with the exact premise: which of the accidents leaves a
   `.current.next` behind.
