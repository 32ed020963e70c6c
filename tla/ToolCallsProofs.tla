--------------------------- MODULE ToolCallsProofs ---------------------------
(***************************************************************************)
(* The safety of ToolCalls for any number of calls, credentials, sessions, *)
(* projects and keys; and before it what the pages of chat_sessions rest   *)
(* on (SessionPages): a page is a slice of everything that may be seen.    *)
(* The places (Rank) of a finite ordered set are 0 .. n - 1, each taken    *)
(* once; the newest offset + limit + 1 of all sessions are among the       *)
(* newest of their own projects, so no reply leaves them out.              *)
(***************************************************************************)
EXTENDS ToolCalls, FiniteSetTheorems, TLAPS

\* What chat_sessions may ask for: everything, or some projects.
MayAsk(asked) == asked = {All} \/ asked \subseteq Projects

\* The rows that go before s.
Earlier(s, found, asked) == {t \in found : Before(t, s, asked)}

-----------------------------------------------------------------------------
\* There are n places from 0 to n - 1.
LEMMA Places ==
  ASSUME NEW n \in Nat
  PROVE  IsFiniteSet(0 .. n - 1) /\ Cardinality(0 .. n - 1) = n
  <1>1. 0 \in Int /\ n - 1 \in Int
    OBVIOUS
  <1>2. /\ IsFiniteSet(0 .. n - 1)
        /\ Cardinality(0 .. n - 1) = IF 0 > n - 1 THEN 0 ELSE (n - 1) - 0 + 1
    BY <1>1, FS_Interval
  <1> QED BY <1>2

\* The sort orders all sessions strictly, and in one way.
LEMMA BeforeIsOrder ==
  ASSUME NEW asked, MayAsk(asked), NEW s \in Sessions, NEW t \in Sessions, NEW u \in Sessions
  PROVE  /\ ~Before(s, s, asked)
         /\ Before(s, t, asked) /\ Before(t, u, asked) => Before(s, u, asked)
         /\ s # t => Before(s, t, asked) \/ Before(t, s, asked)
  <1>1. /\ ReplyOf(s, asked) \in Nat /\ ReplyOf(t, asked) \in Nat /\ ReplyOf(u, asked) \in Nat
    BY PagesAssumption DEF ReplyOf
  <1>2. /\ Activity[s] \in Nat /\ Activity[t] \in Nat /\ Activity[u] \in Nat
        /\ Position[s] \in Nat /\ Position[t] \in Nat /\ Position[u] \in Nat
    BY PagesAssumption
  <1>3. s # t => Position[s] # Position[t]
    BY PagesAssumption
  <1> QED BY <1>1, <1>2, <1>3 DEF Before

\* Within one reply the sort keeps the platform's order.
LEMMA ReplyIsOrdered ==
  ASSUME NEW asked, MayAsk(asked), NEW q \in asked, NEW visible \in SUBSET Sessions,
         NEW s \in Listed(visible, q), NEW t \in Listed(visible, q), Position[s] < Position[t]
  PROVE  Before(s, t, asked)
  <1>1. s \in Sessions /\ t \in Sessions
    BY DEF Listed
  <1>2. Activity[s] \in Nat /\ Activity[t] \in Nat /\ Activity[s] >= Activity[t]
    BY <1>1, PagesAssumption
  <1>3. ReplyOf(s, asked) = ReplyOf(t, asked)
    BY PagesAssumption DEF ReplyOf, Listed, MayAsk
  <1> QED BY <1>2, <1>3 DEF Before

LEMMA RankType ==
  ASSUME NEW asked, MayAsk(asked), NEW found \in SUBSET Sessions, NEW s \in found
  PROVE  /\ IsFiniteSet(found) /\ Cardinality(found) \in Nat
         /\ IsFiniteSet(Earlier(s, found, asked))
         /\ Rank(s, found, asked) = Cardinality(Earlier(s, found, asked))
         /\ Rank(s, found, asked) \in 0 .. Cardinality(found) - 1
  <1> DEFINE earlier == Earlier(s, found, asked)
  <1>1. IsFiniteSet(found) /\ earlier \subseteq found
    BY PagesAssumption, FS_Subset DEF Earlier
  <1>2. IsFiniteSet(earlier) /\ Cardinality(earlier) \in Nat /\ Cardinality(found) \in Nat
    BY <1>1, FS_Subset, FS_CardinalityType
  <1>3. s \notin earlier
    BY BeforeIsOrder DEF Earlier
  <1>4. Cardinality(earlier \cup {s}) = Cardinality(earlier) + 1
    BY <1>2, <1>3, FS_AddElement
  <1>5. Cardinality(earlier \cup {s}) <= Cardinality(found)
    BY <1>1, FS_Subset
  <1>6. Rank(s, found, asked) = Cardinality(earlier)
    BY DEF Rank, Earlier
  <1> QED BY <1>1, <1>2, <1>4, <1>5, <1>6

LEMMA RankGrows ==
  ASSUME NEW asked, MayAsk(asked), NEW found \in SUBSET Sessions, NEW s \in found, NEW t \in found,
         Before(s, t, asked)
  PROVE  Rank(s, found, asked) < Rank(t, found, asked)
  <1> DEFINE earlier(x) == Earlier(x, found, asked)
  <1>1. IsFiniteSet(earlier(s)) /\ IsFiniteSet(earlier(t))
    BY RankType
  <1>2. s \notin earlier(s)
    BY BeforeIsOrder DEF Earlier
  <1>3. earlier(s) \cup {s} \subseteq earlier(t)
    BY BeforeIsOrder DEF Earlier
  <1>4. Cardinality(earlier(s) \cup {s}) = Cardinality(earlier(s)) + 1
    BY <1>1, <1>2, FS_AddElement
  <1>5. Cardinality(earlier(s) \cup {s}) <= Cardinality(earlier(t))
    BY <1>1, <1>3, FS_Subset
  <1>6. Cardinality(earlier(s)) \in Nat /\ Cardinality(earlier(t)) \in Nat
    BY <1>1, FS_CardinalityType
  <1>7. /\ Rank(s, found, asked) = Cardinality(earlier(s))
        /\ Rank(t, found, asked) = Cardinality(earlier(t))
    BY RankType
  <1> QED BY <1>4, <1>5, <1>6, <1>7

\* Each of the places 0 .. n - 1 is taken once.
LEMMA RankIsBijection ==
  ASSUME NEW asked, MayAsk(asked), NEW found \in SUBSET Sessions
  PROVE  [s \in found |-> Rank(s, found, asked)] \in Bijection(found, 0 .. Cardinality(found) - 1)
  <1> DEFINE n == Cardinality(found)
             f == [s \in found |-> Rank(s, found, asked)]
  <1>1. IsFiniteSet(found) /\ n \in Nat
    BY PagesAssumption, FS_Subset, FS_CardinalityType
  <1>2. IsFiniteSet(0 .. n - 1) /\ Cardinality(0 .. n - 1) = n
    BY <1>1, Places
  <1>3. f \in [found -> 0 .. n - 1]
    BY RankType
  <1>4. ASSUME NEW s \in found, NEW t \in found, f[s] = f[t] PROVE s = t
    <2>1. Rank(s, found, asked) \in Nat /\ Rank(t, found, asked) \in Nat
      BY RankType, <1>1
    <2>2. ~Before(s, t, asked) /\ ~Before(t, s, asked)
      BY <1>4, <2>1, RankGrows
    <2> QED BY <2>2, BeforeIsOrder
  <1>5. f \in Injection(found, 0 .. n - 1)
    BY <1>3, <1>4 DEF Injection, IsInjective
  <1>6. f \in Surjection(found, 0 .. n - 1)
    BY <1>2, <1>5, FS_Injection
  <1> QED BY <1>5, <1>6 DEF Bijection

\* A slice of places that exist holds as many rows as places.
LEMMA SliceSize ==
  ASSUME NEW asked, MayAsk(asked), NEW found \in SUBSET Sessions,
         NEW a \in Nat, NEW b \in Int, b < Cardinality(found)
  PROVE  Cardinality({s \in found : Rank(s, found, asked) \in a .. b})
           = IF a > b THEN 0 ELSE b - a + 1
  <1> DEFINE n == Cardinality(found)
             f == [s \in found |-> Rank(s, found, asked)]
             slice == {s \in found : Rank(s, found, asked) \in a .. b}
             g == [s \in slice |-> Rank(s, found, asked)]
  <1>1. n \in Nat /\ IsFiniteSet(slice)
    BY PagesAssumption, FS_Subset, FS_CardinalityType
  <1>2. f \in Bijection(found, 0 .. n - 1)
    BY RankIsBijection
  <1>3. g \in [slice -> a .. b]
    OBVIOUS
  <1>4. \A s, t \in slice : g[s] = g[t] => s = t
    <2>1. \A s, t \in found : f[s] = f[t] => s = t
      BY <1>2 DEF Bijection, Injection, IsInjective
    <2> QED BY <2>1
  <1>5. \A i \in a .. b : \E s \in slice : g[s] = i
    <2>1. \A i \in 0 .. n - 1 : \E s \in found : f[s] = i
      BY <1>2 DEF Bijection, Surjection
    <2> SUFFICES ASSUME NEW i \in a .. b PROVE \E s \in slice : g[s] = i
      OBVIOUS
    <2>2. PICK s \in found : f[s] = i
      BY <1>1, <2>1
    <2> QED BY <2>2
  <1>6. g \in Bijection(slice, a .. b)
    BY <1>3, <1>4, <1>5 DEF Bijection, Injection, IsInjective, Surjection
  <1>7. Cardinality(a .. b) = Cardinality(slice)
    BY <1>1, <1>6, FS_Bijection DEF ExistsBijection
  <1> QED BY <1>7, FS_Interval

-----------------------------------------------------------------------------
\* What chat_sessions gathers from replies of n rows each.
Merged(visible, asked, n) == UNION {Page(visible, q, n) : q \in asked}

LEMMA VisibleType ==
  ASSUME NEW asked, NEW visible \in SUBSET Sessions, NEW n
  PROVE  /\ Visible(visible, asked) \in SUBSET Sessions
         /\ Merged(visible, asked, n) \subseteq Visible(visible, asked)
  <1>1. Visible(visible, asked) \in SUBSET Sessions
    BY DEF Visible, Listed
  <1>2. \A q \in asked : Page(visible, q, n) \subseteq Listed(visible, q)
    BY DEF Page
  <1>3. Merged(visible, asked, n) \subseteq Visible(visible, asked)
    BY <1>2 DEF Merged, Visible
  <1> QED BY <1>1, <1>3

\* The newest n of all are among the newest n of what they were listed with.
LEMMA NewestAreMerged ==
  ASSUME NEW asked, MayAsk(asked), NEW visible \in SUBSET Sessions, NEW n \in Nat,
         NEW s \in Visible(visible, asked), Rank(s, Visible(visible, asked), asked) < n
  PROVE  s \in Merged(visible, asked, n)
  <1> DEFINE all == Visible(visible, asked)
  <1>1. PICK q \in asked : s \in Listed(visible, q)
    BY DEF Visible
  <1> DEFINE before == {t \in Listed(visible, q) : Position[t] < Position[s]}
  <1>2. before \subseteq Earlier(s, all, asked)
    BY <1>1, ReplyIsOrdered DEF Earlier, Visible
  <1>3. all \in SUBSET Sessions
    BY VisibleType
  <1>4. /\ IsFiniteSet(Earlier(s, all, asked))
        /\ Rank(s, all, asked) = Cardinality(Earlier(s, all, asked))
        /\ Rank(s, all, asked) \in Nat
    BY <1>3, RankType
  <1>5. Cardinality(before) <= Rank(s, all, asked) /\ IsFiniteSet(before)
    BY <1>2, <1>4, FS_Subset
  <1>6. Cardinality(before) \in Nat
    BY <1>5, FS_CardinalityType
  <1>7. Cardinality(before) < n
    BY <1>4, <1>5, <1>6
  <1>8. s \in Page(visible, q, n)
    BY <1>1, <1>7 DEF Page
  <1> QED BY <1>8 DEF Merged

\* Among the gathered rows, one of the newest n of all keeps its place and any
\* other has a place from n on.
LEMMA MergedRank ==
  ASSUME NEW asked, MayAsk(asked), NEW visible \in SUBSET Sessions, NEW n \in Nat,
         NEW s \in Merged(visible, asked, n)
  PROVE  LET all == Visible(visible, asked)
             found == Merged(visible, asked, n) IN
         /\ Rank(s, all, asked) < n => Rank(s, found, asked) = Rank(s, all, asked)
         /\ Rank(s, all, asked) >= n => Rank(s, found, asked) >= n
  <1> DEFINE all == Visible(visible, asked)
             found == Merged(visible, asked, n)
             newest == {t \in all : Rank(t, all, asked) \in 0 .. n - 1}
  <1>1. all \in SUBSET Sessions /\ found \subseteq all /\ s \in all
    BY VisibleType
  <1>2. /\ IsFiniteSet(all) /\ Cardinality(all) \in Nat
        /\ \A t \in all : Rank(t, all, asked) \in 0 .. Cardinality(all) - 1
    BY <1>1, RankType
  <1>3. newest \subseteq found
    BY <1>2, NewestAreMerged
  <1>4. ASSUME Rank(s, all, asked) < n
        PROVE  Rank(s, found, asked) = Rank(s, all, asked)
    <2>1. ASSUME NEW t \in Earlier(s, all, asked) PROVE t \in found
      <3>1. Rank(t, all, asked) < Rank(s, all, asked)
        BY <1>1, <2>1, RankGrows DEF Earlier
      <3>2. t \in newest
        BY <1>2, <1>1, <1>4, <3>1 DEF Earlier
      <3> QED BY <1>3, <3>2
    <2>2. Earlier(s, found, asked) = Earlier(s, all, asked)
      BY <1>1, <2>1 DEF Earlier
    <2> QED BY <2>2 DEF Rank, Earlier
  <1>5. ASSUME Rank(s, all, asked) >= n
        PROVE  Rank(s, found, asked) >= n
    <2>1. newest \subseteq Earlier(s, found, asked)
      <3> SUFFICES ASSUME NEW t \in newest PROVE Before(t, s, asked)
        BY <1>3 DEF Earlier
      <3>1. Rank(t, all, asked) < Rank(s, all, asked)
        BY <1>1, <1>2, <1>5
      <3>2. ~Before(s, t, asked)
        BY <1>1, <1>2, <3>1, RankGrows
      <3> QED BY <1>1, <1>2, <3>1, <3>2, BeforeIsOrder
    <2>2. Cardinality(newest) = n
      <3>1. n - 1 < Cardinality(all) /\ n - 1 \in Int
        BY <1>1, <1>2, <1>5
      <3>2. \A b \in Int : b < Cardinality(all) =>
              Cardinality({t \in all : Rank(t, all, asked) \in 0 .. b})
                = IF 0 > b THEN 0 ELSE b - 0 + 1
        BY <1>1, SliceSize
      <3> QED BY <3>1, <3>2
    <2>3. /\ IsFiniteSet(Earlier(s, found, asked))
          /\ Rank(s, found, asked) = Cardinality(Earlier(s, found, asked))
      BY <1>1, RankType
    <2> QED BY <2>1, <2>2, <2>3, FS_Subset
  <1> QED BY <1>4, <1>5

\* What chat_sessions selects from the gathered rows is a page of everything
\* that may be seen, and has_more and next_offset are right, whether the
\* platform says that it has more or leaves that out (server.py:351-384).
THEOREM MergedPageIsSlice ==
  ASSUME NEW asked, MayAsk(asked), NEW visible \in SUBSET Sessions,
         NEW offset \in Nat, NEW limit \in Nat \ {0},
         NEW truncated \in BOOLEAN,
         truncated => \E q \in asked : Truncated(visible, q, Window(offset, limit))
  PROVE  LET found == Merged(visible, asked, Window(offset, limit)) IN
         IsPage(Selected(found, asked, offset, limit), HasMore(found, truncated, offset, limit),
                NextOffset(found, asked, offset, limit), visible, asked, offset, limit)
  <1> DEFINE n == offset + limit + 1
             all == Visible(visible, asked)
             found == Merged(visible, asked, n)
  <1>1. n \in Nat /\ Window(offset, limit) = n
    BY DEF Window
  <1>2. all \in SUBSET Sessions /\ found \subseteq all /\ found \in SUBSET Sessions
    BY VisibleType
  <1>3. /\ IsFiniteSet(all) /\ Cardinality(all) \in Nat
        /\ IsFiniteSet(found) /\ Cardinality(found) \in Nat /\ Cardinality(found) <= Cardinality(all)
    BY <1>2, PagesAssumption, FS_Subset, FS_CardinalityType
  <1>4. \A s \in all : Rank(s, all, asked) \in Nat
    BY <1>2, <1>3, RankType
  <1>5. \A s \in found : Rank(s, found, asked) \in Nat
    BY <1>2, <1>3, RankType
  <1>6. Selected(found, asked, offset, limit) = Selected(all, asked, offset, limit)
    <2>1. ASSUME NEW s \in found
          PROVE  Rank(s, found, asked) \in offset .. offset + limit - 1
                   <=> Rank(s, all, asked) \in offset .. offset + limit - 1
      <3>1. /\ Rank(s, all, asked) < n => Rank(s, found, asked) = Rank(s, all, asked)
            /\ Rank(s, all, asked) >= n => Rank(s, found, asked) >= n
        BY <1>1, MergedRank
      <3>2. Rank(s, all, asked) \in Nat /\ Rank(s, found, asked) \in Nat
        BY <1>2, <1>4, <1>5
      <3> QED BY <3>1, <3>2
    <2>2. ASSUME NEW s \in all, Rank(s, all, asked) \in offset .. offset + limit - 1
          PROVE  s \in found
      BY <1>1, <2>2, NewestAreMerged
    <2> QED BY <1>2, <2>1, <2>2 DEF Selected
  <1>7. HasMore(found, truncated, offset, limit) <=> Cardinality(all) > offset + limit
    <2>1. ASSUME truncated PROVE Cardinality(all) > offset + limit
      <3>1. PICK q \in asked : Cardinality(Listed(visible, q)) > n
        BY <1>1, <2>1 DEF Truncated
      <3>2. Listed(visible, q) \subseteq all
        BY DEF Visible
      <3>3. /\ Cardinality(Listed(visible, q)) <= Cardinality(all)
            /\ Cardinality(Listed(visible, q)) \in Nat
        BY <1>3, <3>2, FS_Subset, FS_CardinalityType
      <3> QED BY <1>1, <1>3, <3>1, <3>3
    <2>2. ASSUME Cardinality(all) > offset + limit PROVE Cardinality(found) > offset + limit
      <3> DEFINE newest == {s \in all : Rank(s, all, asked) \in 0 .. n - 1}
      <3>1. n - 1 \in Int /\ n - 1 < Cardinality(all) /\ ~(0 > n - 1)
        BY <1>3, <2>2
      <3>2. Cardinality(newest) = IF 0 > n - 1 THEN 0 ELSE (n - 1) - 0 + 1
        BY <1>2, <3>1, SliceSize
      <3>3. newest \subseteq found
        BY <1>1, <1>4, NewestAreMerged
      <3>4. Cardinality(newest) <= Cardinality(found)
        BY <1>3, <3>3, FS_Subset
      <3> QED BY <1>1, <1>3, <3>1, <3>2, <3>4
    <2> QED BY <1>3, <2>1, <2>2 DEF HasMore
  <1>8. ASSUME Cardinality(all) > offset + limit
        PROVE  NextOffset(found, asked, offset, limit) = offset + limit
    <2>1. offset + limit - 1 \in Int /\ offset + limit - 1 < Cardinality(all)
      BY <1>3, <1>8
    <2>2. Cardinality({s \in all : Rank(s, all, asked) \in offset .. offset + limit - 1})
            = IF offset > offset + limit - 1 THEN 0 ELSE (offset + limit - 1) - offset + 1
      BY <1>2, <2>1, SliceSize
    <2>3. Cardinality(Selected(all, asked, offset, limit)) = limit
      BY <2>2, SMTT(30) DEF Selected
    <2>4. Cardinality(Selected(found, asked, offset, limit)) = limit
      BY <1>6, <2>3, Zenon
    <2> QED BY <2>4, Zenon DEF NextOffset
  <1> QED BY <1>1, <1>6, <1>7, <1>8 DEF IsPage

-----------------------------------------------------------------------------
\* What the table says of the tools that the proofs tell apart.
Harmless == ByParts \cup {"chat_send", "chat_sessions"}

LEMMA ToolFacts ==
  ASSUME NEW t \in Tools
  PROVE  /\ t.name \in SessionTools => t.to = "hermes"
         /\ t.name \in PROJECT_TOOLS \ SessionTools => t.to = "companion"
         /\ t.name \in Harmless => ~t.changes
  <1> USE DEF Reads, Writes, SessionTools, ByParts, PROJECT_TOOLS, Harmless
  <1>1. CASE t \in ProjectRows
    BY <1>1 DEF ProjectRows
  <1>2. CASE t \in ChatRows
    <2>1. t.name \in {"chat_send", "chat_sessions"} => t.changes = FALSE
      BY <1>2 DEF ChatRows
    <2>2. t.to = IF t.name = "chat_sessions" THEN "companion" ELSE "hermes"
      BY <1>2 DEF ChatRows
    <2>3. t.name \in PROJECT_TOOLS \ {"projects_list", "project_get"}
      BY <1>2 DEF ChatRows
    <2> QED BY <2>1, <2>2, <2>3
  <1>3. CASE t \in OverviewRows
    <2>1. t = Reads("settings_overview", "settings")
      BY <1>3 DEF OverviewRows
    <2> QED BY <2>1
  <1>4. CASE t \in ModelRows
    BY <1>4 DEF ModelRows
  <1>5. CASE t \in PersonaRows \cup NameRows
    BY <1>5 DEF PersonaRows, NameRows
  <1>6. CASE t \in JobRows
    BY <1>6 DEF JobRows
  <1>7. CASE t \in ExtensionRows
    BY <1>7 DEF ExtensionRows
  <1>8. CASE t \in TelegramRows
    BY <1>8 DEF TelegramRows
  <1>9. CASE t \in UpdateRows
    <2>1. t.name = "updates_get" => t.changes = FALSE
      BY <1>9 DEF UpdateRows
    <2>2. t.name \in {"updates_get", "updates_set", "updates_run"}
      BY <1>9 DEF UpdateRows
    <2> QED BY <2>1, <2>2
  <1>10. CASE t \in ServerRows
    BY <1>10 DEF ServerRows
  <1> QED BY <1>1, <1>2, <1>3, <1>4, <1>5, <1>6, <1>7, <1>8, <1>9, <1>10 DEF Tools

-----------------------------------------------------------------------------
\* The file names the accepted key, as pending from the activation to the promotion.
IdentityOK ==
    /\ idFile.activated => idFile.pending = accepted
    /\ ~idFile.activated => idFile.current = accepted

TypeInv == TypeOK /\ IdentityOK

LEMMA InitTypes == Init => TypeInv
  <1> SUFFICES ASSUME Init PROVE TypeInv
    OBVIOUS
  <1>1. IdentityOK
    BY CallsAssumption DEF Init, IdentityOK
  <1>2. /\ tool \in [Calls -> Tools \cup {NoTool}] /\ who \in [Calls -> Principals]
    <2>1. PICK scene \in Scenes : /\ tool = [c \in Calls |-> scene[c][1]]
                                  /\ who = [c \in Calls |-> scene[c][2]]
      BY DEF Init
    <2>2. scene \in [Calls -> (Tools \cup {NoTool}) \X Principals]
      BY CallsAssumption
    <2> QED BY <2>1, <2>2
  <1>3. TypeOK
    BY <1>2, CallsAssumption DEF Init, TypeOK, Stages, ReqState
  <1> QED BY <1>1, <1>3 DEF TypeInv

LEMMA LocalKeyAccepted == TypeInv => LocalKey = accepted
  BY DEF TypeInv, IdentityOK, LocalKey

LEMMA AnswerTypes ==
  ASSUME TypeOK, NEW c \in Calls, NEW s \in {"none", "ok", "denied", "error"}, Answer(c, s)
  PROVE  /\ at' \in [Calls -> Stages \cup {"idle", "answered"}]
         /\ answer' \in [Calls -> {"none", "ok", "denied", "error"}]
         /\ req' \in [Calls -> [Names -> ReqState]]
         /\ key' \in [Calls -> [Names -> Keys \cup {NoKey}]]
  BY DEF TypeOK, Answer, ReqState

LEMMA GotoTypes ==
  ASSUME TypeOK, NEW c \in Calls, NEW stage \in Stages, NEW requests, Goto(c, stage, requests)
  PROVE  /\ at' \in [Calls -> Stages \cup {"idle", "answered"}]
         /\ answer' \in [Calls -> {"none", "ok", "denied", "error"}]
         /\ req' \in [Calls -> [Names -> ReqState]]
         /\ key' \in [Calls -> [Names -> Keys \cup {NoKey}]]
  BY DEF TypeOK, Goto, ReqState

LEMMA NextTypes == TypeInv /\ [Next]_vars => TypeInv'
  <1> SUFFICES ASSUME TypeInv, [Next]_vars PROVE TypeInv'
    OBVIOUS
  <1> USE DEF TypeInv
  <1>1. ASSUME NEW c \in Calls, NEW a \in Args, Start(c, a) PROVE TypeInv'
    <2>1. (\E s \in {"denied", "error"} : Answer(c, s)) \/ \E stage \in Stages : \E rs : Goto(c, stage, rs)
      BY <1>1 DEF Start, FirstStage, Stages
    <2>2. arg' \in [Calls -> Args] /\ stood' \in [Calls -> SUBSET Calls]
      BY <1>1 DEF Start, TypeOK
    <2>3. UNCHANGED <<identity, expired, agent, tool, who, got>>
      BY <1>1 DEF Start
    <2>4. TypeOK'
      BY <2>1, <2>2, <2>3, AnswerTypes, GotoTypes DEF TypeOK, identity, agent, got
    <2> QED BY <2>3, <2>4 DEF IdentityOK, identity
  <1>2. ASSUME NEW c \in Calls, NEW r \in Names, Send(c, r) PROVE TypeInv'
    <2>1. LocalKey \in Keys
      BY LocalKeyAccepted DEF TypeOK
    <2>2. key' \in [Calls -> [Names -> Keys \cup {NoKey}]]
      BY <1>2, <2>1 DEF Send, TypeOK
    <2>3. req' \in [Calls -> [Names -> ReqState]]
      BY <1>2 DEF Send, TypeOK, ReqState
    <2> QED
      BY <1>2, <2>2, <2>3 DEF Send, TypeOK, IdentityOK, identity, agent, call, got
  <1>3. ASSUME NEW c \in Calls, NEW r \in Names,
               NoIdentity(c, r) \/ Reject(c, r) \/ GiveUp(c, r) \/ Piece(c, r) \/ ReadOn(c, r)
        PROVE  TypeInv'
    <2>1. PICK s \in {"failed", "lost", "arriving", "sent"} : req' = [req EXCEPT ![c][r] = s]
      BY <1>3 DEF NoIdentity, Reject, GiveUp, Piece, ReadOn, Ended
    <2>2. req' \in [Calls -> [Names -> ReqState]]
      BY <2>1 DEF TypeOK, ReqState
    <2>3. key' \in [Calls -> [Names -> Keys \cup {NoKey}]]
      <3>1. key' = key \/ key' = [key EXCEPT ![c][r] = NoKey]
        BY <1>3 DEF NoIdentity, Reject, GiveUp, Piece, ReadOn, Ended
      <3>2. CASE key' = key
        BY <3>2 DEF TypeOK
      <3>3. CASE key' = [key EXCEPT ![c][r] = NoKey]
        BY <3>3 DEF TypeOK
      <3> QED BY <3>1, <3>2, <3>3
    <2>4. UNCHANGED <<identity, expired, agent, at, call, got, answer>>
      BY <1>3 DEF NoIdentity, Reject, GiveUp, Piece, ReadOn
    <2> QED
      BY <2>2, <2>3, <2>4 DEF TypeOK, IdentityOK, identity, agent, call, got
  <1>4. ASSUME NEW c \in Calls, Change(c)
        PROVE  sessions' \subseteq Sessions /\ persona' \subseteq Calls
                 /\ changed' \subseteq Calls /\ disturbed' \subseteq Calls
    BY <1>4 DEF Change, TypeOK
  <1>5. ASSUME NEW c \in Calls, NEW r \in Names, Reply(c, r) PROVE TypeInv'
    <2>1. UNCHANGED <<identity, expired, at, call, answer>> /\ Ended(c, r, "ok")
      BY <1>5 DEF Reply
    <2>2. req' \in [Calls -> [Names -> ReqState]] /\ key' \in [Calls -> [Names -> Keys \cup {NoKey}]]
      BY <2>1 DEF Ended, TypeOK, ReqState
    <2>3. CASE Changes(c)
      BY <1>4, <1>5, <2>1, <2>2, <2>3 DEF Reply, TypeOK, IdentityOK, identity, call, got
    <2>4. CASE ~Changes(c)
      <3>1. /\ sessions' \subseteq Sessions /\ persona' \subseteq Calls
            /\ changed' \subseteq Calls /\ disturbed' \subseteq Calls
        BY <1>5, <2>4 DEF Reply, TypeOK, agent
      <3>2. /\ overlay' \in [Calls -> SUBSET Calls] /\ rows' \in [Calls -> SUBSET Sessions]
            /\ more' \in [Calls -> BOOLEAN]
        <4>1. overlay' = [overlay EXCEPT ![c] = IF at[c] = "read" THEN persona ELSE @]
          BY <1>5, <2>4 DEF Reply
        <4>2. CASE tool[c].name # "chat_sessions"
          BY <1>5, <2>4, <4>1, <4>2 DEF Reply, TypeOK
        <4>3. CASE tool[c].name = "chat_sessions"
          <5>1. PICK asked \in {r, All}, told \in BOOLEAN :
                  /\ rows' = [rows EXCEPT ![c] = @ \cup Page(sessions, asked, TheWindow(c))]
                  /\ more' = [more EXCEPT ![c] =
                                @ \/ (told /\ Truncated(sessions, asked, TheWindow(c)))]
            BY <1>5, <2>4, <4>3 DEF Reply
          <5>2. Page(sessions, asked, TheWindow(c)) \subseteq Sessions
            BY DEF Page, Listed, TypeOK
          <5>3. rows' \in [Calls -> SUBSET Sessions]
            BY <5>1, <5>2 DEF TypeOK
          <5>4. more' \in [Calls -> BOOLEAN]
            <6>1. (more[c] \/ (told /\ Truncated(sessions, asked, TheWindow(c)))) \in BOOLEAN
              OBVIOUS
            <6> QED BY <5>1, <6>1, Zenon DEF TypeOK
          <5> QED BY <4>1, <5>3, <5>4 DEF TypeOK
        <4> QED BY <4>2, <4>3
      <3> QED BY <2>1, <2>2, <3>1, <3>2 DEF TypeOK, IdentityOK, identity, call
    <2> QED BY <2>3, <2>4
  <1>6. ASSUME NEW c \in Calls, NEW r \in Names, Late(c, r) PROVE TypeInv'
    <2>1. req' \in [Calls -> [Names -> ReqState]]
      BY <1>6 DEF Late, TypeOK, ReqState
    <2> QED
      BY <1>4, <1>6, <2>1 DEF Late, TypeOK, IdentityOK, identity, call, got
  <1>7. ASSUME NEW c \in Calls, Proceed(c) \/ Fail(c) PROVE TypeInv'
    <2>1. (\E s \in {"ok", "denied", "error"} : Answer(c, s)) \/ \E stage \in Stages : \E rs : Goto(c, stage, rs)
      BY <1>7 DEF Proceed, Fail, Result, Stages
    <2>2. UNCHANGED <<identity, expired, agent, call, got>>
      BY <1>7 DEF Proceed, Fail
    <2>3. TypeOK'
      BY <2>1, <2>2, AnswerTypes, GotoTypes DEF TypeOK, identity, agent, call, got
    <2> QED BY <2>2, <2>3 DEF IdentityOK, identity
  <1>8. CASE Platform
    <2>1. UNCHANGED <<expired, agent, at, call, req, key, got, answer>>
      BY <1>8 DEF Platform
    <2>2. /\ idFile' \in [current : Keys, pending : Keys \cup {NoKey}, activated : BOOLEAN]
          /\ accepted' \in Keys /\ retired' \subseteq Keys /\ IdentityOK'
      <3>1. CASE \E k \in Keys : StageKey(k)
        BY <3>1, CallsAssumption DEF StageKey, TypeOK, IdentityOK
      <3>2. CASE ActivateKey
        BY <3>2 DEF ActivateKey, TypeOK, IdentityOK
      <3>3. CASE PromoteKey
        BY <3>3, CallsAssumption DEF PromoteKey, TypeOK, IdentityOK
      <3> QED BY <1>8, <3>1, <3>2, <3>3 DEF Platform
    <2> QED BY <2>1, <2>2 DEF TypeOK, agent, call, got
  <1>9. ASSUME NEW g \in Temporary, Expire(g) PROVE TypeInv'
    BY <1>9, CallsAssumption DEF Expire, TypeOK, IdentityOK, identity, agent, call, got
  <1>10. CASE UNCHANGED vars
    BY <1>10 DEF vars, TypeOK, IdentityOK, identity, agent, call, got
  <1> QED
    BY <1>1, <1>2, <1>3, <1>5, <1>6, <1>7, <1>8, <1>9, <1>10 DEF Next, Timeout, Disconnect

\* Every variable keeps its type, whatever calls, credentials and keys there are.
THEOREM TypeCorrect == Spec => []TypeOK
  <1>1. TypeInv => TypeOK
    BY DEF TypeInv
  <1> QED BY InitTypes, NextTypes, <1>1, PTL DEF Spec

LEMMA TypeInvariant == Spec => []TypeInv
  BY InitTypes, NextTypes, PTL DEF Spec

\* A request takes the key that the backends accept when it sets out, in every
\* state of a rotation: neither one that was retired nor one that is staged
\* (config.py:116-131, which reads the file for each request).
THEOREM KeysAreFresh == Spec => FreshKeys
  <1>1. TypeInv /\ [Next]_vars =>
          [\A c \in Calls, r \in Names :
             key'[c][r] # key[c][r] => key'[c][r] \in {NoKey, accepted}]_vars
    <2> SUFFICES ASSUME TypeInv, Next, NEW c \in Calls, NEW r \in Names, key'[c][r] # key[c][r]
                 PROVE  key'[c][r] \in {NoKey, accepted}
      OBVIOUS
    <2>1. LocalKey = accepted
      BY LocalKeyAccepted
    <2>2. key \in [Calls -> [Names -> Keys \cup {NoKey}]]
      BY DEF TypeInv, TypeOK
    <2>3. ASSUME NEW d \in Calls, NEW s, Answer(d, s) PROVE key'[c][r] \in {NoKey, accepted}
      BY <2>2, <2>3 DEF Answer
    <2>4. ASSUME NEW d \in Calls, NEW q \in Names, NEW s, Ended(d, q, s)
          PROVE  key'[c][r] \in {NoKey, accepted}
      BY <2>2, <2>4 DEF Ended
    <2>5. ASSUME NEW d \in Calls, NEW a \in Args, Start(d, a) PROVE key'[c][r] \in {NoKey, accepted}
      BY <2>3, <2>5 DEF Start, Goto
    <2>6. ASSUME NEW d \in Calls, Proceed(d) \/ Fail(d) PROVE key'[c][r] \in {NoKey, accepted}
      BY <2>3, <2>6 DEF Proceed, Fail, Result, Goto
    <2>7. ASSUME NEW d \in Calls, NEW q \in Names, Send(d, q) PROVE key'[c][r] \in {NoKey, accepted}
      BY <2>1, <2>2, <2>7 DEF Send
    <2>8. ASSUME NEW d \in Calls, NEW q \in Names,
                 Reply(d, q) \/ Reject(d, q) \/ Timeout(d, q) \/ Disconnect(d, q)
          PROVE  key'[c][r] \in {NoKey, accepted}
      BY <2>4, <2>8 DEF Reply, Reject, Timeout, Disconnect, GiveUp
    <2>9. ASSUME NEW d \in Calls, NEW q \in Names, NoIdentity(d, q) \/ Late(d, q) \/ Piece(d, q) \/ ReadOn(d, q)
          PROVE  FALSE
      BY <2>9 DEF NoIdentity, Late, Piece, ReadOn
    <2>10. CASE Platform \/ \E g \in Temporary : Expire(g)
      BY <2>10 DEF Platform, Expire
    <2> QED BY <2>5, <2>6, <2>7, <2>8, <2>9, <2>10 DEF Next
  <1> QED BY <1>1, TypeInvariant, PTL DEF Spec, FreshKeys

-----------------------------------------------------------------------------
\* The history of a call.
Append(c) == tool[c].name = "persona_set" /\ arg[c].flag
Mutates(c) == tool[c].changes /\ (tool[c].name = "extensions_install" => arg[c].flag)
Parts(c) == IF at[c] = "act" THEN FirstRequests(tool[c], who[c], arg[c]) ELSE {"only"}

\* A call that made a request passed the checks of its tool.
Admitted(c) ==
    /\ tool[c] \in Tools /\ arg[c] \in ArgsOf(tool[c])
    /\ AllowsTool(who[c], tool[c].name) /\ ~Invalid(tool[c], arg[c])

IdleOK(c) ==
    at[c] = "idle" =>
        /\ c \notin changed /\ c \notin disturbed /\ rows[c] = {} /\ ~more[c]
        /\ \A r \in Names : req[c][r] = "none"

StageOK(c) ==
    /\ at[c] \in Stages \/ c \in changed \/ (\E r \in Names : req[c][r] = "lost") => Admitted(c)
    /\ at[c] = "context" => tool[c].name \in SessionTools
    /\ at[c] = "read" => Append(c)
    /\ at[c] = "act" /\ tool[c].name \in SessionTools =>
         arg[c].session # None /\ AllowsProject(who[c], ContextProject(c))
    /\ at[c] \in Stages => \A r \in Names : req[c][r] # "none" <=> r \in Parts(c)

\* Only a write is ever lost, and it is changed when its one request is "ok".
WriteOK(c) ==
    /\ c \in changed =>
         Mutates(c) /\ at[c] \in {"act", "answered"} /\ req[c]["only"] \in {"none", "ok", "failed"}
    /\ \A r \in Names : req[c][r] = "lost" =>
         /\ r = "only" /\ Mutates(c) /\ at[c] \in {"act", "answered"}
         /\ at[c] = "answered" => answer[c] = "error"
    /\ at[c] = "act" /\ Mutates(c) /\ req[c]["only"] = "ok" => c \in changed
    /\ at[c] = "answered" => \A r \in Names : req[c][r] \in {"none", "lost"}

AnswerOK(c) ==
    /\ at[c] # "answered" => answer[c] = "none"
    /\ answer[c] = "ok" => (c \in changed <=> Mutates(c))
    /\ answer[c] = "denied" /\ who[c] \notin expired => c \notin changed
    /\ answer[c] = "error" => tool[c].name \notin ByParts
    /\ answer[c] = "ok" /\ tool[c].name \in SessionTools => AllowsProject(who[c], ContextProject(c))
    /\ answer[c] = "ok" /\ tool[c].name = "chat_sessions" => Foreign(c) = {}

CallOK(c) == IdleOK(c) /\ StageOK(c) /\ WriteOK(c) /\ AnswerOK(c)

\* An append read the overlay that its call began with.
AppendOK(c) ==
    Append(c) /\ c \notin disturbed =>
        /\ at[c] # "idle" => persona = IF c \in changed THEN stood[c] \cup {c} ELSE stood[c]
        /\ \/ at[c] = "read" /\ req[c]["only"] = "ok"
           \/ at[c] = "act"
           \/ req[c]["only"] = "lost"
           => overlay[c] = stood[c]

\* The rows of a list are those of the replies it got.
Replied(c) == {q \in Asked(who[c], arg[c]) : answer[c] = "ok" \/ req[c][q] = "ok"}

PageOK(c) ==
    tool[c].name = "chat_sessions" /\ c \notin disturbed /\ (at[c] = "act" \/ answer[c] = "ok") =>
        /\ rows[c] = UNION {Page(sessions, q, TheWindow(c)) : q \in Replied(c)}
        /\ more[c] => \E q \in Asked(who[c], arg[c]) : Truncated(sessions, q, TheWindow(c))

CallInv(c) == CallOK(c) /\ AppendOK(c) /\ PageOK(c)
Inv == \A c \in Calls : CallInv(c)

-----------------------------------------------------------------------------
\* A step of another call leaves this one alone: at most it disturbs it.
Kept(c) ==
    /\ tool' = tool /\ who' = who /\ expired \subseteq expired'
    /\ at'[c] = at[c] /\ arg'[c] = arg[c] /\ stood'[c] = stood[c]
    /\ req'[c] = req[c] /\ answer'[c] = answer[c]
    /\ rows'[c] = rows[c] /\ more'[c] = more[c] /\ overlay'[c] = overlay[c]
    /\ c \in changed' <=> c \in changed
    /\ \/ UNCHANGED <<sessions, persona>> /\ (c \in disturbed' <=> c \in disturbed)
       \/ at[c] # "idle" /\ c \in disturbed'
       \/ at[c] = "idle" /\ (c \in disturbed' <=> c \in disturbed)

LEMMA KeptCall ==
  ASSUME TypeInv, TypeInv', NEW c \in Calls, CallInv(c), Kept(c)
  PROVE  CallInv(c)'
  <1>1. /\ tool'[c] = tool[c] /\ who'[c] = who[c] /\ at'[c] = at[c] /\ arg'[c] = arg[c]
        /\ req'[c] = req[c] /\ answer'[c] = answer[c] /\ rows'[c] = rows[c] /\ more'[c] = more[c]
        /\ c \in changed' <=> c \in changed
    BY DEF Kept
  <1>2. /\ Mutates(c)' <=> Mutates(c)
        /\ Append(c)' <=> Append(c)
        /\ Parts(c)' = Parts(c)
        /\ ContextProject(c)' = ContextProject(c)
        /\ Admitted(c)' <=> Admitted(c)
        /\ Foreign(c)' = Foreign(c)
        /\ TheWindow(c)' = TheWindow(c)
        /\ Replied(c)' = Replied(c)
    BY <1>1 DEF Mutates, Append, Parts, ContextProject, Admitted, Foreign, TheWindow, Replied
  <1>3. IdleOK(c)'
    BY <1>1 DEF CallInv, CallOK, IdleOK, Kept
  <1>4. StageOK(c)'
    BY <1>1, <1>2 DEF CallInv, CallOK, StageOK
  <1>5. WriteOK(c)'
    BY <1>1, <1>2 DEF CallInv, CallOK, WriteOK
  <1>6. AnswerOK(c)'
    BY <1>1, <1>2 DEF CallInv, CallOK, AnswerOK, Kept
  <1>7. AppendOK(c)'
    BY <1>1, <1>2 DEF CallInv, CallOK, AppendOK, IdleOK, Kept, TypeOK
  <1>8. PageOK(c)'
    BY <1>1, <1>2 DEF CallInv, CallOK, PageOK, AnswerOK, Kept
  <1> QED BY <1>3, <1>4, <1>5, <1>6, <1>7, <1>8 DEF CallInv, CallOK

-----------------------------------------------------------------------------
LEMMA AskedNames ==
  ASSUME NEW w \in Principals, NEW a \in Args
  PROVE  Asked(w, a) \subseteq Names /\ MayAsk(Asked(w, a))
  <1>1. a.project \in Projects \cup {None}
    BY DEF Args
  <1>2. Restricted(w) => Scope[w] \subseteq Projects
    BY CallsAssumption DEF Restricted
  <1> QED BY <1>1, <1>2 DEF Asked, Names, MayAsk

\* A tool that writes makes one request for it.
LEMMA WritesOnce ==
  ASSUME NEW c \in Calls, Admitted(c), Mutates(c)
  PROVE  FirstRequests(tool[c], who[c], arg[c]) = {"only"} /\ tool[c].name # "chat_sessions"
  BY ToolFacts DEF Admitted, Mutates, FirstRequests, Harmless, ByParts

LEMMA UnderWay ==
  ASSUME TypeInv, NEW c \in Calls, CallInv(c), NEW r \in Names, req[c][r] \in {"todo", "sent", "arriving"}
  PROVE  /\ at[c] \in Stages /\ r \in Parts(c) /\ Admitted(c) /\ answer[c] = "none"
         /\ Changes(c) => r = "only"
         /\ c \in changed => r # "only"
  <1>1. at[c] \in Stages
    BY DEF CallInv, CallOK, IdleOK, WriteOK, TypeInv, TypeOK
  <1>2. r \in Parts(c) /\ Admitted(c) /\ answer[c] = "none"
    BY <1>1 DEF CallInv, CallOK, StageOK, AnswerOK, Stages
  <1>3. Changes(c) => r = "only"
    BY <1>2, WritesOnce DEF Changes, Mutates, Parts
  <1>4. c \in changed => r # "only"
    BY DEF CallInv, CallOK, WriteOK
  <1> QED BY <1>1, <1>2, <1>3, <1>4

\* A request sets out, gets a piece of its reply, fails, is given up, or reads.
LEMMA RequestMoves ==
  ASSUME TypeInv, NEW c \in Calls, CallInv(c), NEW r \in Names, req[c][r] \in {"todo", "sent", "arriving"},
         NEW s \in {"sent", "arriving", "ok", "failed", "lost"},
         s = "lost" => Changes(c), s = "ok" => ~Changes(c),
         req' = [req EXCEPT ![c][r] = s],
         UNCHANGED <<at, call, answer, changed, persona>>, disturbed \subseteq disturbed',
         overlay'[c] = IF at[c] = "read" /\ s = "ok" THEN persona ELSE overlay[c]
  PROVE  CallOK(c)' /\ AppendOK(c)'
  <1>1. /\ tool' = tool /\ who' = who /\ arg' = arg /\ stood' = stood
    BY DEF call
  <1>2. req'[c] = [req[c] EXCEPT ![r] = s] /\ req[c] \in [Names -> ReqState]
    BY DEF TypeInv, TypeOK
  <1>3. /\ Mutates(c)' <=> Mutates(c)
        /\ Append(c)' <=> Append(c)
        /\ Parts(c)' = Parts(c)
        /\ ContextProject(c)' = ContextProject(c)
        /\ Admitted(c)' <=> Admitted(c)
    BY <1>1 DEF Mutates, Append, Parts, ContextProject, Admitted
  <1>4. /\ at[c] \in Stages /\ r \in Parts(c) /\ Admitted(c) /\ answer[c] = "none"
        /\ Changes(c) => r = "only"
        /\ c \in changed => r # "only"
    BY UnderWay
  <1>5. Changes(c) <=> at[c] = "act" /\ Mutates(c)
    BY DEF Changes, Mutates
  <1>6. IdleOK(c)' /\ AnswerOK(c)'
    BY <1>1, <1>4 DEF IdleOK, AnswerOK, CallInv, CallOK, Stages
  <1>7. StageOK(c)'
    BY <1>1, <1>2, <1>3, <1>4 DEF CallInv, CallOK, StageOK
  <1>8. WriteOK(c)'
    <2>1. \A q \in Names : req'[c][q] = IF q = r THEN s ELSE req[c][q]
      BY <1>2
    <2> QED BY <1>1, <1>3, <1>4, <1>5, <2>1 DEF CallInv, CallOK, WriteOK, Stages
  <1>9. AppendOK(c)'
    BY <1>1, <1>2, <1>3, <1>4, <1>5 DEF CallInv, CallOK, AppendOK, WriteOK, Stages
  <1> QED BY <1>6, <1>7, <1>8, <1>9 DEF CallOK

LEMMA FailureKeeps ==
  ASSUME TypeInv, NEW c \in Calls, CallInv(c), NEW r \in Names, req[c][r] \in {"todo", "sent", "arriving"},
         NEW s \in {"sent", "arriving", "failed", "lost"}, s = "lost" => Changes(c),
         req' = [req EXCEPT ![c][r] = s],
         UNCHANGED <<expired, agent, at, call, got, answer>>
  PROVE  CallInv(c)' /\ \A d \in Calls \ {c} : Kept(d)
  <1>1. CallOK(c)' /\ AppendOK(c)'
    BY RequestMoves DEF agent, got
  <1>2. PageOK(c)'
    <2>1. req'[c] = [req[c] EXCEPT ![r] = s] /\ req[c] \in [Names -> ReqState]
      BY DEF TypeInv, TypeOK
    <2>2. Asked(who[c], arg[c])' = Asked(who[c], arg[c]) /\ TheWindow(c)' = TheWindow(c)
      BY DEF call, TheWindow
    <2>3. \A q : req'[c][q] = "ok" <=> req[c][q] = "ok"
      BY <2>1
    <2>4. Replied(c)' = Replied(c)
      BY <2>2, <2>3 DEF Replied
    <2> QED BY <2>2, <2>4 DEF CallInv, PageOK, agent, call, got
  <1>3. \A d \in Calls \ {c} : Kept(d)
    BY DEF Kept, TypeInv, TypeOK, agent, call, got
  <1> QED BY <1>1, <1>2, <1>3 DEF CallInv

LEMMA CarriedOut ==
  ASSUME TypeInv, NEW c \in Calls, CallInv(c), NEW r \in Names, NEW s,
         \/ req[c][r] = "sent" /\ Changes(c) /\ s = "ok"
         \/ req[c][r] = "lost" /\ s = IF at[c] = "answered" THEN "none" ELSE "failed",
         req' = [req EXCEPT ![c][r] = s], Change(c),
         UNCHANGED <<expired, at, call, got, answer>>
  PROVE  CallInv(c)' /\ \A d \in Calls \ {c} : Kept(d)
  <1>1. /\ tool' = tool /\ who' = who /\ arg' = arg /\ stood' = stood
        /\ rows' = rows /\ more' = more /\ overlay' = overlay
    BY DEF call, got
  <1>2. req'[c] = [req[c] EXCEPT ![r] = s] /\ req[c] \in [Names -> ReqState]
    BY DEF TypeInv, TypeOK
  <1>3. /\ Mutates(c)' <=> Mutates(c)
        /\ Append(c)' <=> Append(c)
        /\ Parts(c)' = Parts(c)
        /\ ContextProject(c)' = ContextProject(c)
        /\ Admitted(c)' <=> Admitted(c)
    BY <1>1 DEF Mutates, Append, Parts, ContextProject, Admitted
  <1>4. r = "only" /\ Mutates(c) /\ at[c] \in {"act", "answered"} /\ Admitted(c)
    <2>1. CASE req[c][r] = "sent"
      BY <2>1, UnderWay DEF Changes, Mutates
    <2>2. CASE req[c][r] = "lost"
      BY <2>2 DEF CallInv, CallOK, WriteOK, StageOK
    <2> QED BY <2>1, <2>2
  <1>5. at[c] = "answered" => answer[c] = "error" /\ s = "none"
    BY <1>4, UnderWay DEF CallInv, CallOK, WriteOK, Changes
  <1>6. at[c] = "act" => s \in {"ok", "failed"} /\ answer[c] = "none" /\ req[c][r] # "none"
    BY DEF CallInv, CallOK, AnswerOK
  <1>7. changed' = changed \cup {c} /\ (c \in disturbed' <=> c \in disturbed)
    BY DEF Change
  <1>8. IdleOK(c)'
    BY <1>4 DEF IdleOK
  <1>9. StageOK(c)'
    <2>1. at[c] \in Stages => \A q \in Names : req'[c][q] # "none" <=> q \in Parts(c)
      BY <1>2, <1>4, <1>6 DEF CallInv, CallOK, StageOK, Stages
    <2> QED BY <1>1, <1>3, <1>4, <2>1 DEF CallInv, CallOK, StageOK
  <1>10. WriteOK(c)'
    <2>1. \A q \in Names : req'[c][q] = IF q = "only" THEN s ELSE req[c][q]
      BY <1>2, <1>4
    <2>2. s \in {"none", "ok", "failed"}
      OBVIOUS
    <2> QED BY <1>1, <1>3, <1>4, <1>5, <1>7, <2>1, <2>2 DEF CallInv, CallOK, WriteOK, Names
  <1>11. AnswerOK(c)'
    <2>1. answer[c] = "error" => tool[c].name \notin ByParts
      BY DEF CallInv, CallOK, AnswerOK
    <2> QED BY <1>1, <1>4, <1>5, <1>6, <2>1 DEF AnswerOK
  <1>12. AppendOK(c)'
    <2>1. Append(c) /\ c \notin disturbed => overlay[c] = stood[c]
      BY <1>4, UnderWay DEF CallInv, AppendOK, Changes
    <2>2. Append(c) => persona' = overlay[c] \cup {c}
      BY DEF Append, Change
    <2> QED BY <1>1, <1>3, <1>7, <2>1, <2>2 DEF AppendOK
  <1>13. PageOK(c)'
    BY <1>1, <1>4, WritesOnce DEF PageOK
  <1>14. \A d \in Calls \ {c} : Kept(d)
    <2> SUFFICES ASSUME NEW d \in Calls \ {c} PROVE Kept(d)
      OBVIOUS
    <2>1. req'[d] = req[d]
      BY DEF TypeInv, TypeOK
    <2>2. (d \in changed' <=> d \in changed) /\ (at[d] # "idle" => d \in disturbed')
           /\ (at[d] = "idle" => (d \in disturbed' <=> d \in disturbed))
      BY DEF Change
    <2> QED BY <1>1, <2>1, <2>2 DEF Kept
  <1> QED
    BY <1>8, <1>9, <1>10, <1>11, <1>12, <1>13, <1>14 DEF CallInv, CallOK

\* A reply to a request that reads.
LEMMA ReadKeeps ==
  ASSUME TypeInv, NEW c \in Calls, CallInv(c), NEW r \in Names, Reply(c, r), ~Changes(c)
  PROVE  CallInv(c)' /\ \A d \in Calls \ {c} : Kept(d)
  <1>1. /\ req[c][r] = "sent" /\ req' = [req EXCEPT ![c][r] = "ok"]
        /\ UNCHANGED <<expired, at, call, answer, sessions, persona, changed>>
        /\ overlay' = [overlay EXCEPT ![c] = IF at[c] = "read" THEN persona ELSE @]
    BY DEF Reply, Ended, agent
  <1>2. disturbed \subseteq disturbed' /\ disturbed' \subseteq disturbed \cup {c}
    BY DEF Reply, agent
  <1>3. overlay'[c] = IF at[c] = "read" THEN persona ELSE overlay[c]
    BY <1>1 DEF TypeInv, TypeOK
  <1>4. CallOK(c)' /\ AppendOK(c)'
    BY <1>1, <1>2, <1>3, RequestMoves
  <1>5. PageOK(c)'
    <2> SUFFICES ASSUME tool[c].name = "chat_sessions", c \notin disturbed', at[c] = "act"
                 PROVE  /\ rows'[c] = UNION {Page(sessions, q, TheWindow(c)) : q \in Replied(c)'}
                        /\ more'[c] => \E q \in Asked(who[c], arg[c]) :
                                          Truncated(sessions, q, TheWindow(c))
      <3>1. TheWindow(c)' = TheWindow(c)
        BY <1>1 DEF call, TheWindow
      <3>2. answer[c] = "none"
        BY <1>1, UnderWay
      <3> QED BY <1>1, <3>1, <3>2 DEF PageOK, call
    <2>1. r \in Asked(who[c], arg[c]) /\ answer[c] = "none"
      BY <1>1, UnderWay DEF Parts, FirstRequests
    <2>2. PICK told \in BOOLEAN :
            /\ rows' = [rows EXCEPT ![c] = @ \cup Page(sessions, r, TheWindow(c))]
            /\ more' = [more EXCEPT ![c] = @ \/ (told /\ Truncated(sessions, r, TheWindow(c)))]
      BY DEF Reply
    <2>3. rows'[c] = rows[c] \cup Page(sessions, r, TheWindow(c))
      BY <2>2 DEF TypeInv, TypeOK
    <2>4. more'[c] = (more[c] \/ (told /\ Truncated(sessions, r, TheWindow(c))))
      BY <2>2, Zenon DEF TypeInv, TypeOK
    <2>5. Replied(c)' = Replied(c) \cup {r}
      <3>1. req'[c] = [req[c] EXCEPT ![r] = "ok"] /\ req[c] \in [Names -> ReqState]
        BY <1>1 DEF TypeInv, TypeOK
      <3>2. \A q \in Names : req'[c][q] = "ok" <=> req[c][q] = "ok" \/ q = r
        BY <3>1
      <3>3. Asked(who[c], arg[c])' = Asked(who[c], arg[c]) /\ answer'[c] = "none"
        BY <1>1, <2>1 DEF call
      <3>4. \A q : req'[c][q] = "ok" <=> req[c][q] = "ok" \/ q = r
        BY <3>1
      <3> QED BY <2>1, <3>3, <3>4 DEF Replied
    <2>6. c \notin disturbed
      BY <1>2
    <2>7. /\ rows[c] = UNION {Page(sessions, q, TheWindow(c)) : q \in Replied(c)}
          /\ more[c] => \E q \in Asked(who[c], arg[c]) : Truncated(sessions, q, TheWindow(c))
      BY <2>6 DEF CallInv, PageOK
    <2> QED BY <2>1, <2>3, <2>4, <2>5, <2>7
  <1>6. \A d \in Calls \ {c} : Kept(d)
    <2> SUFFICES ASSUME NEW d \in Calls \ {c} PROVE Kept(d)
      OBVIOUS
    <2>1. req'[d] = req[d] /\ overlay'[d] = overlay[d]
      BY <1>1 DEF TypeInv, TypeOK
    <2>2. rows'[d] = rows[d] /\ more'[d] = more[d]
      BY DEF Reply, TypeInv, TypeOK
    <2> QED BY <1>1, <1>2, <2>1, <2>2 DEF Kept, call
  <1> QED BY <1>4, <1>5, <1>6 DEF CallInv

-----------------------------------------------------------------------------
LEMMA AnswerEffect ==
  ASSUME TypeOK, NEW c \in Calls, NEW s, Answer(c, s)
  PROVE  /\ at'[c] = "answered" /\ answer'[c] = s
         /\ \A r \in Names : req'[c][r] = IF req[c][r] = "lost" THEN "lost" ELSE "none"
         /\ \A d \in Calls \ {c} : at'[d] = at[d] /\ answer'[d] = answer[d] /\ req'[d] = req[d]
  BY DEF TypeOK, Answer

LEMMA GotoEffect ==
  ASSUME TypeOK, NEW c \in Calls, NEW stage, NEW requests, Goto(c, stage, requests)
  PROVE  /\ at'[c] = stage /\ answer' = answer
         /\ \A r \in Names : req'[c][r] = IF r \in requests THEN "todo" ELSE "none"
         /\ \A d \in Calls \ {c} : at'[d] = at[d] /\ req'[d] = req[d]
  BY DEF TypeOK, Goto

LEMMA StartKeeps ==
  ASSUME TypeInv, NEW c \in Calls, CallInv(c), NEW a \in Args, Start(c, a)
  PROVE  CallInv(c)' /\ \A d \in Calls \ {c} : Kept(d)
  <1>1. /\ tool' = tool /\ who' = who /\ expired' = expired /\ at[c] = "idle"
        /\ UNCHANGED <<agent, got>> /\ arg'[c] = a /\ stood'[c] = persona
        /\ tool[c] \in Tools /\ a \in ArgsOf(tool[c])
    BY DEF Start, TypeInv, TypeOK
  <1>2. /\ c \notin changed' /\ c \notin disturbed' /\ rows'[c] = {} /\ ~more'[c]
        /\ \A r \in Names : req[c][r] = "none"
        /\ answer[c] = "none"
    BY <1>1 DEF CallInv, CallOK, IdleOK, AnswerOK, agent, got
  <1>3. ASSUME NEW s \in {"denied", "error"}, Answer(c, s),
               s = "error" => tool[c].name \notin ByParts
        PROVE  CallInv(c)'
    <2>1. at'[c] = "answered" /\ answer'[c] = s /\ \A r \in Names : req'[c][r] = "none"
      BY <1>2, <1>3, AnswerEffect DEF TypeInv
    <2>2. "only" \in Names
      BY DEF Names
    <2>3. AnswerOK(c)'
      BY <1>1, <1>2, <1>3, <2>1 DEF AnswerOK, agent
    <2> QED
      BY <1>1, <1>2, <2>1, <2>2, <2>3 DEF CallInv, CallOK, IdleOK, StageOK, WriteOK, AppendOK, PageOK,
                               Stages, agent
  <1>4. ASSUME AllowsTool(who[c], tool[c].name), ~Invalid(tool[c], a),
               Goto(c, FirstStage(tool[c], a), FirstRequests(tool[c], who[c], a))
        PROVE  CallInv(c)'
    <2> DEFINE requests == FirstRequests(tool[c], who[c], a)
    <2>1. /\ at'[c] = FirstStage(tool[c], a) /\ answer'[c] = "none"
          /\ \A r \in Names : req'[c][r] = IF r \in requests THEN "todo" ELSE "none"
      BY <1>2, <1>4, GotoEffect DEF TypeInv
    <2>2. Admitted(c)'
      BY <1>1, <1>4 DEF Admitted
    <2>3. /\ FirstStage(tool[c], a) = "context" => tool[c].name \in SessionTools
          /\ FirstStage(tool[c], a) = "read" => tool[c].name = "persona_set" /\ a.flag
          /\ FirstStage(tool[c], a) = "act" => tool[c].name \notin SessionTools /\ ~Append(c)'
          /\ FirstStage(tool[c], a) \in Stages
      BY <1>1 DEF FirstStage, Append, Stages
    <2>4. Parts(c)' = requests
      BY <1>1, <2>1, <2>3 DEF Parts, FirstRequests, SessionTools, Stages
    <2>5. \A r \in Names : req'[c][r] \in {"none", "todo"} /\ (req'[c][r] # "none" <=> r \in requests)
      BY <2>1
    <2>6. IdleOK(c)' /\ AnswerOK(c)'
      BY <2>1, <2>3 DEF IdleOK, AnswerOK, Stages
    <2>7. StageOK(c)'
      BY <1>1, <2>1, <2>2, <2>3, <2>4, <2>5 DEF StageOK, Append
    <2>8. "only" \in Names
      BY DEF Names
    <2>9. WriteOK(c)'
      BY <1>2, <2>1, <2>3, <2>5, <2>8 DEF WriteOK, Stages
    <2>10. AppendOK(c)'
      BY <1>1, <1>2, <2>1, <2>3, <2>5, <2>8 DEF AppendOK, agent
    <2>11. PageOK(c)'
      <3>1. Asked(who[c], a) \subseteq Names
        BY AskedNames DEF TypeInv, TypeOK
      <3>2. tool[c].name = "chat_sessions" => Replied(c)' = {}
        BY <1>1, <2>1, <2>5, <3>1 DEF Replied
      <3>3. Replied(c)' = {} =>
              {} = UNION {Page(sessions', q, TheWindow(c)') : q \in Replied(c)'}
        OBVIOUS
      <3> QED BY <1>1, <1>2, <3>2, <3>3 DEF PageOK
    <2> QED BY <2>6, <2>7, <2>9, <2>10, <2>11 DEF CallInv, CallOK
  <1>5. CallInv(c)'
    <2>1. \/ \E s \in {"denied", "error"} : Answer(c, s) /\ (s = "error" => Invalid(tool[c], a))
          \/ /\ AllowsTool(who[c], tool[c].name) /\ ~Invalid(tool[c], a)
             /\ Goto(c, FirstStage(tool[c], a), FirstRequests(tool[c], who[c], a))
      BY DEF Start
    <2>2. Invalid(tool[c], a) => tool[c].name \notin ByParts
      BY <1>1 DEF Invalid, ArgsOf, ByParts, CheckedTools
    <2> QED BY <1>3, <1>4, <2>1, <2>2
  <1>6. \A d \in Calls \ {c} : Kept(d)
    <2> SUFFICES ASSUME NEW d \in Calls \ {c} PROVE Kept(d)
      OBVIOUS
    <2>1. at'[d] = at[d] /\ answer'[d] = answer[d] /\ req'[d] = req[d]
      <3>1. ASSUME NEW s, Answer(c, s)
            PROVE  at'[d] = at[d] /\ answer'[d] = answer[d] /\ req'[d] = req[d]
        BY <3>1, AnswerEffect DEF TypeInv
      <3>2. ASSUME NEW stage, NEW requests, Goto(c, stage, requests)
            PROVE  at'[d] = at[d] /\ answer'[d] = answer[d] /\ req'[d] = req[d]
        BY <3>2, GotoEffect DEF TypeInv
      <3>3. (\E s \in {"denied", "error"} : Answer(c, s)) \/ \E stage, requests : Goto(c, stage, requests)
        BY DEF Start
      <3> QED BY <3>1, <3>2, <3>3
    <2>2. arg'[d] = arg[d] /\ stood'[d] = stood[d]
      BY DEF Start, TypeInv, TypeOK
    <2> QED BY <1>1, <2>1, <2>2 DEF Kept, agent, got
  <1> QED BY <1>5, <1>6

\* All requests of a stage are answered.
LEMMA StageComplete ==
  ASSUME TypeInv, NEW c \in Calls, CallInv(c), at[c] \in Stages, Pending(c) = {},
         Failed(c) = {} \/ tool[c].name \in ByParts
  PROVE  /\ Admitted(c)
         /\ \A r \in Names : req[c][r] # "lost"
         /\ tool[c].name \notin ByParts => \A r \in Names : r \in Parts(c) => req[c][r] = "ok"
         /\ at[c] # "act" => c \notin changed
         /\ at[c] = "act" => (c \in changed <=> Mutates(c))
  <1>1. Admitted(c) /\ \A r \in Names : req[c][r] # "none" <=> r \in Parts(c)
    BY DEF CallInv, CallOK, StageOK
  <1>2. tool[c].name \in ByParts => ~Mutates(c)
    BY <1>1, ToolFacts DEF Admitted, Mutates, Harmless
  <1>3. ASSUME NEW r \in Names, req[c][r] = "lost" PROVE FALSE
    BY <1>2, <1>3 DEF CallInv, CallOK, WriteOK, Failed
  <1>4. ASSUME tool[c].name \notin ByParts, NEW r \in Names, r \in Parts(c) PROVE req[c][r] = "ok"
    <2>1. req[c][r] \in ReqState \ {"none", "todo", "sent", "arriving", "failed", "lost"}
      BY <1>1, <1>4 DEF Pending, Failed, TypeInv, TypeOK
    <2> QED BY <2>1 DEF ReqState
  <1>5. at[c] # "act" => c \notin changed
    BY DEF CallInv, CallOK, WriteOK, Stages
  <1>6. at[c] = "act" => (c \in changed <=> Mutates(c))
    <2>1. c \in changed => Mutates(c)
      BY DEF CallInv, CallOK, WriteOK
    <2>2. ASSUME at[c] = "act", Mutates(c) PROVE c \in changed
      <3>1. "only" \in Parts(c) /\ "only" \in Names
        BY <1>1, <2>2, WritesOnce DEF Parts, Names
      <3>2. req[c]["only"] = "ok"
        BY <1>2, <1>4, <2>2, <3>1
      <3> QED BY <2>2, <3>2 DEF CallInv, CallOK, WriteOK
    <2> QED BY <2>1, <2>2
  <1> QED BY <1>1, <1>3, <1>4, <1>5, <1>6

LEMMA EndKeeps ==
  ASSUME TypeInv, NEW c \in Calls, CallInv(c), at[c] \in Stages,
         NEW s \in {"ok", "denied", "error"}, Answer(c, s),
         UNCHANGED <<expired, agent, call, got>>,
         s # "error" => \A r \in Names : req[c][r] # "lost",
         s = "denied" /\ who[c] \notin expired => c \notin changed,
         s = "error" => tool[c].name \notin ByParts,
         s = "ok" =>
           /\ c \in changed <=> Mutates(c)
           /\ tool[c].name \in SessionTools => AllowsProject(who[c], ContextProject(c))
           /\ tool[c].name = "chat_sessions" =>
                at[c] = "act" /\ Foreign(c) = {} /\ \A r \in Asked(who[c], arg[c]) : req[c][r] = "ok"
  PROVE  CallInv(c)' /\ \A d \in Calls \ {c} : Kept(d)
  <1>1. /\ tool' = tool /\ who' = who /\ arg' = arg /\ stood' = stood /\ expired' = expired
        /\ rows' = rows /\ more' = more /\ overlay' = overlay
        /\ sessions' = sessions /\ persona' = persona /\ changed' = changed /\ disturbed' = disturbed
    BY DEF agent, call, got
  <1>2. /\ at'[c] = "answered" /\ answer'[c] = s
        /\ \A r \in Names : req'[c][r] = IF req[c][r] = "lost" THEN "lost" ELSE "none"
        /\ \A d \in Calls \ {c} : at'[d] = at[d] /\ answer'[d] = answer[d] /\ req'[d] = req[d]
    BY AnswerEffect DEF TypeInv
  <1>3. /\ Mutates(c)' <=> Mutates(c)
        /\ Append(c)' <=> Append(c)
        /\ ContextProject(c)' = ContextProject(c)
        /\ Admitted(c)' <=> Admitted(c)
        /\ Foreign(c)' = Foreign(c)
        /\ TheWindow(c)' = TheWindow(c)
        /\ Asked(who[c], arg[c])' = Asked(who[c], arg[c])
    BY <1>1 DEF Mutates, Append, ContextProject, Admitted, Foreign, TheWindow
  <1>4. Admitted(c) /\ "only" \in Names
    BY DEF CallInv, CallOK, StageOK, Names
  <1>5. IdleOK(c)' /\ StageOK(c)'
    BY <1>2, <1>3, <1>4 DEF IdleOK, StageOK, Stages
  <1>6. WriteOK(c)'
    <2>1. c \in changed => Mutates(c) /\ req[c]["only"] # "lost"
      BY DEF CallInv, CallOK, WriteOK
    <2>2. \A r \in Names : req'[c][r] = "lost" => r = "only" /\ Mutates(c) /\ s = "error"
      BY <1>2 DEF CallInv, CallOK, WriteOK
    <2>3. \A r \in Names : req'[c][r] \in {"none", "lost"}
      BY <1>2
    <2> QED BY <1>1, <1>2, <1>3, <1>4, <2>1, <2>2, <2>3 DEF WriteOK
  <1>7. AnswerOK(c)'
    BY <1>1, <1>2, <1>3 DEF AnswerOK
  <1>8. AppendOK(c)'
    <2>1. req'[c]["only"] = "lost" => req[c]["only"] = "lost"
      BY <1>2, <1>4
    <2> QED BY <1>1, <1>2, <1>3, <2>1 DEF CallInv, AppendOK, Stages
  <1>9. PageOK(c)'
    <2> SUFFICES ASSUME tool[c].name = "chat_sessions", c \notin disturbed, s = "ok" PROVE PageOK(c)'
      BY <1>1, <1>2 DEF PageOK
    <2>1. Replied(c) = Asked(who[c], arg[c]) /\ Replied(c)' = Asked(who[c], arg[c])
      BY <1>2, <1>3 DEF Replied
    <2> QED BY <1>1, <1>3, <2>1 DEF CallInv, PageOK
  <1>10. \A d \in Calls \ {c} : Kept(d)
    BY <1>1, <1>2 DEF Kept
  <1> QED BY <1>5, <1>6, <1>7, <1>8, <1>9, <1>10 DEF CallInv, CallOK

LEMMA GoKeeps ==
  ASSUME TypeInv, NEW c \in Calls, CallInv(c), at[c] \in {"context", "read"},
         Pending(c) = {}, Failed(c) = {} \/ tool[c].name \in ByParts,
         Goto(c, "act", {"only"}), UNCHANGED <<expired, agent, call, got>>,
         at[c] = "context" => arg[c].session # None /\ AllowsProject(who[c], ContextProject(c))
  PROVE  CallInv(c)' /\ \A d \in Calls \ {c} : Kept(d)
  <1>1. /\ tool' = tool /\ who' = who /\ arg' = arg /\ stood' = stood /\ expired' = expired
        /\ rows' = rows /\ more' = more /\ overlay' = overlay
        /\ sessions' = sessions /\ persona' = persona /\ changed' = changed /\ disturbed' = disturbed
    BY DEF agent, call, got
  <1>2. /\ at'[c] = "act" /\ answer' = answer
        /\ \A r \in Names : req'[c][r] = IF r = "only" THEN "todo" ELSE "none"
        /\ \A d \in Calls \ {c} : at'[d] = at[d] /\ req'[d] = req[d]
    BY GotoEffect DEF TypeInv
  <1>3. /\ Mutates(c)' <=> Mutates(c)
        /\ Append(c)' <=> Append(c)
        /\ ContextProject(c)' = ContextProject(c)
        /\ Admitted(c)' <=> Admitted(c)
    BY <1>1 DEF Mutates, Append, ContextProject, Admitted
  <1>4. /\ Admitted(c) /\ c \notin changed
        /\ tool[c].name \notin ByParts => \A r \in Names : r \in Parts(c) => req[c][r] = "ok"
    BY StageComplete DEF Stages
  <1>5. at[c] = "read" => tool[c].name = "persona_set" /\ Append(c)
    BY DEF CallInv, CallOK, StageOK, Append
  <1>6. at[c] = "context" => tool[c].name \in SessionTools
    BY DEF CallInv, CallOK, StageOK
  <1>7. answer[c] = "none" /\ "only" \in Names
    BY DEF CallInv, CallOK, AnswerOK, Names
  <1>8. FirstRequests(tool[c], who[c], arg[c]) = {"only"} /\ tool[c].name # "chat_sessions"
    BY <1>5, <1>6 DEF FirstRequests, SessionTools
  <1>9. Parts(c)' = {"only"}
    BY <1>1, <1>2, <1>8 DEF Parts
  <1>10. IdleOK(c)' /\ AnswerOK(c)'
    BY <1>2, <1>7 DEF IdleOK, AnswerOK
  <1>11. StageOK(c)'
    BY <1>1, <1>2, <1>3, <1>4, <1>5, <1>9 DEF StageOK, SessionTools
  <1>12. WriteOK(c)'
    BY <1>1, <1>2, <1>4, <1>7 DEF WriteOK
  <1>13. AppendOK(c)'
    <2>1. Append(c) => at[c] = "read" /\ req[c]["only"] = "ok"
      BY <1>4, <1>5, <1>6, <1>7 DEF Append, Parts, ByParts, SessionTools
    <2> QED BY <1>1, <1>2, <1>3, <2>1 DEF CallInv, AppendOK
  <1>14. PageOK(c)'
    BY <1>1, <1>8 DEF PageOK
  <1>15. \A d \in Calls \ {c} : Kept(d)
    BY <1>1, <1>2 DEF Kept
  <1> QED BY <1>10, <1>11, <1>12, <1>13, <1>14, <1>15 DEF CallInv, CallOK

LEMMA ProceedKeeps ==
  ASSUME TypeInv, NEW c \in Calls, CallInv(c), Proceed(c)
  PROVE  CallInv(c)' /\ \A d \in Calls \ {c} : Kept(d)
  <1>1. /\ at[c] \in Stages /\ Pending(c) = {} /\ (Failed(c) = {} \/ tool[c].name \in ByParts)
        /\ UNCHANGED <<expired, agent, call, got>>
    BY DEF Proceed
  <1>2. /\ Admitted(c)
        /\ \A r \in Names : req[c][r] # "lost"
        /\ tool[c].name \notin ByParts => \A r \in Names : r \in Parts(c) => req[c][r] = "ok"
        /\ at[c] # "act" => c \notin changed
        /\ at[c] = "act" => (c \in changed <=> Mutates(c))
    BY <1>1, StageComplete
  <1>3. at[c] = "context" => tool[c].name \in SessionTools
    BY DEF CallInv, CallOK, StageOK
  <1>4. CASE at[c] = "context" /\ arg[c].project \notin {None, ContextProject(c)}
    <2>1. tool[c].name \notin ByParts
      BY <1>3, <1>4 DEF SessionTools, ByParts
    <2> QED BY <1>1, <1>4, <2>1, EndKeeps DEF Proceed
  <1>5. CASE /\ at[c] = "context" /\ ~AllowsProject(who[c], ContextProject(c)) /\ Answer(c, "denied")
    BY <1>1, <1>2, <1>5, EndKeeps
  <1>6. CASE /\ at[c] = "context" /\ AllowsProject(who[c], ContextProject(c))
             /\ arg[c].session = None /\ Result(c)
    <2>1. tool[c].name = "chat_send"
      BY <1>2, <1>3, <1>6 DEF Admitted, ArgsOf
    <2>2. ~Mutates(c)
      BY <1>2, <2>1, ToolFacts DEF Admitted, Mutates, Harmless
    <2>3. PICK s \in {"ok", "denied"} : Answer(c, s) /\ (s = "denied" <=> who[c] \in expired)
      BY <1>6 DEF Result
    <2> QED BY <1>1, <1>2, <1>6, <2>1, <2>2, <2>3, EndKeeps
  <1>7. CASE /\ at[c] # "act" /\ Goto(c, "act", {"only"})
             /\ at[c] = "context" => AllowsProject(who[c], ContextProject(c)) /\ arg[c].session # None
    BY <1>1, <1>7, GoKeeps DEF Stages
  <1>8. CASE at[c] = "act" /\ tool[c].name = "chat_sessions" /\ Answer(c, "denied")
    <2>1. ~Mutates(c)
      BY <1>2, <1>8, WritesOnce
    <2> QED BY <1>1, <1>2, <1>8, <2>1, EndKeeps
  <1>9. CASE at[c] = "act" /\ (tool[c].name = "chat_sessions" => Foreign(c) = {}) /\ Result(c)
    <2>1. PICK s \in {"ok", "denied"} : Answer(c, s) /\ (s = "denied" <=> who[c] \in expired)
      BY <1>9 DEF Result
    <2>2. tool[c].name \in SessionTools => AllowsProject(who[c], ContextProject(c))
      BY <1>9 DEF CallInv, CallOK, StageOK
    <2>3. ASSUME tool[c].name = "chat_sessions", NEW r \in Asked(who[c], arg[c]) PROVE req[c][r] = "ok"
      <3>1. r \in Parts(c) /\ tool[c].name \notin ByParts
        BY <1>9, <2>3 DEF Parts, FirstRequests, ByParts
      <3>2. r \in Names
        BY AskedNames, <2>3 DEF TypeInv, TypeOK
      <3> QED BY <1>2, <3>1, <3>2
    <2> QED BY <1>1, <1>2, <1>9, <2>1, <2>2, <2>3, EndKeeps
  <1> QED BY <1>1, <1>4, <1>5, <1>6, <1>7, <1>8, <1>9 DEF Proceed

LEMMA FailKeeps ==
  ASSUME TypeInv, NEW c \in Calls, CallInv(c), Fail(c)
  PROVE  CallInv(c)' /\ \A d \in Calls \ {c} : Kept(d)
  BY EndKeeps DEF Fail

-----------------------------------------------------------------------------
LEMMA InitInv == Init => Inv
  <1> SUFFICES ASSUME Init, NEW c \in Calls PROVE CallInv(c)
    BY DEF Inv
  <1>1. /\ at[c] = "idle" /\ answer[c] = "none" /\ c \notin changed /\ c \notin disturbed
        /\ rows[c] = {} /\ ~more[c] /\ \A r \in Names : req[c][r] = "none"
    BY DEF Init
  <1>2. "only" \in Names
    BY DEF Names
  <1> QED
    BY <1>1, <1>2 DEF CallInv, CallOK, IdleOK, StageOK, WriteOK, AnswerOK, AppendOK, PageOK, Stages

LEMMA NextInv == TypeInv /\ Inv /\ [Next]_vars => Inv'
  <1> SUFFICES ASSUME TypeInv, Inv, [Next]_vars PROVE Inv'
    OBVIOUS
  <1>1. TypeInv'
    BY NextTypes
  <1>2. ASSUME NEW c \in Calls, CallInv(c)' /\ \A d \in Calls \ {c} : Kept(d) PROVE Inv'
    BY <1>1, <1>2, KeptCall DEF Inv
  <1>3. ASSUME NEW c \in Calls, NEW a \in Args, Start(c, a) PROVE Inv'
    BY <1>2, <1>3, StartKeeps DEF Inv
  <1>4. ASSUME NEW c \in Calls, NEW r \in Names, NEW s \in {"sent", "arriving", "failed", "lost"},
               req[c][r] \in {"todo", "sent", "arriving"}, s = "lost" => Changes(c),
               req' = [req EXCEPT ![c][r] = s],
               UNCHANGED <<expired, agent, at, call, got, answer>>
        PROVE  Inv'
    BY <1>2, <1>4, FailureKeeps DEF Inv
  <1>5. ASSUME NEW c \in Calls, NEW r \in Names,
               \/ Send(c, r) \/ NoIdentity(c, r) \/ Reject(c, r)
               \/ Piece(c, r) \/ ReadOn(c, r)
        PROVE  Inv'
    BY <1>4, <1>5 DEF Send, NoIdentity, Reject, Piece, ReadOn, Ended
  <1>6. ASSUME NEW c \in Calls, NEW r \in Names, Timeout(c, r) \/ Disconnect(c, r) PROVE Inv'
    BY <1>4, <1>6 DEF Timeout, Disconnect, GiveUp, Ended
  <1>7. ASSUME NEW c \in Calls, NEW r \in Names, Reply(c, r) PROVE Inv'
    <2>1. CASE Changes(c)
      <3>1. /\ req[c][r] = "sent" /\ req' = [req EXCEPT ![c][r] = "ok"] /\ Change(c)
            /\ UNCHANGED <<expired, at, call, got, answer>>
        BY <1>7, <2>1 DEF Reply, Ended
      <3>2. CallInv(c)' /\ \A d \in Calls \ {c} : Kept(d)
        BY <2>1, <3>1, CarriedOut DEF Inv
      <3> QED BY <1>2, <3>2
    <2>2. CASE ~Changes(c)
      BY <1>2, <1>7, <2>2, ReadKeeps DEF Inv
    <2> QED BY <2>1, <2>2
  <1>8. ASSUME NEW c \in Calls, NEW r \in Names, Late(c, r) PROVE Inv'
    <2>1. CallInv(c)' /\ \A d \in Calls \ {c} : Kept(d)
      BY <1>8, CarriedOut DEF Inv, Late
    <2> QED BY <1>2, <2>1
  <1>9. ASSUME NEW c \in Calls, Proceed(c) \/ Fail(c) PROVE Inv'
    BY <1>2, <1>9, ProceedKeeps, FailKeeps DEF Inv
  <1>10. CASE Platform \/ (\E g \in Temporary : Expire(g)) \/ UNCHANGED vars
    <2>1. /\ expired \subseteq expired'
          /\ UNCHANGED <<agent, at, call, req, got, answer>>
      BY <1>10 DEF Platform, Expire, vars
    <2>2. \A d \in Calls : Kept(d)
      BY <2>1 DEF Kept, agent, call, got
    <2> QED BY <1>1, <2>2, KeptCall DEF Inv
  <1> QED BY <1>3, <1>5, <1>6, <1>7, <1>8, <1>9, <1>10 DEF Next

LEMMA Invariant == Spec => [](TypeInv /\ Inv)
  <1>1. Init => TypeInv /\ Inv
    BY InitTypes, InitInv
  <1>2. TypeInv /\ Inv /\ [Next]_vars => TypeInv' /\ Inv'
    BY NextTypes, NextInv
  <1> QED BY <1>1, <1>2, PTL DEF Spec

-----------------------------------------------------------------------------
\* A scoped credential reaches Hermes only about sessions of its own projects,
\* and panel-local only as companion: whatever the arguments, the stage and
\* the interleaving, and nothing else is shown to it (server.py:204-217,
\* 354-357, 376; access.py:50-69 for the tools it may not call at all).
THEOREM ScopeHolds == Spec => []InScope
  <1>1. TypeInv /\ Inv => InScope
    <2> SUFFICES ASSUME TypeInv, Inv, NEW c \in Calls, Restricted(who[c])
                 PROVE  /\ \A r \in Names : req[c][r] # "none" /\ at[c] # "answered" =>
                             \/ To(c, r) = "companion"
                             \/ To(c, r) = "hermes" /\ ContextProject(c) \in Scope[who[c]]
                        /\ answer[c] = "ok" /\ tool[c].name \in SessionTools =>
                             ContextProject(c) \in Scope[who[c]]
                        /\ answer[c] = "ok" /\ tool[c].name = "chat_sessions" =>
                             \A s \in rows[c] : ProjectOf[s] \in Scope[who[c]]
      BY DEF InScope
    <2>1. CallInv(c)
      BY DEF Inv
    <2>2. ASSUME NEW r \in Names, req[c][r] # "none", at[c] # "answered"
          PROVE  \/ To(c, r) = "companion"
                 \/ To(c, r) = "hermes" /\ ContextProject(c) \in Scope[who[c]]
      <3>1. at[c] \in Stages /\ Admitted(c)
        BY <2>1, <2>2 DEF CallInv, CallOK, IdleOK, StageOK, TypeInv, TypeOK
      <3>2. tool[c].name \in PROJECT_TOOLS /\ tool[c] \in Tools
        BY <3>1, CallsAssumption DEF Admitted, AllowsTool, Restricted
      <3>3. tool[c].name # "settings_overview" /\ tool[c].name # "persona_set"
        BY <3>2 DEF PROJECT_TOOLS
      <3>4. CASE at[c] = "context"
        BY <3>3, <3>4 DEF To
      <3>5. CASE at[c] = "act"
        <4>1. To(c, r) = tool[c].to
          BY <3>3, <3>5 DEF To
        <4>2. tool[c].name \in SessionTools => ContextProject(c) \in Scope[who[c]]
          BY <2>1, <3>5 DEF CallInv, CallOK, StageOK, AllowsProject
        <4> QED BY <3>2, <4>1, <4>2, ToolFacts
      <3>6. at[c] # "read"
        BY <2>1, <3>3 DEF CallInv, CallOK, StageOK, Append
      <3> QED BY <3>1, <3>4, <3>5, <3>6 DEF Stages
    <2>3. ASSUME answer[c] = "ok", tool[c].name \in SessionTools
          PROVE  ContextProject(c) \in Scope[who[c]]
      BY <2>1, <2>3 DEF CallInv, CallOK, AnswerOK, AllowsProject
    <2>4. ASSUME answer[c] = "ok", tool[c].name = "chat_sessions", NEW s \in rows[c]
          PROVE  ProjectOf[s] \in Scope[who[c]]
      BY <2>1, <2>4 DEF CallInv, CallOK, AnswerOK, Foreign, AllowsProject
    <2> QED BY <2>2, <2>3, <2>4
  <1> QED BY <1>1, Invariant, PTL

\* "ok" is said of a write that was made and of no other, a refusal of none:
\* lost replies, writes that arrive late, rotations and expiries do not bend an
\* answer (server.py:123-147, and each tool's return of its backend's reply).
THEOREM AnswersAreTrue == Spec => []AnswersTell
  <1>1. TypeInv /\ Inv => AnswersTell
    <2> SUFFICES ASSUME Inv, NEW c \in Calls
                 PROVE  /\ answer[c] = "ok" => (c \in changed <=> Mutates(c))
                        /\ answer[c] = "denied" /\ who[c] \notin expired => c \notin changed
                        /\ answer[c] = "error" => tool[c].name \notin ByParts
                        /\ c \in changed =>
                             arg[c].valid /\ (tool[c].name = "server_reboot" => arg[c].flag)
      BY DEF AnswersTell, Mutates
    <2>1. CallInv(c)
      BY DEF Inv
    <2>2. c \in changed => ~Invalid(tool[c], arg[c])
      BY <2>1 DEF CallInv, CallOK, StageOK, Admitted
    <2> QED BY <2>1, <2>2 DEF CallInv, CallOK, AnswerOK, Invalid
  <1> QED BY <1>1, Invariant, PTL

\* An append writes the overlay its call began with and one paragraph more,
\* unless another change came in between (server.py:492-497).
THEOREM AppendsKeepTheOverlay == Spec => []AppendsAdd
  <1>1. TypeInv /\ Inv => AppendsAdd
    <2> SUFFICES ASSUME TypeInv, Inv, NEW c \in changed \ disturbed, Append(c)
                 PROVE  persona = stood[c] \cup {c}
      BY DEF AppendsAdd, Append
    <2>1. c \in Calls /\ CallInv(c)
      BY DEF TypeInv, TypeOK, Inv
    <2> QED BY <2>1 DEF CallInv, CallOK, IdleOK, AppendOK
  <1> QED BY <1>1, Invariant, PTL

\* A page that chat_sessions returns is a slice of all that the caller may
\* see, though its replies arrive one by one, in any order, while others read
\* and write (server.py:343-385).
THEOREM PagesAreTrue == Spec => []PagesAreSlices
  <1>1. TypeInv /\ Inv => PagesAreSlices
    <2> SUFFICES ASSUME TypeInv, Inv, NEW c \in Calls, tool[c].name = "chat_sessions",
                        answer[c] = "ok", c \notin disturbed
                 PROVE  LET offset == Offset(arg[c].offset)
                            limit == Limit(arg[c].limit)
                            asked == Asked(who[c], arg[c]) IN
                        IsPage(Selected(rows[c], asked, offset, limit),
                               HasMore(rows[c], more[c], offset, limit),
                               NextOffset(rows[c], asked, offset, limit),
                               sessions, asked, offset, limit)
      BY DEF PagesAreSlices
    <2> DEFINE offset == Offset(arg[c].offset)
               limit == Limit(arg[c].limit)
               asked == Asked(who[c], arg[c])
    <2>1. offset \in Nat /\ limit \in Nat \ {0}
      <3>1. arg[c].offset \in Int /\ arg[c].limit \in Int
        BY CallsAssumption DEF TypeInv, TypeOK, Args
      <3> QED BY <3>1, PagesAssumption DEF Offset, Limit
    <2>2. MayAsk(asked) /\ sessions \in SUBSET Sessions /\ more[c] \in BOOLEAN
      BY AskedNames DEF TypeInv, TypeOK
    <2>3. /\ rows[c] = UNION {Page(sessions, q, TheWindow(c)) : q \in asked}
          /\ more[c] => \E q \in asked : Truncated(sessions, q, TheWindow(c))
      BY DEF Inv, CallInv, PageOK, Replied
    <2>4. TheWindow(c) = Window(offset, limit)
      BY DEF TheWindow
    <2>5. rows[c] = Merged(sessions, asked, Window(offset, limit))
      BY <2>3, <2>4 DEF Merged
    <2> HIDE DEF offset, limit, asked
    <2>6. LET merged == Merged(sessions, asked, Window(offset, limit)) IN
          IsPage(Selected(merged, asked, offset, limit), HasMore(merged, more[c], offset, limit),
                 NextOffset(merged, asked, offset, limit), sessions, asked, offset, limit)
      BY <2>1, <2>2, <2>3, <2>4, MergedPageIsSlice
    <2> QED BY <2>5, <2>6 DEF offset, limit, asked
  <1> QED BY <1>1, Invariant, PTL
=============================================================================
