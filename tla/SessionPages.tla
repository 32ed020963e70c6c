----------------------------- MODULE SessionPages -----------------------------
(***************************************************************************)
(* The page arithmetic of chat_sessions (server.py): every project the     *)
(* caller may see is asked for its newest offset + limit + 1 sessions, the *)
(* replies are merged and sorted by activity, and a slice is returned.     *)
(* A page is a set of sessions here: Rank gives the place of each.         *)
(***************************************************************************)
EXTENDS FiniteSets, Integers

CONSTANTS
    Sessions, Projects,
    All,          \* the request without a project: every session
    ProjectOf,    \* per session
    ProjectRank,  \* per project: its place in sorted(project_ids)
    Position,     \* per session: its place in the platform's list, newest first
    Activity,     \* per session: what activity(row) reads in its row
    MaxLimit,     \* 200
    MaxWindow     \* 500

\* The platform lists by activity, the value that its rows carry.  Sessions of
\* equal activity (an unreadable time counts as 0) keep the platform's order.
ASSUME PagesAssumption ==
    /\ IsFiniteSet(Sessions) /\ All \notin Projects
    /\ ProjectOf \in [Sessions -> Projects]
    /\ ProjectRank \in [Projects -> Nat]
    /\ \A p, q \in Projects : ProjectRank[p] = ProjectRank[q] => p = q
    /\ Position \in [Sessions -> Nat] /\ Activity \in [Sessions -> Nat]
    /\ \A s, t \in Sessions : Position[s] = Position[t] => s = t
    /\ \A s, t \in Sessions : Position[s] < Position[t] => Activity[s] >= Activity[t]
    /\ MaxLimit \in Nat \ {0} /\ MaxWindow \in Nat

-----------------------------------------------------------------------------
\* panel-local's answer to GET /mcp/sessions: the newest n of what was asked
\* for, and (it may leave this out) whether there are more.
Listed(visible, asked) == {s \in visible : asked = All \/ ProjectOf[s] = asked}

Page(visible, asked, n) ==
    {s \in Listed(visible, asked) :
        Cardinality({t \in Listed(visible, asked) : Position[t] < Position[s]}) < n}

Truncated(visible, asked, n) == Cardinality(Listed(visible, asked)) > n

-----------------------------------------------------------------------------
\* limit is between 1 and MaxLimit, offset at least 0.
Limit(n) == IF n < 1 THEN 1 ELSE IF n > MaxLimit THEN MaxLimit ELSE n
Offset(n) == IF n < 0 THEN 0 ELSE n

\* One row more than the page shows, from every project.
\* Mutant of Window: no extra row is asked for.
WindowWithoutExtra(offset, limit) == offset + limit
Window(offset, limit) == offset + limit + 1

\* Rows of one reply go in before those of the next, and a stable sort keeps
\* that order among equal activities.
ReplyOf(s, asked) == IF All \in asked THEN 0 ELSE ProjectRank[ProjectOf[s]]

Before(s, t, asked) ==
    \/ Activity[s] > Activity[t]
    \/ /\ Activity[s] = Activity[t]
       /\ \/ ReplyOf(s, asked) < ReplyOf(t, asked)
          \/ ReplyOf(s, asked) = ReplyOf(t, asked) /\ Position[s] < Position[t]

Rank(s, rows, asked) == Cardinality({t \in rows : Before(t, s, asked)})

\* ordered[offset:offset + limit]
Selected(rows, asked, offset, limit) ==
    {s \in rows : Rank(s, rows, asked) \in offset .. offset + limit - 1}

HasMore(rows, truncated, offset, limit) ==
    truncated \/ Cardinality(rows) > offset + limit

NextOffset(rows, asked, offset, limit) ==
    offset + Cardinality(Selected(rows, asked, offset, limit))

-----------------------------------------------------------------------------
\* What a page should be: a slice of everything that may be seen.
Visible(visible, asked) == UNION {Listed(visible, q) : q \in asked}

IsPage(page, more, next, visible, asked, offset, limit) ==
    LET all == Visible(visible, asked) IN
    /\ page = Selected(all, asked, offset, limit)
    /\ more <=> Cardinality(all) > offset + limit
    /\ more => next = offset + limit
=============================================================================
