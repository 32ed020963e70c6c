----------------------------- MODULE MCToolCalls -----------------------------
(* ToolCalls with one call of any tool and one that changes the agent. *)
EXTENDS ToolCalls, TLC

CONSTANTS c1, c2, s1, s2, s3, p1, p2, full, scoped, wide

MCCalls == {c1, c2}
MCSessions == {s1, s2, s3}
MCProjects == {p1, p2}

\* s1 and s2, of different projects, are equally recent; the platform lists s2 first.
MCProjectOf == (s1 :> p1) @@ (s2 :> p2) @@ (s3 :> p1)
MCProjectRank == (p1 :> 1) @@ (p2 :> 2)
MCPosition == (s1 :> 2) @@ (s2 :> 1) @@ (s3 :> 3)
MCActivity == (s1 :> 5) @@ (s2 :> 5) @@ (s3 :> 0)

\* full may use everything, and its file claims the same for the others.
MCGrants == {full, scoped, wide}
MCAllowed == [g \in MCGrants |-> ToolNames]
MCUnscoped == {full}
MCScope == (full :> {}) @@ (scoped :> {p1}) @@ (wide :> {p1, p2})
MCTemporary == {scoped}

Everyone == {Owner, full, scoped, wide}
Named(names) == {t \in Tools : t.name \in names}
Scene(first, second) == {(c1 :> x) @@ (c2 :> y) : x \in first, y \in second}

\* Any tool by anyone, alone; the tools that meet at a session or the persona, together.
MCScenes ==
    Scene(Tools \X Everyone, {<<NoTool, Owner>>})
    \cup Scene(Named({"persona_set"}) \X {Owner}, Named({"persona_set"}) \X {Owner})
    \cup Scene(Named({"chat_sessions"}) \X {wide}, Named({"chat_session_delete"}) \X {scoped})
    \cup Scene(Named({"chat_session_messages"}) \X {scoped},
              Named({"chat_session_delete"}) \X {Owner})

MCLimits == {0, 2, 3}
MCOffsets == {-1, 1}
=============================================================================
