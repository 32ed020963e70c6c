------------------------------ MODULE ToolTable ------------------------------
(***************************************************************************)
(* The tools of server.py that keep no state between calls: which backend  *)
(* each one reaches last, and whether that request changes the agent; and  *)
(* what access.py lets a delegated credential use of them.                 *)
(*   companion - panel-local's /mcp/ routes        hermes  - the agent     *)
(*   settings  - panel-local's other routes        central - its signing   *)
(*                                                           boundary      *)
(***************************************************************************)
Reads(name, to) == [name |-> name, to |-> to, changes |-> FALSE]
Writes(name, to) == [name |-> name, to |-> to, changes |-> TRUE]

ProjectRows == {Reads("projects_list", "companion"), Reads("project_get", "companion")}

\* chat_send reads the session that it is given; its turn is TurnRegistry's.
ChatRows ==
    {Reads("chat_send", "hermes"), Reads("chat_sessions", "companion"),
     Reads("chat_session_messages", "hermes"),
     Writes("chat_session_delete", "hermes"), Writes("chat_session_rename", "hermes")}

\* Its parts go to three backends.
OverviewRows == {Reads("settings_overview", "settings")}

ModelRows ==
    {Reads("model_get", "settings"), Reads("models_catalog", "central"),
     Writes("model_set", "settings")}

PersonaRows == {Reads("persona_get", "settings"), Writes("persona_set", "settings")}

NameRows ==
    {Reads("agent_name_get", "central"), Writes("agent_name_set", "central"),
     Reads("usage_get", "central")}

JobRows ==
    {Reads("jobs_list", "settings"), Writes("jobs_create", "settings"),
     Writes("jobs_edit", "settings"), Writes("jobs_pause", "settings"),
     Writes("jobs_resume", "settings"), Writes("jobs_remove", "settings"),
     Reads("notifications_list", "settings"), Writes("notifications_mark_seen", "settings")}

\* extensions_check_now is a POST that "applies nothing".
ExtensionRows ==
    {Reads("extensions_list", "settings"), Reads("extensions_settings_get", "settings"),
     Writes("extensions_settings_set", "settings"), Writes("extensions_install", "settings"),
     Writes("extensions_uninstall", "settings"), Writes("extensions_policy_set", "settings"),
     Reads("extensions_check_now", "settings"), Writes("extensions_update_now", "settings")}

TelegramRows ==
    {Reads("telegram_bot_get", "settings"), Writes("telegram_bot_apply", "settings"),
     Writes("telegram_bot_remove", "settings")}

UpdateRows ==
    {Reads("updates_get", "settings"), Writes("updates_set", "settings"),
     Writes("updates_run", "settings")}

ServerRows ==
    {Reads("ssh_keys_list", "settings"), Writes("ssh_keys_add", "settings"),
     Writes("ssh_keys_remove", "settings"), Reads("security_state", "settings"),
     Writes("server_reboot", "settings")}

Tools ==
    ProjectRows \cup ChatRows \cup OverviewRows \cup ModelRows \cup PersonaRows \cup NameRows
    \cup JobRows \cup ExtensionRows \cup TelegramRows \cup UpdateRows \cup ServerRows

ToolNames == {t.name : t \in Tools}

\* The tools that check the form of their arguments before any request.
CheckedTools ==
    {"project_get", "chat_send", "chat_sessions", "chat_session_messages",
     "chat_session_delete", "chat_session_rename", "model_set", "persona_set",
     "jobs_edit", "jobs_pause", "jobs_resume", "jobs_remove",
     "extensions_install", "extensions_uninstall", "extensions_policy_set",
     "extensions_update_now", "updates_set", "updates_run",
     "ssh_keys_add", "ssh_keys_remove"}

-----------------------------------------------------------------------------
\* access.py
OWNER_ONLY ==
    {"security_state", "persona_set", "telegram_bot_apply", "telegram_bot_remove",
     "extensions_install"}

\* chat_wait and chat_cancel, which are in the set too, are ChatService's.
\* Mutant of PROJECT_TOOLS: the overview counts as a project tool.
PROJECT_TOOLS_AND_OVERVIEW ==
    {"chat_send", "chat_sessions", "chat_session_messages", "chat_session_delete",
     "chat_session_rename", "projects_list", "project_get", "settings_overview"}
PROJECT_TOOLS ==
    {"chat_send", "chat_sessions", "chat_session_messages", "chat_session_delete",
     "chat_session_rename", "projects_list", "project_get"}
=============================================================================
