----------------------------- MODULE OwnerToken -----------------------------
(***************************************************************************)
(* config.py:ensure_token and `mintbot-mcp token --rotate` (cli.py): the   *)
(* owner's bearer token, in a file that the daemon, the command line and   *)
(* the installer share without a lock.  Each process calls ensure_token    *)
(* once; each step is one system call.  Processes name the tokens they     *)
(* would create and the inodes they would create them in.                  *)
(***************************************************************************)
CONSTANTS
    Ensurers,   \* serve, client-config, token
    Rotators,   \* token --rotate
    Installed,  \* the token that is there at first, or NoToken
    NoToken, Missing

Procs == Ensurers \cup Rotators
Inodes == Procs \cup {Installed}
Tokens == Procs \cup {Installed}

ASSUME TokenAssumption ==
    /\ Ensurers \cap Rotators = {}
    /\ NoToken \notin Procs /\ Missing \notin Procs \cup {Installed} /\ Installed \notin Procs

VARIABLES
    path, tmp,   \* what token and token.tmp name: an inode or Missing
    content,     \* per inode: a token, or NoToken when it is empty
    at,          \* per process: its next system call, or how it ended
    fd,          \* per process: the inode it writes
    got          \* per process: the token it returned

vars == <<path, tmp, content, at, fd, got>>

TypeOK ==
    /\ path \in Inodes \cup {Missing} /\ tmp \in Inodes \cup {Missing}
    /\ content \in [Inodes -> Tokens \cup {NoToken}]
    /\ at \in [Procs -> {"unlink", "check", "read", "open", "write", "rename",
                         "returned", "failed"}]
    /\ fd \in [Procs -> Inodes \cup {Missing}]
    /\ got \in [Procs -> Tokens \cup {NoToken}]
    /\ path = tmp => path = Missing
    /\ \A p \in Procs : at[p] = "write" => fd[p] # Missing

Init ==
    /\ path = IF Installed = NoToken THEN Missing ELSE Installed
    /\ tmp = Missing
    /\ content = [i \in Inodes |-> IF i = Installed THEN Installed ELSE NoToken]
    /\ at = [p \in Procs |-> IF p \in Rotators THEN "unlink" ELSE "check"]
    /\ fd = [p \in Procs |-> Missing]
    /\ got = [p \in Procs |-> NoToken]

Go(p, from, to) == at[p] = from /\ at' = [at EXCEPT ![p] = to]

Return(p, t) ==
    /\ at' = [at EXCEPT ![p] = "returned"]
    /\ got' = [got EXCEPT ![p] = t]

\* --rotate: the file goes, if it exists (it may be gone by the time of unlink).
\* Mutant of Unlink: the old token is left.
UnlinkNothing(p) ==
    /\ Go(p, "unlink", "check")
    /\ UNCHANGED <<path, tmp, content, fd, got>>
Unlink(p) ==
    /\ \/ Go(p, "unlink", "check") /\ path' = Missing
       \/ path = Missing /\ Go(p, "unlink", "failed") /\ UNCHANGED path
    /\ UNCHANGED <<tmp, content, fd, got>>

Check(p) ==
    /\ Go(p, "check", IF path = Missing THEN "open" ELSE "read")
    /\ UNCHANGED <<path, tmp, content, fd, got>>

\* An empty file counts as none.
Read(p) ==
    /\ \/ path = Missing /\ Go(p, "read", "failed") /\ UNCHANGED got
       \/ /\ path # Missing /\ content[path] # NoToken
          /\ at[p] = "read" /\ Return(p, content[path])
       \/ path # Missing /\ content[path] = NoToken /\ Go(p, "read", "open") /\ UNCHANGED got
    /\ UNCHANGED <<path, tmp, content, fd>>

\* open(token.tmp, O_CREAT | O_TRUNC): another's temporary file is emptied.
Open(p) ==
    /\ Go(p, "open", "write")
    /\ LET i == IF tmp = Missing THEN p ELSE tmp IN
         /\ tmp' = i
         /\ fd' = [fd EXCEPT ![p] = i]
         /\ content' = [content EXCEPT ![i] = NoToken]
    /\ UNCHANGED <<path, got>>

Write(p) ==
    /\ Go(p, "write", "rename")
    /\ content' = [content EXCEPT ![fd[p]] = p]
    /\ UNCHANGED <<path, tmp, fd, got>>

\* os.replace renames whatever token.tmp names by now.
\* Mutant of Rename: the temporary file stays, as a second name.
RenameLinks(p) ==
    /\ at[p] = "rename" /\ tmp # Missing
    /\ path' = tmp /\ Return(p, p)
    /\ UNCHANGED <<tmp, content, fd>>
Rename(p) ==
    /\ at[p] = "rename"
    /\ IF tmp = Missing
       THEN Go(p, "rename", "failed") /\ UNCHANGED <<path, got>>
       ELSE path' = tmp /\ Return(p, p)
    /\ tmp' = Missing
    /\ UNCHANGED <<content, fd>>

Next == \E p \in Procs : Unlink(p) \/ Check(p) \/ Read(p) \/ Open(p) \/ Write(p) \/ Rename(p)

Spec == Init /\ [][Next]_vars

-----------------------------------------------------------------------------
\* "token --rotate replaces it" (README.md): nobody who rotates is given the old
\* token, nor does it come back, whoever else reads or creates meanwhile.
RotationReplaces ==
    \A p \in Rotators : at[p] = "returned" =>
        got[p] # Installed /\ (path # Missing => content[path] # Installed)

\* "created once [...] never rotated implicitly" (config.py:188): whoever is
\* given a token, without a rotation, is given the one in the file.
CreatedOnce ==
    \A p \in Ensurers : at[p] = "returned" =>
        path # Missing /\ content[path] = got[p]
=============================================================================
