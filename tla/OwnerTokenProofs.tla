--------------------------- MODULE OwnerTokenProofs ---------------------------
(***************************************************************************)
(* The safety of OwnerToken, for any number of processes that create or    *)
(* rotate the token at a time.                                             *)
(***************************************************************************)
EXTENDS OwnerToken, TLAPS

\* A process that has not opened its temporary file is named by no path yet.
Fresh ==
    \A p \in Procs : at[p] \in {"unlink", "check", "read", "open"} => path # p /\ tmp # p

\* The old token stays in the inode it was installed in, which no temporary
\* name, no open file and, once somebody rotates, no path leads to.
OldIsGone ==
    /\ tmp # Installed
    /\ \A p \in Procs : fd[p] # Installed
    /\ \A i \in Procs : content[i] # Installed
    /\ \A p \in Rotators : at[p] # "unlink" => path # Installed
    /\ \A p \in Rotators : at[p] = "returned" => got[p] # Installed

LEMMA InitInv == Init => TypeOK /\ Fresh /\ (Installed # NoToken => OldIsGone)
  <1> SUFFICES ASSUME Init PROVE TypeOK /\ Fresh /\ (Installed # NoToken => OldIsGone)
    OBVIOUS
  <1> USE TokenAssumption DEF Procs, Inodes, Tokens
  <1>1. TypeOK
    BY DEF Init, TypeOK
  <1>2. Fresh
    BY DEF Init, Fresh
  <1>3. Installed # NoToken => OldIsGone
    BY DEF Init, OldIsGone
  <1> QED BY <1>1, <1>2, <1>3

LEMMA StepTypes ==
  ASSUME TypeOK, Fresh, NEW p \in Procs,
         Unlink(p) \/ Check(p) \/ Read(p) \/ Open(p) \/ Write(p) \/ Rename(p)
  PROVE  TypeOK' /\ Fresh'
  <1> USE TokenAssumption DEF TypeOK, Fresh, Inodes, Tokens
  <1>1. CASE Unlink(p)
    BY <1>1 DEF Unlink, Go
  <1>2. CASE Check(p)
    BY <1>2 DEF Check, Go
  <1>3. CASE Read(p)
    BY <1>3 DEF Read, Go, Return
  <1>4. CASE Open(p)
    <2> DEFINE i == IF tmp = Missing THEN p ELSE tmp
    <2>1. i \in Inodes /\ path # i
      BY <1>4 DEF Open, Go
    <2>2. \A q \in Procs : at'[q] \in {"unlink", "check", "read", "open"} => i # q
      BY <1>4 DEF Open, Go
    <2> QED BY <1>4, <2>1, <2>2 DEF Open, Go
  <1>5. CASE Write(p)
    BY <1>5 DEF Write, Go, Procs
  <1>6. CASE Rename(p)
    BY <1>6 DEF Rename, Go, Return
  <1> QED BY <1>1, <1>2, <1>3, <1>4, <1>5, <1>6

LEMMA StepOld ==
  ASSUME Installed # NoToken, TypeOK, Fresh, OldIsGone, NEW p \in Procs,
         Unlink(p) \/ Check(p) \/ Read(p) \/ Open(p) \/ Write(p) \/ Rename(p)
  PROVE  OldIsGone'
  <1> USE TokenAssumption DEF TypeOK, OldIsGone, Procs, Inodes
  <1>1. CASE Unlink(p)
    BY <1>1 DEF Unlink, Go
  <1>2. CASE Check(p)
    BY <1>2 DEF Check, Go
  <1>3. CASE Read(p)
    BY <1>3 DEF Read, Go, Return
  <1>4. CASE Open(p)
    BY <1>4 DEF Open, Go
  <1>5. CASE Write(p)
    BY <1>5 DEF Write, Go, Procs
  <1>6. CASE Rename(p)
    BY <1>6 DEF Rename, Go, Return
  <1> QED BY <1>1, <1>2, <1>3, <1>4, <1>5, <1>6

LEMMA NextTypes == TypeOK /\ Fresh /\ [Next]_vars => TypeOK' /\ Fresh'
  BY StepTypes DEF Next, vars, TypeOK, Fresh

LEMMA Typing == Spec => [](TypeOK /\ Fresh)
  <1>1. Init => TypeOK /\ Fresh
    BY InitInv
  <1> QED BY <1>1, NextTypes, PTL DEF Spec

-----------------------------------------------------------------------------
\* Every variable keeps its type: two names never lead to one inode, and no
\* process writes without an open file (config.py:ensure_token).
THEOREM TypeCorrect == Spec => []TypeOK
  BY Typing, PTL

\* A rotation is for good: if a token is there, nobody who rotates is given it,
\* and it is not what the file holds from then on, whatever other processes
\* read, truncate, write and rename meanwhile (cli.py: token --rotate).
THEOREM RotationIsFinal ==
  ASSUME Installed # NoToken
  PROVE  Spec => []RotationReplaces
  <1>1. Init => OldIsGone
    BY InitInv
  <1>2. TypeOK /\ Fresh /\ OldIsGone /\ [Next]_vars => OldIsGone'
    BY StepOld DEF Next, vars, OldIsGone
  <1>3. TypeOK /\ OldIsGone => RotationReplaces
    BY TokenAssumption DEF TypeOK, OldIsGone, RotationReplaces, Inodes
  <1> QED BY <1>1, <1>2, <1>3, Typing, PTL DEF Spec
=============================================================================
