---------------------------- MODULE MCChatService ----------------------------
(* ChatService with model values for processes, calls and arguments. *)
EXTENDS ChatService, TLC

CONSTANTS p1, p2, s1, s2, s3, w1, x1, cr1, cr2, k1, pl1, pl2

OneProc == {p1}
TwoProcs == {p1, p2}
OneSend == {s1}
TwoSends == {s1, s2}
ThreeSends == {s1, s2, s3}
NoCalls == {}
OneWait == {w1}
OneCancel == {x1}
OneCred == {cr1}
TwoCreds == {cr1, cr2}
OneKey == {k1}
OnePayload == {pl1}
TwoPayloads == {pl1, pl2}

Symmetry == Permutations(Procs) \cup Permutations(Sends)
              \cup Permutations(Creds) \cup Permutations(Payloads)
=============================================================================
