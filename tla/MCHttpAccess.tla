---------------------------- MODULE MCHttpAccess ----------------------------
(* HttpAccess with two grants that expire, the owner and two tools. *)
EXTENDS HttpAccess

CONSTANTS g1, g2, chat, install, s1, r1, r2

TwoGrants == {g1, g2}
MCTools == {chat, install}
MCOwnerOnly == {install}
MCGranted == [g \in Grants |-> IF g = g1 THEN {chat, install} ELSE {chat}]
MCExpiresAt == [g \in Grants |-> IF g = g1 THEN 2 ELSE 1]
OneSession == {s1}
TwoRequests == {r1, r2}
=============================================================================
