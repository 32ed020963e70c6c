---------------------------- MODULE MCGrantStore ----------------------------
(* GrantStore with two grants, one of them revoked twice, and a request. *)
EXTENDS GrantStore, TLC

CONSTANTS i1, i2, v1, v2, r1

MCIssues == {i1, i2}
MCRevokes == {v1, v2}
MCTarget == [v \in MCRevokes |-> i1]
MCRequests == {r1}
=============================================================================
