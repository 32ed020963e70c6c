---------------------------- MODULE MCOwnerToken ----------------------------
(* OwnerToken with up to two readers and two rotations. *)
EXTENDS OwnerToken

CONSTANTS serve, config, rotate1, rotate2

MCEnsurers == {serve, config}
MCRotators == {rotate1, rotate2}
NoRotators == {}
=============================================================================
