-------------------------- MODULE MCApprovalClient --------------------------
(***************************************************************************)
(* Small instance of ApprovalClient. The seconds of ciba.go are scaled     *)
(* down (3, 5, 30, 300, 30 become 2, 3, 4, 6, 2); the offered values lie   *)
(* on both sides of each minimum. One request: a second one would share    *)
(* nothing with it but the clock.                                          *)
(***************************************************************************)
EXTENDS ApprovalClient
=============================================================================
