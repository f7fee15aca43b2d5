---------------------------- MODULE MCSessionLog ----------------------------
(* Instances of SessionLog for TLC. *)
EXTENDS SessionLog

EveryOp == AllOps
Appending == {"message", "note", "history"}
=============================================================================
