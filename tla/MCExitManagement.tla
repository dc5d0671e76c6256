---------------------------- MODULE MCExitManagement ----------------------------
(* TLC instance of ExitManagement: two lots. *)
EXTENDS ExitManagement, TLC

CONSTANTS l1, l2

TwoLots == {l1, l2}
=================================================================================
