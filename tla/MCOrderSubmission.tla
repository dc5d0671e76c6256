---------------------------- MODULE MCOrderSubmission ----------------------------
(* TLC instance of OrderSubmission: the configurations give two slots. *)
EXTENDS OrderSubmission
=================================================================================
