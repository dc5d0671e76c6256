------------------------------- MODULE MCSupervisor --------------------------------
(* TLC instance of Supervisor. *)
EXTENDS Supervisor, TLC

Symbols == {"btc", "eth"}
Manuals == {"btc"}
====================================================================================
