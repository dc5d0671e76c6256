--------------------------------- MODULE HaltLatch ---------------------------------
(***************************************************************************)
(* What the persistent HALT promises to everyone who reads it: it is        *)
(* latched by any process, stays latched through crashes, day changes and   *)
(* restarts, is cleared by an operator's reset alone, and nobody latches    *)
(* it while a reset is between its first and its last write.                *)
(***************************************************************************)

VARIABLES
    latched,    \* HALT is in force
    resetting   \* an operator's reset was admitted and has not finished

vars == <<latched, resetting>>

Init == latched \in BOOLEAN /\ resetting = FALSE

Latch == /\ ~resetting
         /\ latched' = TRUE
         /\ UNCHANGED resetting

(* A reset is admitted, and perhaps already over for the reader, in one step. *)
BeginReset == /\ ~resetting
              /\ resetting' = TRUE
              /\ latched' \in {latched, FALSE}

EndReset == /\ resetting
            /\ resetting' = FALSE
            /\ latched' = FALSE

(* The operator's process dies half way: HALT is as it was left. *)
AbandonReset == /\ resetting
                /\ resetting' = FALSE
                /\ UNCHANGED latched

Next == Latch \/ BeginReset \/ EndReset \/ AbandonReset

Spec == Init /\ [][Next]_vars
====================================================================================
