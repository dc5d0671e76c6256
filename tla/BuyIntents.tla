------------------------------- MODULE BuyIntents -------------------------------
(* What the submission path promises about BUY intents, without saying how:    *)
(* an intent is opened for one ladder slot, reaches the exchange at most once, *)
(* and a slot never has two intents that may still buy or still hold the slot. *)
EXTENDS Naturals

CONSTANTS Slot, MaxIntents, NoSlot

Intent == 1..MaxIntents

VARIABLES
    phase,   \* free, open (may still buy), live (bought or buying), done, void
    owner    \* the slot an intent was opened for

vars == <<phase, owner>>

Phase == {"free", "open", "live", "done", "void"}

(* The intents that keep slot s from being bought again. *)
Holding(s) == {i \in Intent : owner[i] = s /\ phase[i] \in {"open", "live"}}

Init == /\ phase = [i \in Intent |-> "free"]
        /\ owner = [i \in Intent |-> NoSlot]

Open(i, s) == /\ phase[i] = "free"
              /\ Holding(s) = {}
              /\ phase' = [phase EXCEPT ![i] = "open"]
              /\ owner' = [owner EXCEPT ![i] = s]

Move(i, from, to) == /\ phase[i] = from
                     /\ phase' = [phase EXCEPT ![i] = to]
                     /\ UNCHANGED owner

Next == \E i \in Intent :
           \/ \E s \in Slot : Open(i, s)
           \/ Move(i, "open", "live")
           \/ Move(i, "open", "void")
           \/ Move(i, "open", "done")
           \/ Move(i, "live", "done")

Spec == Init /\ [][Next]_vars
=================================================================================
