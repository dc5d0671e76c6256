----------------------------- MODULE MCBuyReplacement -----------------------------
(* TLC instance of BuyReplacement: two prices. *)
EXTENDS BuyReplacement, TLC

Levels == 1..2
=====================================================================================
