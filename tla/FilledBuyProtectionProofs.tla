------------------------ MODULE FilledBuyProtectionProofs -------------------------
(***************************************************************************)
(* For any lots, sizes, prices, sells and crashes: no filled BUY is          *)
(* forgotten while a worker runs, and PROTECTED is backed by a list of the  *)
(* lot's own.                                                               *)
(* The argument is that a recorded exit has ended and cannot change, so     *)
(* what remains of a lot only changes with an exit of its own pass, and     *)
(* that a pass works on a lot that is polled and on sells of that lot.      *)
(***************************************************************************)
EXTENDS FilledBuyProtection, TLAPS

InPass == {"recover", "legs", "exit", "size", "reuse-legs", "reuse-exit",
           "reuse-protected", "oco-prepared", "oco-posted", "oco-lookup", "record-list",
           "record-legs", "record-protected", "flatten", "market-prepared",
           "market-posted", "market-lookup", "market-answer"}
WithList == {"exit", "reuse-exit", "reuse-protected", "oco-prepared", "oco-posted",
             "oco-lookup", "record-list", "record-legs", "record-protected"}
Reading == {"legs", "reuse-legs"}
Selling == {"market-prepared", "market-posted", "market-lookup", "market-answer"}
Recording == {"reuse-protected", "record-list", "record-legs", "record-protected"}

(* The shape of the state, as far as the argument needs it. *)
Typed == /\ bought \subseteq Lot
         /\ parent = [l \in Lot |-> parent[l]]
         /\ child = [c \in Sell |-> child[c]]
         /\ status = [c \in Sell |-> status[c]]
         /\ sold = [c \in Sell |-> sold[c]]
         /\ intent = [c \in Sell |-> intent[c]]
         /\ nextSell \in Nat \ {0}
         /\ pc \in InPass \cup {"down", "idle", "flattened"}
         /\ pc \in InPass => cur \in Lot
         /\ pc \in WithList \cup Reading \cup Selling => sell \in Sell

(* Rows are filled in order, and recorded exits are lists that have ended.  *)
RowsInv == /\ \A c \in Sell : c >= nextSell => intent[c] = NoIntent
           /\ exits \subseteq {c \in Known : status[c] = "canceled"}

(* A pass works on a lot that is polled and claims nothing of it yet.       *)
PassInv == /\ pc \in InPass => cur \in tracked /\ parent[cur] \in BuyActive
           /\ pc = "flattened" => parent[cur] = "CLOSED"
           /\ pc \in WithList => intent[sell].lot = cur

(* A worker that runs polls every BUY that is open, or has sold it.         *)
PollInv == ~At("down") => \A l \in Lot : \/ parent[l] \notin BuyActive
                                         \/ l \in tracked
                                         \/ Remaining(l) = 0

FillInv == Typed /\ RowsInv /\ PassInv /\ PollInv

(* A pass may read another lot's list, where the purpose does not tell them *)
(* apart, but goes on only with its own, and what it records was seen at    *)
(* the exchange with its quantity.                                          *)
ListInv == /\ pc \in WithList \cup Reading => intent[sell].kind = "OCO"
           /\ pc \in WithList \cup {"legs"} => intent[sell].lot = cur
           /\ pc \in Selling => intent[sell].kind = "MARKET"
           /\ \A c \in Sell : child[c] = "PROTECTED" => intent[c].kind = "OCO"
           /\ pc \in Recording => status[sell] # "absent"
           /\ \A l \in Lot : pc \in Recording /\ l = cur => intent[sell].qty = Remaining(l)
           /\ pc \in {"reuse-protected", "record-legs", "record-protected"} => sell \in listed
           /\ pc = "record-protected" => sell \in legs

(* The list behind a PROTECTED lot; only a failed read marks it UNKNOWN.    *)
Backs(c, l) == /\ child[c] \in {"PROTECTED", "UNKNOWN"}
               /\ intent[c].kind = "OCO"
               /\ c \in legs \cap listed
               /\ status[c] # "absent"
               /\ intent[c].qty = Remaining(l)

BackedInv == FillInv /\ ListInv /\ \A l \in Lot :
                 parent[l] = "PROTECTED" => \E c \in ChildrenOf(l) : Backs(c, l)

---------------------------------------------------------------------------
(* What remains of a lot *)

(* It only depends on the recorded exits of the lot and what they sold.     *)
LEMMA RemainingDepends ==
    ASSUME NEW l,
           (exits \cap ChildrenOf(l))' = exits \cap ChildrenOf(l),
           \A c \in exits \cap ChildrenOf(l) : sold'[c] = sold[c]
    PROVE  Remaining(l)' = Remaining(l)
<1>1. ExitsOf(l)' = ExitsOf(l)
  BY DEF ExitsOf
<1>. QED BY <1>1 DEF Remaining

(* So it is kept by a step that keeps the rows of the recorded exits. *)
LEMMA RemainingKept ==
    ASSUME RowsInv, UNCHANGED exits, NEW l,
           \A c \in exits : intent'[c] = intent[c] /\ sold'[c] = sold[c]
    PROVE  Remaining(l)' = Remaining(l)
<1>1. (exits \cap ChildrenOf(l))' = exits \cap ChildrenOf(l)
  BY DEF RowsInv, ChildrenOf, Known
<1>. QED BY <1>1, RemainingDepends

(* A new SELL takes the next row, which no exit refers to.                  *)
LEMMA PrepareEffect ==
    ASSUME Typed, RowsInv, pc \in InPass, NEW kind, NEW p, NEW state,
           PrepareSell(kind, p, state)
    PROVE  /\ nextSell \in Sell /\ nextSell' = nextSell + 1
           /\ intent' = [c \in Sell |-> intent'[c]]
           /\ intent'[nextSell].lot = cur /\ intent'[nextSell].kind = kind
           /\ intent'[nextSell].qty = Remaining(cur)
           /\ intent'[nextSell] # NoIntent
           /\ intent[nextSell] = NoIntent /\ nextSell \notin exits
           /\ \A c \in Sell \ {nextSell} : intent'[c] = intent[c]
           /\ parent' = [parent EXCEPT ![cur] = state]
<1>. DEFINE row == [lot |-> cur, kind |-> kind, qty |-> Remaining(cur), price |-> p]
<1>1. /\ intent' = [intent EXCEPT ![nextSell] = row]
      /\ nextSell' = nextSell + 1
      /\ parent' = [parent EXCEPT ![cur] = state]
      /\ nextSell <= MaxSells
  BY DEF PrepareSell
<1>2. nextSell \in Sell /\ intent[nextSell] = NoIntent
  BY <1>1, ProtectionAssumption DEF Typed, RowsInv, Sell, ProtectionAssumption
<1>3. nextSell \notin exits
  BY <1>2 DEF RowsInv, Known
<1>4. row # NoIntent
  <2>1. row.lot # NoIntent.lot
    BY ProtectionAssumption DEF NoIntent, Typed, ProtectionAssumption
  <2>. QED BY <2>1
<1>5. row.lot = cur /\ row.kind = kind /\ row.qty = Remaining(cur)
  OBVIOUS
<1>. HIDE DEF row
<1>6. /\ intent' = [c \in Sell |-> intent'[c]]
      /\ intent'[nextSell] = row
      /\ \A c \in Sell \ {nextSell} : intent'[c] = intent[c]
  BY <1>1, <1>2 DEF Typed
<1>. QED BY <1>1, <1>2, <1>3, <1>4, <1>5, <1>6

(* A SELL that the exchange accepts was absent. *)
LEMMA AcceptEffect ==
    ASSUME Typed, NEW c \in Sell, Accept(c)
    PROVE  /\ status[c] = "absent" /\ status'[c] # "absent"
           /\ status' = [d \in Sell |-> status'[d]]
           /\ sold' = [d \in Sell |-> sold'[d]]
           /\ \A d \in Sell \ {c} : status'[d] = status[d] /\ sold'[d] = sold[d]
           /\ UNCHANGED <<journalVars, bought, pc, cur, sell, tracked>>
<1>1. status[c] = "absent" /\ UNCHANGED <<journalVars, bought, pc, cur, sell, tracked>>
  BY DEF Accept, Answer
<1>2. CASE status' = [status EXCEPT ![c] = "live"] /\ UNCHANGED sold
  BY <1>1, <1>2 DEF Typed
<1>3. ASSUME NEW q, sold' = [sold EXCEPT ![c] = q],
             status' = [status EXCEPT ![c] = IF q = intent[c].qty THEN "filled" ELSE "canceled"]
      PROVE  /\ status'[c] # "absent"
             /\ status' = [d \in Sell |-> status'[d]]
             /\ sold' = [d \in Sell |-> sold'[d]]
             /\ \A d \in Sell \ {c} : status'[d] = status[d] /\ sold'[d] = sold[d]
  BY <1>3 DEF Typed
<1>. QED BY <1>1, <1>2, <1>3 DEF Accept

(* The three steps that add a SELL and send the pass to place it.           *)
Planning == (\E p \in Price : PlanOco(p)) \/ ReuseCanceled \/ PlanMarket

(* What the three ways of planning a sell have in common: a fresh intent of the *)
(* current lot, and nothing else of the intents or the exits.               *)
LEMMA PlanningEffect ==
    ASSUME Typed, RowsInv, Planning
    PROVE  /\ pc \in InPass /\ pc \notin {"exit", "reuse-exit"}
           /\ nextSell \in Sell /\ nextSell' = nextSell + 1 /\ sell' = nextSell
           /\ intent' = [c \in Sell |-> intent'[c]]
           /\ child' = [c \in Sell |-> child'[c]]
           /\ parent' = [l \in Lot |-> parent'[l]]
           /\ intent[nextSell] = NoIntent /\ nextSell \notin exits
           /\ intent'[nextSell].lot = cur /\ intent'[nextSell] # NoIntent
           /\ child'[nextSell] = "PREPARED"
           /\ \A c \in Sell \ {nextSell} : intent'[c] = intent[c]
           /\ \A c \in Sell \ {nextSell} :
                 \/ child'[c] = child[c]
                 \/ c = sell /\ intent[sell].lot = cur /\ child'[c] = "FAILED"
           /\ \A l \in Lot \ {cur} : parent'[l] = parent[l]
           /\ parent'[cur] \in {parent[cur], "PROTECTION_PENDING"}
           /\ \/ pc' = "oco-prepared" /\ intent'[nextSell].kind = "OCO"
              \/ pc' = "market-prepared" /\ intent'[nextSell].kind = "MARKET"
           /\ UNCHANGED <<cur, tracked, exits, bought, status, sold, legs, listed>>
<1>1. ASSUME NEW p, PlanOco(p) PROVE PrepareSell("OCO", p, "PROTECTION_PENDING")
  BY <1>1 DEF PlanOco
<1>2. ASSUME ReuseCanceled PROVE PrepareSell("OCO", intent[sell].price, "PROTECTION_PENDING")
  BY <1>2 DEF ReuseCanceled
<1>3. ASSUME PlanMarket PROVE PrepareSell("MARKET", NoPrice, parent[cur])
  BY <1>3 DEF PlanMarket
<1>4. /\ pc \in InPass /\ pc \notin {"exit", "reuse-exit"}
      /\ cur \in Lot
  BY DEF Planning, PlanOco, ReuseCanceled, PlanMarket, At, InPass, Typed
<1>5. CASE \E p \in Price : PlanOco(p)
  <2>1. PICK p \in Price : PlanOco(p)
    BY <1>5
  <2>2. PrepareSell("OCO", p, "PROTECTION_PENDING")
    BY <1>1, <2>1
  <2>. QED
    BY <2>1, <2>2, <1>4, PrepareEffect DEF PlanOco, Goto, exchangeVars, Typed
<1>6. CASE ReuseCanceled
  <2>1. PrepareSell("OCO", intent[sell].price, "PROTECTION_PENDING")
    BY <1>2, <1>6
  <2>2. nextSell \in Sell /\ \A c \in Sell \ {nextSell} : intent'[c] = intent[c]
    BY <2>1, <1>4, PrepareEffect
  <2>3. /\ child' = [c \in Sell |-> child'[c]]
        /\ child'[nextSell] = "PREPARED"
        /\ \A c \in Sell \ {nextSell} :
              \/ child'[c] = child[c]
              \/ c = sell /\ intent[sell].lot = cur /\ child'[c] = "FAILED"
    BY <1>6, <2>2 DEF ReuseCanceled, VerifyQuantities, Typed
  <2>4. /\ sell' = nextSell /\ pc' = "oco-prepared"
        /\ UNCHANGED <<cur, tracked, exits, bought, status, sold, legs, listed>>
    BY <1>6 DEF ReuseCanceled, Goto, exchangeVars
  <2>. HIDE <1>6
  <2>. QED
    BY <2>1, <2>2, <2>3, <2>4, <1>4, PrepareEffect DEF Typed
<1>7. CASE PlanMarket
  <2>1. PrepareSell("MARKET", NoPrice, parent[cur])
    BY <1>3, <1>7
  <2>. QED
    BY <1>7, <2>1, <1>4, PrepareEffect DEF PlanMarket, Goto, exchangeVars, Typed
<1>. QED BY <1>5, <1>6, <1>7 DEF Planning

(* A planned sell executed nothing: no lot has more or less left to sell.   *)
LEMMA PlanningKeepsExits ==
    ASSUME Typed, RowsInv, Planning
    PROVE  RowsInv' /\ \A l \in Lot : Remaining(l)' = Remaining(l)
<1>1. /\ nextSell \in Sell /\ nextSell' = nextSell + 1 /\ nextSell \notin exits
      /\ \A c \in Sell \ {nextSell} : intent'[c] = intent[c]
      /\ UNCHANGED <<exits, status, sold>>
  <2>1. nextSell \in Sell /\ nextSell' = nextSell + 1 /\ nextSell \notin exits
    BY PlanningEffect
  <2>2. \A c \in Sell \ {nextSell} : intent'[c] = intent[c]
    BY PlanningEffect
  <2>3. UNCHANGED <<exits, status, sold>>
    BY PlanningEffect
  <2>. QED BY <2>1, <2>2, <2>3
<1>2. \A c \in exits : c \in Sell \ {nextSell} /\ intent[c] # NoIntent /\ status[c] = "canceled"
  BY <1>1 DEF RowsInv, Known
<1>3. \A c \in exits : intent'[c] = intent[c] /\ sold'[c] = sold[c]
  BY <1>1, <1>2
<1>4. exits' \subseteq {c \in Known' : status'[c] = "canceled"}
  BY <1>1, <1>2, <1>3 DEF Known
<1>5. \A c \in Sell : c >= nextSell' => intent'[c] = NoIntent
  BY <1>1 DEF RowsInv, Sell
<1>6. \A l \in Lot : Remaining(l)' = Remaining(l)
  BY <1>1, <1>3, RemainingKept
<1>. QED BY <1>4, <1>5, <1>6 DEF RowsInv

(* The two steps that record a partial exit.                                *)
Recorded == RecordPartialExit \/ ReusePartial

(* What recording a canceled sell that executed in part changes: it becomes an *)
(* exit of its lot, and the lot is pending again.                           *)
LEMMA RecordedEffect ==
    ASSUME Typed, PassInv, Recorded
    PROVE  /\ pc \in {"exit", "reuse-exit"} /\ cur \in Lot
           /\ sell \in Known /\ intent[sell].lot = cur /\ status[sell] = "canceled"
           /\ exits' = exits \cup {sell}
           /\ child' = [child EXCEPT ![sell] = "FAILED"]
           /\ parent' = [parent EXCEPT ![cur] = "PROTECTION_PENDING"]
           /\ \/ pc' = "size" /\ cur' = cur
              \/ pc' = "idle" /\ cur' = NoLot
           /\ UNCHANGED <<tracked, nextSell, intent, legs, listed, bought, status, sold>>
<1>1. /\ pc \in {"exit", "reuse-exit"}
      /\ status[sell] = "canceled"
      /\ exits' = exits \cup {sell}
      /\ child' = [child EXCEPT ![sell] = "FAILED"]
      /\ parent' = [parent EXCEPT ![cur] = "PROTECTION_PENDING"]
      /\ \/ pc' = "size" /\ cur' = cur
         \/ pc' = "idle" /\ cur' = NoLot
      /\ UNCHANGED <<tracked, nextSell, intent, legs, listed, bought, status, sold>>
  BY DEF Recorded, RecordPartialExit, ReusePartial, PartialExit, Reopen, Goto, Halt,
         EndPass, At, exchangeVars
<1>2. cur \in Lot /\ sell \in Sell /\ intent[sell].lot = cur
  BY <1>1 DEF Typed, PassInv, InPass, WithList
<1>3. intent[sell] # NoIntent
  BY <1>2, ProtectionAssumption DEF NoIntent, ProtectionAssumption
<1>. QED BY <1>1, <1>2, <1>3 DEF Known

(* Only recording an exit of the current lot changes what remains of it.   *)
KeepsRemaining ==
    \A l \in Lot : (pc \in {"exit", "reuse-exit"} /\ l = cur) \/ Remaining(l)' = Remaining(l)

(* So every step does. *)
LEMMA RemainingNext ==
    ASSUME Typed, RowsInv, PassInv, [Next]_vars
    PROVE  KeepsRemaining
<1>1. CASE \/ StepFails \/ PollFails \/ RecoverNothing \/ LegsActive
           \/ LegsEndedMeanwhile \/ LegsCanceled \/ LegsClosed("legs", "exit")
           \/ LegsClosed("reuse-legs", "reuse-exit") \/ CloseExact
           \/ NothingLeft
  BY <1>1, RemainingKept
  DEF KeepsRemaining, Typed, RowsInv, StepFails, Halt, EndPass, journalVars,
      exchangeVars, PollFails, At, RecoverNothing, Goto, ProtectionFor, LegsActive,
      Untrack, SetBoth, VerifyQuantities, LegsEndedMeanwhile, Terminal, LegsCanceled,
      Reopen, LegsClosed, CloseExact, ExactExit, NothingLeft
<1>2. CASE \/ PlanCrossed \/ ReuseActive \/ ReuseProtected \/ SendOco
           \/ OcoVerified \/ OcoRejected \/ OcoUnknown \/ LookupFindsOco
           \/ LookupGivesUp \/ RecordList
  BY <1>2, RemainingKept
  DEF KeepsRemaining, Typed, RowsInv, PlanCrossed, Goto, At, journalVars,
      exchangeVars, ReuseActive, VerifyQuantities, ReuseProtected, Untrack, EndPass,
      SetBoth, SendOco, OcoVerified, OcoRejected, Reopen, OcoUnknown, LookupFindsOco,
      LookupGivesUp, RecordList
<1>3. CASE \/ RecordLegs \/ MarkProtected \/ SendMarket \/ MarketAnswered
           \/ MarketRejected \/ MarketUnknown \/ CloseFlattened \/ HaltFlattened \/ Crash \/ Stop
           \/ OperatorReset
  BY <1>3, RemainingKept
  DEF KeepsRemaining, Typed, RowsInv, RecordLegs, Goto, At, exchangeVars,
      MarkProtected, Untrack, EndPass, SetBoth, SendMarket, journalVars,
      MarketAnswered, MarketRejected, Halt, MarketUnknown, CloseFlattened, HaltFlattened, Crash,
      GoDown, Stop, OperatorReset, workerVars
<1>4. CASE Boot \/ BootFails
  BY <1>4, RemainingKept
  DEF KeepsRemaining, Typed, RowsInv, Boot, At, UnresolvedBuys, Unreconciled, Known,
      Nonterminal, exchangeVars, BootFails, workerVars
<1>5. ASSUME NEW l \in Lot, Poll(l)
      PROVE  KeepsRemaining
  BY <1>5, RemainingKept
  DEF KeepsRemaining, Typed, RowsInv, Poll, At, exchangeVars
<1>6. ASSUME NEW c \in Sell, RecoverMarket(c)
      PROVE  KeepsRemaining
  BY <1>6, RemainingKept
  DEF KeepsRemaining, Typed, RowsInv, RecoverMarket, Goto, At, ProtectionFor,
      journalVars, exchangeVars
<1>7. ASSUME NEW c \in Sell, RecoverList(c)
      PROVE  KeepsRemaining
  BY <1>7, RemainingKept
  DEF KeepsRemaining, Typed, RowsInv, RecoverList, ReadList, ProtectionFor, At,
      journalVars, exchangeVars
<1>8. CASE RecordPartialExit
  <2>. SUFFICES ASSUME NEW l \in Lot, l # cur PROVE Remaining(l)' = Remaining(l)
    BY <1>8, RecordedEffect DEF Recorded, KeepsRemaining
  <2>1. (exits \cap ChildrenOf(l))' = exits \cap ChildrenOf(l)
    BY <1>8, RecordedEffect DEF Recorded, ChildrenOf, Known
  <2>2. \A c \in exits \cap ChildrenOf(l) : sold'[c] = sold[c]
    BY <1>8, RecordedEffect DEF Recorded
  <2>. QED BY <2>1, <2>2, RemainingDepends
<1>9. ASSUME NEW p \in Price, PlanOco(p)
      PROVE  KeepsRemaining
  BY <1>9, PlanningKeepsExits DEF Planning, KeepsRemaining
<1>10. ASSUME NEW p \in Price, NEW c \in Sell, ReuseList(p, c)
      PROVE  KeepsRemaining
  BY <1>10, RemainingKept
  DEF KeepsRemaining, Typed, RowsInv, ReuseList, ReadList, At, ActiveOco, SellActive,
      journalVars, exchangeVars
<1>11. ASSUME NEW p \in Price, NEW c \in Sell, ReuseAbsent(p, c)
      PROVE  KeepsRemaining
  BY <1>11, RemainingKept
  DEF KeepsRemaining, Typed, RowsInv, ReuseAbsent, Goto, At, ActiveOco, SellActive,
      exchangeVars
<1>12. ASSUME NEW c \in Sell, ReuseUnreadable(c)
      PROVE  KeepsRemaining
  BY <1>12, RemainingKept
  DEF KeepsRemaining, Typed, RowsInv, ReuseUnreadable, Halt, EndPass, At, ActiveOco,
      SellActive, exchangeVars
<1>13. CASE ReuseCanceled
  BY <1>13, PlanningKeepsExits DEF Planning, KeepsRemaining
<1>14. CASE ReusePartial
  <2>. SUFFICES ASSUME NEW l \in Lot, l # cur PROVE Remaining(l)' = Remaining(l)
    BY <1>14, RecordedEffect DEF Recorded, KeepsRemaining
  <2>1. (exits \cap ChildrenOf(l))' = exits \cap ChildrenOf(l)
    BY <1>14, RecordedEffect DEF Recorded, ChildrenOf, Known
  <2>2. \A c \in exits \cap ChildrenOf(l) : sold'[c] = sold[c]
    BY <1>14, RecordedEffect DEF Recorded
  <2>. QED BY <2>1, <2>2, RemainingDepends
<1>15. CASE PlanMarket
  BY <1>15, PlanningKeepsExits DEF Planning, KeepsRemaining
<1>16. ASSUME NEW c \in Sell, AdoptMarket(c)
      PROVE  KeepsRemaining
  BY <1>16, RemainingKept
  DEF KeepsRemaining, Typed, RowsInv, AdoptMarket, Goto, At, ActiveMarket,
      SellActive, exchangeVars
<1>17. ASSUME NEW c \in Sell, MarketUnreadable(c)
      PROVE  KeepsRemaining
  BY <1>17, RemainingKept
  DEF KeepsRemaining, Typed, RowsInv, MarketUnreadable, Halt, EndPass, At,
      ActiveMarket, SellActive, exchangeVars
<1>18. ASSUME NEW c \in Sell, OnFill(c)
      PROVE  KeepsRemaining
  BY <1>18, RemainingKept
  DEF KeepsRemaining, Typed, RowsInv, OnFill, At, ExactExit, exchangeVars, workerVars
<1>19. ASSUME NEW l \in Lot, FillBuy(l)
      PROVE  KeepsRemaining
  BY <1>19, RemainingKept
  DEF KeepsRemaining, Typed, RowsInv, FillBuy, journalVars, workerVars
<1>20. ASSUME NEW c \in Sell, Accept(c)
      PROVE  KeepsRemaining
  BY <1>20, AcceptEffect, RemainingKept
  DEF KeepsRemaining, RowsInv, Known, journalVars
<1>21. ASSUME NEW c \in Sell, Refuse(c)
      PROVE  KeepsRemaining
  BY <1>21, RemainingKept
  DEF KeepsRemaining, Typed, RowsInv, Refuse, Answer, journalVars
<1>22. ASSUME NEW c \in Sell, Lose(c)
      PROVE  KeepsRemaining
  BY <1>22, RemainingKept
  DEF KeepsRemaining, Typed, RowsInv, Lose, Answer, journalVars
<1>23. ASSUME NEW c \in Sell, Trade(c)
      PROVE  KeepsRemaining
  BY <1>23, RemainingKept
  DEF KeepsRemaining, Typed, RowsInv, Trade, journalVars, workerVars, At
<1>24. ASSUME NEW c \in Sell, EndList(c)
      PROVE  KeepsRemaining
  BY <1>24, RemainingKept
  DEF KeepsRemaining, Typed, RowsInv, EndList, journalVars, workerVars, At
<1>25. CASE UNCHANGED vars
  BY <1>25, RemainingKept
  DEF KeepsRemaining, Typed, RowsInv, vars
<1>. QED
  BY <1>1, <1>2, <1>3, <1>4, <1>5, <1>6, <1>7, <1>8, <1>9, <1>10, <1>11, <1>12,
     <1>13, <1>14, <1>15, <1>16, <1>17, <1>18, <1>19, <1>20, <1>21, <1>22, <1>23,
     <1>24, <1>25
  DEF Next, Worker, Recovery, PlaceOco, Flatten, Exchange, Restart

(* Every step keeps the shape of the state, *)
LEMMA TypedNext ==
    ASSUME Typed, RowsInv, PassInv, [Next]_vars
    PROVE  Typed'
<1>1. CASE \/ StepFails \/ PollFails \/ RecoverNothing \/ LegsActive
           \/ LegsEndedMeanwhile \/ LegsCanceled \/ LegsClosed("legs", "exit")
           \/ LegsClosed("reuse-legs", "reuse-exit") \/ CloseExact
           \/ NothingLeft
  BY <1>1
  DEF Typed, InPass, WithList, Reading, Selling, StepFails, Halt, EndPass,
      journalVars, exchangeVars, PollFails, At, RecoverNothing, Goto, ProtectionFor,
      LegsActive, Untrack, SetBoth, VerifyQuantities, LegsEndedMeanwhile, Terminal,
      LegsCanceled, Reopen, LegsClosed, CloseExact, ExactExit, NothingLeft
<1>2. CASE \/ PlanCrossed \/ ReuseActive \/ ReuseProtected \/ SendOco
           \/ OcoVerified \/ OcoRejected \/ OcoUnknown \/ LookupFindsOco
           \/ LookupGivesUp \/ RecordList
  BY <1>2
  DEF Typed, InPass, WithList, Reading, Selling, PlanCrossed, Goto, At, journalVars,
      exchangeVars, ReuseActive, VerifyQuantities, ReuseProtected, Untrack, EndPass,
      SetBoth, SendOco, OcoVerified, OcoRejected, Reopen, OcoUnknown, LookupFindsOco,
      LookupGivesUp, RecordList
<1>3. CASE \/ RecordLegs \/ MarkProtected \/ SendMarket \/ MarketAnswered
           \/ MarketRejected \/ MarketUnknown \/ CloseFlattened \/ HaltFlattened \/ Crash \/ Stop
           \/ OperatorReset
  BY <1>3
  DEF Typed, InPass, WithList, Reading, Selling, RecordLegs, Goto, At, exchangeVars,
      MarkProtected, Untrack, EndPass, SetBoth, SendMarket, journalVars,
      MarketAnswered, MarketRejected, Halt, MarketUnknown, CloseFlattened, HaltFlattened, Crash,
      GoDown, Stop, OperatorReset, workerVars
<1>4. CASE Boot \/ BootFails
  BY <1>4
  DEF Typed, InPass, WithList, Reading, Selling, Boot, At, UnresolvedBuys,
      Unreconciled, Known, Nonterminal, exchangeVars, BootFails, workerVars
<1>5. ASSUME NEW l \in Lot, Poll(l)
      PROVE  Typed'
  BY <1>5
  DEF Typed, InPass, WithList, Reading, Selling, Poll, At, exchangeVars
<1>6. ASSUME NEW c \in Sell, RecoverMarket(c)
      PROVE  Typed'
  BY <1>6
  DEF Typed, InPass, WithList, Reading, Selling, RecoverMarket, Goto, At,
      ProtectionFor, journalVars, exchangeVars
<1>7. ASSUME NEW c \in Sell, RecoverList(c)
      PROVE  Typed'
  BY <1>7
  DEF Typed, InPass, WithList, Reading, Selling, RecoverList, ReadList,
      ProtectionFor, At, journalVars, exchangeVars
<1>8. CASE RecordPartialExit
  BY <1>8, RecordedEffect DEF Recorded, Typed, InPass, WithList, Reading, Selling, Known
<1>9. ASSUME NEW p \in Price, PlanOco(p)
      PROVE  Typed'
  BY <1>9, PlanningEffect DEF Planning, Typed, InPass, WithList, Reading, Selling, Known
<1>10. ASSUME NEW p \in Price, NEW c \in Sell, ReuseList(p, c)
      PROVE  Typed'
  BY <1>10
  DEF Typed, InPass, WithList, Reading, Selling, ReuseList, ReadList, At, ActiveOco,
      SellActive, journalVars, exchangeVars
<1>11. ASSUME NEW p \in Price, NEW c \in Sell, ReuseAbsent(p, c)
      PROVE  Typed'
  BY <1>11
  DEF Typed, InPass, WithList, Reading, Selling, ReuseAbsent, Goto, At, ActiveOco,
      SellActive, exchangeVars
<1>12. ASSUME NEW c \in Sell, ReuseUnreadable(c)
      PROVE  Typed'
  BY <1>12
  DEF Typed, InPass, WithList, Reading, Selling, ReuseUnreadable, Halt, EndPass, At,
      ActiveOco, SellActive, exchangeVars
<1>13. CASE ReuseCanceled
  BY <1>13, PlanningEffect DEF Planning, Typed, InPass, WithList, Reading, Selling, Known
<1>14. CASE ReusePartial
  BY <1>14, RecordedEffect DEF Recorded, Typed, InPass, WithList, Reading, Selling, Known
<1>15. CASE PlanMarket
  BY <1>15, PlanningEffect DEF Planning, Typed, InPass, WithList, Reading, Selling, Known
<1>16. ASSUME NEW c \in Sell, AdoptMarket(c)
      PROVE  Typed'
  BY <1>16
  DEF Typed, InPass, WithList, Reading, Selling, AdoptMarket, Goto, At, ActiveMarket,
      SellActive, exchangeVars
<1>17. ASSUME NEW c \in Sell, MarketUnreadable(c)
      PROVE  Typed'
  BY <1>17
  DEF Typed, InPass, WithList, Reading, Selling, MarketUnreadable, Halt, EndPass, At,
      ActiveMarket, SellActive, exchangeVars
<1>18. ASSUME NEW c \in Sell, OnFill(c)
      PROVE  Typed'
  BY <1>18
  DEF Typed, InPass, WithList, Reading, Selling, OnFill, At, ExactExit, exchangeVars,
      workerVars
<1>19. ASSUME NEW l \in Lot, FillBuy(l)
      PROVE  Typed'
  BY <1>19
  DEF Typed, InPass, WithList, Reading, Selling, FillBuy, journalVars, workerVars
<1>20. ASSUME NEW c \in Sell, Accept(c)
      PROVE  Typed'
  BY <1>20
  DEF Typed, InPass, WithList, Reading, Selling, Accept, Answer, journalVars
<1>21. ASSUME NEW c \in Sell, Refuse(c)
      PROVE  Typed'
  BY <1>21
  DEF Typed, InPass, WithList, Reading, Selling, Refuse, Answer, journalVars
<1>22. ASSUME NEW c \in Sell, Lose(c)
      PROVE  Typed'
  BY <1>22
  DEF Typed, InPass, WithList, Reading, Selling, Lose, Answer, journalVars
<1>23. ASSUME NEW c \in Sell, Trade(c)
      PROVE  Typed'
  BY <1>23
  DEF Typed, InPass, WithList, Reading, Selling, Trade, journalVars,
      workerVars, At
<1>24. ASSUME NEW c \in Sell, EndList(c)
      PROVE  Typed'
  BY <1>24
  DEF Typed, InPass, WithList, Reading, Selling, EndList, journalVars,
      workerVars, At
<1>25. CASE UNCHANGED vars
  BY <1>25
  DEF Typed, InPass, WithList, Reading, Selling, vars
<1>. QED
  BY <1>1, <1>2, <1>3, <1>4, <1>5, <1>6, <1>7, <1>8, <1>9, <1>10, <1>11, <1>12,
     <1>13, <1>14, <1>15, <1>16, <1>17, <1>18, <1>19, <1>20, <1>21, <1>22, <1>23,
     <1>24, <1>25
  DEF Next, Worker, Recovery, PlaceOco, Flatten, Exchange, Restart

(* the order of the rows, *)
LEMMA RowsNext ==
    ASSUME Typed, RowsInv, PassInv, [Next]_vars
    PROVE  RowsInv'
<1>1. CASE \/ StepFails \/ PollFails \/ RecoverNothing \/ LegsActive
           \/ LegsEndedMeanwhile \/ LegsCanceled \/ LegsClosed("legs", "exit")
           \/ LegsClosed("reuse-legs", "reuse-exit") \/ CloseExact
           \/ NothingLeft
  BY <1>1
  DEF RowsInv, Known, StepFails, Halt, EndPass, journalVars, exchangeVars, PollFails,
      At, RecoverNothing, Goto, ProtectionFor, LegsActive, Untrack, SetBoth,
      VerifyQuantities, LegsEndedMeanwhile, Terminal, LegsCanceled, Reopen,
      LegsClosed, CloseExact, ExactExit, NothingLeft
<1>2. CASE \/ PlanCrossed \/ ReuseActive \/ ReuseProtected \/ SendOco
           \/ OcoVerified \/ OcoRejected \/ OcoUnknown \/ LookupFindsOco
           \/ LookupGivesUp \/ RecordList
  BY <1>2
  DEF RowsInv, Known, PlanCrossed, Goto, At, journalVars, exchangeVars, ReuseActive,
      VerifyQuantities, ReuseProtected, Untrack, EndPass, SetBoth, SendOco,
      OcoVerified, OcoRejected, Reopen, OcoUnknown, LookupFindsOco, LookupGivesUp,
      RecordList
<1>3. CASE \/ RecordLegs \/ MarkProtected \/ SendMarket \/ MarketAnswered
           \/ MarketRejected \/ MarketUnknown \/ CloseFlattened \/ HaltFlattened \/ Crash \/ Stop
           \/ OperatorReset
  BY <1>3
  DEF RowsInv, Known, RecordLegs, Goto, At, exchangeVars, MarkProtected, Untrack,
      EndPass, SetBoth, SendMarket, journalVars, MarketAnswered, MarketRejected,
      Halt, MarketUnknown, CloseFlattened, HaltFlattened, Crash, GoDown, Stop, OperatorReset,
      workerVars
<1>4. CASE Boot \/ BootFails
  BY <1>4
  DEF RowsInv, Known, Boot, At, UnresolvedBuys, Unreconciled, Nonterminal,
      exchangeVars, BootFails, workerVars
<1>5. ASSUME NEW l \in Lot, Poll(l)
      PROVE  RowsInv'
  BY <1>5
  DEF RowsInv, Known, Poll, At, exchangeVars
<1>6. ASSUME NEW c \in Sell, RecoverMarket(c)
      PROVE  RowsInv'
  BY <1>6
  DEF RowsInv, Known, RecoverMarket, Goto, At, ProtectionFor, journalVars,
      exchangeVars
<1>7. ASSUME NEW c \in Sell, RecoverList(c)
      PROVE  RowsInv'
  BY <1>7
  DEF RowsInv, Known, RecoverList, ReadList, ProtectionFor, At, journalVars,
      exchangeVars
<1>8. CASE RecordPartialExit
  BY <1>8, RecordedEffect DEF Recorded, RowsInv, Known
<1>9. ASSUME NEW p \in Price, PlanOco(p)
      PROVE  RowsInv'
  BY <1>9, PlanningKeepsExits DEF Planning
<1>10. ASSUME NEW p \in Price, NEW c \in Sell, ReuseList(p, c)
      PROVE  RowsInv'
  BY <1>10
  DEF RowsInv, Known, ReuseList, ReadList, At, ActiveOco, SellActive, journalVars,
      exchangeVars
<1>11. ASSUME NEW p \in Price, NEW c \in Sell, ReuseAbsent(p, c)
      PROVE  RowsInv'
  BY <1>11
  DEF RowsInv, Known, ReuseAbsent, Goto, At, ActiveOco, SellActive, exchangeVars
<1>12. ASSUME NEW c \in Sell, ReuseUnreadable(c)
      PROVE  RowsInv'
  BY <1>12
  DEF RowsInv, Known, ReuseUnreadable, Halt, EndPass, At, ActiveOco, SellActive,
      exchangeVars
<1>13. CASE ReuseCanceled
  BY <1>13, PlanningKeepsExits DEF Planning
<1>14. CASE ReusePartial
  BY <1>14, RecordedEffect DEF Recorded, RowsInv, Known
<1>15. CASE PlanMarket
  BY <1>15, PlanningKeepsExits DEF Planning
<1>16. ASSUME NEW c \in Sell, AdoptMarket(c)
      PROVE  RowsInv'
  BY <1>16
  DEF RowsInv, Known, AdoptMarket, Goto, At, ActiveMarket, SellActive, exchangeVars
<1>17. ASSUME NEW c \in Sell, MarketUnreadable(c)
      PROVE  RowsInv'
  BY <1>17
  DEF RowsInv, Known, MarketUnreadable, Halt, EndPass, At, ActiveMarket, SellActive,
      exchangeVars
<1>18. ASSUME NEW c \in Sell, OnFill(c)
      PROVE  RowsInv'
  BY <1>18
  DEF RowsInv, Known, OnFill, At, ExactExit, exchangeVars, workerVars
<1>19. ASSUME NEW l \in Lot, FillBuy(l)
      PROVE  RowsInv'
  BY <1>19
  DEF RowsInv, Known, FillBuy, journalVars, workerVars
<1>20. ASSUME NEW c \in Sell, Accept(c)
      PROVE  RowsInv'
  BY <1>20, AcceptEffect
  DEF RowsInv, Known, journalVars
<1>21. ASSUME NEW c \in Sell, Refuse(c)
      PROVE  RowsInv'
  BY <1>21
  DEF RowsInv, Known, Refuse, Answer, journalVars
<1>22. ASSUME NEW c \in Sell, Lose(c)
      PROVE  RowsInv'
  BY <1>22
  DEF RowsInv, Known, Lose, Answer, journalVars
<1>23. ASSUME NEW c \in Sell, Trade(c)
      PROVE  RowsInv'
  BY <1>23
  DEF RowsInv, Known, Trade, journalVars, workerVars, At
<1>24. ASSUME NEW c \in Sell, EndList(c)
      PROVE  RowsInv'
  BY <1>24
  DEF RowsInv, Known, EndList, journalVars, workerVars, At
<1>25. CASE UNCHANGED vars
  BY <1>25
  DEF RowsInv, Known, vars
<1>. QED
  BY <1>1, <1>2, <1>3, <1>4, <1>5, <1>6, <1>7, <1>8, <1>9, <1>10, <1>11, <1>12,
     <1>13, <1>14, <1>15, <1>16, <1>17, <1>18, <1>19, <1>20, <1>21, <1>22, <1>23,
     <1>24, <1>25
  DEF Next, Worker, Recovery, PlaceOco, Flatten, Exchange, Restart

(* the lot of the pass, *)
LEMMA PassNext ==
    ASSUME Typed, RowsInv, PassInv, [Next]_vars
    PROVE  PassInv'
<1>1. CASE \/ StepFails \/ PollFails \/ RecoverNothing \/ LegsActive
           \/ LegsEndedMeanwhile
  BY <1>1
  DEF PassInv, InPass, WithList, StepFails, Halt, EndPass, journalVars, exchangeVars,
      PollFails, At, RecoverNothing, Goto, ProtectionFor, LegsActive, Untrack,
      SetBoth, VerifyQuantities, LegsEndedMeanwhile, Terminal
<1>2. CASE \/ LegsClosed("legs", "exit")
           \/ LegsClosed("reuse-legs", "reuse-exit") \/ CloseExact
           \/ NothingLeft \/ PlanCrossed
  BY <1>2
  DEF PassInv, InPass, WithList, LegsClosed, Goto, At, VerifyQuantities, Terminal,
      exchangeVars, CloseExact, Untrack, EndPass, SetBoth, ExactExit, NothingLeft,
      journalVars, PlanCrossed
<1>3. CASE \/ ReuseActive \/ ReuseProtected \/ SendOco \/ OcoVerified
           \/ OcoUnknown
  BY <1>3
  DEF PassInv, InPass, WithList, ReuseActive, Goto, At, VerifyQuantities,
      exchangeVars, ReuseProtected, Untrack, EndPass, SetBoth, SendOco, journalVars,
      OcoVerified, OcoUnknown
<1>4. CASE \/ LookupFindsOco \/ LookupGivesUp \/ RecordList \/ RecordLegs
           \/ MarkProtected
  BY <1>4
  DEF PassInv, InPass, WithList, LookupFindsOco, Goto, At, VerifyQuantities,
      journalVars, exchangeVars, LookupGivesUp, RecordList, RecordLegs,
      MarkProtected, Untrack, EndPass, SetBoth
<1>5. CASE \/ SendMarket \/ MarketAnswered \/ MarketRejected \/ MarketUnknown
           \/ CloseFlattened \/ HaltFlattened
  BY <1>5
  DEF PassInv, InPass, WithList, Typed, SendMarket, Goto, At, journalVars, MarketAnswered,
      exchangeVars, MarketRejected, Halt, EndPass, MarketUnknown,
      CloseFlattened, HaltFlattened,
      Untrack
<1>6. CASE Crash \/ Stop \/ OperatorReset \/ Boot \/ BootFails
  BY <1>6
  DEF PassInv, InPass, WithList, Crash, GoDown, At, journalVars, exchangeVars, Stop,
      OperatorReset, workerVars, Boot, UnresolvedBuys, Unreconciled, Known,
      Nonterminal, BootFails
<1>7. ASSUME NEW l \in Lot, Poll(l)
      PROVE  PassInv'
  BY <1>7
  DEF PassInv, InPass, WithList, Typed, RowsInv, BuyActive, Reading, Poll, At,
      exchangeVars
<1>8. ASSUME NEW c \in Sell, RecoverMarket(c)
      PROVE  PassInv'
  BY <1>8
  DEF PassInv, InPass, WithList, RecoverMarket, Goto, At, ProtectionFor, journalVars,
      exchangeVars
<1>9. ASSUME NEW c \in Sell, RecoverList(c)
      PROVE  PassInv'
  BY <1>9
  DEF PassInv, InPass, WithList, RecoverList, ReadList, ProtectionFor, At,
      journalVars, exchangeVars
<1>10. CASE LegsCanceled
  BY <1>10
  DEF PassInv, InPass, WithList, Typed, RowsInv, BuyActive, Reading, LegsCanceled,
      Goto, Reopen, At, VerifyQuantities, exchangeVars
<1>11. CASE RecordPartialExit
  BY <1>11, RecordedEffect DEF Recorded, PassInv, InPass, WithList, BuyActive, Typed
<1>12. ASSUME NEW p \in Price, PlanOco(p)
      PROVE  PassInv'
  BY <1>12, PlanningEffect DEF Planning, PassInv, InPass, WithList, BuyActive, Typed
<1>13. ASSUME NEW p \in Price, NEW c \in Sell, ReuseList(p, c)
      PROVE  PassInv'
  BY <1>13
  DEF PassInv, InPass, WithList, ReuseList, ReadList, At, ActiveOco, SellActive,
      journalVars, exchangeVars
<1>14. ASSUME NEW p \in Price, NEW c \in Sell, ReuseAbsent(p, c)
      PROVE  PassInv'
  BY <1>14
  DEF PassInv, InPass, WithList, Typed, RowsInv, BuyActive, Reading, ReuseAbsent,
      Goto, At, ActiveOco, SellActive, exchangeVars
<1>15. ASSUME NEW c \in Sell, ReuseUnreadable(c)
      PROVE  PassInv'
  BY <1>15
  DEF PassInv, InPass, WithList, ReuseUnreadable, Halt, EndPass, At, ActiveOco,
      SellActive, exchangeVars
<1>16. CASE ReuseCanceled
  BY <1>16, PlanningEffect DEF Planning, PassInv, InPass, WithList, BuyActive, Typed
<1>17. CASE ReusePartial
  BY <1>17, RecordedEffect DEF Recorded, PassInv, InPass, WithList, BuyActive, Typed
<1>18. CASE OcoRejected
  BY <1>18
  DEF PassInv, InPass, WithList, Typed, RowsInv, BuyActive, Reading, OcoRejected,
      Goto, Reopen, At, exchangeVars
<1>19. CASE PlanMarket
  BY <1>19, PlanningEffect DEF Planning, PassInv, InPass, WithList, BuyActive, Typed
<1>20. ASSUME NEW c \in Sell, AdoptMarket(c)
      PROVE  PassInv'
  BY <1>20
  DEF PassInv, InPass, WithList, AdoptMarket, Goto, At, ActiveMarket, SellActive,
      exchangeVars
<1>21. ASSUME NEW c \in Sell, MarketUnreadable(c)
      PROVE  PassInv'
  BY <1>21
  DEF PassInv, InPass, WithList, MarketUnreadable, Halt, EndPass, At, ActiveMarket,
      SellActive, exchangeVars
<1>22. ASSUME NEW c \in Sell, OnFill(c)
      PROVE  PassInv'
  BY <1>22
  DEF PassInv, InPass, WithList, OnFill, At, ExactExit, exchangeVars, workerVars
<1>23. ASSUME NEW l \in Lot, FillBuy(l)
      PROVE  PassInv'
  BY <1>23
  DEF PassInv, InPass, WithList, FillBuy, journalVars, workerVars
<1>24. ASSUME NEW c \in Sell, Accept(c)
      PROVE  PassInv'
  BY <1>24
  DEF PassInv, InPass, WithList, Accept, Answer, journalVars
<1>25. ASSUME NEW c \in Sell, Refuse(c)
      PROVE  PassInv'
  BY <1>25
  DEF PassInv, InPass, WithList, Refuse, Answer, journalVars
<1>26. ASSUME NEW c \in Sell, Lose(c)
      PROVE  PassInv'
  BY <1>26
  DEF PassInv, InPass, WithList, Lose, Answer, journalVars
<1>27. ASSUME NEW c \in Sell, Trade(c)
      PROVE  PassInv'
  BY <1>27
  DEF PassInv, InPass, WithList, Trade, journalVars, workerVars, At
<1>28. ASSUME NEW c \in Sell, EndList(c)
      PROVE  PassInv'
  BY <1>28
  DEF PassInv, InPass, WithList, EndList, journalVars, workerVars, At
<1>29. CASE UNCHANGED vars
  BY <1>29
  DEF PassInv, InPass, WithList, vars
<1>. QED
  BY <1>1, <1>2, <1>3, <1>4, <1>5, <1>6, <1>7, <1>8, <1>9, <1>10, <1>11, <1>12,
     <1>13, <1>14, <1>15, <1>16, <1>17, <1>18, <1>19, <1>20, <1>21, <1>22, <1>23,
     <1>24, <1>25, <1>26, <1>27, <1>28, <1>29
  DEF Next, Worker, Recovery, PlaceOco, Flatten, Exchange, Restart

(* and the BUYs that are polled. *)
LEMMA PollNext ==
    ASSUME Typed, RowsInv, PassInv, PollInv, [Next]_vars
    PROVE  PollInv'
<1>1. CASE StepFails \/ PollFails \/ RecoverNothing \/ LegsEndedMeanwhile
  BY <1>1, RemainingNext
  DEF PollInv, PassInv, InPass, At, KeepsRemaining, StepFails, Halt, EndPass,
      journalVars, exchangeVars, PollFails, RecoverNothing, Goto, ProtectionFor,
      LegsEndedMeanwhile, VerifyQuantities, Terminal
<1>2. CASE \/ LegsClosed("legs", "exit")
           \/ LegsClosed("reuse-legs", "reuse-exit") \/ PlanCrossed
           \/ ReuseActive
  BY <1>2, RemainingNext
  DEF PollInv, PassInv, InPass, At, KeepsRemaining, LegsClosed, Goto,
      VerifyQuantities, Terminal, exchangeVars, PlanCrossed, journalVars, ReuseActive
<1>3. CASE SendOco \/ OcoVerified \/ OcoUnknown \/ LookupFindsOco
  BY <1>3, RemainingNext
  DEF PollInv, PassInv, InPass, At, KeepsRemaining, SendOco, Goto, journalVars,
      OcoVerified, VerifyQuantities, exchangeVars, OcoUnknown, LookupFindsOco
<1>4. CASE LookupGivesUp \/ RecordList \/ RecordLegs \/ SendMarket
  BY <1>4, RemainingNext
  DEF PollInv, PassInv, InPass, At, KeepsRemaining, LookupGivesUp, Goto, journalVars,
      exchangeVars, RecordList, RecordLegs, SendMarket
<1>5. CASE MarketAnswered \/ MarketRejected \/ MarketUnknown \/ Crash
  BY <1>5, RemainingNext
  DEF PollInv, PassInv, InPass, At, KeepsRemaining, MarketAnswered, Goto,
      exchangeVars, MarketRejected, Halt, EndPass, MarketUnknown, Crash, GoDown,
      journalVars
<1>6. CASE Stop \/ OperatorReset \/ Boot \/ BootFails
  BY <1>6, RemainingNext
  DEF PollInv, PassInv, InPass, At, KeepsRemaining, Stop, GoDown, journalVars,
      exchangeVars, OperatorReset, workerVars, Boot, UnresolvedBuys, Unreconciled,
      Known, Nonterminal, BootFails
<1>7. ASSUME NEW l \in Lot, Poll(l)
      PROVE  PollInv'
  BY <1>7, RemainingNext
  DEF PollInv, PassInv, InPass, At, KeepsRemaining, Poll, exchangeVars
<1>8. ASSUME NEW c \in Sell, RecoverMarket(c)
      PROVE  PollInv'
  BY <1>8, RemainingNext
  DEF PollInv, PassInv, InPass, At, KeepsRemaining, RecoverMarket, Goto,
      ProtectionFor, journalVars, exchangeVars
<1>9. ASSUME NEW c \in Sell, RecoverList(c)
      PROVE  PollInv'
  BY <1>9, RemainingNext
  DEF PollInv, PassInv, InPass, At, KeepsRemaining, RecoverList, ReadList,
      ProtectionFor, journalVars, exchangeVars
<1>10. CASE LegsActive
  BY <1>10, RemainingNext
  DEF PollInv, PassInv, InPass, At, KeepsRemaining, Typed, BuyActive, LegsActive,
      Untrack, EndPass, SetBoth, VerifyQuantities, exchangeVars
<1>11. CASE LegsCanceled
  BY <1>11, RemainingNext
  DEF PollInv, PassInv, InPass, At, KeepsRemaining, Typed, BuyActive, LegsCanceled,
      Goto, Reopen, VerifyQuantities, exchangeVars
<1>12. CASE CloseExact
  BY <1>12, RemainingNext
  DEF PollInv, PassInv, InPass, At, KeepsRemaining, Typed, BuyActive, CloseExact,
      Untrack, EndPass, SetBoth, ExactExit, exchangeVars
<1>13. CASE RecordPartialExit
  BY <1>13, RecordedEffect, RemainingNext DEF Recorded, KeepsRemaining, PollInv, PassInv, InPass, At, BuyActive, Typed
<1>14. CASE NothingLeft
  BY <1>14, RemainingNext
  DEF PollInv, PassInv, InPass, At, KeepsRemaining, Typed, BuyActive, NothingLeft,
      Untrack, EndPass, journalVars, exchangeVars
<1>15. ASSUME NEW p \in Price, PlanOco(p)
      PROVE  PollInv'
  BY <1>15, PlanningEffect, RemainingNext DEF Planning, KeepsRemaining, PollInv, PassInv, InPass, At, BuyActive, Typed
<1>16. ASSUME NEW p \in Price, NEW c \in Sell, ReuseList(p, c)
      PROVE  PollInv'
  BY <1>16, RemainingNext
  DEF PollInv, PassInv, InPass, At, KeepsRemaining, ReuseList, ReadList, ActiveOco,
      SellActive, journalVars, exchangeVars
<1>17. ASSUME NEW p \in Price, NEW c \in Sell, ReuseAbsent(p, c)
      PROVE  PollInv'
  BY <1>17, RemainingNext
  DEF PollInv, PassInv, InPass, At, KeepsRemaining, ReuseAbsent, Goto, ActiveOco,
      SellActive, exchangeVars
<1>18. ASSUME NEW c \in Sell, ReuseUnreadable(c)
      PROVE  PollInv'
  BY <1>18, RemainingNext
  DEF PollInv, PassInv, InPass, At, KeepsRemaining, ReuseUnreadable, Halt, EndPass,
      ActiveOco, SellActive, exchangeVars
<1>19. CASE ReuseCanceled
  BY <1>19, PlanningEffect, RemainingNext DEF Planning, KeepsRemaining, PollInv, PassInv, InPass, At, BuyActive, Typed
<1>20. CASE ReusePartial
  BY <1>20, RecordedEffect, RemainingNext DEF Recorded, KeepsRemaining, PollInv, PassInv, InPass, At, BuyActive, Typed
<1>21. CASE ReuseProtected
  BY <1>21, RemainingNext
  DEF PollInv, PassInv, InPass, At, KeepsRemaining, Typed, BuyActive, ReuseProtected,
      Untrack, EndPass, SetBoth, exchangeVars
<1>22. CASE OcoRejected
  BY <1>22, RemainingNext
  DEF PollInv, PassInv, InPass, At, KeepsRemaining, Typed, BuyActive, OcoRejected,
      Goto, Reopen, exchangeVars
<1>23. CASE MarkProtected
  BY <1>23, RemainingNext
  DEF PollInv, PassInv, InPass, At, KeepsRemaining, Typed, BuyActive, MarkProtected,
      Untrack, EndPass, SetBoth, exchangeVars
<1>24. CASE PlanMarket
  BY <1>24, PlanningEffect, RemainingNext DEF Planning, KeepsRemaining, PollInv, PassInv, InPass, At, BuyActive, Typed
<1>25. ASSUME NEW c \in Sell, AdoptMarket(c)
      PROVE  PollInv'
  BY <1>25, RemainingNext
  DEF PollInv, PassInv, InPass, At, KeepsRemaining, AdoptMarket, Goto, ActiveMarket,
      SellActive, exchangeVars
<1>26. ASSUME NEW c \in Sell, MarketUnreadable(c)
      PROVE  PollInv'
  BY <1>26, RemainingNext
  DEF PollInv, PassInv, InPass, At, KeepsRemaining, MarketUnreadable, Halt, EndPass,
      ActiveMarket, SellActive, exchangeVars
<1>27. CASE CloseFlattened \/ HaltFlattened
  BY <1>27, RemainingNext
  DEF PollInv, PassInv, InPass, At, KeepsRemaining, Typed, BuyActive,
      CloseFlattened, HaltFlattened, journalVars, Goto,
      Untrack, EndPass, exchangeVars
<1>28. ASSUME NEW c \in Sell, OnFill(c)
      PROVE  PollInv'
  BY <1>28, RemainingNext
  DEF PollInv, PassInv, InPass, At, KeepsRemaining, Typed, BuyActive, OnFill,
      ExactExit, exchangeVars, workerVars
<1>29. ASSUME NEW l \in Lot, FillBuy(l)
      PROVE  PollInv'
  BY <1>29, RemainingNext
  DEF PollInv, PassInv, InPass, At, KeepsRemaining, FillBuy, journalVars, workerVars
<1>30. ASSUME NEW c \in Sell, Accept(c)
      PROVE  PollInv'
  BY <1>30, RemainingNext
  DEF PollInv, PassInv, InPass, At, KeepsRemaining, Accept, Answer, journalVars
<1>31. ASSUME NEW c \in Sell, Refuse(c)
      PROVE  PollInv'
  BY <1>31, RemainingNext
  DEF PollInv, PassInv, InPass, At, KeepsRemaining, Refuse, Answer, journalVars
<1>32. ASSUME NEW c \in Sell, Lose(c)
      PROVE  PollInv'
  BY <1>32, RemainingNext
  DEF PollInv, PassInv, InPass, At, KeepsRemaining, Lose, Answer, journalVars
<1>33. ASSUME NEW c \in Sell, Trade(c)
      PROVE  PollInv'
  BY <1>33, RemainingNext
  DEF PollInv, PassInv, InPass, At, KeepsRemaining, Trade, journalVars,
      workerVars
<1>34. ASSUME NEW c \in Sell, EndList(c)
      PROVE  PollInv'
  BY <1>34, RemainingNext
  DEF PollInv, PassInv, InPass, At, KeepsRemaining, EndList, journalVars,
      workerVars
<1>35. CASE UNCHANGED vars
  BY <1>35, RemainingNext
  DEF PollInv, PassInv, InPass, At, KeepsRemaining, vars
<1>. QED
  BY <1>1, <1>2, <1>3, <1>4, <1>5, <1>6, <1>7, <1>8, <1>9, <1>10, <1>11, <1>12,
     <1>13, <1>14, <1>15, <1>16, <1>17, <1>18, <1>19, <1>20, <1>21, <1>22, <1>23,
     <1>24, <1>25, <1>26, <1>27, <1>28, <1>29, <1>30, <1>31, <1>32, <1>33, <1>34,
     <1>35
  DEF Next, Worker, Recovery, PlaceOco, Flatten, Exchange, Restart

---------------------------------------------------------------------------
(* No filled BUY is forgotten *)

(* It holds of the empty journal,                                           *)
LEMMA FillInit ==
    ASSUME Init
    PROVE  FillInv
<1>1. nextSell = 1 /\ \A c \in Sell : intent[c] = NoIntent
  BY DEF Init
<1>2. Typed
  BY DEF Init, Typed, InPass, WithList, Reading, Selling
<1>3. RowsInv
  BY <1>1 DEF Init, RowsInv
<1>4. PassInv /\ PollInv
  BY DEF Init, PassInv, PollInv, InPass, WithList
<1>. QED BY <1>2, <1>3, <1>4 DEF FillInv

(* and every step keeps it.                                                 *)
LEMMA FillNext ==
    ASSUME FillInv, [Next]_vars
    PROVE  FillInv'
  BY TypedNext, RowsNext, PassNext, PollNext DEF FillInv

(* The inductive invariant of the protection pass holds in every state.     *)
THEOREM FillInvariant == Spec => []FillInv
<1>1. Init => FillInv
  BY FillInit
<1>2. FillInv /\ [Next]_vars => FillInv'
  BY FillNext
<1>. QED BY <1>1, <1>2, PTL DEF Spec

(* As long as a worker runs, a filled BUY that is neither protected nor     *)
(* closed, and has something left to sell, is polled: whatever fails,       *)
(* crashes or restarts protect_filled_buys, it does not drop a BUY.         *)
THEOREM NoFillIsForgotten == Spec => []NoFillForgotten
<1>1. FillInv => NoFillForgotten
  <2>. SUFFICES ASSUME FillInv, NEW l \in bought, parent[l] \in BuyActive,
                       Remaining(l) # 0, ~At("down")
                PROVE  l \in tracked
    BY DEF NoFillForgotten
  <2>. QED BY DEF FillInv, PollInv, Typed
<1>. QED BY <1>1, FillInvariant, PTL

---------------------------------------------------------------------------
(* PROTECTED is backed *)

(* Every step keeps what a pass knows of its sell, *)
LEMMA ListNext ==
    ASSUME FillInv, ListInv, [Next]_vars
    PROVE  ListInv'
<1>1. CASE \/ LegsClosed("reuse-legs", "reuse-exit") \/ Crash \/ Stop
           \/ OperatorReset
  BY <1>1, RemainingNext
  DEF FillInv, ListInv, WithList, Reading, Selling, Recording, KeepsRemaining,
      LegsClosed, Goto, At, VerifyQuantities, Terminal, exchangeVars, Crash, GoDown,
      journalVars, Stop, OperatorReset, workerVars
<1>2. CASE StepFails
  BY <1>2, RemainingNext
  DEF FillInv, ListInv, WithList, Reading, Selling, Recording, KeepsRemaining,
      StepFails, Halt, EndPass, journalVars, exchangeVars
<1>3. CASE PollFails
  BY <1>3, RemainingNext
  DEF FillInv, ListInv, WithList, Reading, Selling, Recording, KeepsRemaining,
      PollFails, Halt, EndPass, At, journalVars, exchangeVars
<1>4. ASSUME NEW l \in Lot, Poll(l)
      PROVE  ListInv'
  BY <1>4, RemainingNext
  DEF FillInv, ListInv, WithList, Reading, Selling, Recording, KeepsRemaining, Poll,
      At, exchangeVars
<1>5. CASE RecoverNothing
  BY <1>5, RemainingNext
  DEF FillInv, ListInv, WithList, Reading, Selling, Recording, KeepsRemaining,
      RecoverNothing, Goto, At, ProtectionFor, journalVars, exchangeVars
<1>6. ASSUME NEW c \in Sell, RecoverMarket(c)
      PROVE  ListInv'
  BY <1>6, RemainingNext
  DEF FillInv, ListInv, WithList, Reading, Selling, Recording, KeepsRemaining,
      RecoverMarket, Goto, At, ProtectionFor, journalVars, exchangeVars
<1>7. ASSUME NEW c \in Sell, RecoverList(c)
      PROVE  ListInv'
  BY <1>7, RemainingNext
  DEF FillInv, ListInv, WithList, Reading, Selling, Recording, KeepsRemaining, Typed,
      PassInv, RowsInv, InPass, Known, ActiveOco, ActiveMarket, SamePurpose, Newest,
      RecordedState, ProtectionFor, ChildrenOf, RecoverList, ReadList, At,
      journalVars, exchangeVars
<1>8. CASE LegsActive
  BY <1>8, RemainingNext
  DEF FillInv, ListInv, WithList, Reading, Selling, Recording, KeepsRemaining,
      LegsActive, Untrack, EndPass, SetBoth, At, VerifyQuantities, exchangeVars
<1>9. CASE LegsEndedMeanwhile
  BY <1>9, RemainingNext
  DEF FillInv, ListInv, WithList, Reading, Selling, Recording, KeepsRemaining,
      LegsEndedMeanwhile, Goto, At, VerifyQuantities, Terminal, journalVars,
      exchangeVars
<1>10. CASE LegsCanceled
  BY <1>10, RemainingNext
  DEF FillInv, ListInv, WithList, Reading, Selling, Recording, KeepsRemaining,
      LegsCanceled, Goto, Reopen, At, VerifyQuantities, exchangeVars
<1>11. CASE LegsClosed("legs", "exit")
  BY <1>11, RemainingNext
  DEF FillInv, ListInv, WithList, Reading, Selling, Recording, KeepsRemaining,
      LegsClosed, Goto, At, VerifyQuantities, Terminal, exchangeVars
<1>12. CASE CloseExact
  BY <1>12, RemainingNext
  DEF FillInv, ListInv, WithList, Reading, Selling, Recording, KeepsRemaining,
      CloseExact, Untrack, EndPass, SetBoth, At, ExactExit, exchangeVars
<1>13. CASE RecordPartialExit
  BY <1>13, RecordedEffect DEF Recorded, FillInv, ListInv, WithList, Reading, Selling, Recording, Typed
<1>14. CASE NothingLeft
  BY <1>14, RemainingNext
  DEF FillInv, ListInv, WithList, Reading, Selling, Recording, KeepsRemaining,
      NothingLeft, Untrack, EndPass, At, journalVars, exchangeVars
<1>15. CASE PlanCrossed
  BY <1>15, RemainingNext
  DEF FillInv, ListInv, WithList, Reading, Selling, Recording, KeepsRemaining,
      PlanCrossed, Goto, At, journalVars, exchangeVars
<1>16. ASSUME NEW p \in Price, PlanOco(p)
      PROVE  ListInv'
  BY <1>16, PlanningEffect DEF Planning, FillInv, ListInv, WithList, Reading, Selling, Recording, Typed
<1>17. ASSUME NEW p \in Price, NEW c \in Sell, ReuseList(p, c)
      PROVE  ListInv'
  BY <1>17, RemainingNext
  DEF FillInv, ListInv, WithList, Reading, Selling, Recording, KeepsRemaining, Typed,
      PassInv, RowsInv, InPass, Known, ActiveOco, ActiveMarket, SamePurpose, Newest,
      RecordedState, ProtectionFor, ChildrenOf, ReuseList, ReadList, At, SellActive,
      journalVars, exchangeVars
<1>18. ASSUME NEW p \in Price, NEW c \in Sell, ReuseAbsent(p, c)
      PROVE  ListInv'
  BY <1>18, RemainingNext
  DEF FillInv, ListInv, WithList, Reading, Selling, Recording, KeepsRemaining, Typed,
      PassInv, RowsInv, InPass, Known, ActiveOco, ActiveMarket, SamePurpose, Newest,
      RecordedState, ProtectionFor, ChildrenOf, ReuseAbsent, Goto, At, SellActive,
      exchangeVars
<1>19. ASSUME NEW c \in Sell, ReuseUnreadable(c)
      PROVE  ListInv'
  BY <1>19, RemainingNext
  DEF FillInv, ListInv, WithList, Reading, Selling, Recording, KeepsRemaining,
      ReuseUnreadable, Halt, EndPass, At, ActiveOco, SellActive, exchangeVars
<1>20. CASE ReuseCanceled
  BY <1>20, PlanningEffect DEF Planning, FillInv, ListInv, WithList, Reading, Selling, Recording, Typed
<1>21. CASE ReusePartial
  BY <1>21, RecordedEffect DEF Recorded, FillInv, ListInv, WithList, Reading, Selling, Recording, Typed
<1>22. CASE ReuseActive
  BY <1>22, RemainingNext
  DEF FillInv, ListInv, WithList, Reading, Selling, Recording, KeepsRemaining,
      ReuseActive, Goto, At, VerifyQuantities, exchangeVars
<1>23. CASE ReuseProtected
  BY <1>23, RemainingNext
  DEF FillInv, ListInv, WithList, Reading, Selling, Recording, KeepsRemaining,
      ReuseProtected, Untrack, EndPass, SetBoth, At, exchangeVars
<1>24. CASE SendOco
  BY <1>24, RemainingNext
  DEF FillInv, ListInv, WithList, Reading, Selling, Recording, KeepsRemaining,
      SendOco, Goto, At, journalVars
<1>25. CASE OcoVerified
  BY <1>25, RemainingNext
  DEF FillInv, ListInv, WithList, Reading, Selling, Recording, KeepsRemaining,
      OcoVerified, Goto, At, VerifyQuantities, journalVars, exchangeVars
<1>26. CASE OcoRejected
  BY <1>26, RemainingNext
  DEF FillInv, ListInv, WithList, Reading, Selling, Recording, KeepsRemaining,
      OcoRejected, Goto, Reopen, At, exchangeVars
<1>27. CASE OcoUnknown
  BY <1>27, RemainingNext
  DEF FillInv, ListInv, WithList, Reading, Selling, Recording, KeepsRemaining,
      OcoUnknown, Goto, At, exchangeVars
<1>28. CASE LookupFindsOco
  BY <1>28, RemainingNext
  DEF FillInv, ListInv, WithList, Reading, Selling, Recording, KeepsRemaining,
      LookupFindsOco, Goto, At, VerifyQuantities, journalVars, exchangeVars
<1>29. CASE LookupGivesUp
  BY <1>29, RemainingNext
  DEF FillInv, ListInv, WithList, Reading, Selling, Recording, KeepsRemaining,
      LookupGivesUp, Goto, At, journalVars, exchangeVars
<1>30. CASE RecordList
  BY <1>30, RemainingNext
  DEF FillInv, ListInv, WithList, Reading, Selling, Recording, KeepsRemaining,
      RecordList, Goto, At, exchangeVars
<1>31. CASE RecordLegs
  BY <1>31, RemainingNext
  DEF FillInv, ListInv, WithList, Reading, Selling, Recording, KeepsRemaining,
      RecordLegs, Goto, At, exchangeVars
<1>32. CASE MarkProtected
  BY <1>32, RemainingNext
  DEF FillInv, ListInv, WithList, Reading, Selling, Recording, KeepsRemaining,
      MarkProtected, Untrack, EndPass, SetBoth, At, exchangeVars
<1>33. CASE PlanMarket
  BY <1>33, PlanningEffect DEF Planning, FillInv, ListInv, WithList, Reading, Selling, Recording, Typed
<1>34. ASSUME NEW c \in Sell, AdoptMarket(c)
      PROVE  ListInv'
  BY <1>34, RemainingNext
  DEF FillInv, ListInv, WithList, Reading, Selling, Recording, KeepsRemaining, Typed,
      PassInv, RowsInv, InPass, Known, ActiveOco, ActiveMarket, SamePurpose, Newest,
      RecordedState, ProtectionFor, ChildrenOf, AdoptMarket, Goto, At, SellActive,
      exchangeVars
<1>35. ASSUME NEW c \in Sell, MarketUnreadable(c)
      PROVE  ListInv'
  BY <1>35, RemainingNext
  DEF FillInv, ListInv, WithList, Reading, Selling, Recording, KeepsRemaining,
      MarketUnreadable, Halt, EndPass, At, ActiveMarket, SellActive, exchangeVars
<1>36. CASE SendMarket
  BY <1>36, RemainingNext
  DEF FillInv, ListInv, WithList, Reading, Selling, Recording, KeepsRemaining,
      SendMarket, Goto, At, journalVars
<1>37. CASE MarketAnswered
  BY <1>37, RemainingNext
  DEF FillInv, ListInv, WithList, Reading, Selling, Recording, KeepsRemaining, Typed,
      PassInv, RowsInv, InPass, Known, ActiveOco, ActiveMarket, SamePurpose, Newest,
      RecordedState, ProtectionFor, ChildrenOf, MarketAnswered, Goto, At, exchangeVars
<1>38. CASE MarketRejected
  BY <1>38, RemainingNext
  DEF FillInv, ListInv, WithList, Reading, Selling, Recording, KeepsRemaining,
      MarketRejected, Halt, EndPass, At, exchangeVars
<1>39. CASE MarketUnknown
  BY <1>39, RemainingNext
  DEF FillInv, ListInv, WithList, Reading, Selling, Recording, KeepsRemaining,
      MarketUnknown, Goto, At, exchangeVars
<1>40. CASE CloseFlattened \/ HaltFlattened
  BY <1>40, RemainingNext
  DEF FillInv, ListInv, WithList, Reading, Selling, Recording, KeepsRemaining,
      CloseFlattened, HaltFlattened, journalVars, Goto, Untrack, EndPass, At, exchangeVars
<1>41. ASSUME NEW c \in Sell, OnFill(c)
      PROVE  ListInv'
  BY <1>41, RemainingNext
  DEF FillInv, ListInv, WithList, Reading, Selling, Recording, KeepsRemaining,
      OnFill, At, ExactExit, exchangeVars, workerVars
<1>42. ASSUME NEW l \in Lot, FillBuy(l)
      PROVE  ListInv'
  BY <1>42, RemainingNext
  DEF FillInv, ListInv, WithList, Reading, Selling, Recording, KeepsRemaining,
      FillBuy, journalVars, workerVars
<1>43. ASSUME NEW c \in Sell, Accept(c)
      PROVE  ListInv'
  BY <1>43, AcceptEffect, RemainingNext
  DEF FillInv, ListInv, WithList, Reading, Selling, Recording, KeepsRemaining, Typed, journalVars
<1>44. ASSUME NEW c \in Sell, Refuse(c)
      PROVE  ListInv'
  BY <1>44, RemainingNext
  DEF FillInv, ListInv, WithList, Reading, Selling, Recording, KeepsRemaining,
      Refuse, Answer, journalVars
<1>45. ASSUME NEW c \in Sell, Lose(c)
      PROVE  ListInv'
  BY <1>45, RemainingNext
  DEF FillInv, ListInv, WithList, Reading, Selling, Recording, KeepsRemaining, Lose,
      Answer, journalVars
<1>46. ASSUME NEW c \in Sell, Trade(c)
      PROVE  ListInv'
  BY <1>46, RemainingNext
  DEF FillInv, ListInv, WithList, Reading, Selling, Recording, KeepsRemaining, Trade,
      journalVars, workerVars, At
<1>47. ASSUME NEW c \in Sell, EndList(c)
      PROVE  ListInv'
  BY <1>47, RemainingNext
  DEF FillInv, ListInv, WithList, Reading, Selling, Recording, KeepsRemaining,
      EndList, journalVars, workerVars, At
<1>48. CASE Boot
  BY <1>48, RemainingNext
  DEF FillInv, ListInv, WithList, Reading, Selling, Recording, KeepsRemaining, Typed,
      PassInv, RowsInv, InPass, Known, ActiveOco, ActiveMarket, SamePurpose, Newest,
      RecordedState, ProtectionFor, ChildrenOf, Boot, At, UnresolvedBuys,
      Unreconciled, Nonterminal, exchangeVars
<1>49. CASE BootFails
  BY <1>49, RemainingNext
  DEF FillInv, ListInv, WithList, Reading, Selling, Recording, KeepsRemaining, Typed,
      PassInv, RowsInv, InPass, Known, ActiveOco, ActiveMarket, SamePurpose, Newest,
      RecordedState, ProtectionFor, ChildrenOf, BootFails, At, UnresolvedBuys,
      Unreconciled, Nonterminal, exchangeVars, workerVars
<1>50. CASE UNCHANGED vars
  BY <1>50, RemainingNext
  DEF FillInv, ListInv, WithList, Reading, Selling, Recording, KeepsRemaining, vars
<1>. QED
  BY <1>1, <1>2, <1>3, <1>4, <1>5, <1>6, <1>7, <1>8, <1>9, <1>10, <1>11, <1>12,
     <1>13, <1>14, <1>15, <1>16, <1>17, <1>18, <1>19, <1>20, <1>21, <1>22, <1>23,
     <1>24, <1>25, <1>26, <1>27, <1>28, <1>29, <1>30, <1>31, <1>32, <1>33, <1>34,
     <1>35, <1>36, <1>37, <1>38, <1>39, <1>40, <1>41, <1>42, <1>43, <1>44, <1>45,
     <1>46, <1>47, <1>48, <1>49, <1>50
  DEF Next, Worker, Recovery, PlaceOco, Flatten, Exchange, Restart

(* never takes back a leg, a list id or a list, *)
LEMMA EvidenceNext ==
    ASSUME FillInv, [Next]_vars
    PROVE  legs \subseteq legs' /\ listed \subseteq listed' /\ \A row \in Sell : status[row] # "absent" => status'[row] # "absent"
<1>1. CASE \/ StepFails \/ PollFails \/ RecoverNothing \/ LegsActive
           \/ LegsEndedMeanwhile \/ LegsCanceled
  BY <1>1
  DEF FillInv, StepFails, Halt, EndPass, journalVars, exchangeVars, PollFails, At,
      RecoverNothing, Goto, ProtectionFor, LegsActive, Untrack, SetBoth,
      VerifyQuantities, LegsEndedMeanwhile, Terminal, LegsCanceled, Reopen
<1>2. CASE \/ LegsClosed("legs", "exit")
           \/ LegsClosed("reuse-legs", "reuse-exit") \/ CloseExact
           \/ NothingLeft \/ PlanCrossed \/ ReuseActive
  BY <1>2
  DEF FillInv, LegsClosed, Goto, At, VerifyQuantities, Terminal, exchangeVars,
      CloseExact, Untrack, EndPass, SetBoth, ExactExit, NothingLeft, journalVars,
      PlanCrossed, ReuseActive
<1>3. CASE \/ ReuseProtected \/ SendOco \/ OcoVerified \/ OcoRejected
           \/ OcoUnknown \/ LookupFindsOco
  BY <1>3
  DEF FillInv, ReuseProtected, Untrack, EndPass, SetBoth, At, exchangeVars, SendOco,
      Goto, journalVars, OcoVerified, VerifyQuantities, OcoRejected, Reopen,
      OcoUnknown, LookupFindsOco
<1>4. CASE \/ LookupGivesUp \/ RecordList \/ RecordLegs \/ MarkProtected
           \/ SendMarket \/ MarketAnswered
  BY <1>4
  DEF FillInv, LookupGivesUp, Goto, At, journalVars, exchangeVars, RecordList,
      RecordLegs, MarkProtected, Untrack, EndPass, SetBoth, SendMarket, MarketAnswered
<1>5. CASE \/ MarketRejected \/ MarketUnknown \/ CloseFlattened \/ HaltFlattened \/ Crash \/ Stop
           \/ OperatorReset
  BY <1>5
  DEF FillInv, MarketRejected, Halt, EndPass, At, exchangeVars, MarketUnknown, Goto,
      CloseFlattened, HaltFlattened, Untrack, Crash, GoDown, journalVars, Stop, OperatorReset,
      workerVars
<1>6. CASE Boot \/ BootFails
  BY <1>6
  DEF FillInv, Boot, At, UnresolvedBuys, Unreconciled, Known, Nonterminal,
      exchangeVars, BootFails, workerVars
<1>7. ASSUME NEW l \in Lot, Poll(l)
      PROVE  legs \subseteq legs' /\ listed \subseteq listed' /\ \A row \in Sell : status[row] # "absent" => status'[row] # "absent"
  BY <1>7
  DEF FillInv, Poll, At, exchangeVars
<1>8. ASSUME NEW c \in Sell, RecoverMarket(c)
      PROVE  legs \subseteq legs' /\ listed \subseteq listed' /\ \A row \in Sell : status[row] # "absent" => status'[row] # "absent"
  BY <1>8
  DEF FillInv, RecoverMarket, Goto, At, ProtectionFor, journalVars, exchangeVars
<1>9. ASSUME NEW c \in Sell, RecoverList(c)
      PROVE  legs \subseteq legs' /\ listed \subseteq listed' /\ \A row \in Sell : status[row] # "absent" => status'[row] # "absent"
  BY <1>9
  DEF FillInv, RecoverList, ReadList, ProtectionFor, At, journalVars, exchangeVars
<1>10. CASE RecordPartialExit
  BY <1>10, RecordedEffect DEF Recorded, FillInv, Typed
<1>11. ASSUME NEW p \in Price, PlanOco(p)
      PROVE  legs \subseteq legs' /\ listed \subseteq listed' /\ \A row \in Sell : status[row] # "absent" => status'[row] # "absent"
  BY <1>11, PlanningEffect DEF Planning, FillInv, Typed
<1>12. ASSUME NEW p \in Price, NEW c \in Sell, ReuseList(p, c)
      PROVE  legs \subseteq legs' /\ listed \subseteq listed' /\ \A row \in Sell : status[row] # "absent" => status'[row] # "absent"
  BY <1>12
  DEF FillInv, ReuseList, ReadList, At, ActiveOco, SellActive, journalVars,
      exchangeVars
<1>13. ASSUME NEW p \in Price, NEW c \in Sell, ReuseAbsent(p, c)
      PROVE  legs \subseteq legs' /\ listed \subseteq listed' /\ \A row \in Sell : status[row] # "absent" => status'[row] # "absent"
  BY <1>13
  DEF FillInv, ReuseAbsent, Goto, At, ActiveOco, SellActive, exchangeVars
<1>14. ASSUME NEW c \in Sell, ReuseUnreadable(c)
      PROVE  legs \subseteq legs' /\ listed \subseteq listed' /\ \A row \in Sell : status[row] # "absent" => status'[row] # "absent"
  BY <1>14
  DEF FillInv, ReuseUnreadable, Halt, EndPass, At, ActiveOco, SellActive, exchangeVars
<1>15. CASE ReuseCanceled
  BY <1>15, PlanningEffect DEF Planning, FillInv, Typed
<1>16. CASE ReusePartial
  BY <1>16, RecordedEffect DEF Recorded, FillInv, Typed
<1>17. CASE PlanMarket
  BY <1>17, PlanningEffect DEF Planning, FillInv, Typed
<1>18. ASSUME NEW c \in Sell, AdoptMarket(c)
      PROVE  legs \subseteq legs' /\ listed \subseteq listed' /\ \A row \in Sell : status[row] # "absent" => status'[row] # "absent"
  BY <1>18
  DEF FillInv, AdoptMarket, Goto, At, ActiveMarket, SellActive, exchangeVars
<1>19. ASSUME NEW c \in Sell, MarketUnreadable(c)
      PROVE  legs \subseteq legs' /\ listed \subseteq listed' /\ \A row \in Sell : status[row] # "absent" => status'[row] # "absent"
  BY <1>19
  DEF FillInv, MarketUnreadable, Halt, EndPass, At, ActiveMarket, SellActive,
      exchangeVars
<1>20. ASSUME NEW c \in Sell, OnFill(c)
      PROVE  legs \subseteq legs' /\ listed \subseteq listed' /\ \A row \in Sell : status[row] # "absent" => status'[row] # "absent"
  BY <1>20
  DEF FillInv, OnFill, At, ExactExit, exchangeVars, workerVars
<1>21. ASSUME NEW l \in Lot, FillBuy(l)
      PROVE  legs \subseteq legs' /\ listed \subseteq listed' /\ \A row \in Sell : status[row] # "absent" => status'[row] # "absent"
  BY <1>21
  DEF FillInv, FillBuy, journalVars, workerVars
<1>22. ASSUME NEW c \in Sell, Accept(c)
      PROVE  legs \subseteq legs' /\ listed \subseteq listed' /\ \A row \in Sell : status[row] # "absent" => status'[row] # "absent"
  BY <1>22, AcceptEffect
  DEF FillInv, journalVars
<1>23. ASSUME NEW c \in Sell, Refuse(c)
      PROVE  legs \subseteq legs' /\ listed \subseteq listed' /\ \A row \in Sell : status[row] # "absent" => status'[row] # "absent"
  BY <1>23
  DEF FillInv, Refuse, Answer, journalVars
<1>24. ASSUME NEW c \in Sell, Lose(c)
      PROVE  legs \subseteq legs' /\ listed \subseteq listed' /\ \A row \in Sell : status[row] # "absent" => status'[row] # "absent"
  BY <1>24
  DEF FillInv, Lose, Answer, journalVars
<1>25. ASSUME NEW c \in Sell, Trade(c)
      PROVE  legs \subseteq legs' /\ listed \subseteq listed' /\ \A row \in Sell : status[row] # "absent" => status'[row] # "absent"
  BY <1>25
  DEF FillInv, Trade, journalVars, workerVars, At
<1>26. ASSUME NEW c \in Sell, EndList(c)
      PROVE  legs \subseteq legs' /\ listed \subseteq listed' /\ \A row \in Sell : status[row] # "absent" => status'[row] # "absent"
  BY <1>26
  DEF FillInv, EndList, journalVars, workerVars, At
<1>27. CASE UNCHANGED vars
  BY <1>27
  DEF FillInv, vars
<1>. QED
  BY <1>1, <1>2, <1>3, <1>4, <1>5, <1>6, <1>7, <1>8, <1>9, <1>10, <1>11, <1>12,
     <1>13, <1>14, <1>15, <1>16, <1>17, <1>18, <1>19, <1>20, <1>21, <1>22, <1>23,
     <1>24, <1>25, <1>26, <1>27
  DEF Next, Worker, Recovery, PlaceOco, Flatten, Exchange, Restart

(* A new claim names a list that was seen at the exchange.                  *)
Claims(lot) == /\ lot = cur /\ pc \notin {"exit", "reuse-exit"} /\ sell \in Sell
               /\ child'[sell] = "PROTECTED" /\ sell \in legs' /\ sell \in listed'
               /\ intent' = intent /\ intent[sell].lot = lot
               /\ intent[sell].kind = "OCO"
               /\ intent[sell].qty = Remaining(lot)
               /\ status'[sell] # "absent"

(* claims PROTECTED only where it verified a list, *)
LEMMA ClaimNext ==
    ASSUME FillInv, ListInv, NEW lot \in Lot, parent'[lot] = "PROTECTED", [Next]_vars
    PROVE  parent[lot] = "PROTECTED" \/ Claims(lot)
<1>1. CASE \/ PlanCrossed \/ ReuseActive \/ SendOco \/ Crash \/ Stop
           \/ OperatorReset
  BY <1>1
  DEF FillInv, PlanCrossed, Goto, At, journalVars, exchangeVars, ReuseActive,
      VerifyQuantities, SendOco, Crash, GoDown, Stop, OperatorReset, workerVars
<1>2. CASE Boot
  BY <1>2
  DEF FillInv, Boot, At, UnresolvedBuys, Unreconciled, Known, Nonterminal,
      exchangeVars
<1>3. CASE StepFails
  BY <1>3
  DEF FillInv, StepFails, Halt, EndPass, journalVars, exchangeVars
<1>4. CASE PollFails
  BY <1>4
  DEF FillInv, PollFails, Halt, EndPass, At, journalVars, exchangeVars
<1>5. ASSUME NEW l \in Lot, Poll(l)
      PROVE  parent[lot] = "PROTECTED" \/ Claims(lot)
  BY <1>5
  DEF FillInv, Poll, At, exchangeVars
<1>6. CASE RecoverNothing
  BY <1>6
  DEF FillInv, RecoverNothing, Goto, At, ProtectionFor, journalVars, exchangeVars
<1>7. ASSUME NEW c \in Sell, RecoverMarket(c)
      PROVE  parent[lot] = "PROTECTED" \/ Claims(lot)
  BY <1>7
  DEF FillInv, RecoverMarket, Goto, At, ProtectionFor, journalVars, exchangeVars
<1>8. ASSUME NEW c \in Sell, RecoverList(c)
      PROVE  parent[lot] = "PROTECTED" \/ Claims(lot)
  BY <1>8
  DEF FillInv, RecoverList, ReadList, ProtectionFor, At, journalVars, exchangeVars
<1>9. CASE LegsActive
  BY <1>9
  DEF FillInv, Typed, PassInv, InPass, ListInv, WithList, Reading, Recording, Claims,
      LegsActive, Untrack, EndPass, SetBoth, At, VerifyQuantities, exchangeVars
<1>10. CASE LegsEndedMeanwhile
  BY <1>10
  DEF FillInv, LegsEndedMeanwhile, Goto, At, VerifyQuantities, Terminal, journalVars,
      exchangeVars
<1>11. CASE LegsCanceled
  BY <1>11
  DEF FillInv, LegsCanceled, Goto, Reopen, At, VerifyQuantities, exchangeVars
<1>12. CASE LegsClosed("legs", "exit")
  BY <1>12
  DEF FillInv, LegsClosed, Goto, At, VerifyQuantities, Terminal, exchangeVars
<1>13. CASE LegsClosed("reuse-legs", "reuse-exit")
  BY <1>13
  DEF FillInv, LegsClosed, Goto, At, VerifyQuantities, Terminal, exchangeVars
<1>14. CASE CloseExact
  BY <1>14
  DEF FillInv, CloseExact, Untrack, EndPass, SetBoth, At, ExactExit, exchangeVars
<1>15. CASE RecordPartialExit
  BY <1>15, RecordedEffect DEF Recorded, FillInv, Typed, PassInv, InPass
<1>16. CASE NothingLeft
  BY <1>16
  DEF FillInv, NothingLeft, Untrack, EndPass, At, journalVars, exchangeVars
<1>17. ASSUME NEW p \in Price, PlanOco(p)
      PROVE  parent[lot] = "PROTECTED" \/ Claims(lot)
  BY <1>17, PlanningEffect DEF Planning, FillInv, Typed, PassInv, InPass
<1>18. ASSUME NEW p \in Price, NEW c \in Sell, ReuseList(p, c)
      PROVE  parent[lot] = "PROTECTED" \/ Claims(lot)
  BY <1>18
  DEF FillInv, ReuseList, ReadList, At, ActiveOco, SellActive, journalVars,
      exchangeVars
<1>19. ASSUME NEW p \in Price, NEW c \in Sell, ReuseAbsent(p, c)
      PROVE  parent[lot] = "PROTECTED" \/ Claims(lot)
  BY <1>19
  DEF FillInv, ReuseAbsent, Goto, At, ActiveOco, SellActive, exchangeVars
<1>20. ASSUME NEW c \in Sell, ReuseUnreadable(c)
      PROVE  parent[lot] = "PROTECTED" \/ Claims(lot)
  BY <1>20
  DEF FillInv, ReuseUnreadable, Halt, EndPass, At, ActiveOco, SellActive, exchangeVars
<1>21. CASE ReuseCanceled
  BY <1>21, PlanningEffect DEF Planning, FillInv, Typed, PassInv, InPass
<1>22. CASE ReusePartial
  BY <1>22, RecordedEffect DEF Recorded, FillInv, Typed, PassInv, InPass
<1>23. CASE ReuseProtected
  BY <1>23
  DEF FillInv, Typed, PassInv, InPass, ListInv, WithList, Reading, Recording, Claims,
      ReuseProtected, Untrack, EndPass, SetBoth, At, exchangeVars
<1>24. CASE OcoVerified
  BY <1>24
  DEF FillInv, OcoVerified, Goto, At, VerifyQuantities, journalVars, exchangeVars
<1>25. CASE OcoRejected
  BY <1>25
  DEF FillInv, OcoRejected, Goto, Reopen, At, exchangeVars
<1>26. CASE OcoUnknown
  BY <1>26
  DEF FillInv, OcoUnknown, Goto, At, exchangeVars
<1>27. CASE LookupFindsOco
  BY <1>27
  DEF FillInv, LookupFindsOco, Goto, At, VerifyQuantities, journalVars, exchangeVars
<1>28. CASE LookupGivesUp
  BY <1>28
  DEF FillInv, LookupGivesUp, Goto, At, journalVars, exchangeVars
<1>29. CASE RecordList
  BY <1>29
  DEF FillInv, RecordList, Goto, At, exchangeVars
<1>30. CASE RecordLegs
  BY <1>30
  DEF FillInv, RecordLegs, Goto, At, exchangeVars
<1>31. CASE MarkProtected
  BY <1>31
  DEF FillInv, Typed, PassInv, InPass, ListInv, WithList, Reading, Recording, Claims,
      MarkProtected, Untrack, EndPass, SetBoth, At, exchangeVars
<1>32. CASE PlanMarket
  BY <1>32, PlanningEffect DEF Planning, FillInv, Typed, PassInv, InPass
<1>33. ASSUME NEW c \in Sell, AdoptMarket(c)
      PROVE  parent[lot] = "PROTECTED" \/ Claims(lot)
  BY <1>33
  DEF FillInv, AdoptMarket, Goto, At, ActiveMarket, SellActive, exchangeVars
<1>34. ASSUME NEW c \in Sell, MarketUnreadable(c)
      PROVE  parent[lot] = "PROTECTED" \/ Claims(lot)
  BY <1>34
  DEF FillInv, MarketUnreadable, Halt, EndPass, At, ActiveMarket, SellActive,
      exchangeVars
<1>35. CASE SendMarket
  BY <1>35
  DEF FillInv, SendMarket, Goto, At, journalVars
<1>36. CASE MarketAnswered
  BY <1>36
  DEF FillInv, MarketAnswered, Goto, At, exchangeVars
<1>37. CASE MarketRejected
  BY <1>37
  DEF FillInv, MarketRejected, Halt, EndPass, At, exchangeVars
<1>38. CASE MarketUnknown
  BY <1>38
  DEF FillInv, MarketUnknown, Goto, At, exchangeVars
<1>39. CASE CloseFlattened \/ HaltFlattened
  BY <1>39
  DEF FillInv, Typed, PassInv, InPass, CloseFlattened, HaltFlattened, journalVars, Goto, Untrack, EndPass, At, exchangeVars
<1>40. ASSUME NEW c \in Sell, OnFill(c)
      PROVE  parent[lot] = "PROTECTED" \/ Claims(lot)
  BY <1>40
  DEF FillInv, OnFill, At, ExactExit, exchangeVars, workerVars
<1>41. ASSUME NEW l \in Lot, FillBuy(l)
      PROVE  parent[lot] = "PROTECTED" \/ Claims(lot)
  BY <1>41
  DEF FillInv, FillBuy, journalVars, workerVars
<1>42. ASSUME NEW c \in Sell, Accept(c)
      PROVE  parent[lot] = "PROTECTED" \/ Claims(lot)
  BY <1>42
  DEF FillInv, Accept, Answer, journalVars
<1>43. ASSUME NEW c \in Sell, Refuse(c)
      PROVE  parent[lot] = "PROTECTED" \/ Claims(lot)
  BY <1>43
  DEF FillInv, Refuse, Answer, journalVars
<1>44. ASSUME NEW c \in Sell, Lose(c)
      PROVE  parent[lot] = "PROTECTED" \/ Claims(lot)
  BY <1>44
  DEF FillInv, Lose, Answer, journalVars
<1>45. ASSUME NEW c \in Sell, Trade(c)
      PROVE  parent[lot] = "PROTECTED" \/ Claims(lot)
  BY <1>45
  DEF FillInv, Trade, journalVars, workerVars, At
<1>46. ASSUME NEW c \in Sell, EndList(c)
      PROVE  parent[lot] = "PROTECTED" \/ Claims(lot)
  BY <1>46
  DEF FillInv, EndList, journalVars, workerVars, At
<1>47. CASE BootFails
  BY <1>47
  DEF FillInv, Typed, PassInv, InPass, ListInv, WithList, Reading, Recording, Claims,
      BootFails, At, UnresolvedBuys, Unreconciled, Known, Nonterminal, exchangeVars,
      workerVars
<1>48. CASE UNCHANGED vars
  BY <1>48
  DEF FillInv, vars
<1>. QED
  BY <1>1, <1>2, <1>3, <1>4, <1>5, <1>6, <1>7, <1>8, <1>9, <1>10, <1>11, <1>12,
     <1>13, <1>14, <1>15, <1>16, <1>17, <1>18, <1>19, <1>20, <1>21, <1>22, <1>23,
     <1>24, <1>25, <1>26, <1>27, <1>28, <1>29, <1>30, <1>31, <1>32, <1>33, <1>34,
     <1>35, <1>36, <1>37, <1>38, <1>39, <1>40, <1>41, <1>42, <1>43, <1>44, <1>45,
     <1>46, <1>47, <1>48
  DEF Next, Worker, Recovery, PlaceOco, Flatten, Exchange, Restart

(* and keeps the list of a lot that was and stays PROTECTED. *)
LEMMA ListKept ==
    ASSUME FillInv, ListInv, NEW lot \in Lot,
           parent[lot] = "PROTECTED", parent'[lot] = "PROTECTED", NEW row \in Sell,
           child[row] \in {"PROTECTED", "UNKNOWN"}, intent[row] # NoIntent,
           intent[row].lot = lot, intent[row].kind = "OCO",
           [Next]_vars
    PROVE  child'[row] \in {"PROTECTED", "UNKNOWN"} /\ intent'[row] = intent[row]
<1>1. CASE \/ LegsEndedMeanwhile \/ LegsClosed("legs", "exit")
           \/ LegsClosed("reuse-legs", "reuse-exit") \/ NothingLeft
  BY <1>1
  DEF FillInv, LegsEndedMeanwhile, Goto, At, VerifyQuantities, Terminal, journalVars,
      exchangeVars, LegsClosed, NothingLeft, Untrack, EndPass
<1>2. CASE SendMarket \/ CloseFlattened \/ HaltFlattened \/ Crash \/ Stop
  BY <1>2
  DEF FillInv, SendMarket, Goto, At, journalVars, CloseFlattened, HaltFlattened, Untrack, EndPass,
      exchangeVars, Crash, GoDown, Stop
<1>3. CASE OperatorReset \/ Boot
  BY <1>3
  DEF FillInv, OperatorReset, At, journalVars, exchangeVars, workerVars, Boot,
      UnresolvedBuys, Unreconciled, Known, Nonterminal
<1>4. CASE StepFails
  BY <1>4
  DEF FillInv, StepFails, Halt, EndPass, journalVars, exchangeVars
<1>5. CASE PollFails
  BY <1>5
  DEF FillInv, PollFails, Halt, EndPass, At, journalVars, exchangeVars
<1>6. ASSUME NEW l \in Lot, Poll(l)
      PROVE  child'[row] \in {"PROTECTED", "UNKNOWN"} /\ intent'[row] = intent[row]
  BY <1>6
  DEF FillInv, Poll, At, exchangeVars
<1>7. CASE RecoverNothing
  BY <1>7
  DEF FillInv, RecoverNothing, Goto, At, ProtectionFor, journalVars, exchangeVars
<1>8. ASSUME NEW c \in Sell, RecoverMarket(c)
      PROVE  child'[row] \in {"PROTECTED", "UNKNOWN"} /\ intent'[row] = intent[row]
  BY <1>8
  DEF FillInv, RecoverMarket, Goto, At, ProtectionFor, journalVars, exchangeVars
<1>9. ASSUME NEW c \in Sell, RecoverList(c)
      PROVE  child'[row] \in {"PROTECTED", "UNKNOWN"} /\ intent'[row] = intent[row]
  BY <1>9
  DEF FillInv, RecoverList, ReadList, ProtectionFor, At, journalVars, exchangeVars
<1>10. CASE LegsActive
  BY <1>10
  DEF FillInv, LegsActive, Untrack, EndPass, SetBoth, At, VerifyQuantities,
      exchangeVars
<1>11. CASE LegsCanceled
  BY <1>11
  DEF FillInv, Typed, PassInv, ListInv, InPass, WithList, Reading, Selling,
      BuyActive, Known, ActiveOco, ActiveMarket, SamePurpose, Newest, RecordedState,
      LegsCanceled, Goto, Reopen, At, VerifyQuantities, exchangeVars
<1>12. CASE CloseExact
  BY <1>12
  DEF FillInv, Typed, PassInv, ListInv, InPass, WithList, Reading, Selling,
      BuyActive, Known, ActiveOco, ActiveMarket, SamePurpose, Newest, RecordedState,
      CloseExact, Untrack, EndPass, SetBoth, At, ExactExit, exchangeVars
<1>13. CASE RecordPartialExit
  BY <1>13, RecordedEffect DEF Recorded, FillInv, Typed, PassInv, ListInv, InPass, WithList, BuyActive
<1>14. CASE PlanCrossed
  BY <1>14
  DEF FillInv, PlanCrossed, Goto, At, journalVars, exchangeVars
<1>15. ASSUME NEW p \in Price, PlanOco(p)
      PROVE  child'[row] \in {"PROTECTED", "UNKNOWN"} /\ intent'[row] = intent[row]
  BY <1>15, PlanningEffect DEF Planning, FillInv, Typed, PassInv, ListInv, InPass, WithList, BuyActive
<1>16. ASSUME NEW p \in Price, NEW c \in Sell, ReuseList(p, c)
      PROVE  child'[row] \in {"PROTECTED", "UNKNOWN"} /\ intent'[row] = intent[row]
  BY <1>16
  DEF FillInv, ReuseList, ReadList, At, ActiveOco, SellActive, journalVars,
      exchangeVars
<1>17. ASSUME NEW p \in Price, NEW c \in Sell, ReuseAbsent(p, c)
      PROVE  child'[row] \in {"PROTECTED", "UNKNOWN"} /\ intent'[row] = intent[row]
  BY <1>17
  DEF FillInv, ReuseAbsent, Goto, At, ActiveOco, SellActive, exchangeVars
<1>18. ASSUME NEW c \in Sell, ReuseUnreadable(c)
      PROVE  child'[row] \in {"PROTECTED", "UNKNOWN"} /\ intent'[row] = intent[row]
  BY <1>18
  DEF FillInv, Typed, PassInv, ListInv, InPass, WithList, Reading, Selling,
      BuyActive, Known, ActiveOco, ActiveMarket, SamePurpose, Newest, RecordedState,
      ReuseUnreadable, Halt, EndPass, At, SellActive, exchangeVars
<1>19. CASE ReuseCanceled
  BY <1>19, PlanningEffect DEF Planning, FillInv, Typed, PassInv, ListInv, InPass, WithList, BuyActive
<1>20. CASE ReusePartial
  BY <1>20, RecordedEffect DEF Recorded, FillInv, Typed, PassInv, ListInv, InPass, WithList, BuyActive
<1>21. CASE ReuseActive
  BY <1>21
  DEF FillInv, Typed, PassInv, ListInv, InPass, WithList, Reading, Selling,
      BuyActive, Known, ActiveOco, ActiveMarket, SamePurpose, Newest, RecordedState,
      ReuseActive, Goto, At, VerifyQuantities, exchangeVars
<1>22. CASE ReuseProtected
  BY <1>22
  DEF FillInv, ReuseProtected, Untrack, EndPass, SetBoth, At, exchangeVars
<1>23. CASE SendOco
  BY <1>23
  DEF FillInv, SendOco, Goto, At, journalVars
<1>24. CASE OcoVerified
  BY <1>24
  DEF FillInv, OcoVerified, Goto, At, VerifyQuantities, journalVars, exchangeVars
<1>25. CASE OcoRejected
  BY <1>25
  DEF FillInv, Typed, PassInv, ListInv, InPass, WithList, Reading, Selling,
      BuyActive, Known, ActiveOco, ActiveMarket, SamePurpose, Newest, RecordedState,
      OcoRejected, Goto, Reopen, At, exchangeVars
<1>26. CASE OcoUnknown
  BY <1>26
  DEF FillInv, Typed, PassInv, ListInv, InPass, WithList, Reading, Selling,
      BuyActive, Known, ActiveOco, ActiveMarket, SamePurpose, Newest, RecordedState,
      OcoUnknown, Goto, At, exchangeVars
<1>27. CASE LookupFindsOco
  BY <1>27
  DEF FillInv, LookupFindsOco, Goto, At, VerifyQuantities, journalVars, exchangeVars
<1>28. CASE LookupGivesUp
  BY <1>28
  DEF FillInv, LookupGivesUp, Goto, At, journalVars, exchangeVars
<1>29. CASE RecordList
  BY <1>29
  DEF FillInv, Typed, PassInv, ListInv, InPass, WithList, Reading, Selling,
      BuyActive, Known, ActiveOco, ActiveMarket, SamePurpose, Newest, RecordedState,
      RecordList, Goto, At, exchangeVars
<1>30. CASE RecordLegs
  BY <1>30
  DEF FillInv, RecordLegs, Goto, At, exchangeVars
<1>31. CASE MarkProtected
  BY <1>31
  DEF FillInv, MarkProtected, Untrack, EndPass, SetBoth, At, exchangeVars
<1>32. CASE PlanMarket
  BY <1>32, PlanningEffect DEF Planning, FillInv, Typed, PassInv, ListInv, InPass, WithList, BuyActive
<1>33. ASSUME NEW c \in Sell, AdoptMarket(c)
      PROVE  child'[row] \in {"PROTECTED", "UNKNOWN"} /\ intent'[row] = intent[row]
  BY <1>33
  DEF FillInv, Typed, PassInv, ListInv, InPass, WithList, Reading, Selling,
      BuyActive, Known, ActiveOco, ActiveMarket, SamePurpose, Newest, RecordedState,
      AdoptMarket, Goto, At, SellActive, exchangeVars
<1>34. ASSUME NEW c \in Sell, MarketUnreadable(c)
      PROVE  child'[row] \in {"PROTECTED", "UNKNOWN"} /\ intent'[row] = intent[row]
  BY <1>34
  DEF FillInv, Typed, PassInv, ListInv, InPass, WithList, Reading, Selling,
      BuyActive, Known, ActiveOco, ActiveMarket, SamePurpose, Newest, RecordedState,
      MarketUnreadable, Halt, EndPass, At, SellActive, exchangeVars
<1>35. CASE MarketAnswered
  BY <1>35
  DEF FillInv, Typed, PassInv, ListInv, InPass, WithList, Reading, Selling,
      BuyActive, Known, ActiveOco, ActiveMarket, SamePurpose, Newest, RecordedState,
      MarketAnswered, Goto, At, exchangeVars
<1>36. CASE MarketRejected
  BY <1>36
  DEF FillInv, Typed, PassInv, ListInv, InPass, WithList, Reading, Selling,
      BuyActive, Known, ActiveOco, ActiveMarket, SamePurpose, Newest, RecordedState,
      MarketRejected, Halt, EndPass, At, exchangeVars
<1>37. CASE MarketUnknown
  BY <1>37
  DEF FillInv, Typed, PassInv, ListInv, InPass, WithList, Reading, Selling,
      BuyActive, Known, ActiveOco, ActiveMarket, SamePurpose, Newest, RecordedState,
      MarketUnknown, Goto, At, exchangeVars
<1>38. ASSUME NEW c \in Sell, OnFill(c)
      PROVE  child'[row] \in {"PROTECTED", "UNKNOWN"} /\ intent'[row] = intent[row]
  BY <1>38
  DEF FillInv, Typed, PassInv, ListInv, InPass, WithList, Reading, Selling,
      BuyActive, Known, ActiveOco, ActiveMarket, SamePurpose, Newest, RecordedState,
      OnFill, At, ExactExit, exchangeVars, workerVars
<1>39. ASSUME NEW l \in Lot, FillBuy(l)
      PROVE  child'[row] \in {"PROTECTED", "UNKNOWN"} /\ intent'[row] = intent[row]
  BY <1>39
  DEF FillInv, FillBuy, journalVars, workerVars
<1>40. ASSUME NEW c \in Sell, Accept(c)
      PROVE  child'[row] \in {"PROTECTED", "UNKNOWN"} /\ intent'[row] = intent[row]
  BY <1>40
  DEF FillInv, Accept, Answer, journalVars
<1>41. ASSUME NEW c \in Sell, Refuse(c)
      PROVE  child'[row] \in {"PROTECTED", "UNKNOWN"} /\ intent'[row] = intent[row]
  BY <1>41
  DEF FillInv, Refuse, Answer, journalVars
<1>42. ASSUME NEW c \in Sell, Lose(c)
      PROVE  child'[row] \in {"PROTECTED", "UNKNOWN"} /\ intent'[row] = intent[row]
  BY <1>42
  DEF FillInv, Lose, Answer, journalVars
<1>43. ASSUME NEW c \in Sell, Trade(c)
      PROVE  child'[row] \in {"PROTECTED", "UNKNOWN"} /\ intent'[row] = intent[row]
  BY <1>43
  DEF FillInv, Trade, journalVars, workerVars, At
<1>44. ASSUME NEW c \in Sell, EndList(c)
      PROVE  child'[row] \in {"PROTECTED", "UNKNOWN"} /\ intent'[row] = intent[row]
  BY <1>44
  DEF FillInv, EndList, journalVars, workerVars, At
<1>45. CASE BootFails
  BY <1>45
  DEF FillInv, Typed, PassInv, ListInv, InPass, WithList, Reading, Selling,
      BuyActive, Known, ActiveOco, ActiveMarket, SamePurpose, Newest, RecordedState,
      BootFails, At, UnresolvedBuys, Unreconciled, Nonterminal, exchangeVars,
      workerVars
<1>46. CASE UNCHANGED vars
  BY <1>46
  DEF FillInv, vars
<1>. QED
  BY <1>1, <1>2, <1>3, <1>4, <1>5, <1>6, <1>7, <1>8, <1>9, <1>10, <1>11, <1>12,
     <1>13, <1>14, <1>15, <1>16, <1>17, <1>18, <1>19, <1>20, <1>21, <1>22, <1>23,
     <1>24, <1>25, <1>26, <1>27, <1>28, <1>29, <1>30, <1>31, <1>32, <1>33, <1>34,
     <1>35, <1>36, <1>37, <1>38, <1>39, <1>40, <1>41, <1>42, <1>43, <1>44, <1>45,
     <1>46
  DEF Next, Worker, Recovery, PlaceOco, Flatten, Exchange, Restart

(* So the lot of a new claim is the one the pass works on, and what backs   *)
(* an old claim stays as it was.                                            *)
LEMMA BackedNext ==
    ASSUME BackedInv, [Next]_vars
    PROVE  BackedInv'
<1>1. FillInv' /\ ListInv'
  BY FillNext, ListNext DEF BackedInv
<1>2. ASSUME NEW lot \in Lot, parent'[lot] = "PROTECTED"
      PROVE  \E row \in ChildrenOf(lot)' : Backs(row, lot)'
  <2>1. FillInv /\ ListInv
    BY DEF BackedInv
  <2>2. /\ legs \subseteq legs' /\ listed \subseteq listed'
        /\ \A c \in Sell : status[c] # "absent" => status'[c] # "absent"
    BY <2>1, EvidenceNext
  <2>3. CASE parent[lot] = "PROTECTED"
    <3>1. PICK row \in ChildrenOf(lot) : Backs(row, lot)
      BY <2>3 DEF BackedInv
    <3>2. row \in Sell /\ intent[row] # NoIntent /\ intent[row].lot = lot
      BY DEF ChildrenOf, Known
    <3>3. child'[row] \in {"PROTECTED", "UNKNOWN"} /\ intent'[row] = intent[row]
      BY <1>2, <2>1, <2>3, <3>1, <3>2, ListKept DEF Backs
    <3>4. Remaining(lot)' = Remaining(lot)
      <4>1. ~(pc \in {"exit", "reuse-exit"} /\ lot = cur)
        BY <2>1, <2>3 DEF FillInv, PassInv, InPass, BuyActive
      <4>2. (pc \in {"exit", "reuse-exit"} /\ lot = cur) \/ Remaining(lot)' = Remaining(lot)
        BY <2>1, RemainingNext DEF FillInv, KeepsRemaining
      <4>. QED BY <4>1, <4>2
    <3>5. row \in ChildrenOf(lot)'
      BY <3>2, <3>3 DEF ChildrenOf, Known
    <3>6. row \in (legs \cap listed)' /\ status'[row] # "absent"
      BY <2>2, <3>1, <3>2 DEF Backs
    <3>7. intent'[row].qty = Remaining(lot)' /\ intent'[row].kind = "OCO"
      BY <3>1, <3>3, <3>4 DEF Backs
    <3>. QED BY <3>3, <3>5, <3>6, <3>7 DEF Backs
  <2>4. CASE parent[lot] # "PROTECTED"
    <3>1. Claims(lot)
      BY <1>2, <2>1, <2>4, ClaimNext
    <3>2. /\ sell \in Sell /\ child'[sell] = "PROTECTED" /\ sell \in (legs \cap listed)'
          /\ intent' = intent /\ intent[sell].lot = lot /\ intent[sell].kind = "OCO"
          /\ intent[sell].qty = Remaining(lot) /\ status'[sell] # "absent"
      BY <3>1 DEF Claims
    <3>3. Remaining(lot)' = Remaining(lot)
      <4>1. (pc \in {"exit", "reuse-exit"} /\ lot = cur) \/ Remaining(lot)' = Remaining(lot)
        BY <2>1, RemainingNext DEF FillInv, KeepsRemaining
      <4>. QED BY <3>1, <4>1 DEF Claims
    <3>4. intent[sell] # NoIntent
      BY <3>2, ProtectionAssumption DEF NoIntent, ProtectionAssumption
    <3>6. PICK row \in Sell : row = sell
      BY <3>2
    <3>7. Backs(row, lot)' /\ row \in ChildrenOf(lot)'
      BY <3>2, <3>3, <3>4, <3>6 DEF Backs, ChildrenOf, Known
    <3>. QED BY <3>7
  <2>. QED BY <2>3, <2>4
<1>. QED BY <1>1, <1>2 DEF BackedInv

(* PROTECTED is never claimed of a lot without its own verified list: for   *)
(* any lots, quantities, prices and numbers of sells and crashes, whatever  *)
(* the exchange answers, and whether or not purposes tell BUYs apart.       *)
THEOREM ProtectedHasList == Spec => []ProtectedIsBacked
<1>1. Init => BackedInv
  <2>. SUFFICES ASSUME Init PROVE BackedInv
    OBVIOUS
  <2>1. ListInv
    BY DEF Init, ListInv, WithList, Reading, Selling, Recording
  <2>2. \A l \in Lot : parent[l] # "PROTECTED"
    BY DEF Init
  <2>. QED BY <2>1, <2>2, FillInit DEF BackedInv
<1>2. BackedInv /\ [Next]_vars => BackedInv'
  BY BackedNext
<1>3. BackedInv => ProtectedIsBacked
  BY DEF BackedInv, ProtectedIsBacked, Backs
<1>. QED BY <1>1, <1>2, <1>3, PTL DEF Spec

===================================================================================
