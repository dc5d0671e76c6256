------------------------- MODULE FilledBuyUnitsProofs -------------------------
(***************************************************************************)
(* Quantities of FilledBuyProtection, for any lots, sizes, prices, sells    *)
(* and crashes, whatever the exchange answers, loses or changes between two *)
(* reads, and whether or not purposes tell BUYs apart.                      *)
(* CLOSED means sold unless a flatten adopts the MARKET order of another    *)
(* lot: what closes a lot has sold what its exits left, and what a lot sold *)
(* never shrinks.  The sells of a lot follow each other: a pass only plans  *)
(* one when it is done with all before it, that is, they are over and       *)
(* recorded or it gave them up.  So of those not given up only the newest   *)
(* may still sell, and that is exactly what remains: they never commit more *)
(* than the lot bought.  And any list on the book covers what remains.      *)
(***************************************************************************)
EXTENDS FilledBuyProtectionProofs, FiniteSums

(* The steps that change a quantity, a row or an exit. *)
Trading == \E c \in Sell : Accept(c) \/ Trade(c) \/ EndList(c)
RowsMove == \/ Planning \/ Recorded \/ Trading
            \/ UNCHANGED <<nextSell, intent, exits, status, sold>>

(* Only planning, recording an exit and the exchange change them. *)
LEMMA RowsChange ==
    ASSUME [Next]_vars
    PROVE  RowsMove
<1>1. CASE \/ StepFails \/ PollFails \/ RecoverNothing \/ LegsActive
           \/ LegsEndedMeanwhile \/ LegsCanceled
  BY <1>1
  DEF RowsMove, StepFails, Halt, EndPass, journalVars, exchangeVars, PollFails, At,
      RecoverNothing, Goto, ProtectionFor, LegsActive, Untrack, SetBoth,
      VerifyQuantities, LegsEndedMeanwhile, Terminal, LegsCanceled, Reopen
<1>2. CASE \/ LegsClosed("legs", "exit")
           \/ LegsClosed("reuse-legs", "reuse-exit") \/ CloseExact
           \/ NothingLeft \/ PlanCrossed \/ ReuseActive
  BY <1>2
  DEF RowsMove, LegsClosed, Goto, At, VerifyQuantities, Terminal, exchangeVars,
      CloseExact, Untrack, EndPass, SetBoth, ExactExit, NothingLeft, journalVars,
      PlanCrossed, Covered, ReuseActive
<1>3. CASE \/ ReuseProtected \/ SendOco \/ OcoVerified \/ OcoRejected
           \/ OcoUnknown \/ LookupFindsOco
  BY <1>3
  DEF RowsMove, ReuseProtected, Untrack, EndPass, SetBoth, At, exchangeVars, SendOco,
      Goto, journalVars, OcoVerified, VerifyQuantities, OcoRejected, Reopen,
      OcoUnknown, LookupFindsOco
<1>4. CASE \/ LookupGivesUp \/ RecordList \/ RecordLegs \/ MarkProtected
           \/ SendMarket \/ MarketAnswered
  BY <1>4
  DEF RowsMove, LookupGivesUp, Goto, At, journalVars, exchangeVars, RecordList,
      RecordLegs, MarkProtected, Untrack, EndPass, SetBoth, SendMarket, MarketAnswered
<1>5. CASE \/ MarketRejected \/ MarketUnknown \/ CloseFlattened \/ HaltFlattened \/ Crash \/ Stop
           \/ OperatorReset
  BY <1>5
  DEF RowsMove, MarketRejected, Halt, EndPass, At, exchangeVars, MarketUnknown, Goto,
      CloseFlattened, HaltFlattened, Untrack, Crash, GoDown, journalVars, Stop,
      OperatorReset, workerVars
<1>6. CASE Boot \/ BootFails
  BY <1>6
  DEF RowsMove, Boot, At, UnresolvedBuys, Unreconciled, Known, Nonterminal,
      exchangeVars, BootFails, workerVars
<1>7. ASSUME NEW l \in Lot, Poll(l)
      PROVE  RowsMove
  BY <1>7
  DEF RowsMove, Poll, At, exchangeVars
<1>8. ASSUME NEW c \in Sell, RecoverMarket(c)
      PROVE  RowsMove
  BY <1>8
  DEF RowsMove, RecoverMarket, Goto, At, ProtectionFor, journalVars, exchangeVars
<1>9. ASSUME NEW c \in Sell, RecoverList(c)
      PROVE  RowsMove
  BY <1>9
  DEF RowsMove, RecoverList, ReadList, ProtectionFor, At, journalVars, exchangeVars
<1>10. CASE RecordPartialExit
  BY <1>10 DEF RowsMove, Recorded
<1>11. ASSUME NEW p \in Price, PlanOco(p)
      PROVE  RowsMove
  BY <1>11 DEF RowsMove, Planning
<1>12. ASSUME NEW p \in Price, NEW c \in Sell, ReuseList(p, c)
      PROVE  RowsMove
  BY <1>12
  DEF RowsMove, ReuseList, ReadList, At, ActiveOco, SellActive, Covered, journalVars,
      exchangeVars
<1>13. ASSUME NEW p \in Price, NEW c \in Sell, ReuseAbsent(p, c)
      PROVE  RowsMove
  BY <1>13
  DEF RowsMove, ReuseAbsent, Goto, At, ActiveOco, SellActive, Covered, exchangeVars
<1>14. ASSUME NEW c \in Sell, ReuseUnreadable(c)
      PROVE  RowsMove
  BY <1>14
  DEF RowsMove, ReuseUnreadable, Halt, EndPass, At, ActiveOco, SellActive, Covered,
      exchangeVars
<1>15. CASE ReuseCanceled
  BY <1>15 DEF RowsMove, Planning
<1>16. CASE ReusePartial
  BY <1>16 DEF RowsMove, Recorded
<1>17. CASE PlanMarket
  BY <1>17 DEF RowsMove, Planning
<1>18. ASSUME NEW c \in Sell, AdoptMarket(c)
      PROVE  RowsMove
  BY <1>18
  DEF RowsMove, AdoptMarket, Goto, At, ActiveMarket, SellActive, exchangeVars
<1>19. ASSUME NEW c \in Sell, MarketUnreadable(c)
      PROVE  RowsMove
  BY <1>19
  DEF RowsMove, MarketUnreadable, Halt, EndPass, At, ActiveMarket, SellActive,
      exchangeVars
<1>20. ASSUME NEW c \in Sell, OnFill(c)
      PROVE  RowsMove
  BY <1>20
  DEF RowsMove, OnFill, At, ExactExit, exchangeVars, workerVars
<1>21. ASSUME NEW l \in Lot, FillBuy(l)
      PROVE  RowsMove
  BY <1>21
  DEF RowsMove, FillBuy, journalVars, workerVars
<1>22. ASSUME NEW c \in Sell, Accept(c)
      PROVE  RowsMove
  BY <1>22 DEF RowsMove, Trading
<1>23. ASSUME NEW c \in Sell, Refuse(c)
      PROVE  RowsMove
  BY <1>23
  DEF RowsMove, Refuse, Answer, journalVars
<1>24. ASSUME NEW c \in Sell, Lose(c)
      PROVE  RowsMove
  BY <1>24
  DEF RowsMove, Lose, Answer, journalVars
<1>25. ASSUME NEW c \in Sell, Trade(c)
      PROVE  RowsMove
  BY <1>25 DEF RowsMove, Trading
<1>26. ASSUME NEW c \in Sell, EndList(c)
      PROVE  RowsMove
  BY <1>26 DEF RowsMove, Trading
<1>27. CASE UNCHANGED vars
  BY <1>27
  DEF RowsMove, vars
<1>. QED
  BY <1>1, <1>2, <1>3, <1>4, <1>5, <1>6, <1>7, <1>8, <1>9, <1>10, <1>11, <1>12,
     <1>13, <1>14, <1>15, <1>16, <1>17, <1>18, <1>19, <1>20, <1>21, <1>22, <1>23,
     <1>24, <1>25, <1>26, <1>27
  DEF Next, Worker, Recovery, PlaceOco, Flatten, Exchange, Restart

(* A pass that places or flattens has something left to sell. *)
Placing == {"reuse-legs", "oco-prepared", "oco-posted", "oco-lookup", "flatten"}
PlacingInv == \A l \in Lot : pc \in Placing /\ l = cur => Remaining(l) > 0

(* Every step keeps that, *)
LEMMA PlacingNext ==
    ASSUME FillInv, PlacingInv, [Next]_vars
    PROVE  PlacingInv'
<1>1. CASE \/ StepFails \/ PollFails \/ RecoverNothing \/ LegsActive
           \/ LegsEndedMeanwhile \/ LegsCanceled
  BY <1>1, RemainingNext
  DEF FillInv, PlacingInv, Placing, KeepsRemaining, StepFails, Halt, EndPass,
      journalVars, exchangeVars, PollFails, At, RecoverNothing, Goto, ProtectionFor,
      LegsActive, Untrack, SetBoth, VerifyQuantities, LegsEndedMeanwhile, Terminal,
      LegsCanceled, Reopen
<1>2. CASE \/ LegsClosed("legs", "exit")
           \/ LegsClosed("reuse-legs", "reuse-exit") \/ CloseExact
           \/ RecordPartialExit \/ NothingLeft \/ PlanCrossed
  BY <1>2, RemainingNext
  DEF FillInv, PlacingInv, Placing, KeepsRemaining, LegsClosed, Goto, At,
      VerifyQuantities, Terminal, exchangeVars, CloseExact, Untrack, EndPass,
      SetBoth, ExactExit, RecordPartialExit, PartialExit, Reopen, NothingLeft,
      journalVars, PlanCrossed, Covered
<1>3. CASE \/ ReuseCanceled \/ ReusePartial \/ ReuseActive \/ ReuseProtected
           \/ SendOco \/ OcoVerified
  BY <1>3, RemainingNext
  DEF FillInv, PlacingInv, Placing, KeepsRemaining, ReuseCanceled, Goto, PrepareSell,
      At, VerifyQuantities, exchangeVars, ReusePartial, Halt, EndPass, PartialExit,
      Reopen, ReuseActive, ReuseProtected, Untrack, SetBoth, SendOco, journalVars,
      OcoVerified
<1>4. CASE \/ OcoRejected \/ OcoUnknown \/ LookupFindsOco \/ LookupGivesUp
           \/ RecordList \/ RecordLegs
  BY <1>4, RemainingNext
  DEF FillInv, PlacingInv, Placing, KeepsRemaining, OcoRejected, Goto, Reopen, At,
      exchangeVars, OcoUnknown, LookupFindsOco, VerifyQuantities, journalVars,
      LookupGivesUp, RecordList, RecordLegs
<1>5. CASE \/ MarkProtected \/ SendMarket \/ MarketAnswered \/ MarketRejected
           \/ MarketUnknown \/ CloseFlattened \/ HaltFlattened
  BY <1>5, RemainingNext
  DEF FillInv, PlacingInv, Placing, KeepsRemaining, MarkProtected, Untrack, EndPass,
      SetBoth, At, exchangeVars, SendMarket, Goto, journalVars, MarketAnswered,
      MarketRejected, Halt, MarketUnknown, CloseFlattened, HaltFlattened
<1>6. CASE Crash \/ Stop \/ OperatorReset \/ Boot \/ BootFails
  BY <1>6, RemainingNext
  DEF FillInv, PlacingInv, Placing, KeepsRemaining, Crash, GoDown, At, journalVars,
      exchangeVars, Stop, OperatorReset, workerVars, Boot, UnresolvedBuys,
      Unreconciled, Known, Nonterminal, BootFails
<1>7. ASSUME NEW l \in Lot, Poll(l)
      PROVE  PlacingInv'
  BY <1>7, RemainingNext
  DEF FillInv, PlacingInv, Placing, KeepsRemaining, Poll, At, exchangeVars
<1>8. ASSUME NEW c \in Sell, RecoverMarket(c)
      PROVE  PlacingInv'
  BY <1>8, RemainingNext
  DEF FillInv, PlacingInv, Placing, KeepsRemaining, RecoverMarket, Goto, At,
      ProtectionFor, journalVars, exchangeVars
<1>9. ASSUME NEW c \in Sell, RecoverList(c)
      PROVE  PlacingInv'
  BY <1>9, RemainingNext
  DEF FillInv, PlacingInv, Placing, KeepsRemaining, RecoverList, ReadList,
      ProtectionFor, At, journalVars, exchangeVars
<1>10. ASSUME NEW p \in Price, PlanOco(p)
      PROVE  PlacingInv'
  BY <1>10, RemainingNext
  DEF FillInv, PlacingInv, Placing, KeepsRemaining, PlanOco, Goto, PrepareSell, At,
      ActiveOco, SellActive, Covered, exchangeVars
<1>11. ASSUME NEW p \in Price, NEW c \in Sell, ReuseList(p, c)
      PROVE  PlacingInv'
  BY <1>11, RemainingNext
  DEF FillInv, PlacingInv, Placing, KeepsRemaining, ReuseList, ReadList, At,
      ActiveOco, SellActive, Covered, journalVars, exchangeVars
<1>12. ASSUME NEW p \in Price, NEW c \in Sell, ReuseAbsent(p, c)
      PROVE  PlacingInv'
  BY <1>12, RemainingNext
  DEF FillInv, PlacingInv, Placing, KeepsRemaining, ReuseAbsent, Goto, At, ActiveOco,
      SellActive, Covered, exchangeVars
<1>13. ASSUME NEW c \in Sell, ReuseUnreadable(c)
      PROVE  PlacingInv'
  BY <1>13, RemainingNext
  DEF FillInv, PlacingInv, Placing, KeepsRemaining, ReuseUnreadable, Halt, EndPass,
      At, ActiveOco, SellActive, Covered, exchangeVars
<1>14. CASE PlanMarket
  BY <1>14 DEF PlanMarket, Goto, PlacingInv, Placing
<1>15. ASSUME NEW c \in Sell, AdoptMarket(c)
      PROVE  PlacingInv'
  BY <1>15, RemainingNext
  DEF FillInv, PlacingInv, Placing, KeepsRemaining, AdoptMarket, Goto, At,
      ActiveMarket, SellActive, exchangeVars
<1>16. ASSUME NEW c \in Sell, MarketUnreadable(c)
      PROVE  PlacingInv'
  BY <1>16, RemainingNext
  DEF FillInv, PlacingInv, Placing, KeepsRemaining, MarketUnreadable, Halt, EndPass,
      At, ActiveMarket, SellActive, exchangeVars
<1>17. ASSUME NEW c \in Sell, OnFill(c)
      PROVE  PlacingInv'
  BY <1>17, RemainingNext
  DEF FillInv, PlacingInv, Placing, KeepsRemaining, OnFill, At, ExactExit,
      exchangeVars, workerVars
<1>18. ASSUME NEW l \in Lot, FillBuy(l)
      PROVE  PlacingInv'
  BY <1>18, RemainingNext
  DEF FillInv, PlacingInv, Placing, KeepsRemaining, FillBuy, journalVars, workerVars
<1>19. ASSUME NEW c \in Sell, Accept(c)
      PROVE  PlacingInv'
  BY <1>19, RemainingNext
  DEF FillInv, PlacingInv, Placing, KeepsRemaining, Accept, Answer, journalVars
<1>20. ASSUME NEW c \in Sell, Refuse(c)
      PROVE  PlacingInv'
  BY <1>20, RemainingNext
  DEF FillInv, PlacingInv, Placing, KeepsRemaining, Refuse, Answer, journalVars
<1>21. ASSUME NEW c \in Sell, Lose(c)
      PROVE  PlacingInv'
  BY <1>21, RemainingNext
  DEF FillInv, PlacingInv, Placing, KeepsRemaining, Lose, Answer, journalVars
<1>22. ASSUME NEW c \in Sell, Trade(c)
      PROVE  PlacingInv'
  BY <1>22, RemainingNext
  DEF FillInv, PlacingInv, Placing, KeepsRemaining, Trade, journalVars,
      workerVars, At
<1>23. ASSUME NEW c \in Sell, EndList(c)
      PROVE  PlacingInv'
  BY <1>23, RemainingNext
  DEF FillInv, PlacingInv, Placing, KeepsRemaining, EndList, journalVars,
      workerVars, At
<1>24. CASE UNCHANGED vars
  BY <1>24, RemainingNext
  DEF FillInv, PlacingInv, Placing, KeepsRemaining, vars
<1>. QED
  BY <1>1, <1>2, <1>3, <1>4, <1>5, <1>6, <1>7, <1>8, <1>9, <1>10, <1>11, <1>12,
     <1>13, <1>14, <1>15, <1>16, <1>17, <1>18, <1>19, <1>20, <1>21, <1>22, <1>23,
     <1>24
  DEF Next, Worker, Recovery, PlaceOco, Flatten, Exchange, Restart

(* A flatten sells for the lot of its pass. *)
OwnInv == pc \in Selling => intent[sell].lot = cur
OwnFlatten == \A c \in Sell : AdoptMarket(c) => intent[c].lot = cur

(* and every flatten of its own lot keeps this. *)
LEMMA OwnNext ==
    ASSUME FillInv, OwnInv, [OwnFlatten]_vars, [Next]_vars
    PROVE  OwnInv'
<1>1. CASE \/ StepFails \/ PollFails \/ RecoverNothing \/ LegsActive
           \/ LegsEndedMeanwhile \/ LegsCanceled
  BY <1>1
  DEF OwnInv, Selling, OwnFlatten, StepFails, Halt, EndPass, journalVars,
      exchangeVars, PollFails, At, RecoverNothing, Goto, ProtectionFor, LegsActive,
      Untrack, SetBoth, VerifyQuantities, LegsEndedMeanwhile, Terminal, LegsCanceled,
      Reopen
<1>2. CASE \/ LegsClosed("legs", "exit")
           \/ LegsClosed("reuse-legs", "reuse-exit") \/ CloseExact
           \/ RecordPartialExit \/ NothingLeft \/ PlanCrossed
  BY <1>2
  DEF OwnInv, Selling, OwnFlatten, LegsClosed, Goto, At, VerifyQuantities, Terminal,
      exchangeVars, CloseExact, Untrack, EndPass, SetBoth, ExactExit,
      RecordPartialExit, PartialExit, Reopen, NothingLeft, journalVars, PlanCrossed,
      Covered
<1>3. CASE \/ ReusePartial \/ ReuseActive \/ ReuseProtected \/ SendOco
           \/ OcoVerified \/ OcoRejected
  BY <1>3
  DEF OwnInv, Selling, OwnFlatten, ReusePartial, Halt, EndPass, PartialExit, Reopen,
      At, exchangeVars, ReuseActive, Goto, VerifyQuantities, ReuseProtected, Untrack,
      SetBoth, SendOco, journalVars, OcoVerified, OcoRejected
<1>4. CASE \/ OcoUnknown \/ LookupFindsOco \/ LookupGivesUp \/ RecordList
           \/ RecordLegs \/ MarkProtected
  BY <1>4
  DEF OwnInv, Selling, OwnFlatten, OcoUnknown, Goto, At, exchangeVars,
      LookupFindsOco, VerifyQuantities, journalVars, LookupGivesUp, RecordList,
      RecordLegs, MarkProtected, Untrack, EndPass, SetBoth
<1>5. CASE \/ SendMarket \/ MarketAnswered \/ MarketRejected \/ MarketUnknown
           \/ CloseFlattened \/ HaltFlattened \/ Crash
  BY <1>5
  DEF OwnInv, Selling, OwnFlatten, SendMarket, Goto, At, journalVars, MarketAnswered,
      exchangeVars, MarketRejected, Halt, EndPass, MarketUnknown,
      CloseFlattened, HaltFlattened,
      Untrack, Crash, GoDown
<1>6. CASE Stop \/ OperatorReset \/ Boot \/ BootFails
  BY <1>6
  DEF OwnInv, Selling, OwnFlatten, Stop, GoDown, At, journalVars, exchangeVars,
      OperatorReset, workerVars, Boot, UnresolvedBuys, Unreconciled, Known,
      Nonterminal, BootFails
<1>7. ASSUME NEW l \in Lot, Poll(l)
      PROVE  OwnInv'
  BY <1>7
  DEF OwnInv, Selling, OwnFlatten, Poll, At, exchangeVars
<1>8. ASSUME NEW c \in Sell, RecoverMarket(c)
      PROVE  OwnInv'
  BY <1>8
  DEF OwnInv, Selling, OwnFlatten, RecoverMarket, Goto, At, ProtectionFor,
      journalVars, exchangeVars
<1>9. ASSUME NEW c \in Sell, RecoverList(c)
      PROVE  OwnInv'
  BY <1>9
  DEF OwnInv, Selling, OwnFlatten, RecoverList, ReadList, ProtectionFor, At,
      journalVars, exchangeVars
<1>10. ASSUME NEW p \in Price, PlanOco(p)
      PROVE  OwnInv'
  BY <1>10, PlanningEffect DEF Planning, FillInv, OwnInv, Selling
<1>11. ASSUME NEW p \in Price, NEW c \in Sell, ReuseList(p, c)
      PROVE  OwnInv'
  BY <1>11
  DEF OwnInv, Selling, OwnFlatten, ReuseList, ReadList, At, ActiveOco, SellActive,
      Covered, journalVars, exchangeVars
<1>12. ASSUME NEW p \in Price, NEW c \in Sell, ReuseAbsent(p, c)
      PROVE  OwnInv'
  BY <1>12
  DEF OwnInv, Selling, OwnFlatten, ReuseAbsent, Goto, At, ActiveOco, SellActive,
      Covered, exchangeVars
<1>13. ASSUME NEW c \in Sell, ReuseUnreadable(c)
      PROVE  OwnInv'
  BY <1>13
  DEF OwnInv, Selling, OwnFlatten, ReuseUnreadable, Halt, EndPass, At, ActiveOco,
      SellActive, Covered, exchangeVars
<1>14. CASE ReuseCanceled
  BY <1>14, PlanningEffect DEF Planning, FillInv, OwnInv, Selling
<1>15. CASE PlanMarket
  BY <1>15, PlanningEffect DEF Planning, FillInv, OwnInv, Selling
<1>16. ASSUME NEW c \in Sell, AdoptMarket(c)
      PROVE  OwnInv'
  BY <1>16 DEF OwnInv, Selling, OwnFlatten, AdoptMarket, Goto, At, exchangeVars, vars
<1>17. ASSUME NEW c \in Sell, MarketUnreadable(c)
      PROVE  OwnInv'
  BY <1>17
  DEF OwnInv, Selling, OwnFlatten, MarketUnreadable, Halt, EndPass, At, ActiveMarket,
      SellActive, exchangeVars
<1>18. ASSUME NEW c \in Sell, OnFill(c)
      PROVE  OwnInv'
  BY <1>18
  DEF OwnInv, Selling, OwnFlatten, OnFill, At, ExactExit, exchangeVars, workerVars
<1>19. ASSUME NEW l \in Lot, FillBuy(l)
      PROVE  OwnInv'
  BY <1>19
  DEF OwnInv, Selling, OwnFlatten, FillBuy, journalVars, workerVars
<1>20. ASSUME NEW c \in Sell, Accept(c)
      PROVE  OwnInv'
  BY <1>20
  DEF OwnInv, Selling, OwnFlatten, Accept, Answer, journalVars
<1>21. ASSUME NEW c \in Sell, Refuse(c)
      PROVE  OwnInv'
  BY <1>21
  DEF OwnInv, Selling, OwnFlatten, Refuse, Answer, journalVars
<1>22. ASSUME NEW c \in Sell, Lose(c)
      PROVE  OwnInv'
  BY <1>22
  DEF OwnInv, Selling, OwnFlatten, Lose, Answer, journalVars
<1>23. ASSUME NEW c \in Sell, Trade(c)
      PROVE  OwnInv'
  BY <1>23
  DEF OwnInv, Selling, OwnFlatten, Trade, journalVars, workerVars, At
<1>24. ASSUME NEW c \in Sell, EndList(c)
      PROVE  OwnInv'
  BY <1>24
  DEF OwnInv, Selling, OwnFlatten, EndList, journalVars, workerVars, At
<1>25. CASE UNCHANGED vars
  BY <1>25
  DEF OwnInv, Selling, OwnFlatten, vars
<1>. QED
  BY <1>1, <1>2, <1>3, <1>4, <1>5, <1>6, <1>7, <1>8, <1>9, <1>10, <1>11, <1>12,
     <1>13, <1>14, <1>15, <1>16, <1>17, <1>18, <1>19, <1>20, <1>21, <1>22, <1>23,
     <1>24, <1>25
  DEF Next, Worker, Recovery, PlaceOco, Flatten, Exchange, Restart

(* A sell that has sold what remained of the lot when the lot is closed. *)
Closes(l) == \E c \in Sell : /\ intent[c].lot = l /\ c \notin exits
                             /\ sold[c] >= Remaining(l)
                             /\ UNCHANGED <<intent, sold, exits>>

(* Quantities: a sell has something to sell, for a lot, never sells more, and its *)
(* status says how much of it is sold.                                           *)
UnitInv(c) == /\ sold[c] \in Nat /\ intent[c].qty \in Nat /\ sold[c] <= intent[c].qty
              /\ intent[c] # NoIntent => intent[c].qty > 0 /\ intent[c].lot \in Lot
              /\ intent[c] = NoIntent => status[c] = "absent"
              /\ status[c] = "absent" => sold[c] = 0
              /\ status[c] = "filled" => sold[c] = intent[c].qty
              /\ status[c] = "live" => sold[c] < intent[c].qty
UnitsInv == \A c \in Sell : UnitInv(c)

(* The rows of a finite journal. *)
LEMMA SellFinite == IsFiniteSet(Sell)
<1>1. MaxSells \in Int /\ 1 \in Int
  BY ProtectionAssumption DEF ProtectionAssumption
<1>. QED BY <1>1, FS_Interval DEF Sell

(* A lot has finitely many sells. *)
LEMMA ChildrenFinite ==
    ASSUME NEW l
    PROVE  ChildrenOf(l) \subseteq Sell /\ IsFiniteSet(ChildrenOf(l))
<1>1. ChildrenOf(l) \subseteq Sell
  BY DEF ChildrenOf, Known
<1>. QED BY <1>1, SellFinite, FS_Subset

(* What remains of a lot is what its exits did not sell. *)
LEMMA RemainingIs ==
    ASSUME UnitsInv, NEW l \in Lot
    PROVE  /\ Size[l] \in Nat
           /\ SumFunctionOnSet(sold, exits \cap ChildrenOf(l)) \in Nat
           /\ Remaining(l) = Size[l] - SumFunctionOnSet(sold, exits \cap ChildrenOf(l))
           /\ Remaining(l) \in Int
<1>. DEFINE S == exits \cap ChildrenOf(l)
            f == [c \in S |-> sold[c]]
<1>1. IsFiniteSet(S) /\ S \subseteq Sell
  BY ChildrenFinite, FS_Subset
<1>2. SumFunctionOnSet(sold, S) \in Nat
  BY <1>1, SumNat DEF UnitsInv, UnitInv
<1>3. SumFunctionOnSet(f, S) = SumFunctionOnSet(sold, S)
  <2>1. \A c \in S : f[c] = sold[c]
    OBVIOUS
  <2>. HIDE DEF S, f
  <2>. QED BY <2>1, <1>1, SumSame
<1>4. DOMAIN f = S
  OBVIOUS
<1>5. SumFunction(f) = SumFunctionOnSet(f, S)
  <2>. HIDE DEF S, f
  <2>. QED BY <1>4 DEF SumFunction, SumFunctionOnSet, FoldFunction
<1>6. ExitsOf(l) = f
  BY DEF ExitsOf
<1>7. Remaining(l) = Size[l] - SumFunctionOnSet(sold, S)
  BY <1>3, <1>5, <1>6 DEF Remaining
<1>8. Size[l] \in Nat
  BY ProtectionAssumption DEF ProtectionAssumption
<1>. QED BY <1>2, <1>7, <1>8

(* Every step keeps the quantities. *)
LEMMA UnitsNext ==
    ASSUME FillInv, PlacingInv, UnitsInv, [Next]_vars
    PROVE  UnitsInv'
<1>1. CASE UNCHANGED <<nextSell, intent, exits, status, sold>>
  BY <1>1 DEF UnitsInv, UnitInv
<1>2. CASE Recorded
  <2>1. UNCHANGED <<intent, status, sold>>
    BY <1>2, RecordedEffect DEF FillInv
  <2>. QED BY <2>1 DEF UnitsInv, UnitInv
<1>3. CASE Planning
  <2>1. /\ nextSell \in Sell /\ UNCHANGED <<status, sold>>
        /\ \A c \in Sell \ {nextSell} : intent'[c] = intent[c]
    BY <1>3, PlanningEffect DEF FillInv
  <2>2. intent'[nextSell].qty = Remaining(cur) /\ intent'[nextSell].lot = cur
    <3>1. PICK kind, p, state : PrepareSell(kind, p, state)
      BY <1>3 DEF Planning, PlanOco, ReuseCanceled, PlanMarket
    <3>2. pc \in InPass
      BY <1>3, PlanningEffect DEF FillInv
    <3>. QED BY <3>1, <3>2, PrepareEffect DEF FillInv
  <2>3. cur \in Lot /\ Remaining(cur) > 0
    BY <1>3 DEF Planning, PlanOco, ReuseCanceled, PlanMarket, At, Covered, PlacingInv,
                Placing, FillInv, Typed, InPass
  <2>4. Remaining(cur) \in Nat
    <3>1. Remaining(cur) \in Int
      BY <2>3, RemainingIs
    <3>. QED BY <2>3, <3>1
  <2>5. intent[nextSell] = NoIntent
    BY <1>3, PlanningEffect DEF FillInv
  <2>6. status[nextSell] = "absent" /\ sold[nextSell] = 0
    BY <2>1, <2>5 DEF UnitsInv, UnitInv
  <2>. QED BY <2>1, <2>2, <2>3, <2>4, <2>6 DEF UnitsInv, UnitInv
<1>4. CASE Trading
  <2>1. PICK c \in Sell : Accept(c) \/ Trade(c) \/ EndList(c)
    BY <1>4 DEF Trading
  <2>2. UNCHANGED intent
    BY <2>1 DEF Accept, Trade, EndList, Answer, journalVars
  <2>. SUFFICES ASSUME NEW d \in Sell PROVE UnitInv(d)'
    BY DEF UnitsInv
  <2>3. UnitInv(d)
    BY DEF UnitsInv
  <2>4. CASE Accept(c)
    <3>1. CASE d # c
      <4>1. sold'[d] = sold[d] /\ status'[d] = status[d]
        BY <2>4, <3>1, AcceptEffect DEF FillInv
      <4>. QED BY <4>1, <2>2, <2>3 DEF UnitInv
    <3>2. CASE d = c /\ intent[c].kind = "OCO" /\ status' = [status EXCEPT ![c] = "live"] /\ UNCHANGED sold
      <4>1. intent[c] # NoIntent /\ status[c] = "absent" /\ status'[c] = "live"
        BY <2>4, <3>2 DEF Accept, NoIntent, FillInv, Typed
      <4>. QED BY <4>1, <3>2, <2>2, <2>3 DEF UnitInv
    <3>3. ASSUME d = c, NEW q \in 0..intent[c].qty, intent[c].kind = "MARKET",
                 sold' = [sold EXCEPT ![c] = q],
                 status' = [status EXCEPT ![c] = IF q = intent[c].qty THEN "filled" ELSE "canceled"]
          PROVE  UnitInv(d)'
      <4>1. /\ sold'[c] = q
            /\ status'[c] = IF q = intent[c].qty THEN "filled" ELSE "canceled"
        BY <3>3 DEF FillInv, Typed
      <4>2. intent[c] # NoIntent
        BY <3>3 DEF NoIntent
      <4>. QED BY <4>1, <4>2, <3>3, <2>2, <2>3 DEF UnitInv
    <3>. QED BY <2>4, <3>1, <3>2, <3>3 DEF Accept
  <2>5. CASE Trade(c)
    <3>1. CASE d # c
      <4>1. sold'[d] = sold[d] /\ status'[d] = status[d]
        BY <2>5, <3>1 DEF Trade, FillInv, Typed
      <4>. QED BY <4>1, <2>2, <2>3 DEF UnitInv
    <3>2. CASE d = c
      <4>1. /\ sold'[c] = sold[c] + 1 /\ status[c] = "live"
            /\ status'[c] = IF sold[c] + 1 = intent[c].qty THEN "filled" ELSE "live"
        BY <2>5 DEF Trade, FillInv, Typed
      <4>. QED BY <4>1, <3>2, <2>2, <2>3 DEF UnitInv
    <3>. QED BY <3>1, <3>2
  <2>6. CASE EndList(c)
    <3>1. /\ sold'[d] = sold[d]
          /\ status'[d] = status[d] \/ (status[d] = "live" /\ status'[d] = "canceled")
      BY <2>6 DEF EndList, FillInv, Typed
    <3>. QED BY <3>1, <2>2, <2>3 DEF UnitInv
  <2>. QED BY <2>1, <2>4, <2>5, <2>6
<1>. QED BY <1>1, <1>2, <1>3, <1>4, RowsChange DEF RowsMove

(* The unit invariant of the pass. *)
PassUnits == FillInv /\ PlacingInv /\ UnitsInv

(* It holds at the start, *)
LEMMA PassUnitsInit ==
    ASSUME Init
    PROVE  PassUnits
<1>1. PlacingInv
  BY DEF Init, PlacingInv, Placing
<1>2. UnitsInv
  BY DEF Init, UnitsInv, UnitInv, NoIntent
<1>. QED BY <1>1, <1>2, FillInit DEF PassUnits

(* and every step keeps it. *)
LEMMA PassUnitsNext ==
    ASSUME PassUnits, [Next]_vars
    PROVE  PassUnits'
<1>1. FillInv /\ PlacingInv /\ UnitsInv
  BY DEF PassUnits
<1>. QED BY <1>1, FillNext, PlacingNext, UnitsNext DEF PassUnits

(* A list that sold exactly the rest closes its lot. *)
LEMMA ExactCloses ==
    ASSUME PassUnits, NEW c \in Sell, NEW l, intent[c].lot = l, ExactExit(c, l),
           UNCHANGED <<intent, sold, exits>>
    PROVE  Closes(l)
<1>1. status[c] = "filled" /\ intent[c].qty = Remaining(l)
  BY DEF ExactExit
<1>2. UnitInv(c)
  BY DEF PassUnits, UnitsInv
<1>3. sold[c] = Remaining(l) /\ sold[c] >= Remaining(l)
  BY <1>1, <1>2 DEF UnitInv
<1>4. c \notin exits
  BY <1>1 DEF PassUnits, FillInv, RowsInv
<1>. QED BY <1>3, <1>4 DEF Closes

(* A lot is closed by what sold its rest. *)
LEMMA ClosesNext ==
    ASSUME PassUnits, OwnInv, NEW lot \in Lot, parent[lot] # "CLOSED",
           parent'[lot] = "CLOSED", [Next]_vars
    PROVE  Closes(lot)
<1>1. CASE StepFails
  BY <1>1
  DEF PassUnits, FillInv, StepFails, Halt, EndPass, journalVars, exchangeVars
<1>2. CASE PollFails
  BY <1>2
  DEF PassUnits, FillInv, PollFails, Halt, EndPass, At, journalVars, exchangeVars
<1>3. CASE RecoverNothing
  BY <1>3
  DEF PassUnits, FillInv, RecoverNothing, Goto, At, ProtectionFor, journalVars,
      exchangeVars
<1>4. CASE LegsActive
  BY <1>4
  DEF PassUnits, FillInv, LegsActive, Untrack, EndPass, SetBoth, At,
      VerifyQuantities, exchangeVars
<1>5. CASE LegsEndedMeanwhile
  BY <1>5
  DEF PassUnits, FillInv, LegsEndedMeanwhile, Goto, At, VerifyQuantities, Terminal,
      journalVars, exchangeVars
<1>6. CASE LegsCanceled
  BY <1>6
  DEF PassUnits, FillInv, LegsCanceled, Goto, Reopen, At, VerifyQuantities,
      exchangeVars
<1>7. CASE LegsClosed("legs", "exit")
  BY <1>7
  DEF PassUnits, FillInv, LegsClosed, Goto, At, VerifyQuantities, Terminal,
      exchangeVars
<1>8. CASE LegsClosed("reuse-legs", "reuse-exit")
  BY <1>8
  DEF PassUnits, FillInv, LegsClosed, Goto, At, VerifyQuantities, Terminal,
      exchangeVars
<1>9. CASE RecordPartialExit
  BY <1>9
  DEF PassUnits, FillInv, RecordPartialExit, Goto, PartialExit, Reopen, At,
      exchangeVars
<1>10. CASE NothingLeft
  BY <1>10
  DEF PassUnits, FillInv, NothingLeft, Untrack, EndPass, At, journalVars, exchangeVars
<1>11. CASE PlanCrossed
  BY <1>11
  DEF PassUnits, FillInv, PlanCrossed, Goto, At, Covered, journalVars, exchangeVars
<1>12. CASE ReuseCanceled
  BY <1>12
  DEF PassUnits, FillInv, ReuseCanceled, Goto, PrepareSell, At, VerifyQuantities,
      exchangeVars
<1>13. CASE ReusePartial
  BY <1>13
  DEF PassUnits, FillInv, ReusePartial, Halt, EndPass, PartialExit, Reopen, At,
      exchangeVars
<1>14. CASE ReuseActive
  BY <1>14
  DEF PassUnits, FillInv, ReuseActive, Goto, At, VerifyQuantities, exchangeVars
<1>15. CASE ReuseProtected
  BY <1>15
  DEF PassUnits, FillInv, ReuseProtected, Untrack, EndPass, SetBoth, At, exchangeVars
<1>16. CASE SendOco
  BY <1>16
  DEF PassUnits, FillInv, SendOco, Goto, At, journalVars
<1>17. CASE OcoVerified
  BY <1>17
  DEF PassUnits, FillInv, OcoVerified, Goto, At, VerifyQuantities, journalVars,
      exchangeVars
<1>18. CASE OcoRejected
  BY <1>18
  DEF PassUnits, FillInv, OcoRejected, Goto, Reopen, At, exchangeVars
<1>19. CASE OcoUnknown
  BY <1>19
  DEF PassUnits, FillInv, OcoUnknown, Goto, At, exchangeVars
<1>20. CASE LookupFindsOco
  BY <1>20
  DEF PassUnits, FillInv, LookupFindsOco, Goto, At, VerifyQuantities, journalVars,
      exchangeVars
<1>21. CASE LookupGivesUp
  BY <1>21
  DEF PassUnits, FillInv, LookupGivesUp, Goto, At, journalVars, exchangeVars
<1>22. CASE RecordList
  BY <1>22
  DEF PassUnits, FillInv, RecordList, Goto, At, exchangeVars
<1>23. CASE RecordLegs
  BY <1>23
  DEF PassUnits, FillInv, RecordLegs, Goto, At, exchangeVars
<1>24. CASE MarkProtected
  BY <1>24
  DEF PassUnits, FillInv, MarkProtected, Untrack, EndPass, SetBoth, At, exchangeVars
<1>25. CASE PlanMarket
  BY <1>25
  DEF PassUnits, FillInv, PlanMarket, Goto, PrepareSell, At, ActiveMarket,
      SellActive, exchangeVars
<1>26. CASE SendMarket
  BY <1>26
  DEF PassUnits, FillInv, SendMarket, Goto, At, journalVars
<1>27. CASE MarketAnswered
  BY <1>27
  DEF PassUnits, FillInv, MarketAnswered, Goto, At, exchangeVars
<1>28. CASE MarketRejected
  BY <1>28
  DEF PassUnits, FillInv, MarketRejected, Halt, EndPass, At, exchangeVars
<1>29. CASE MarketUnknown
  BY <1>29
  DEF PassUnits, FillInv, MarketUnknown, Goto, At, exchangeVars
<1>30. CASE Crash
  BY <1>30
  DEF PassUnits, FillInv, Crash, GoDown, At, journalVars, exchangeVars
<1>31. CASE Stop
  BY <1>31
  DEF PassUnits, FillInv, Stop, GoDown, At, journalVars, exchangeVars
<1>32. CASE OperatorReset
  BY <1>32
  DEF PassUnits, FillInv, OperatorReset, At, journalVars, exchangeVars, workerVars
<1>33. CASE Boot
  BY <1>33
  DEF PassUnits, FillInv, Boot, At, UnresolvedBuys, Unreconciled, Known, Nonterminal,
      exchangeVars
<1>34. ASSUME NEW l \in Lot, Poll(l)
      PROVE  Closes(lot)
  BY <1>34
  DEF PassUnits, FillInv, Poll, At, exchangeVars
<1>35. ASSUME NEW c \in Sell, RecoverMarket(c)
      PROVE  Closes(lot)
  BY <1>35
  DEF PassUnits, FillInv, RecoverMarket, Goto, At, ProtectionFor, journalVars,
      exchangeVars
<1>36. ASSUME NEW c \in Sell, RecoverList(c)
      PROVE  Closes(lot)
  BY <1>36
  DEF PassUnits, FillInv, RecoverList, ReadList, ProtectionFor, At, journalVars,
      exchangeVars
<1>37. CASE CloseExact
  <2>1. /\ sell \in Sell /\ intent[sell].lot = cur /\ ExactExit(sell, cur)
        /\ parent' = [parent EXCEPT ![cur] = "CLOSED"] /\ UNCHANGED <<intent, sold, exits>>
    BY <1>37 DEF CloseExact, SetBoth, Untrack, EndPass, At, exchangeVars, PassUnits, FillInv, Typed,
             PassInv, WithList
  <2>2. lot = cur
    BY <2>1 DEF PassUnits, FillInv, Typed
  <2>. QED BY <2>1, <2>2, ExactCloses
<1>38. ASSUME NEW p \in Price, PlanOco(p)
      PROVE  Closes(lot)
  BY <1>38
  DEF PassUnits, FillInv, PlanOco, Goto, PrepareSell, At, ActiveOco, SellActive,
      Covered, exchangeVars
<1>39. ASSUME NEW p \in Price, NEW c \in Sell, ReuseList(p, c)
      PROVE  Closes(lot)
  BY <1>39
  DEF PassUnits, FillInv, ReuseList, ReadList, At, ActiveOco, SellActive, Covered,
      journalVars, exchangeVars
<1>40. ASSUME NEW p \in Price, NEW c \in Sell, ReuseAbsent(p, c)
      PROVE  Closes(lot)
  BY <1>40
  DEF PassUnits, FillInv, ReuseAbsent, Goto, At, ActiveOco, SellActive, Covered,
      exchangeVars
<1>41. ASSUME NEW c \in Sell, ReuseUnreadable(c)
      PROVE  Closes(lot)
  BY <1>41
  DEF PassUnits, FillInv, ReuseUnreadable, Halt, EndPass, At, ActiveOco, SellActive,
      Covered, exchangeVars
<1>42. ASSUME NEW c \in Sell, AdoptMarket(c)
      PROVE  Closes(lot)
  BY <1>42
  DEF PassUnits, FillInv, AdoptMarket, Goto, At, ActiveMarket, SellActive,
      exchangeVars
<1>43. ASSUME NEW c \in Sell, MarketUnreadable(c)
      PROVE  Closes(lot)
  BY <1>43
  DEF PassUnits, FillInv, MarketUnreadable, Halt, EndPass, At, ActiveMarket,
      SellActive, exchangeVars
<1>44. CASE CloseFlattened \/ HaltFlattened
  <2>1. /\ sell \in Sell /\ intent[sell].lot = cur /\ Confirmed(sell)
        /\ parent' = [parent EXCEPT ![cur] = "CLOSED"] /\ UNCHANGED <<intent, sold, exits>>
    BY <1>44 DEF CloseFlattened, HaltFlattened, journalVars, Goto, Untrack, EndPass, At, exchangeVars, PassUnits, FillInv, Typed,
             OwnInv, Selling
  <2>2. lot = cur
    BY <2>1 DEF PassUnits, FillInv, Typed
  <2>3. sell \notin exits
    BY <2>1 DEF Confirmed, PassUnits, FillInv, RowsInv
  <2>. QED BY <2>1, <2>2, <2>3 DEF Closes, Confirmed
<1>45. ASSUME NEW c \in Sell, OnFill(c)
      PROVE  Closes(lot)
  <2>1. /\ ExactExit(c, intent[c].lot) /\ parent' = [parent EXCEPT ![intent[c].lot] = "CLOSED"]
        /\ UNCHANGED <<intent, sold, exits>>
    BY <1>45 DEF OnFill, exchangeVars
  <2>2. lot = intent[c].lot
    BY <2>1 DEF PassUnits, FillInv, Typed
  <2>. QED BY <2>1, <2>2, ExactCloses
<1>46. ASSUME NEW l \in Lot, FillBuy(l)
      PROVE  Closes(lot)
  BY <1>46
  DEF PassUnits, FillInv, FillBuy, journalVars, workerVars
<1>47. ASSUME NEW c \in Sell, Accept(c)
      PROVE  Closes(lot)
  BY <1>47
  DEF PassUnits, FillInv, Accept, Answer, journalVars
<1>48. ASSUME NEW c \in Sell, Refuse(c)
      PROVE  Closes(lot)
  BY <1>48
  DEF PassUnits, FillInv, Refuse, Answer, journalVars
<1>49. ASSUME NEW c \in Sell, Lose(c)
      PROVE  Closes(lot)
  BY <1>49
  DEF PassUnits, FillInv, Lose, Answer, journalVars
<1>50. ASSUME NEW c \in Sell, Trade(c)
      PROVE  Closes(lot)
  BY <1>50
  DEF PassUnits, FillInv, Trade, journalVars, workerVars, At
<1>51. ASSUME NEW c \in Sell, EndList(c)
      PROVE  Closes(lot)
  BY <1>51
  DEF PassUnits, FillInv, EndList, journalVars, workerVars, At
<1>52. CASE BootFails
  BY <1>52 DEF BootFails, UnresolvedBuys, PassUnits, FillInv, Typed
<1>53. CASE UNCHANGED vars
  BY <1>53
  DEF PassUnits, FillInv, vars
<1>. QED
  BY <1>1, <1>2, <1>3, <1>4, <1>5, <1>6, <1>7, <1>8, <1>9, <1>10, <1>11, <1>12,
     <1>13, <1>14, <1>15, <1>16, <1>17, <1>18, <1>19, <1>20, <1>21, <1>22, <1>23,
     <1>24, <1>25, <1>26, <1>27, <1>28, <1>29, <1>30, <1>31, <1>32, <1>33, <1>34,
     <1>35, <1>36, <1>37, <1>38, <1>39, <1>40, <1>41, <1>42, <1>43, <1>44, <1>45,
     <1>46, <1>47, <1>48, <1>49, <1>50, <1>51, <1>52, <1>53
  DEF Next, Worker, Recovery, PlaceOco, Flatten, Exchange, Restart

---------------------------------------------------------------------------
(* CLOSED is sold *)

(* A sell never sells less than it did, and stays a sell of its lot. *)
LEMMA SoldGrows ==
    ASSUME PassUnits, [Next]_vars, PassUnits', NEW c \in Sell
    PROVE  /\ sold[c] <= sold'[c]
           /\ intent[c] # NoIntent => intent'[c] = intent[c]
<1>1. CASE UNCHANGED <<nextSell, intent, exits, status, sold>>
  BY <1>1 DEF PassUnits, UnitsInv, UnitInv
<1>2. CASE Recorded
  <2>1. UNCHANGED <<intent, status, sold>>
    BY <1>2, RecordedEffect DEF PassUnits, FillInv
  <2>. QED BY <2>1 DEF PassUnits, UnitsInv, UnitInv
<1>3. CASE Planning
  <2>1. /\ UNCHANGED sold /\ intent[nextSell] = NoIntent
        /\ \A d \in Sell \ {nextSell} : intent'[d] = intent[d]
    BY <1>3, PlanningEffect DEF PassUnits, FillInv
  <2>. QED BY <2>1 DEF PassUnits, UnitsInv, UnitInv
<1>4. CASE Trading
  <2>1. PICK d \in Sell : Accept(d) \/ Trade(d) \/ EndList(d)
    BY <1>4 DEF Trading
  <2>2. UNCHANGED intent
    BY <2>1 DEF Accept, Trade, EndList, Answer, journalVars
  <2>3. UnitInv(c) /\ UnitInv(c)'
    BY DEF PassUnits, UnitsInv
  <2>4. sold[c] \in Nat /\ sold'[c] \in Nat
    BY <2>3 DEF UnitInv
  <2>5. CASE Accept(d)
    <3>1. CASE c # d
      <4>1. sold'[c] = sold[c]
        BY <2>5, <3>1, AcceptEffect DEF PassUnits, FillInv
      <4>. QED BY <4>1, <2>2, <2>4
    <3>2. CASE c = d
      <4>1. sold[c] = 0
        BY <2>3, <2>5, <3>2 DEF Accept, UnitInv
      <4>. QED BY <4>1, <2>2, <2>4
    <3>. QED BY <3>1, <3>2
  <2>6. CASE Trade(d)
    <3>1. sold'[c] = sold[c] \/ sold'[c] = sold[c] + 1
      BY <2>6 DEF Trade, PassUnits, FillInv, Typed
    <3>. QED BY <3>1, <2>2, <2>4
  <2>7. CASE EndList(d)
    BY <2>2, <2>4, <2>7 DEF EndList
  <2>. QED BY <2>1, <2>2, <2>5, <2>6, <2>7
<1>. QED BY <1>1, <1>2, <1>3, <1>4, RowsChange DEF RowsMove

(* So a lot has never sold less than before. *)
LEMMA LotSoldGrows ==
    ASSUME PassUnits, [Next]_vars, PassUnits', NEW l \in Lot
    PROVE  Sold(l) \in Nat /\ Sold(l)' \in Nat /\ Sold(l) <= Sold(l)'
<1>. DEFINE S == ChildrenOf(l)
            T == ChildrenOf(l)'
<1>1. S \subseteq Sell /\ IsFiniteSet(S)
  BY ChildrenFinite
<1>2. T \subseteq Sell /\ IsFiniteSet(T)
  <2>1. (ChildrenOf(l) \subseteq Sell)'
    BY DEF ChildrenOf, Known
  <2>2. T \subseteq Sell
    BY <2>1 DEF Sell
  <2>. QED BY <2>2, SellFinite, FS_Subset
<1>3. S \subseteq T
  <2>1. ASSUME NEW c \in S PROVE c \in T
    <3>1. c \in Sell /\ intent[c] # NoIntent /\ intent[c].lot = l
      BY DEF ChildrenOf, Known
    <3>2. intent'[c] = intent[c]
      BY <3>1, SoldGrows
    <3>. QED BY <3>1, <3>2 DEF ChildrenOf, Known
  <2>. QED BY <2>1
<1>4. /\ \A c \in Sell : sold[c] \in Nat
      /\ \A c \in Sell : sold'[c] \in Nat
      /\ \A c \in Sell : sold[c] <= sold'[c]
  <2>1. UnitsInv /\ UnitsInv'
    BY DEF PassUnits
  <2>2. \A c \in Sell : sold[c] \in Nat
    BY <2>1 DEF UnitsInv, UnitInv
  <2>3. \A c \in Sell : sold'[c] \in Nat
    BY <2>1 DEF UnitsInv, UnitInv
  <2>. QED BY <2>2, <2>3, SoldGrows
<1>. HIDE DEF S, T
<1>5. SumFunctionOnSet(sold, S) <= SumFunctionOnSet(sold', S)
  BY <1>1, <1>4, SumMonotone
<1>6. SumFunctionOnSet(sold', S) <= SumFunctionOnSet(sold', T)
  BY <1>2, <1>3, <1>4, SumPart
<1>7. /\ SumFunctionOnSet(sold, S) \in Nat
      /\ SumFunctionOnSet(sold', S) \in Nat
      /\ SumFunctionOnSet(sold', T) \in Nat
  BY <1>1, <1>2, <1>4, SumNat
<1>8. Sold(l) = SumFunctionOnSet(sold, S) /\ Sold(l)' = SumFunctionOnSet(sold', T)
  BY DEF Sold, S, T
<1>9. SumFunctionOnSet(sold, S) <= SumFunctionOnSet(sold', T)
  BY <1>5, <1>6, <1>7
<1>. QED BY <1>7, <1>8, <1>9

(* What closes a lot makes up, with its exits, for all it bought. *)
LEMMA ClosingSells ==
    ASSUME PassUnits, NEW l \in Lot, Closes(l)
    PROVE  Sold(l) >= Size[l]
<1>1. PICK c \in Sell : intent[c].lot = l /\ c \notin exits /\ sold[c] >= Remaining(l)
  BY DEF Closes
<1>. DEFINE E == exits \cap ChildrenOf(l)
<1>2. ChildrenOf(l) \subseteq Sell /\ IsFiniteSet(ChildrenOf(l))
  BY ChildrenFinite
<1>3. c \in ChildrenOf(l)
  <2>1. intent[c] # NoIntent
    BY <1>1, ProtectionAssumption DEF NoIntent, ProtectionAssumption
  <2>. QED BY <1>1, <2>1 DEF ChildrenOf, Known
<1>4. \A d \in Sell : sold[d] \in Nat
  BY DEF PassUnits, UnitsInv, UnitInv
<1>5. /\ Size[l] \in Nat /\ SumFunctionOnSet(sold, E) \in Nat
      /\ Remaining(l) = Size[l] - SumFunctionOnSet(sold, E)
  BY RemainingIs DEF PassUnits
<1>6. E \cup {c} \subseteq ChildrenOf(l) /\ c \notin E /\ E = (E \cup {c}) \ {c}
  BY <1>1, <1>3
<1>7. IsFiniteSet(E \cup {c})
  BY <1>2, <1>6, FS_Subset
<1>. HIDE DEF E
<1>8. SumFunctionOnSet(sold, E \cup {c}) = sold[c] + SumFunctionOnSet(sold, E)
  BY <1>2, <1>4, <1>6, <1>7, SumTake
<1>9. SumFunctionOnSet(sold, E \cup {c}) <= SumFunctionOnSet(sold, ChildrenOf(l))
  BY <1>2, <1>4, <1>6, SumPart
<1>10. SumFunctionOnSet(sold, ChildrenOf(l)) \in Nat
  BY <1>2, <1>4, SumNat
<1>. QED BY <1>1, <1>4, <1>5, <1>8, <1>9, <1>10 DEF Sold

(* The invariant behind CLOSED, *)
ClosedInv == PassUnits /\ OwnInv /\ ClosedIsSold

(* which steps keep that adopt no other lot's order, *)
LEMMA ClosedNext ==
    ASSUME ClosedInv, [OwnFlatten]_vars, [Next]_vars
    PROVE  ClosedInv'
<1>1. PassUnits /\ OwnInv /\ ClosedIsSold
  BY DEF ClosedInv
<1>2. PassUnits' /\ OwnInv'
  BY <1>1, PassUnitsNext, OwnNext DEF PassUnits
<1>3. ASSUME NEW l \in Lot, parent'[l] = "CLOSED" PROVE Sold(l)' >= Size[l]
  <2>1. Sold(l) \in Nat /\ Sold(l)' \in Nat /\ Sold(l) <= Sold(l)'
    BY <1>1, <1>2, LotSoldGrows
  <2>2. Sold(l) >= Size[l]
    <3>1. CASE parent[l] = "CLOSED"
      BY <1>1, <3>1 DEF ClosedIsSold
    <3>2. CASE parent[l] # "CLOSED"
      BY <1>1, <1>3, <3>2, ClosesNext, ClosingSells
    <3>. QED BY <3>1, <3>2
  <2>3. Size[l] \in Nat
    BY ProtectionAssumption DEF ProtectionAssumption
  <2>. QED BY <2>1, <2>2, <2>3
<1>4. ClosedIsSold'
  BY <1>3 DEF ClosedIsSold
<1>. QED BY <1>2, <1>4 DEF ClosedInv

(* and which holds at the start. *)
LEMMA ClosedInit ==
    ASSUME Init
    PROVE  ClosedInv
<1>1. OwnInv
  BY DEF Init, OwnInv, Selling
<1>2. ClosedIsSold
  BY DEF Init, ClosedIsSold
<1>. QED BY <1>1, <1>2, PassUnitsInit DEF ClosedInv

(* CLOSED is never claimed of a lot that still holds inventory unless a flatten takes *)
(* the MARKET order of another lot for its own: for any lots, quantities, failures,    *)
(* lost answers, crashes and restarts.                                                 *)
THEOREM ClosedUnlessAdopted == Spec /\ [][OwnFlatten]_vars => []ClosedIsSold
<1>1. Init => ClosedInv
  BY ClosedInit
<1>2. ClosedInv /\ [Next]_vars /\ [OwnFlatten]_vars => ClosedInv'
  BY ClosedNext
<1>3. ClosedInv => ClosedIsSold
  BY DEF ClosedInv
<1>. QED BY <1>1, <1>2, <1>3, PTL DEF Spec

---------------------------------------------------------------------------
(* Types *)

(* Every variable but the rows and their quantities. *)
FieldsOK ==
    /\ parent \in [Lot -> {"SUBMITTED", "UNKNOWN", "FILLED",
                           "PROTECTION_PENDING", "PROTECTED", "CLOSED"}]
    /\ nextSell \in 1..(MaxSells + 1)
    /\ child \in [Sell -> ChildState]
    /\ legs \subseteq Sell /\ listed \subseteq Sell /\ exits \subseteq Sell
    /\ status \in [Sell -> {"absent", "live", "filled", "canceled"}]
    /\ wire \subseteq Sell
    /\ cur \in Lot \cup {NoLot}
    /\ sell \in Sell \cup {NoSell}
    /\ seen \in {"none", "EXEC_STARTED", "ALL_DONE"}
    /\ reply \in {"none", "accepted", "refused"}
    /\ tracked \subseteq Lot
    /\ halted \in BOOLEAN
    /\ crashes \in 0..MaxCrashes
    /\ abandoned \subseteq Sell
Row == [lot : Lot \cup {NoLot}, kind : {"none", "OCO", "MARKET"},
        qty : Nat, price : Price \cup {NoPrice}]
RowsOK == \A c \in Sell : intent[c] \in Row

(* Every step keeps the fields, *)
LEMMA FieldsNext ==
    ASSUME FillInv, FieldsOK, [Next]_vars
    PROVE  FieldsOK'
<1>1. CASE \/ StepFails \/ PollFails \/ RecoverNothing \/ LegsEndedMeanwhile
           \/ LegsCanceled \/ CloseExact
  BY <1>1
  DEF FieldsOK, ChildState, FillInv, Typed, WithList, Reading, StepFails, Halt,
      EndPass, journalVars, exchangeVars, PollFails, At, RecoverNothing, Goto,
      ProtectionFor, LegsEndedMeanwhile, VerifyQuantities, Terminal, LegsCanceled,
      Reopen, CloseExact, Untrack, SetBoth, ExactExit
<1>2. CASE \/ NothingLeft \/ PlanCrossed \/ OcoVerified \/ OcoRejected
           \/ OcoUnknown \/ LookupFindsOco
  BY <1>2
  DEF FieldsOK, ChildState, NothingLeft, Untrack, EndPass, At, journalVars,
      exchangeVars, PlanCrossed, Goto, Covered, OcoVerified, VerifyQuantities,
      OcoRejected, Reopen, OcoUnknown, LookupFindsOco
<1>3. CASE \/ LookupGivesUp \/ MarkProtected \/ MarketRejected \/ MarketUnknown
           \/ CloseFlattened \/ HaltFlattened \/ Stop
  BY <1>3
  DEF FieldsOK, ChildState, FillInv, Typed, WithList, LookupGivesUp, Goto, At,
      journalVars, exchangeVars, MarkProtected, Untrack, EndPass, SetBoth,
      MarketRejected, Halt, MarketUnknown, CloseFlattened, HaltFlattened, Stop, GoDown
<1>4. CASE OperatorReset \/ BootFails
  BY <1>4
  DEF FieldsOK, ChildState, OperatorReset, At, journalVars, exchangeVars, workerVars,
      BootFails, UnresolvedBuys, Unreconciled, Known, Nonterminal
<1>5. ASSUME NEW l \in Lot, Poll(l)
      PROVE  FieldsOK'
  BY <1>5
  DEF FieldsOK, ChildState, Poll, At, exchangeVars
<1>6. ASSUME NEW c \in Sell, RecoverMarket(c)
      PROVE  FieldsOK'
  BY <1>6
  DEF FieldsOK, ChildState, RecoverMarket, Goto, At, ProtectionFor, journalVars,
      exchangeVars
<1>7. ASSUME NEW c \in Sell, RecoverList(c)
      PROVE  FieldsOK'
  BY <1>7, ProtectionAssumption
  DEF FieldsOK, ChildState, FillInv, Typed, InPass, WithList, Reading, Selling,
      ProtectionAssumption, Sell, RecordedState, ListStatusType, RowsInv, Known,
      NoSell, RecoverList, ReadList, ProtectionFor, At, journalVars, exchangeVars
<1>8. CASE LegsActive
  BY <1>8, ProtectionAssumption
  DEF FieldsOK, ChildState, FillInv, Typed, InPass, WithList, Reading, Selling,
      ProtectionAssumption, Sell, RecordedState, ListStatusType, RowsInv, Known,
      NoSell, LegsActive, Untrack, EndPass, SetBoth, At, VerifyQuantities,
      exchangeVars
<1>9. CASE LegsClosed("legs", "exit")
  BY <1>9, ProtectionAssumption
  DEF FieldsOK, ChildState, FillInv, Typed, InPass, WithList, Reading, Selling,
      ProtectionAssumption, Sell, RecordedState, ListStatusType, RowsInv, Known,
      NoSell, LegsClosed, Goto, At, VerifyQuantities, Terminal, exchangeVars
<1>10. CASE LegsClosed("reuse-legs", "reuse-exit")
  BY <1>10, ProtectionAssumption
  DEF FieldsOK, ChildState, FillInv, Typed, InPass, WithList, Reading, Selling,
      ProtectionAssumption, Sell, RecordedState, ListStatusType, RowsInv, Known,
      NoSell, LegsClosed, Goto, At, VerifyQuantities, Terminal, exchangeVars
<1>11. CASE RecordPartialExit
  BY <1>11, ProtectionAssumption
  DEF FieldsOK, ChildState, FillInv, Typed, InPass, WithList, Reading, Selling,
      ProtectionAssumption, Sell, RecordedState, ListStatusType, RowsInv, Known,
      NoSell, RecordPartialExit, Goto, PartialExit, Reopen, At, exchangeVars
<1>12. ASSUME NEW p \in Price, PlanOco(p)
      PROVE  FieldsOK'
  BY <1>12, ProtectionAssumption
  DEF FieldsOK, ChildState, FillInv, Typed, InPass, WithList, Reading, Selling,
      ProtectionAssumption, Sell, RecordedState, ListStatusType, RowsInv, Known,
      NoSell, PlanOco, Goto, PrepareSell, At, ActiveOco, SellActive, Covered,
      exchangeVars
<1>13. ASSUME NEW p \in Price, NEW c \in Sell, ReuseList(p, c)
      PROVE  FieldsOK'
  BY <1>13, ProtectionAssumption
  DEF FieldsOK, ChildState, FillInv, Typed, InPass, WithList, Reading, Selling,
      ProtectionAssumption, Sell, RecordedState, ListStatusType, RowsInv, Known,
      NoSell, ReuseList, ReadList, At, ActiveOco, SellActive, Covered, journalVars,
      exchangeVars
<1>14. ASSUME NEW p \in Price, NEW c \in Sell, ReuseAbsent(p, c)
      PROVE  FieldsOK'
  BY <1>14
  DEF FieldsOK, ChildState, ReuseAbsent, Goto, At, ActiveOco, SellActive, Covered,
      exchangeVars
<1>15. ASSUME NEW c \in Sell, ReuseUnreadable(c)
      PROVE  FieldsOK'
  BY <1>15
  DEF FieldsOK, ChildState, ReuseUnreadable, Halt, EndPass, At, ActiveOco,
      SellActive, Covered, exchangeVars
<1>16. CASE ReuseCanceled
  <2>1. nextSell \in Sell /\ nextSell' = nextSell + 1
    BY <1>16, PlanningEffect DEF Planning, FillInv
  <2>2. sell \in Sell /\ cur \in Lot
    BY <1>16 DEF ReuseCanceled, At, FillInv, Typed, Reading, InPass
  <2>3. child' = [child EXCEPT ![sell] = "FAILED", ![nextSell] = "PREPARED"]
    BY <1>16 DEF ReuseCanceled
  <2>4. child' \in [Sell -> ChildState]
    BY <2>1, <2>2, <2>3 DEF FieldsOK, ChildState
  <2>5. parent' = [parent EXCEPT ![cur] = "PROTECTION_PENDING"]
    BY <1>16 DEF ReuseCanceled, PrepareSell
  <2>6. nextSell' \in 1..(MaxSells + 1)
    BY <2>1, ProtectionAssumption DEF ProtectionAssumption, Sell
  <2>7. sell' = nextSell /\ seen' = "none" /\ reply' = "none" /\ UNCHANGED <<cur, tracked>>
    BY <1>16 DEF ReuseCanceled, Goto
  <2>8. UNCHANGED <<legs, listed, exits, status, wire, halted, crashes, abandoned>>
    BY <1>16 DEF ReuseCanceled, exchangeVars
  <2>. QED BY <2>1, <2>2, <2>4, <2>5, <2>6, <2>7, <2>8 DEF FieldsOK
<1>17. CASE ReusePartial
  BY <1>17, ProtectionAssumption
  DEF FieldsOK, ChildState, FillInv, Typed, InPass, WithList, Reading, Selling,
      ProtectionAssumption, Sell, RecordedState, ListStatusType, RowsInv, Known,
      NoSell, ReusePartial, Halt, EndPass, PartialExit, Reopen, At, exchangeVars
<1>18. CASE ReuseActive
  BY <1>18, ProtectionAssumption
  DEF FieldsOK, ChildState, FillInv, Typed, InPass, WithList, Reading, Selling,
      ProtectionAssumption, Sell, RecordedState, ListStatusType, RowsInv, Known,
      NoSell, ReuseActive, Goto, At, VerifyQuantities, exchangeVars
<1>19. CASE ReuseProtected
  BY <1>19, ProtectionAssumption
  DEF FieldsOK, ChildState, FillInv, Typed, InPass, WithList, Reading, Selling,
      ProtectionAssumption, Sell, RecordedState, ListStatusType, RowsInv, Known,
      NoSell, ReuseProtected, Untrack, EndPass, SetBoth, At, exchangeVars
<1>20. CASE SendOco
  BY <1>20, ProtectionAssumption
  DEF FieldsOK, ChildState, FillInv, Typed, InPass, WithList, Reading, Selling,
      ProtectionAssumption, Sell, RecordedState, ListStatusType, RowsInv, Known,
      NoSell, SendOco, Goto, At, journalVars
<1>21. CASE RecordList
  BY <1>21, ProtectionAssumption
  DEF FieldsOK, ChildState, FillInv, Typed, InPass, WithList, Reading, Selling,
      ProtectionAssumption, Sell, RecordedState, ListStatusType, RowsInv, Known,
      NoSell, RecordList, Goto, At, exchangeVars
<1>22. CASE RecordLegs
  BY <1>22, ProtectionAssumption
  DEF FieldsOK, ChildState, FillInv, Typed, InPass, WithList, Reading, Selling,
      ProtectionAssumption, Sell, RecordedState, ListStatusType, RowsInv, Known,
      NoSell, RecordLegs, Goto, At, exchangeVars
<1>23. CASE PlanMarket
  BY <1>23, ProtectionAssumption
  DEF FieldsOK, ChildState, FillInv, Typed, InPass, WithList, Reading, Selling,
      ProtectionAssumption, Sell, RecordedState, ListStatusType, RowsInv, Known,
      NoSell, PlanMarket, Goto, PrepareSell, At, ActiveMarket, SellActive,
      exchangeVars
<1>24. ASSUME NEW c \in Sell, AdoptMarket(c)
      PROVE  FieldsOK'
  BY <1>24, ProtectionAssumption
  DEF FieldsOK, ChildState, FillInv, Typed, InPass, WithList, Reading, Selling,
      ProtectionAssumption, Sell, RecordedState, ListStatusType, RowsInv, Known,
      NoSell, AdoptMarket, Goto, At, ActiveMarket, SellActive, exchangeVars
<1>25. ASSUME NEW c \in Sell, MarketUnreadable(c)
      PROVE  FieldsOK'
  BY <1>25
  DEF FieldsOK, ChildState, MarketUnreadable, Halt, EndPass, At, ActiveMarket,
      SellActive, exchangeVars
<1>26. CASE SendMarket
  BY <1>26, ProtectionAssumption
  DEF FieldsOK, ChildState, FillInv, Typed, InPass, WithList, Reading, Selling,
      ProtectionAssumption, Sell, RecordedState, ListStatusType, RowsInv, Known,
      NoSell, SendMarket, Goto, At, journalVars
<1>27. CASE MarketAnswered
  BY <1>27, ProtectionAssumption
  DEF FieldsOK, ChildState, FillInv, Typed, InPass, WithList, Reading, Selling,
      ProtectionAssumption, Sell, RecordedState, ListStatusType, RowsInv, Known,
      NoSell, MarketAnswered, Goto, At, exchangeVars
<1>28. ASSUME NEW c \in Sell, OnFill(c)
      PROVE  FieldsOK'
  BY <1>28
  DEF FieldsOK, ChildState, OnFill, At, ExactExit, exchangeVars, workerVars
<1>29. ASSUME NEW l \in Lot, FillBuy(l)
      PROVE  FieldsOK'
  BY <1>29
  DEF FieldsOK, ChildState, FillBuy, journalVars, workerVars
<1>30. ASSUME NEW c \in Sell, Accept(c)
      PROVE  FieldsOK'
  BY <1>30
  DEF FieldsOK, ChildState, Accept, Answer, journalVars
<1>31. ASSUME NEW c \in Sell, Refuse(c)
      PROVE  FieldsOK'
  BY <1>31
  DEF FieldsOK, ChildState, Refuse, Answer, journalVars
<1>32. ASSUME NEW c \in Sell, Lose(c)
      PROVE  FieldsOK'
  BY <1>32
  DEF FieldsOK, ChildState, Lose, Answer, journalVars
<1>33. ASSUME NEW c \in Sell, Trade(c)
      PROVE  FieldsOK'
  BY <1>33
  DEF FieldsOK, ChildState, Trade, journalVars, workerVars, At
<1>34. ASSUME NEW c \in Sell, EndList(c)
      PROVE  FieldsOK'
  BY <1>34
  DEF FieldsOK, ChildState, EndList, journalVars, workerVars, At
<1>35. CASE Crash
  BY <1>35, ProtectionAssumption
  DEF FieldsOK, ChildState, FillInv, Typed, InPass, WithList, Reading, Selling,
      ProtectionAssumption, Sell, RecordedState, ListStatusType, RowsInv, Known,
      NoSell, Crash, GoDown, At, journalVars, exchangeVars
<1>36. CASE Boot
  BY <1>36, ProtectionAssumption
  DEF FieldsOK, ChildState, FillInv, Typed, InPass, WithList, Reading, Selling,
      ProtectionAssumption, Sell, RecordedState, ListStatusType, RowsInv, Known,
      NoSell, Boot, At, UnresolvedBuys, Unreconciled, Nonterminal, exchangeVars
<1>37. CASE UNCHANGED vars
  BY <1>37
  DEF FieldsOK, ChildState, vars
<1>. QED
  BY <1>1, <1>2, <1>3, <1>4, <1>5, <1>6, <1>7, <1>8, <1>9, <1>10, <1>11, <1>12,
     <1>13, <1>14, <1>15, <1>16, <1>17, <1>18, <1>19, <1>20, <1>21, <1>22, <1>23,
     <1>24, <1>25, <1>26, <1>27, <1>28, <1>29, <1>30, <1>31, <1>32, <1>33, <1>34,
     <1>35, <1>36, <1>37
  DEF Next, Worker, Recovery, PlaceOco, Flatten, Exchange, Restart

(* and the rows. *)
LEMMA RowsOKNext ==
    ASSUME PassUnits, RowsOK, PassUnits', [Next]_vars
    PROVE  RowsOK'
<1>1. CASE UNCHANGED <<nextSell, intent, exits, status, sold>>
  BY <1>1 DEF RowsOK, Row
<1>2. CASE Recorded
  <2>1. UNCHANGED intent
    BY <1>2, RecordedEffect DEF PassUnits, FillInv
  <2>. QED BY <2>1 DEF RowsOK, Row
<1>3. CASE Planning
  <2>1. PICK kind \in {"OCO", "MARKET"}, p \in Price \cup {NoPrice} :
           \E state : PrepareSell(kind, p, state)
    <3>1. CASE ReuseCanceled
      <4>1. PrepareSell("OCO", intent[sell].price, "PROTECTION_PENDING") /\ sell \in Sell
        BY <3>1 DEF ReuseCanceled, At, PassUnits, FillInv, Typed, Reading
      <4>2. intent[sell].price \in Price \cup {NoPrice}
        BY <4>1 DEF RowsOK, Row
      <4>. QED BY <4>1, <4>2
    <3>. QED BY <1>3, <3>1 DEF Planning, PlanOco, PlanMarket
  <2>2. /\ nextSell \in Sell /\ pc \in InPass
        /\ \A c \in Sell \ {nextSell} : intent'[c] = intent[c]
    BY <1>3, PlanningEffect DEF PassUnits, FillInv
  <2>3. intent'[nextSell] = [lot |-> cur, kind |-> kind, qty |-> Remaining(cur), price |-> p]
    BY <2>1, <2>2 DEF PrepareSell, PassUnits, FillInv, Typed
  <2>4. cur \in Lot
    BY <2>2 DEF PassUnits, FillInv, Typed
  <2>5. Remaining(cur) \in Nat
    <3>1. intent'[nextSell].qty \in Nat
      BY <2>2 DEF PassUnits, UnitsInv, UnitInv
    <3>. QED BY <2>3, <3>1
  <2>6. intent'[nextSell] \in Row
    BY <2>1, <2>3, <2>4, <2>5 DEF Row
  <2>7. \A c \in Sell : intent'[c] \in Row
    BY <2>2, <2>6 DEF RowsOK
  <2>. QED BY <2>7 DEF RowsOK, Row
<1>4. CASE Trading
  <2>1. UNCHANGED intent
    BY <1>4 DEF Trading, Accept, Trade, EndList, Answer, journalVars
  <2>. QED BY <2>1 DEF RowsOK, Row
<1>. QED BY <1>1, <1>2, <1>3, <1>4, RowsChange DEF RowsMove

TypeInv == PassUnits /\ FieldsOK /\ RowsOK

(* Columns, exchange states and worker fields keep their ranges, and no order sells *)
(* more than its quantity, for any lots, sizes, prices, sells and crashes.          *)
THEOREM ProtectionTypeCorrect == Spec => []TypeOK
<1>1. Init => TypeInv
  <2>. SUFFICES ASSUME Init PROVE TypeInv
    OBVIOUS
  <2>1. FieldsOK
    <3>1. nextSell \in 1..(MaxSells + 1) /\ crashes \in 0..MaxCrashes
      BY ProtectionAssumption DEF Init, ProtectionAssumption
    <3>2. child \in [Sell -> ChildState]
      BY DEF Init, ChildState
    <3>. QED BY <3>1, <3>2 DEF Init, FieldsOK, NoSell
  <2>2. RowsOK
    BY DEF Init, RowsOK, Row, NoIntent
  <2>. QED BY <2>1, <2>2, PassUnitsInit DEF TypeInv
<1>2. TypeInv /\ [Next]_vars => TypeInv'
  <2>. SUFFICES ASSUME TypeInv, [Next]_vars PROVE TypeInv'
    OBVIOUS
  <2>1. PassUnits /\ FieldsOK /\ RowsOK
    BY DEF TypeInv
  <2>2. PassUnits'
    BY <2>1, PassUnitsNext
  <2>3. FieldsOK'
    BY <2>1, FieldsNext DEF PassUnits
  <2>4. RowsOK'
    BY <2>1, <2>2, RowsOKNext
  <2>. QED BY <2>2, <2>3, <2>4 DEF TypeInv
<1>3. TypeInv => TypeOK
  <2>. SUFFICES ASSUME TypeInv PROVE TypeOK
    OBVIOUS
  <2>1. bought \subseteq Lot /\ pc \in WorkerPc
    BY DEF TypeInv, PassUnits, FillInv, Typed, InPass, WorkerPc
  <2>2. intent \in [Sell -> Row]
    <3>1. intent = [c \in Sell |-> intent[c]]
      BY DEF TypeInv, PassUnits, FillInv, Typed
    <3>. QED BY <3>1 DEF TypeInv, RowsOK
  <2>3. sold \in [Sell -> Nat]
    <3>1. sold = [c \in Sell |-> sold[c]]
      BY DEF TypeInv, PassUnits, FillInv, Typed
    <3>2. \A c \in Sell : sold[c] \in Nat
      BY DEF TypeInv, PassUnits, UnitsInv, UnitInv
    <3>. QED BY <3>1, <3>2
  <2>4. \A c \in Sell : sold[c] <= intent[c].qty
    BY DEF TypeInv, PassUnits, UnitsInv, UnitInv
  <2>5. FieldsOK
    BY DEF TypeInv
  <2>. QED BY <2>1, <2>2, <2>3, <2>4, <2>5 DEF TypeOK, FieldsOK, Row
<1>. QED BY <1>1, <1>2, <1>3, PTL DEF Spec

---------------------------------------------------------------------------
(* The sells of a lot follow each other *)

(* Nothing of the sell is on its way or at work, and what it sold is recorded. *)
Quiet(c) == /\ c \notin wire
            /\ \/ status[c] = "absent"
               \/ status[c] = "canceled" /\ (c \in exits \/ sold[c] = 0)
(* Nor is it a list that could be taken up again. *)
Settled(c) == Quiet(c) /\ (intent[c].kind = "OCO" => child[c] = "FAILED")
(* A pass goes on when a sell is settled, or when it gave it up. *)
Done(c) == Settled(c) \/ c \in abandoned

Sending == {"oco-prepared", "market-prepared"}
WithNewest == Sending \cup {"legs", "exit", "oco-posted", "oco-lookup", "record-list",
                            "record-legs", "record-protected"}
Reusing == {"reuse-legs", "reuse-exit", "reuse-protected"}
Deciding == Reusing \cup {"size", "flatten"}

(* A POST on its way is of a sell that is not on the exchange. *)
WireInv == \A c \in Sell : c \in wire => intent[c] # NoIntent /\ status[c] = "absent"
(* A pass with a list is done with the other sells of its lot, and has the *)
(* newest unless it sends again one that was given up.                     *)
NewestInv == pc \in WithNewest =>
                 /\ intent[sell].lot = cur
                 /\ \A c \in Sell \ {sell} : intent[c] # NoIntent /\ intent[c].lot = cur =>
                        Done(c) /\ (sell \in abandoned \/ c < sell)
(* What it is about to send is not on its way and sells the rest. *)
SendInv == pc \in Sending =>
               /\ sell \notin wire /\ status[sell] = "absent"
               /\ \A l \in Lot : l = cur => intent[sell].qty = Remaining(l)
(* What was refused is not on the exchange. *)
RefusedInv == pc = "oco-posted" /\ reply = "refused" => sell \notin wire /\ status[sell] = "absent"
(* It only takes up a list of its lot that was given up. *)
ReuseInv == pc \in Reusing /\ intent[sell].lot = cur => sell \in abandoned
(* When it decides on a sell, it is done with all sells of the lot. *)
PlanInv == pc \in Deciding =>
               \A c \in Sell : intent[c] # NoIntent /\ intent[c].lot = cur => Done(c)
PosInv == WireInv /\ NewestInv /\ SendInv /\ RefusedInv /\ ReuseInv /\ PlanInv

(* So of the sells of a lot that were not given up only the newest may be  *)
(* unsettled,                                                              *)
OlderInv == \A c, d \in Sell :
                intent[c] # NoIntent /\ intent[c].lot = intent[d].lot /\ c < d => Done(c)
(* while it is not quiet, it sells what remains of the lot,                *)
RestInv == \A c \in Sell \ abandoned, l \in Lot : intent[c].lot = l =>
               \/ Quiet(c)
               \/ c \notin exits /\ intent[c].qty = Remaining(l)
(* what exits recorded of them is no more than the lot bought,             *)
KeptExits(l) == (exits \cap ChildrenOf(l)) \ abandoned
FloorInv == \A l \in Lot : SumFunctionOnSet(sold, KeptExits(l)) <= Size[l]
(* and every sell covers what remains, which only shrinks.                 *)
CoverInv == \A c \in Sell, l \in Lot :
                intent[c] # NoIntent /\ intent[c].lot = l => Remaining(l) <= intent[c].qty

(* The invariant of the sells of a lot. *)
ChainInv == /\ PassUnits /\ FieldsOK /\ ListInv /\ PosInv
            /\ OlderInv /\ RestInv /\ FloorInv /\ CoverInv

(* What planning leaves behind: a sell of the lot that is newer than all others, *)
(* has not been sent and sells what remains.                                       *)
LEMMA PlannedIsNew ==
    ASSUME PassUnits, WireInv, Planning
    PROVE  /\ nextSell \in Sell /\ sell' = nextSell /\ cur' = cur /\ cur \in Lot /\ pc' \in Sending
           /\ intent[nextSell] = NoIntent
           /\ intent'[nextSell].lot = cur /\ intent'[nextSell].qty = Remaining(cur)
           /\ nextSell \notin wire /\ status[nextSell] = "absent"
           /\ UNCHANGED <<wire, status, sold, exits>>
           /\ \A c \in Sell : intent[c] # NoIntent => c < nextSell
           /\ \A c \in Sell \ {nextSell} : intent'[c] = intent[c]
           /\ \A l \in Lot : Remaining(l)' = Remaining(l)
<1>1. /\ pc \in InPass /\ nextSell \in Sell /\ sell' = nextSell /\ cur' = cur
      /\ intent[nextSell] = NoIntent /\ intent'[nextSell].lot = cur
      /\ pc' \in Sending /\ UNCHANGED <<status, sold, exits>>
  BY PlanningEffect DEF PassUnits, FillInv, Sending
<1>2. UNCHANGED wire
  BY DEF Planning, PlanOco, ReuseCanceled, PlanMarket, exchangeVars
<1>3. \A c \in Sell \ {nextSell} : intent'[c] = intent[c]
  BY PlanningEffect DEF PassUnits, FillInv
<1>4. \A c \in Sell : intent[c] # NoIntent => c < nextSell
  BY <1>1 DEF PassUnits, FillInv, RowsInv, Sell
<1>5. PICK kind, p, state : PrepareSell(kind, p, state)
  BY DEF Planning, PlanOco, ReuseCanceled, PlanMarket
<1>6. intent'[nextSell].qty = Remaining(cur)
  BY <1>1, <1>5, PrepareEffect DEF PassUnits, FillInv
<1>7. status[nextSell] = "absent"
  BY <1>1 DEF PassUnits, UnitsInv, UnitInv
<1>8. nextSell \notin wire
  BY <1>1 DEF WireInv
<1>9. cur \in Lot
  BY <1>1 DEF PassUnits, FillInv, Typed
<1>10. \A l \in Lot : Remaining(l)' = Remaining(l)
  BY PlanningKeepsExits DEF PassUnits, FillInv
<1>. QED BY <1>1, <1>2, <1>3, <1>4, <1>6, <1>7, <1>8, <1>9, <1>10

(* Every step keeps what may be on its way, *)
LEMMA WireNext ==
    ASSUME PassUnits, ListInv, PosInv, OlderInv, [Next]_vars
    PROVE  WireInv'
<1>1. CASE \/ StepFails \/ PollFails \/ RecoverNothing \/ LegsActive
           \/ LegsEndedMeanwhile \/ LegsCanceled
  BY <1>1
  DEF WireInv, PosInv, StepFails, Halt, EndPass, journalVars, exchangeVars,
      PollFails, At, RecoverNothing, Goto, ProtectionFor, LegsActive, Untrack,
      SetBoth, VerifyQuantities, LegsEndedMeanwhile, Terminal, LegsCanceled, Reopen
<1>2. CASE \/ LegsClosed("legs", "exit")
           \/ LegsClosed("reuse-legs", "reuse-exit") \/ CloseExact
           \/ RecordPartialExit \/ NothingLeft \/ PlanCrossed
  BY <1>2
  DEF WireInv, PosInv, LegsClosed, Goto, At, VerifyQuantities, Terminal,
      exchangeVars, CloseExact, Untrack, EndPass, SetBoth, ExactExit,
      RecordPartialExit, PartialExit, Reopen, NothingLeft, journalVars, PlanCrossed,
      Covered
<1>3. CASE \/ ReusePartial \/ ReuseActive \/ ReuseProtected \/ OcoVerified
           \/ OcoRejected \/ OcoUnknown
  BY <1>3
  DEF WireInv, PosInv, ReusePartial, Halt, EndPass, PartialExit, Reopen, At,
      exchangeVars, ReuseActive, Goto, VerifyQuantities, ReuseProtected, Untrack,
      SetBoth, OcoVerified, journalVars, OcoRejected, OcoUnknown
<1>4. CASE \/ LookupFindsOco \/ LookupGivesUp \/ RecordList \/ RecordLegs
           \/ MarkProtected \/ MarketAnswered
  BY <1>4
  DEF WireInv, PosInv, LookupFindsOco, Goto, At, VerifyQuantities, journalVars,
      exchangeVars, LookupGivesUp, RecordList, RecordLegs, MarkProtected, Untrack,
      EndPass, SetBoth, MarketAnswered
<1>5. CASE \/ MarketRejected \/ MarketUnknown \/ CloseFlattened \/ HaltFlattened \/ Crash \/ Stop
           \/ OperatorReset
  BY <1>5
  DEF WireInv, PosInv, MarketRejected, Halt, EndPass, At, exchangeVars, MarketUnknown,
      Goto, CloseFlattened, HaltFlattened, Untrack, Crash, GoDown, journalVars, Stop,
      OperatorReset, workerVars
<1>6. CASE Boot \/ BootFails
  BY <1>6
  DEF WireInv, PosInv, Boot, At, UnresolvedBuys, Unreconciled, Known, Nonterminal,
      exchangeVars, BootFails, workerVars
<1>7. ASSUME NEW l \in Lot, Poll(l)
      PROVE  WireInv'
  BY <1>7
  DEF WireInv, PosInv, Poll, At, exchangeVars
<1>8. ASSUME NEW c \in Sell, RecoverMarket(c)
      PROVE  WireInv'
  BY <1>8
  DEF WireInv, PosInv, RecoverMarket, Goto, At, ProtectionFor, journalVars,
      exchangeVars
<1>9. ASSUME NEW c \in Sell, RecoverList(c)
      PROVE  WireInv'
  BY <1>9
  DEF WireInv, PosInv, RecoverList, ReadList, ProtectionFor, At, journalVars,
      exchangeVars
<1>10. ASSUME NEW p \in Price, PlanOco(p)
      PROVE  WireInv'
  <2>1. Planning
    BY <1>10 DEF Planning
  <2>. QED BY <2>1, PlannedIsNew DEF WireInv, PosInv
<1>11. ASSUME NEW p \in Price, NEW c \in Sell, ReuseList(p, c)
      PROVE  WireInv'
  BY <1>11
  DEF WireInv, PosInv, ReuseList, ReadList, At, ActiveOco, SellActive, Covered,
      journalVars, exchangeVars
<1>12. ASSUME NEW p \in Price, NEW c \in Sell, ReuseAbsent(p, c)
      PROVE  WireInv'
  BY <1>12
  DEF WireInv, PosInv, ReuseAbsent, Goto, At, ActiveOco, SellActive, Covered,
      exchangeVars
<1>13. ASSUME NEW c \in Sell, ReuseUnreadable(c)
      PROVE  WireInv'
  BY <1>13
  DEF WireInv, PosInv, ReuseUnreadable, Halt, EndPass, At, ActiveOco, SellActive,
      Covered, exchangeVars
<1>14. CASE ReuseCanceled
  <2>1. Planning
    BY <1>14 DEF Planning
  <2>. QED BY <2>1, PlannedIsNew DEF WireInv, PosInv
<1>15. CASE SendOco
  BY <1>15, ProtectionAssumption
  DEF WireInv, PosInv, PassUnits, FillInv, Typed, UnitsInv, UnitInv, NewestInv,
      SendInv, Sending, WithNewest, InPass, ProtectionAssumption, NoIntent, SendOco,
      Goto, At, journalVars
<1>16. CASE PlanMarket
  <2>1. Planning
    BY <1>16 DEF Planning
  <2>. QED BY <2>1, PlannedIsNew DEF WireInv, PosInv
<1>17. ASSUME NEW c \in Sell, AdoptMarket(c)
      PROVE  WireInv'
  BY <1>17
  DEF WireInv, PosInv, AdoptMarket, Goto, At, ActiveMarket, SellActive, exchangeVars
<1>18. ASSUME NEW c \in Sell, MarketUnreadable(c)
      PROVE  WireInv'
  BY <1>18
  DEF WireInv, PosInv, MarketUnreadable, Halt, EndPass, At, ActiveMarket, SellActive,
      exchangeVars
<1>19. CASE SendMarket
  BY <1>19, ProtectionAssumption
  DEF WireInv, PosInv, PassUnits, FillInv, Typed, UnitsInv, UnitInv, NewestInv,
      SendInv, Sending, WithNewest, InPass, ProtectionAssumption, NoIntent,
      SendMarket, Goto, At, journalVars
<1>20. ASSUME NEW c \in Sell, OnFill(c)
      PROVE  WireInv'
  BY <1>20
  DEF WireInv, PosInv, OnFill, At, ExactExit, exchangeVars, workerVars
<1>21. ASSUME NEW l \in Lot, FillBuy(l)
      PROVE  WireInv'
  BY <1>21
  DEF WireInv, PosInv, FillBuy, journalVars, workerVars
<1>22. ASSUME NEW c \in Sell, Accept(c)
      PROVE  WireInv'
  BY <1>22, ProtectionAssumption
  DEF WireInv, PosInv, PassUnits, FillInv, Typed, UnitsInv, UnitInv, NewestInv,
      SendInv, Sending, WithNewest, InPass, ProtectionAssumption, NoIntent, Accept,
      Answer, journalVars
<1>23. ASSUME NEW c \in Sell, Refuse(c)
      PROVE  WireInv'
  BY <1>23
  DEF WireInv, PosInv, Refuse, Answer, journalVars
<1>24. ASSUME NEW c \in Sell, Lose(c)
      PROVE  WireInv'
  BY <1>24
  DEF WireInv, PosInv, Lose, Answer, journalVars
<1>25. ASSUME NEW c \in Sell, Trade(c)
      PROVE  WireInv'
  BY <1>25
  DEF WireInv, PosInv, Trade, journalVars, workerVars, At
<1>26. ASSUME NEW c \in Sell, EndList(c)
      PROVE  WireInv'
  BY <1>26
  DEF WireInv, PosInv, EndList, journalVars, workerVars, At
<1>27. CASE UNCHANGED vars
  BY <1>27
  DEF WireInv, PosInv, vars
<1>. QED
  BY <1>1, <1>2, <1>3, <1>4, <1>5, <1>6, <1>7, <1>8, <1>9, <1>10, <1>11, <1>12,
     <1>13, <1>14, <1>15, <1>16, <1>17, <1>18, <1>19, <1>20, <1>21, <1>22, <1>23,
     <1>24, <1>25, <1>26, <1>27
  DEF Next, Worker, Recovery, PlaceOco, Flatten, Exchange, Restart

(* what is about to be sent, *)
LEMMA SendNext ==
    ASSUME PassUnits, ListInv, PosInv, OlderInv, [Next]_vars
    PROVE  SendInv'
<1>1. CASE \/ StepFails \/ PollFails \/ RecoverNothing \/ LegsActive
           \/ LegsEndedMeanwhile \/ LegsCanceled
  BY <1>1, RemainingNext
  DEF SendInv, Sending, PosInv, KeepsRemaining, PassUnits, FillInv, StepFails, Halt,
      EndPass, journalVars, exchangeVars, PollFails, At, RecoverNothing, Goto,
      ProtectionFor, LegsActive, Untrack, SetBoth, VerifyQuantities,
      LegsEndedMeanwhile, Terminal, LegsCanceled, Reopen
<1>2. CASE \/ LegsClosed("legs", "exit")
           \/ LegsClosed("reuse-legs", "reuse-exit") \/ CloseExact
           \/ RecordPartialExit \/ NothingLeft \/ PlanCrossed
  BY <1>2, RemainingNext
  DEF SendInv, Sending, PosInv, KeepsRemaining, PassUnits, FillInv, LegsClosed, Goto,
      At, VerifyQuantities, Terminal, exchangeVars, CloseExact, Untrack, EndPass,
      SetBoth, ExactExit, RecordPartialExit, PartialExit, Reopen, NothingLeft,
      journalVars, PlanCrossed, Covered
<1>3. CASE \/ ReusePartial \/ ReuseActive \/ ReuseProtected \/ SendOco
           \/ OcoVerified \/ OcoRejected
  BY <1>3, RemainingNext
  DEF SendInv, Sending, PosInv, KeepsRemaining, PassUnits, FillInv, ReusePartial,
      Halt, EndPass, PartialExit, Reopen, At, exchangeVars, ReuseActive, Goto,
      VerifyQuantities, ReuseProtected, Untrack, SetBoth, SendOco, journalVars,
      OcoVerified, OcoRejected
<1>4. CASE \/ OcoUnknown \/ LookupFindsOco \/ LookupGivesUp \/ RecordList
           \/ RecordLegs \/ MarkProtected
  BY <1>4, RemainingNext
  DEF SendInv, Sending, PosInv, KeepsRemaining, PassUnits, FillInv, OcoUnknown, Goto,
      At, exchangeVars, LookupFindsOco, VerifyQuantities, journalVars, LookupGivesUp,
      RecordList, RecordLegs, MarkProtected, Untrack, EndPass, SetBoth
<1>5. CASE \/ SendMarket \/ MarketAnswered \/ MarketRejected \/ MarketUnknown
           \/ CloseFlattened \/ HaltFlattened \/ Crash
  BY <1>5, RemainingNext
  DEF SendInv, Sending, PosInv, KeepsRemaining, PassUnits, FillInv, SendMarket, Goto,
      At, journalVars, MarketAnswered, exchangeVars, MarketRejected, Halt, EndPass,
      MarketUnknown, CloseFlattened, HaltFlattened, Untrack, Crash, GoDown
<1>6. CASE Stop \/ OperatorReset \/ Boot \/ BootFails
  BY <1>6, RemainingNext
  DEF SendInv, Sending, PosInv, KeepsRemaining, PassUnits, FillInv, Stop, GoDown, At,
      journalVars, exchangeVars, OperatorReset, workerVars, Boot, UnresolvedBuys,
      Unreconciled, Known, Nonterminal, BootFails
<1>7. ASSUME NEW l \in Lot, Poll(l)
      PROVE  SendInv'
  BY <1>7, RemainingNext
  DEF SendInv, Sending, PosInv, KeepsRemaining, PassUnits, FillInv, Poll, At,
      exchangeVars
<1>8. ASSUME NEW c \in Sell, RecoverMarket(c)
      PROVE  SendInv'
  BY <1>8, RemainingNext
  DEF SendInv, Sending, PosInv, KeepsRemaining, PassUnits, FillInv, RecoverMarket,
      Goto, At, ProtectionFor, journalVars, exchangeVars
<1>9. ASSUME NEW c \in Sell, RecoverList(c)
      PROVE  SendInv'
  BY <1>9, RemainingNext
  DEF SendInv, Sending, PosInv, KeepsRemaining, PassUnits, FillInv, RecoverList,
      ReadList, ProtectionFor, At, journalVars, exchangeVars
<1>10. ASSUME NEW p \in Price, PlanOco(p)
      PROVE  SendInv'
  <2>1. Planning
    BY <1>10 DEF Planning
  <2>. QED BY <2>1, PlannedIsNew DEF SendInv, PosInv
<1>11. ASSUME NEW p \in Price, NEW c \in Sell, ReuseList(p, c)
      PROVE  SendInv'
  BY <1>11, RemainingNext
  DEF SendInv, Sending, PosInv, KeepsRemaining, PassUnits, FillInv, ReuseList,
      ReadList, At, ActiveOco, SellActive, Covered, journalVars, exchangeVars
<1>12. ASSUME NEW p \in Price, NEW c \in Sell, ReuseAbsent(p, c)
      PROVE  SendInv'
  BY <1>12, RemainingNext
  DEF SendInv, Sending, PosInv, KeepsRemaining, PassUnits, FillInv, Typed, InPass,
      ActiveOco, Known, Newest, Absent,
      WireInv, ReuseAbsent, Goto, At, SellActive, Covered, exchangeVars
<1>13. ASSUME NEW c \in Sell, ReuseUnreadable(c)
      PROVE  SendInv'
  BY <1>13, RemainingNext
  DEF SendInv, Sending, PosInv, KeepsRemaining, PassUnits, FillInv, ReuseUnreadable,
      Halt, EndPass, At, ActiveOco, SellActive, Covered, exchangeVars
<1>14. CASE ReuseCanceled
  <2>1. Planning
    BY <1>14 DEF Planning
  <2>. QED BY <2>1, PlannedIsNew DEF SendInv, PosInv
<1>15. CASE PlanMarket
  <2>1. Planning
    BY <1>15 DEF Planning
  <2>. QED BY <2>1, PlannedIsNew DEF SendInv, PosInv
<1>16. ASSUME NEW c \in Sell, AdoptMarket(c)
      PROVE  SendInv'
  BY <1>16, RemainingNext
  DEF SendInv, Sending, PosInv, KeepsRemaining, PassUnits, FillInv, AdoptMarket,
      Goto, At, ActiveMarket, SellActive, exchangeVars
<1>17. ASSUME NEW c \in Sell, MarketUnreadable(c)
      PROVE  SendInv'
  BY <1>17, RemainingNext
  DEF SendInv, Sending, PosInv, KeepsRemaining, PassUnits, FillInv, MarketUnreadable,
      Halt, EndPass, At, ActiveMarket, SellActive, exchangeVars
<1>18. ASSUME NEW c \in Sell, OnFill(c)
      PROVE  SendInv'
  BY <1>18, RemainingNext
  DEF SendInv, Sending, PosInv, KeepsRemaining, PassUnits, FillInv, OnFill, At,
      ExactExit, exchangeVars, workerVars
<1>19. ASSUME NEW l \in Lot, FillBuy(l)
      PROVE  SendInv'
  BY <1>19, RemainingNext
  DEF SendInv, Sending, PosInv, KeepsRemaining, PassUnits, FillInv, FillBuy,
      journalVars, workerVars
<1>20. ASSUME NEW c \in Sell, Accept(c)
      PROVE  SendInv'
  <2>1. /\ c \in wire /\ wire' = wire \ {c} /\ status[c] = "absent"
        /\ \A d \in Sell \ {c} : status'[d] = status[d]
        /\ UNCHANGED <<intent, pc, cur, sell>>
    BY <1>20, AcceptEffect DEF Accept, Answer, PassUnits, FillInv, journalVars
  <2>2. pc \in Sending => sell \in Sell /\ pc \notin {"exit", "reuse-exit"}
    BY DEF PassUnits, FillInv, Typed, Sending, WithList, Selling
  <2>3. \A l \in Lot : pc \in Sending => Remaining(l)' = Remaining(l)
    BY <2>2, RemainingNext DEF KeepsRemaining, PassUnits, FillInv
  <2>. QED BY <2>1, <2>2, <2>3 DEF SendInv, PosInv
<1>21. ASSUME NEW c \in Sell, Refuse(c)
      PROVE  SendInv'
  BY <1>21, RemainingNext
  DEF SendInv, Sending, PosInv, KeepsRemaining, PassUnits, FillInv, Refuse, Answer,
      journalVars
<1>22. ASSUME NEW c \in Sell, Lose(c)
      PROVE  SendInv'
  BY <1>22, RemainingNext
  DEF SendInv, Sending, PosInv, KeepsRemaining, PassUnits, FillInv, Lose, Answer,
      journalVars
<1>23. ASSUME NEW c \in Sell, Trade(c)
      PROVE  SendInv'
  BY <1>23, RemainingNext
  DEF SendInv, Sending, PosInv, KeepsRemaining, PassUnits, FillInv, Trade, 
      journalVars, workerVars, At
<1>24. ASSUME NEW c \in Sell, EndList(c)
      PROVE  SendInv'
  BY <1>24, RemainingNext
  DEF SendInv, Sending, PosInv, KeepsRemaining, PassUnits, FillInv, EndList, 
      journalVars, workerVars, At
<1>25. CASE UNCHANGED vars
  BY <1>25, RemainingNext
  DEF SendInv, Sending, PosInv, KeepsRemaining, PassUnits, FillInv, vars
<1>. QED
  BY <1>1, <1>2, <1>3, <1>4, <1>5, <1>6, <1>7, <1>8, <1>9, <1>10, <1>11, <1>12,
     <1>13, <1>14, <1>15, <1>16, <1>17, <1>18, <1>19, <1>20, <1>21, <1>22, <1>23,
     <1>24, <1>25
  DEF Next, Worker, Recovery, PlaceOco, Flatten, Exchange, Restart

(* what was refused, *)
LEMMA RefusedNext ==
    ASSUME PassUnits, ListInv, PosInv, OlderInv, [Next]_vars
    PROVE  RefusedInv'
<1>1. CASE \/ StepFails \/ PollFails \/ RecoverNothing \/ LegsActive
           \/ LegsEndedMeanwhile \/ LegsCanceled
  BY <1>1
  DEF RefusedInv, PosInv, StepFails, Halt, EndPass, journalVars, exchangeVars,
      PollFails, At, RecoverNothing, Goto, ProtectionFor, LegsActive, Untrack,
      SetBoth, VerifyQuantities, LegsEndedMeanwhile, Terminal, LegsCanceled, Reopen
<1>2. CASE \/ LegsClosed("legs", "exit")
           \/ LegsClosed("reuse-legs", "reuse-exit") \/ CloseExact
           \/ RecordPartialExit \/ NothingLeft \/ PlanCrossed
  BY <1>2
  DEF RefusedInv, PosInv, LegsClosed, Goto, At, VerifyQuantities, Terminal,
      exchangeVars, CloseExact, Untrack, EndPass, SetBoth, ExactExit,
      RecordPartialExit, PartialExit, Reopen, NothingLeft, journalVars, PlanCrossed,
      Covered
<1>3. CASE \/ ReuseCanceled \/ ReusePartial \/ ReuseActive \/ ReuseProtected
           \/ SendOco \/ OcoVerified
  BY <1>3
  DEF RefusedInv, PosInv, ReuseCanceled, Goto, PrepareSell, At, VerifyQuantities,
      exchangeVars, ReusePartial, Halt, EndPass, PartialExit, Reopen, ReuseActive,
      ReuseProtected, Untrack, SetBoth, SendOco, journalVars, OcoVerified
<1>4. CASE \/ OcoRejected \/ OcoUnknown \/ LookupFindsOco \/ LookupGivesUp
           \/ RecordList \/ RecordLegs
  BY <1>4
  DEF RefusedInv, PosInv, OcoRejected, Goto, Reopen, At, exchangeVars, OcoUnknown,
      LookupFindsOco, VerifyQuantities, journalVars, LookupGivesUp, RecordList,
      RecordLegs
<1>5. CASE \/ MarkProtected \/ PlanMarket \/ SendMarket \/ MarketAnswered
           \/ MarketRejected \/ MarketUnknown
  BY <1>5
  DEF RefusedInv, PosInv, MarkProtected, Untrack, EndPass, SetBoth, At, exchangeVars,
      PlanMarket, Goto, PrepareSell, ActiveMarket, SellActive, SendMarket,
      journalVars, MarketAnswered, MarketRejected, Halt, MarketUnknown
<1>6. CASE \/ CloseFlattened \/ HaltFlattened \/ Crash \/ Stop \/ OperatorReset \/ Boot
           \/ BootFails
  BY <1>6
  DEF RefusedInv, PosInv, CloseFlattened, HaltFlattened, Goto, Untrack, EndPass, At,
      exchangeVars, Crash, GoDown, journalVars, Stop, OperatorReset, workerVars, Boot,
      UnresolvedBuys, Unreconciled, Known, Nonterminal, BootFails
<1>7. ASSUME NEW l \in Lot, Poll(l)
      PROVE  RefusedInv'
  BY <1>7
  DEF RefusedInv, PosInv, Poll, At, exchangeVars
<1>8. ASSUME NEW c \in Sell, RecoverMarket(c)
      PROVE  RefusedInv'
  BY <1>8
  DEF RefusedInv, PosInv, RecoverMarket, Goto, At, ProtectionFor, journalVars,
      exchangeVars
<1>9. ASSUME NEW c \in Sell, RecoverList(c)
      PROVE  RefusedInv'
  BY <1>9
  DEF RefusedInv, PosInv, RecoverList, ReadList, ProtectionFor, At, journalVars,
      exchangeVars
<1>10. ASSUME NEW p \in Price, PlanOco(p)
      PROVE  RefusedInv'
  BY <1>10
  DEF RefusedInv, PosInv, PlanOco, Goto, PrepareSell, At, ActiveOco, SellActive,
      Covered, exchangeVars
<1>11. ASSUME NEW p \in Price, NEW c \in Sell, ReuseList(p, c)
      PROVE  RefusedInv'
  BY <1>11
  DEF RefusedInv, PosInv, ReuseList, ReadList, At, ActiveOco, SellActive, Covered,
      journalVars, exchangeVars
<1>12. ASSUME NEW p \in Price, NEW c \in Sell, ReuseAbsent(p, c)
      PROVE  RefusedInv'
  BY <1>12
  DEF RefusedInv, PosInv, ReuseAbsent, Goto, At, ActiveOco, SellActive, Covered,
      exchangeVars
<1>13. ASSUME NEW c \in Sell, ReuseUnreadable(c)
      PROVE  RefusedInv'
  BY <1>13
  DEF RefusedInv, PosInv, ReuseUnreadable, Halt, EndPass, At, ActiveOco, SellActive,
      Covered, exchangeVars
<1>14. ASSUME NEW c \in Sell, AdoptMarket(c)
      PROVE  RefusedInv'
  BY <1>14
  DEF RefusedInv, PosInv, AdoptMarket, Goto, At, ActiveMarket, SellActive,
      exchangeVars
<1>15. ASSUME NEW c \in Sell, MarketUnreadable(c)
      PROVE  RefusedInv'
  BY <1>15
  DEF RefusedInv, PosInv, MarketUnreadable, Halt, EndPass, At, ActiveMarket,
      SellActive, exchangeVars
<1>16. ASSUME NEW c \in Sell, OnFill(c)
      PROVE  RefusedInv'
  BY <1>16
  DEF RefusedInv, PosInv, OnFill, At, ExactExit, exchangeVars, workerVars
<1>17. ASSUME NEW l \in Lot, FillBuy(l)
      PROVE  RefusedInv'
  BY <1>17
  DEF RefusedInv, PosInv, FillBuy, journalVars, workerVars
<1>18. ASSUME NEW c \in Sell, Accept(c)
      PROVE  RefusedInv'
  BY <1>18
  DEF RefusedInv, PosInv, PassUnits, FillInv, Typed, WithList,
      Waiting, Accept, Answer, journalVars
<1>19. ASSUME NEW c \in Sell, Refuse(c)
      PROVE  RefusedInv'
  BY <1>19
  DEF RefusedInv, PosInv, PassUnits, FillInv, Typed, WithList,
      Waiting, Refuse, Answer, journalVars
<1>20. ASSUME NEW c \in Sell, Lose(c)
      PROVE  RefusedInv'
  BY <1>20
  DEF RefusedInv, PosInv, Lose, Answer, journalVars
<1>21. ASSUME NEW c \in Sell, Trade(c)
      PROVE  RefusedInv'
  BY <1>21
  DEF RefusedInv, PosInv, Trade, journalVars, workerVars, At
<1>22. ASSUME NEW c \in Sell, EndList(c)
      PROVE  RefusedInv'
  BY <1>22
  DEF RefusedInv, PosInv, EndList, journalVars, workerVars, At
<1>23. CASE UNCHANGED vars
  BY <1>23
  DEF RefusedInv, PosInv, vars
<1>. QED
  BY <1>1, <1>2, <1>3, <1>4, <1>5, <1>6, <1>7, <1>8, <1>9, <1>10, <1>11, <1>12,
     <1>13, <1>14, <1>15, <1>16, <1>17, <1>18, <1>19, <1>20, <1>21, <1>22, <1>23
  DEF Next, Worker, Recovery, PlaceOco, Flatten, Exchange, Restart

(* Where a pass comes from: it holds a list it planned, read or sends again; it takes *)
(* up a list; or it decides after a start, a list that has ended, a refusal or a list *)
(* it gave up.  What was given up stays so.                                           *)
Stays(S) == pc \in S /\ UNCHANGED <<cur, sell, intent>>
Positions ==
    /\ abandoned \subseteq abandoned'
    /\ pc' \in WithNewest => \/ Stays(WithNewest)
                             \/ Planning
                             \/ \E c \in Sell : RecoverList(c)
                             \/ \E p \in Price, c \in Sell : ReuseAbsent(p, c)
    /\ pc' \in Reusing => Stays(Reusing) \/ \E p \in Price, c \in Sell : ReuseList(p, c)
    /\ pc' \in Deciding => \/ RecoverNothing \/ (\E c \in Sell : RecoverMarket(c))
                           \/ LegsEndedMeanwhile \/ LegsCanceled \/ RecordPartialExit
                           \/ OcoRejected \/ LookupGivesUp
                           \/ (pc \in Deciding /\ UNCHANGED <<cur, intent>>)

(* No step leads elsewhere. *)
LEMMA EveryPosition ==
    ASSUME [Next]_vars
    PROVE  Positions
<1>1. CASE \/ StepFails \/ PollFails \/ RecoverNothing \/ LegsActive
           \/ LegsCanceled \/ LegsClosed("legs", "exit")
  BY <1>1
  DEF Positions, Stays, WithNewest, Sending, Deciding, Reusing, StepFails, Halt,
      EndPass, journalVars, exchangeVars, PollFails, At, RecoverNothing, Goto,
      ProtectionFor, LegsActive, Untrack, SetBoth, VerifyQuantities, LegsCanceled,
      Reopen, LegsClosed, Terminal
<1>2. CASE \/ LegsClosed("reuse-legs", "reuse-exit") \/ CloseExact
           \/ RecordPartialExit \/ NothingLeft \/ PlanCrossed
  BY <1>2
  DEF Positions, Stays, WithNewest, Sending, Deciding, Reusing, LegsClosed, Goto, At,
      VerifyQuantities, Terminal, exchangeVars, CloseExact, Untrack, EndPass, SetBoth,
      ExactExit, RecordPartialExit, PartialExit, Reopen, NothingLeft, journalVars,
      PlanCrossed, Covered
<1>3. CASE \/ ReusePartial \/ ReuseActive \/ ReuseProtected \/ SendOco
           \/ OcoVerified \/ OcoRejected
  BY <1>3
  DEF Positions, Stays, WithNewest, Sending, Deciding, Reusing, ReusePartial, Halt,
      EndPass, PartialExit, Reopen, At, exchangeVars, ReuseActive, Goto,
      VerifyQuantities, ReuseProtected, Untrack, SetBoth, SendOco, journalVars,
      OcoVerified, OcoRejected
<1>4. CASE \/ OcoUnknown \/ LookupFindsOco \/ RecordList \/ RecordLegs
           \/ MarkProtected
  BY <1>4
  DEF Positions, Stays, WithNewest, Sending, Deciding, Reusing, OcoUnknown, Goto, At,
      exchangeVars, LookupFindsOco, VerifyQuantities, journalVars, RecordList,
      RecordLegs, MarkProtected, Untrack, EndPass, SetBoth
<1>5. CASE \/ SendMarket \/ MarketAnswered \/ MarketRejected \/ MarketUnknown
           \/ CloseFlattened \/ HaltFlattened \/ Crash
  BY <1>5
  DEF Positions, Stays, WithNewest, Sending, Deciding, Reusing, SendMarket, Goto, At,
      journalVars, MarketAnswered, exchangeVars, MarketRejected, Halt, EndPass,
      MarketUnknown, CloseFlattened, HaltFlattened, Untrack, Crash, GoDown
<1>6. CASE Stop \/ OperatorReset \/ Boot \/ BootFails
  BY <1>6
  DEF Positions, Stays, WithNewest, Sending, Deciding, Reusing, Stop, GoDown, At,
      journalVars, exchangeVars, OperatorReset, workerVars, Boot, UnresolvedBuys,
      Unreconciled, Known, Nonterminal, BootFails
<1>7. ASSUME NEW l \in Lot, Poll(l)
      PROVE  Positions
  BY <1>7
  DEF Positions, Stays, WithNewest, Sending, Deciding, Reusing, Poll, At, exchangeVars
<1>8. ASSUME NEW c \in Sell, RecoverMarket(c)
      PROVE  Positions
  BY <1>8
  DEF Positions, Stays, WithNewest, Sending, Deciding, Reusing, RecoverMarket, Goto,
      At, ProtectionFor, journalVars, exchangeVars
<1>9. ASSUME NEW c \in Sell, RecoverList(c)
      PROVE  Positions
  BY <1>9
  DEF Positions, Stays, WithNewest, Sending, Deciding, Reusing, RecoverList, ReadList,
      ProtectionFor, At, journalVars, exchangeVars
<1>10. CASE LegsEndedMeanwhile
  BY <1>10
  DEF Positions, Stays, WithNewest, Sending, Deciding, Reusing, LegsEndedMeanwhile,
      Goto, At, VerifyQuantities, journalVars, exchangeVars
<1>11. ASSUME NEW p \in Price, PlanOco(p)
      PROVE  Positions
  BY <1>11
  DEF Positions, Stays, WithNewest, Sending, Deciding, Reusing, Planning, PlanOco,
      Goto, PrepareSell, At, ActiveOco, SellActive, Covered, exchangeVars
<1>12. ASSUME NEW p \in Price, NEW c \in Sell, ReuseList(p, c)
      PROVE  Positions
  BY <1>12
  DEF Positions, Stays, WithNewest, Sending, Deciding, Reusing, ReuseList, ReadList,
      At, ActiveOco, SellActive, Covered, journalVars, exchangeVars
<1>13. ASSUME NEW p \in Price, NEW c \in Sell, ReuseAbsent(p, c)
      PROVE  Positions
  BY <1>13
  DEF Positions, Stays, WithNewest, Sending, Deciding, Reusing, ReuseAbsent, Goto, At,
      ActiveOco, SellActive, Covered, exchangeVars
<1>14. ASSUME NEW c \in Sell, ReuseUnreadable(c)
      PROVE  Positions
  BY <1>14
  DEF Positions, Stays, WithNewest, Sending, Deciding, Reusing, ReuseUnreadable, Halt,
      EndPass, At, ActiveOco, SellActive, Covered, exchangeVars
<1>15. CASE LookupGivesUp
  BY <1>15
  DEF Positions, Stays, WithNewest, Sending, Deciding, Reusing, LookupGivesUp, Goto,
      At, journalVars, exchangeVars
<1>16. ASSUME NEW c \in Sell, AdoptMarket(c)
      PROVE  Positions
  BY <1>16
  DEF Positions, Stays, WithNewest, Sending, Deciding, Reusing, AdoptMarket, Goto, At,
      ActiveMarket, SellActive, exchangeVars
<1>17. ASSUME NEW c \in Sell, MarketUnreadable(c)
      PROVE  Positions
  BY <1>17
  DEF Positions, Stays, WithNewest, Sending, Deciding, Reusing, MarketUnreadable,
      Halt, EndPass, At, ActiveMarket, SellActive, exchangeVars
<1>18. ASSUME NEW c \in Sell, OnFill(c)
      PROVE  Positions
  BY <1>18
  DEF Positions, Stays, WithNewest, Sending, Deciding, Reusing, OnFill, At, ExactExit,
      exchangeVars, workerVars
<1>19. ASSUME NEW l \in Lot, FillBuy(l)
      PROVE  Positions
  BY <1>19
  DEF Positions, Stays, WithNewest, Sending, Deciding, Reusing, FillBuy, journalVars,
      workerVars
<1>20. ASSUME NEW c \in Sell, Accept(c)
      PROVE  Positions
  BY <1>20
  DEF Positions, Stays, WithNewest, Sending, Deciding, Reusing, Accept, Answer,
      journalVars
<1>21. ASSUME NEW c \in Sell, Refuse(c)
      PROVE  Positions
  BY <1>21
  DEF Positions, Stays, WithNewest, Sending, Deciding, Reusing, Refuse, Answer,
      journalVars
<1>22. ASSUME NEW c \in Sell, Lose(c)
      PROVE  Positions
  BY <1>22
  DEF Positions, Stays, WithNewest, Sending, Deciding, Reusing, Lose, Answer,
      journalVars
<1>23. ASSUME NEW c \in Sell, Trade(c)
      PROVE  Positions
  BY <1>23
  DEF Positions, Stays, WithNewest, Sending, Deciding, Reusing, Trade, journalVars,
      workerVars, At
<1>24. ASSUME NEW c \in Sell, EndList(c)
      PROVE  Positions
  BY <1>24
  DEF Positions, Stays, WithNewest, Sending, Deciding, Reusing, EndList, journalVars,
      workerVars, At
<1>25. CASE UNCHANGED vars
  BY <1>25
  DEF Positions, Stays, WithNewest, Sending, Deciding, Reusing, vars
<1>26. CASE ReuseCanceled
  BY <1>26
  DEF Positions, Stays, WithNewest, Sending, Deciding, Reusing, Planning,
      ReuseCanceled, Goto, At
<1>27. CASE PlanMarket
  BY <1>27
  DEF Positions, Stays, WithNewest, Sending, Deciding, Reusing, Planning, PlanMarket,
      Goto, At
<1>. QED
  BY <1>1, <1>2, <1>3, <1>4, <1>5, <1>6, <1>7, <1>8, <1>9, <1>10, <1>11, <1>12,
     <1>13, <1>14, <1>15, <1>16, <1>17, <1>18, <1>19, <1>20, <1>21, <1>22, <1>23,
     <1>24, <1>25, <1>26, <1>27
  DEF Next, Worker, Recovery, PlaceOco, Flatten, Exchange, Restart

(* What is settled stays so, but for the sell of the pass and those given up, *)
LEMMA SettledStays ==
    ASSUME PassUnits, ListInv, PosInv, OlderInv, NEW row \in Sell,
           intent[row] # NoIntent, Settled(row), row \notin abandoned,
           pc \in WithNewest => row # sell,
           [Next]_vars
    PROVE  Settled(row)'
<1>1. CASE StepFails
  BY <1>1
  DEF Settled, Quiet, StepFails, Halt, EndPass, journalVars, exchangeVars
<1>2. CASE PollFails
  BY <1>2
  DEF Settled, Quiet, PollFails, Halt, EndPass, At, journalVars, exchangeVars
<1>3. CASE RecoverNothing
  BY <1>3
  DEF Settled, Quiet, RecoverNothing, Goto, At, ProtectionFor, journalVars,
      exchangeVars
<1>4. CASE LegsActive
  BY <1>4
  DEF Settled, Quiet, LegsActive, Untrack, EndPass, SetBoth, At, VerifyQuantities,
      exchangeVars
<1>5. CASE LegsEndedMeanwhile
  BY <1>5
  DEF Settled, Quiet, LegsEndedMeanwhile, Goto, At, VerifyQuantities, Terminal,
      journalVars, exchangeVars
<1>6. CASE LegsCanceled
  BY <1>6
  DEF Settled, Quiet, LegsCanceled, Goto, Reopen, At, VerifyQuantities, exchangeVars
<1>7. CASE LegsClosed("legs", "exit")
  BY <1>7
  DEF Settled, Quiet, LegsClosed, Goto, At, VerifyQuantities, Terminal, exchangeVars
<1>8. CASE LegsClosed("reuse-legs", "reuse-exit")
  BY <1>8
  DEF Settled, Quiet, LegsClosed, Goto, At, VerifyQuantities, Terminal, exchangeVars
<1>9. CASE CloseExact
  BY <1>9
  DEF Settled, Quiet, CloseExact, Untrack, EndPass, SetBoth, At, ExactExit,
      exchangeVars
<1>10. CASE RecordPartialExit
  BY <1>10
  DEF Settled, Quiet, RecordPartialExit, Goto, PartialExit, Reopen, At, exchangeVars
<1>11. CASE NothingLeft
  BY <1>11
  DEF Settled, Quiet, NothingLeft, Untrack, EndPass, At, journalVars, exchangeVars
<1>12. CASE PlanCrossed
  BY <1>12
  DEF Settled, Quiet, PlanCrossed, Goto, At, Covered, journalVars, exchangeVars
<1>13. CASE ReusePartial
  BY <1>13
  DEF Settled, Quiet, ReusePartial, Halt, EndPass, PartialExit, Reopen, At,
      exchangeVars
<1>14. CASE ReuseActive
  BY <1>14
  DEF Settled, Quiet, ReuseActive, Goto, At, VerifyQuantities, exchangeVars
<1>15. CASE OcoVerified
  BY <1>15
  DEF Settled, Quiet, OcoVerified, Goto, At, VerifyQuantities, journalVars,
      exchangeVars
<1>16. CASE OcoRejected
  BY <1>16
  DEF Settled, Quiet, OcoRejected, Goto, Reopen, At, exchangeVars
<1>17. CASE LookupFindsOco
  BY <1>17
  DEF Settled, Quiet, LookupFindsOco, Goto, At, VerifyQuantities, journalVars,
      exchangeVars
<1>18. CASE LookupGivesUp
  BY <1>18
  DEF Settled, Quiet, LookupGivesUp, Goto, At, journalVars, exchangeVars
<1>19. CASE RecordLegs
  BY <1>19
  DEF Settled, Quiet, RecordLegs, Goto, At, exchangeVars
<1>20. CASE MarketRejected
  BY <1>20
  DEF Settled, Quiet, MarketRejected, Halt, EndPass, At, exchangeVars
<1>21. CASE CloseFlattened \/ HaltFlattened
  BY <1>21
  DEF Settled, Quiet, CloseFlattened, HaltFlattened, journalVars, Goto, Untrack,
      EndPass, At, exchangeVars
<1>22. CASE Crash
  BY <1>22
  DEF Settled, Quiet, Crash, GoDown, At, journalVars, exchangeVars
<1>23. CASE Stop
  BY <1>23
  DEF Settled, Quiet, Stop, GoDown, At, journalVars, exchangeVars
<1>24. CASE OperatorReset
  BY <1>24
  DEF Settled, Quiet, OperatorReset, At, journalVars, exchangeVars, workerVars
<1>25. CASE Boot
  BY <1>25
  DEF Settled, Quiet, Boot, At, UnresolvedBuys, Unreconciled, Known, Nonterminal,
      exchangeVars
<1>26. ASSUME NEW l \in Lot, Poll(l)
      PROVE  Settled(row)'
  BY <1>26
  DEF Settled, Quiet, Poll, At, exchangeVars
<1>27. ASSUME NEW c \in Sell, RecoverMarket(c)
      PROVE  Settled(row)'
  BY <1>27
  DEF Settled, Quiet, RecoverMarket, Goto, At, ProtectionFor, journalVars,
      exchangeVars
<1>28. ASSUME NEW c \in Sell, RecoverList(c)
      PROVE  Settled(row)'
  BY <1>28
  DEF Settled, Quiet, RecoverList, ReadList, ProtectionFor, At, journalVars,
      exchangeVars
<1>29. ASSUME NEW p \in Price, PlanOco(p)
      PROVE  Settled(row)'
  <2>1. Planning
    BY <1>29 DEF Planning
  <2>2. row # nextSell /\ UNCHANGED <<status, wire, sold, exits>> /\ intent'[row] = intent[row]
    BY <2>1, PlannedIsNew DEF PosInv
  <2>3. child'[row] = child[row] \/ child'[row] = "FAILED"
    BY <2>1, <2>2, PlanningEffect DEF PassUnits, FillInv
  <2>. QED BY <2>2, <2>3 DEF Settled, Quiet
<1>30. ASSUME NEW p \in Price, NEW c \in Sell, ReuseList(p, c)
      PROVE  Settled(row)'
  BY <1>30
  DEF Settled, Quiet, ReuseList, ReadList, At, ActiveOco, SellActive, Covered,
      journalVars, exchangeVars
<1>31. ASSUME NEW p \in Price, NEW c \in Sell, ReuseAbsent(p, c)
      PROVE  Settled(row)'
  BY <1>31
  DEF Settled, Quiet, ReuseAbsent, Goto, At, ActiveOco, SellActive, Covered,
      exchangeVars
<1>32. ASSUME NEW c \in Sell, ReuseUnreadable(c)
      PROVE  Settled(row)'
  BY <1>32
  DEF Settled, Quiet, PassUnits, FillInv, Typed, ListInv, PassInv, PosInv, ReuseInv,
      Reusing, WithNewest, Sending, WithList, Reading, Selling, Known, ActiveOco,
      ActiveMarket, Newest, SellActive, UnitsInv, UnitInv, WireInv, ReuseUnreadable,
      Halt, EndPass, At, Covered, exchangeVars
<1>33. CASE ReuseCanceled
  <2>1. Planning
    BY <1>33 DEF Planning
  <2>2. row # nextSell /\ UNCHANGED <<status, wire, sold, exits>> /\ intent'[row] = intent[row]
    BY <2>1, PlannedIsNew DEF PosInv
  <2>3. child'[row] = child[row] \/ child'[row] = "FAILED"
    BY <2>1, <2>2, PlanningEffect DEF PassUnits, FillInv
  <2>. QED BY <2>2, <2>3 DEF Settled, Quiet
<1>34. CASE ReuseProtected
  BY <1>34
  DEF Settled, Quiet, PassUnits, FillInv, Typed, ListInv, PassInv, PosInv, ReuseInv,
      Reusing, WithNewest, Sending, WithList, Reading, Selling, Known, ActiveOco,
      ActiveMarket, Newest, SellActive, UnitsInv, UnitInv, WireInv, ReuseProtected,
      Untrack, EndPass, SetBoth, At, exchangeVars
<1>35. CASE SendOco
  BY <1>35
  DEF Settled, Quiet, PassUnits, FillInv, Typed, ListInv, PassInv, PosInv, ReuseInv,
      Reusing, WithNewest, Sending, WithList, Reading, Selling, Known, ActiveOco,
      ActiveMarket, Newest, SellActive, UnitsInv, UnitInv, WireInv, SendOco, Goto, At,
      journalVars
<1>36. CASE OcoUnknown
  BY <1>36
  DEF Settled, Quiet, PassUnits, FillInv, Typed, ListInv, PassInv, PosInv, ReuseInv,
      Reusing, WithNewest, Sending, WithList, Reading, Selling, Known, ActiveOco,
      ActiveMarket, Newest, SellActive, UnitsInv, UnitInv, WireInv, OcoUnknown, Goto,
      At, exchangeVars
<1>37. CASE RecordList
  BY <1>37
  DEF Settled, Quiet, PassUnits, FillInv, Typed, ListInv, PassInv, PosInv, ReuseInv,
      Reusing, WithNewest, Sending, WithList, Reading, Selling, Known, ActiveOco,
      ActiveMarket, Newest, SellActive, UnitsInv, UnitInv, WireInv, RecordList, Goto,
      At, exchangeVars
<1>38. CASE MarkProtected
  BY <1>38
  DEF Settled, Quiet, PassUnits, FillInv, Typed, ListInv, PassInv, PosInv, ReuseInv,
      Reusing, WithNewest, Sending, WithList, Reading, Selling, Known, ActiveOco,
      ActiveMarket, Newest, SellActive, UnitsInv, UnitInv, WireInv, MarkProtected,
      Untrack, EndPass, SetBoth, At, exchangeVars
<1>39. CASE PlanMarket
  <2>1. Planning
    BY <1>39 DEF Planning
  <2>2. row # nextSell /\ UNCHANGED <<status, wire, sold, exits>> /\ intent'[row] = intent[row]
    BY <2>1, PlannedIsNew DEF PosInv
  <2>3. child'[row] = child[row] \/ child'[row] = "FAILED"
    BY <2>1, <2>2, PlanningEffect DEF PassUnits, FillInv
  <2>. QED BY <2>2, <2>3 DEF Settled, Quiet
<1>40. ASSUME NEW c \in Sell, AdoptMarket(c)
      PROVE  Settled(row)'
  BY <1>40
  DEF Settled, Quiet, PassUnits, FillInv, Typed, ListInv, PassInv, PosInv, ReuseInv,
      Reusing, WithNewest, Sending, WithList, Reading, Selling, Known, ActiveOco,
      ActiveMarket, Newest, SellActive, UnitsInv, UnitInv, WireInv, AdoptMarket, Goto,
      At, exchangeVars
<1>41. ASSUME NEW c \in Sell, MarketUnreadable(c)
      PROVE  Settled(row)'
  BY <1>41
  DEF Settled, Quiet, PassUnits, FillInv, Typed, ListInv, PassInv, PosInv, ReuseInv,
      Reusing, WithNewest, Sending, WithList, Reading, Selling, Known, ActiveOco,
      ActiveMarket, Newest, SellActive, UnitsInv, UnitInv, WireInv, MarketUnreadable,
      Halt, EndPass, At, exchangeVars
<1>42. CASE SendMarket
  BY <1>42
  DEF Settled, Quiet, PassUnits, FillInv, Typed, ListInv, PassInv, PosInv, ReuseInv,
      Reusing, WithNewest, Sending, WithList, Reading, Selling, Known, ActiveOco,
      ActiveMarket, Newest, SellActive, UnitsInv, UnitInv, WireInv, SendMarket, Goto,
      At, journalVars
<1>43. CASE MarketAnswered
  BY <1>43
  DEF Settled, Quiet, PassUnits, FillInv, Typed, ListInv, PassInv, PosInv, ReuseInv,
      Reusing, WithNewest, Sending, WithList, Reading, Selling, Known, ActiveOco,
      ActiveMarket, Newest, SellActive, UnitsInv, UnitInv, WireInv, MarketAnswered,
      Goto, At, exchangeVars
<1>44. CASE MarketUnknown
  BY <1>44
  DEF Settled, Quiet, PassUnits, FillInv, Typed, ListInv, PassInv, PosInv, ReuseInv,
      Reusing, WithNewest, Sending, WithList, Reading, Selling, Known, ActiveOco,
      ActiveMarket, Newest, SellActive, UnitsInv, UnitInv, WireInv, MarketUnknown,
      Goto, At, exchangeVars
<1>45. ASSUME NEW c \in Sell, OnFill(c)
      PROVE  Settled(row)'
  BY <1>45
  DEF Settled, Quiet, OnFill, At, ExactExit, exchangeVars, workerVars
<1>46. ASSUME NEW l \in Lot, FillBuy(l)
      PROVE  Settled(row)'
  BY <1>46
  DEF Settled, Quiet, FillBuy, journalVars, workerVars
<1>47. ASSUME NEW c \in Sell, Accept(c)
      PROVE  Settled(row)'
  BY <1>47
  DEF Settled, Quiet, PassUnits, FillInv, Typed, ListInv, PassInv, PosInv, ReuseInv,
      Reusing, WithNewest, Sending, WithList, Reading, Selling, Known, ActiveOco,
      ActiveMarket, Newest, SellActive, UnitsInv, UnitInv, WireInv, Accept, Answer,
      journalVars
<1>48. ASSUME NEW c \in Sell, Refuse(c)
      PROVE  Settled(row)'
  BY <1>48
  DEF Settled, Quiet, Refuse, Answer, journalVars
<1>49. ASSUME NEW c \in Sell, Lose(c)
      PROVE  Settled(row)'
  BY <1>49
  DEF Settled, Quiet, Lose, Answer, journalVars
<1>50. ASSUME NEW c \in Sell, Trade(c)
      PROVE  Settled(row)'
  BY <1>50
  DEF Settled, Quiet, Trade, journalVars, workerVars, At
<1>51. ASSUME NEW c \in Sell, EndList(c)
      PROVE  Settled(row)'
  BY <1>51
  DEF Settled, Quiet, EndList, journalVars, workerVars, At
<1>52. CASE BootFails
  BY <1>52
  DEF Settled, Quiet, PassUnits, FillInv, Typed, ListInv, PassInv, PosInv, ReuseInv,
      Reusing, WithNewest, Sending, WithList, Reading, Selling, Known, ActiveOco,
      ActiveMarket, Newest, SellActive, UnitsInv, UnitInv, WireInv, BootFails, At,
      UnresolvedBuys, Unreconciled, Nonterminal, exchangeVars, workerVars
<1>53. CASE UNCHANGED vars
  BY <1>53
  DEF Settled, Quiet, vars
<1>. QED
  BY <1>1, <1>2, <1>3, <1>4, <1>5, <1>6, <1>7, <1>8, <1>9, <1>10, <1>11, <1>12,
     <1>13, <1>14, <1>15, <1>16, <1>17, <1>18, <1>19, <1>20, <1>21, <1>22, <1>23,
     <1>24, <1>25, <1>26, <1>27, <1>28, <1>29, <1>30, <1>31, <1>32, <1>33, <1>34,
     <1>35, <1>36, <1>37, <1>38, <1>39, <1>40, <1>41, <1>42, <1>43, <1>44, <1>45,
     <1>46, <1>47, <1>48, <1>49, <1>50, <1>51, <1>52, <1>53
  DEF Next, Worker, Recovery, PlaceOco, Flatten, Exchange, Restart

(* so a pass that is done with a sell stays done with it. *)
LEMMA DoneStays ==
    ASSUME PassUnits, ListInv, PosInv, OlderInv, NEW row \in Sell, intent[row] # NoIntent,
           Done(row), pc \in WithNewest => row # sell \/ row \in abandoned, [Next]_vars
    PROVE  Done(row)'
<1>1. abandoned \subseteq abandoned'
  BY EveryPosition DEF Positions
<1>2. CASE row \in abandoned
  BY <1>1, <1>2 DEF Done
<1>3. CASE row \notin abandoned
  <2>1. Settled(row) /\ (pc \in WithNewest => row # sell)
    BY <1>3 DEF Done
  <2>. QED BY <1>3, <2>1, SettledStays DEF Done
<1>. QED BY <1>2, <1>3

(* The sell of a pass with a list is the one that may be unsettled. *)
LEMMA NewestOfPass ==
    ASSUME PassUnits, PosInv, pc \in WithNewest
    PROVE  /\ sell \in Sell /\ intent[sell] # NoIntent /\ intent[sell].lot = cur /\ cur \in Lot
           /\ \A c \in Sell \ {sell} : intent[c] # NoIntent /\ intent[c].lot = cur =>
                 Done(c) /\ (sell \in abandoned \/ c < sell)
<1>1. sell \in Sell /\ cur \in Lot
  BY DEF PassUnits, FillInv, Typed, WithNewest, Sending, WithList, Reading, Selling, InPass
<1>2. intent[sell].lot = cur
  BY DEF PosInv, NewestInv
<1>3. intent[sell] # NoIntent
  BY <1>1, <1>2, ProtectionAssumption DEF NoIntent, ProtectionAssumption
<1>. QED BY <1>1, <1>2, <1>3 DEF PosInv, NewestInv

(* Lists of the lot that are still active when a pass decides were given up. *)
LEMMA ActiveGivenUp ==
    ASSUME PosInv, pc = "size", NEW p \in Price, NEW c \in ActiveOco(p), intent[c].lot = cur
    PROVE  c \in Sell /\ c \in abandoned
<1>1. c \in Sell /\ intent[c] # NoIntent /\ intent[c].kind = "OCO" /\ child[c] # "FAILED"
  BY DEF ActiveOco, Newest, Known, SellActive
<1>2. Done(c)
  BY <1>1 DEF PosInv, PlanInv, Deciding
<1>. QED BY <1>1, <1>2 DEF Done, Settled

(* Every step keeps the newest sell, *)
LEMMA NewestNext ==
    ASSUME PassUnits, ListInv, PosInv, OlderInv, [Next]_vars
    PROVE  NewestInv'
<1>. SUFFICES ASSUME pc' \in WithNewest
              PROVE  /\ intent'[sell'].lot = cur'
                     /\ \A c \in Sell \ {sell'} : intent'[c] # NoIntent /\ intent'[c].lot = cur' =>
                            Done(c)' /\ (sell' \in abandoned' \/ c < sell')
  BY DEF NewestInv, WithNewest, Sending
<1>0. abandoned \subseteq abandoned'
  BY EveryPosition DEF Positions
<1>1. CASE Stays(WithNewest)
  <2>1. ASSUME NEW c \in Sell \ {sell}, intent[c] # NoIntent, intent[c].lot = cur
        PROVE  Done(c)' /\ (sell \in abandoned \/ c < sell)
    BY <1>1, <2>1, NewestOfPass, DoneStays DEF Stays
  <2>. QED BY <1>0, <1>1, <2>1, NewestOfPass DEF Stays
<1>2. CASE Planning
  <2>1. /\ nextSell \in Sell /\ sell' = nextSell /\ cur' = cur /\ intent'[nextSell].lot = cur
        /\ \A c \in Sell : intent[c] # NoIntent => c < nextSell
        /\ \A c \in Sell \ {nextSell} : intent'[c] = intent[c]
    BY <1>2, PlannedIsNew DEF PosInv
  <2>2. pc \in Deciding /\ pc \notin WithNewest
    BY <1>2 DEF Planning, PlanOco, ReuseCanceled, PlanMarket, At, Deciding, Reusing,
                WithNewest, Sending
  <2>3. ASSUME NEW c \in Sell \ {nextSell}, intent[c] # NoIntent, intent[c].lot = cur
        PROVE  Done(c)'
    <3>1. Done(c)
      BY <2>2, <2>3 DEF PosInv, PlanInv
    <3>. QED BY <2>2, <2>3, <3>1, DoneStays
  <2>. QED BY <2>1, <2>3
<1>3. ASSUME NEW d \in Sell, RecoverList(d)
      PROVE  /\ intent'[sell'].lot = cur'
             /\ \A c \in Sell \ {sell'} : intent'[c] # NoIntent /\ intent'[c].lot = cur' =>
                    Done(c)' /\ (sell' \in abandoned' \/ c < sell')
  <2>1. pc = "recover" /\ sell' = d /\ UNCHANGED <<cur, intent>>
    BY <1>3 DEF RecoverList, ReadList, At, journalVars
  <2>2. intent[d].lot = cur /\ \A c \in ChildrenOf(cur) : c <= d
    BY <1>3 DEF RecoverList, ProtectionFor, Newest, ChildrenOf
  <2>3. ASSUME NEW c \in Sell \ {d}, intent[c] # NoIntent, intent[c].lot = cur
        PROVE  Done(c)' /\ c < d
    <3>1. c < d
      BY <2>2, <2>3 DEF ChildrenOf, Known, Sell
    <3>2. Done(c)
      BY <2>2, <2>3, <3>1 DEF OlderInv
    <3>3. pc \notin WithNewest
      BY <2>1 DEF WithNewest, Sending
    <3>. QED BY <2>3, <3>1, <3>2, <3>3, DoneStays
  <2>. QED BY <2>1, <2>2, <2>3
<1>4. ASSUME NEW p \in Price, NEW d \in Sell, ReuseAbsent(p, d)
      PROVE  /\ intent'[sell'].lot = cur'
             /\ \A c \in Sell \ {sell'} : intent'[c] # NoIntent /\ intent'[c].lot = cur' =>
                    Done(c)' /\ (sell' \in abandoned' \/ c < sell')
  <2>1. pc = "size" /\ sell' = d /\ intent[d].lot = cur /\ UNCHANGED <<cur, intent>>
    BY <1>4 DEF ReuseAbsent, Goto, At
  <2>2. d \in ActiveOco(p)
    BY <1>4 DEF ReuseAbsent
  <2>3. d \in abandoned
    BY <2>1, <2>2, ActiveGivenUp
  <2>4. ASSUME NEW c \in Sell, intent[c] # NoIntent, intent[c].lot = cur
        PROVE  Done(c)'
    <3>1. Done(c) /\ pc \notin WithNewest
      BY <2>1, <2>4 DEF PosInv, PlanInv, Deciding, WithNewest, Sending
    <3>. QED BY <2>4, <3>1, DoneStays
  <2>. QED BY <1>0, <2>1, <2>3, <2>4
<1>. QED BY <1>1, <1>2, <1>3, <1>4, EveryPosition DEF Positions

(* the list it takes up, *)
LEMMA ReuseNext ==
    ASSUME PosInv, [Next]_vars
    PROVE  ReuseInv'
<1>. SUFFICES ASSUME pc' \in Reusing, intent'[sell'].lot = cur'
              PROVE  sell' \in abandoned'
  BY DEF ReuseInv, Reusing
<1>0. abandoned \subseteq abandoned'
  BY EveryPosition DEF Positions
<1>1. CASE Stays(Reusing)
  BY <1>0, <1>1 DEF Stays, PosInv, ReuseInv
<1>2. ASSUME NEW p \in Price, NEW c \in Sell, ReuseList(p, c) PROVE sell' \in abandoned'
  <2>1. pc = "size" /\ c \in ActiveOco(p) /\ sell' = c /\ UNCHANGED <<cur, intent>>
    BY <1>2 DEF ReuseList, ReadList, At, journalVars
  <2>2. c \in abandoned
    BY <2>1, ActiveGivenUp
  <2>. QED BY <1>0, <2>1, <2>2
<1>. QED BY <1>1, <1>2, EveryPosition DEF Positions

(* A lot with sells has a newest. *)
LEMMA NewestExists ==
    ASSUME NEW S, S \subseteq Sell, S # {}
    PROVE  Newest(S) # {}
<1>. DEFINE B == {n \in Nat : \E c \in S : n = MaxSells - c}
<1>1. B \subseteq Nat
  OBVIOUS
<1>2. \A c \in S : c \in Int /\ MaxSells - c \in B
  BY ProtectionAssumption DEF Sell, ProtectionAssumption
<1>3. B # {}
  BY <1>2
<1>4. PICK n \in B : \A m \in B : n <= m
  <2>. HIDE DEF B
  <2>. QED BY <1>1, <1>3, SmallestNumber
<1>5. PICK c \in S : n = MaxSells - c
  BY <1>4
<1>6. \A d \in S : d <= c
  <2>1. \A d \in S : MaxSells - c <= MaxSells - d
    BY <1>2, <1>4, <1>5
  <2>2. MaxSells \in Int
    BY ProtectionAssumption DEF ProtectionAssumption
  <2>. HIDE DEF B
  <2>. QED BY <1>2, <2>1, <2>2
<1>. QED BY <1>6 DEF Newest

(* and that it decides when it is done with every sell of the lot. *)
LEMMA PlanNext ==
    ASSUME PassUnits, ListInv, PosInv, OlderInv, [Next]_vars
    PROVE  PlanInv'
<1>. SUFFICES ASSUME pc' \in Deciding,
                     NEW c \in Sell, intent'[c] # NoIntent, intent'[c].lot = cur'
              PROVE  Done(c)'
  BY DEF PlanInv, Deciding, Reusing
<1>1. CASE RecoverNothing
  <2>1. c \in ChildrenOf(cur)
    BY <1>1 DEF RecoverNothing, Goto, journalVars, ChildrenOf, Known
  <2>2. ChildrenOf(cur) \subseteq Sell /\ Newest(ChildrenOf(cur)) = {}
    BY <1>1 DEF RecoverNothing, ProtectionFor, ChildrenOf, Known
  <2>. QED BY <2>1, <2>2, NewestExists
<1>2. ASSUME NEW d \in Sell, RecoverMarket(d) PROVE Done(c)'
  <2>1. UNCHANGED <<cur, intent, child, wire, status, exits, sold>>
    BY <1>2 DEF RecoverMarket, Goto, journalVars, exchangeVars
  <2>2. /\ d \in ChildrenOf(cur) /\ \A e \in ChildrenOf(cur) : e <= d
        /\ intent[d].kind = "MARKET" /\ Absent(d)
    BY <1>2 DEF RecoverMarket, ProtectionFor, Newest
  <2>3. c \in ChildrenOf(cur)
    BY <2>1 DEF ChildrenOf, Known
  <2>4. Done(c)
    <3>1. CASE c = d
      BY <2>2, <3>1 DEF Done, Settled, Quiet, Absent
    <3>2. CASE c # d
      <4>1. c < d
        BY <2>2, <2>3, <3>2 DEF Sell
      <4>. QED BY <2>2, <2>3, <4>1 DEF OlderInv, ChildrenOf, Known
    <3>. QED BY <3>1, <3>2
  <2>5. pc \notin WithNewest
    BY <1>2 DEF RecoverMarket, At, WithNewest, Sending
  <2>. QED BY <2>1, <2>3, <2>4, <2>5, DoneStays DEF ChildrenOf, Known
<1>3. ASSUME pc \in WithNewest, UNCHANGED <<cur, intent>>, c # sell PROVE Done(c)'
  <2>1. Done(c) /\ intent[c] # NoIntent
    BY <1>3, NewestOfPass
  <2>. QED BY <1>3, <2>1, DoneStays
<1>4. CASE LegsCanceled
  <2>1. /\ pc = "legs" /\ status[sell] = "canceled" /\ sold[sell] = 0
        /\ child' = [child EXCEPT ![sell] = "FAILED"]
        /\ UNCHANGED <<cur, intent, wire, status, sold, exits>>
    BY <1>4 DEF LegsCanceled, Reopen, Goto, At, exchangeVars
  <2>2. pc \in WithNewest
    BY <2>1 DEF WithNewest
  <2>3. CASE c = sell
    <3>1. c \notin wire /\ status[c] = "canceled" /\ sold[c] = 0
      BY <2>1, <2>3 DEF PosInv, WireInv
    <3>2. child'[c] = "FAILED"
      BY <2>1, <2>3 DEF PassUnits, FillInv, Typed
    <3>. QED BY <2>1, <3>1, <3>2 DEF Done, Settled, Quiet
  <2>. QED BY <1>3, <2>1, <2>2, <2>3
<1>5. CASE RecordPartialExit
  <2>1. /\ pc = "exit" /\ status[sell] = "canceled" /\ exits' = exits \cup {sell}
        /\ child' = [child EXCEPT ![sell] = "FAILED"]
        /\ UNCHANGED <<cur, intent, wire, status, sold>>
    BY <1>5 DEF RecordPartialExit, PartialExit, Reopen, Goto, At, exchangeVars
  <2>2. pc \in WithNewest
    BY <2>1 DEF WithNewest
  <2>3. CASE c = sell
    <3>1. c \notin wire /\ status[c] = "canceled" /\ c \in exits'
      BY <2>1, <2>3 DEF PosInv, WireInv
    <3>2. child'[c] = "FAILED"
      BY <2>1, <2>3 DEF PassUnits, FillInv, Typed
    <3>. QED BY <2>1, <3>1, <3>2 DEF Done, Settled, Quiet
  <2>. QED BY <1>3, <2>1, <2>2, <2>3
<1>6. CASE OcoRejected
  <2>1. /\ pc = "oco-posted" /\ reply = "refused"
        /\ child' = [child EXCEPT ![sell] = "FAILED"]
        /\ UNCHANGED <<cur, intent, wire, status, sold, exits>>
    BY <1>6 DEF OcoRejected, Reopen, Goto, At, exchangeVars
  <2>2. pc \in WithNewest
    BY <2>1 DEF WithNewest
  <2>3. CASE c = sell
    <3>1. c \notin wire /\ status[c] = "absent"
      BY <2>1, <2>3 DEF PosInv, RefusedInv
    <3>2. child'[c] = "FAILED"
      BY <2>1, <2>3 DEF PassUnits, FillInv, Typed
    <3>. QED BY <2>1, <3>1, <3>2 DEF Done, Settled, Quiet
  <2>. QED BY <1>3, <2>1, <2>2, <2>3
<1>7. CASE pc \in Deciding /\ UNCHANGED <<cur, intent>>
  <2>1. Done(c) /\ intent[c] # NoIntent
    BY <1>7 DEF PosInv, PlanInv
  <2>2. pc \notin WithNewest
    BY <1>7 DEF Deciding, Reusing, WithNewest, Sending
  <2>. QED BY <2>1, <2>2, DoneStays
<1>8. CASE LegsEndedMeanwhile \/ LookupGivesUp
  <2>1. /\ pc \in WithNewest /\ UNCHANGED <<cur, intent>>
        /\ abandoned' = abandoned \cup {sell}
    BY <1>8 DEF LegsEndedMeanwhile, LookupGivesUp, At, Goto, journalVars, WithNewest
  <2>. QED BY <1>3, <2>1 DEF Done
<1>. QED
  BY <1>1, <1>2, <1>4, <1>5, <1>6, <1>7, <1>8, EveryPosition DEF Positions

(* Only planning writes a row and only recording an exit adds one. *)
LEMMA RowsKept ==
    ASSUME PassUnits, [Next]_vars
    PROVE  /\ Planning \/ UNCHANGED intent
           /\ Recorded \/ UNCHANGED exits
<1>1. Recorded => UNCHANGED intent
  BY RecordedEffect DEF PassUnits, FillInv
<1>2. Planning => UNCHANGED exits
  BY PlanningEffect DEF PassUnits, FillInv
<1>3. Trading => UNCHANGED <<intent, exits>>
  BY DEF Trading, Accept, Trade, EndList, Answer, journalVars
<1>. QED BY <1>1, <1>2, <1>3, RowsChange DEF RowsMove

(* Where the pass is and what it knows hold after every step. *)
LEMMA PosNext ==
    ASSUME PassUnits, ListInv, PosInv, OlderInv, [Next]_vars
    PROVE  PosInv'
<1>1. WireInv' /\ NewestInv' /\ SendInv' /\ RefusedInv'
  BY WireNext, NewestNext, SendNext, RefusedNext
<1>2. ReuseInv' /\ PlanInv'
  BY ReuseNext, PlanNext
<1>. QED BY <1>1, <1>2 DEF PosInv

(* A step leaves a pass done with every older sell of a lot. *)
LEMMA OlderNext ==
    ASSUME PassUnits, ListInv, PosInv, OlderInv, [Next]_vars, PassUnits'
    PROVE  OlderInv'
<1>. SUFFICES ASSUME NEW c \in Sell, NEW d \in Sell, intent'[c] # NoIntent,
                     intent'[c].lot = intent'[d].lot, c < d
              PROVE  Done(c)'
  BY Zenon DEF OlderInv
<1>0. intent'[d] # NoIntent
  BY ProtectionAssumption DEF NoIntent, ProtectionAssumption, PassUnits, UnitsInv, UnitInv
<1>1. CASE Planning
  <2>1. /\ nextSell \in Sell /\ cur \in Lot /\ intent'[nextSell].lot = cur
        /\ \A e \in Sell : intent[e] # NoIntent => e < nextSell
        /\ \A e \in Sell \ {nextSell} : intent'[e] = intent[e]
    BY <1>1, PlannedIsNew DEF PosInv
  <2>2. c # nextSell
    <3>1. ASSUME c = nextSell PROVE FALSE
      <4>1. d # nextSell
        BY <3>1 DEF Sell
      <4>2. intent[d] # NoIntent /\ d < nextSell
        BY <1>0, <2>1, <4>1
      <4>. QED BY <3>1, <4>2 DEF Sell
    <3>. QED BY <3>1
  <2>3. intent[c] # NoIntent /\ intent'[c] = intent[c]
    BY <2>1, <2>2
  <2>4. pc \in Deciding /\ pc \notin WithNewest
    BY <1>1 DEF Planning, PlanOco, ReuseCanceled, PlanMarket, At, Deciding, Reusing,
                WithNewest, Sending
  <2>5. Done(c)
    <3>1. CASE d = nextSell
      BY <2>1, <2>3, <2>4, <3>1 DEF PosInv, PlanInv
    <3>2. CASE d # nextSell
      BY <2>1, <2>3, <3>2 DEF OlderInv
    <3>. QED BY <3>1, <3>2
  <2>. QED BY <2>3, <2>4, <2>5, DoneStays
<1>2. CASE UNCHANGED intent
  <2>1. Done(c) /\ intent[c] # NoIntent
    BY <1>2 DEF OlderInv
  <2>2. pc \in WithNewest => c # sell \/ c \in abandoned
    <3>1. pc \in WithNewest /\ c = sell => intent[d].lot = cur /\ intent[d] # NoIntent
      BY <1>0, <1>2, NewestOfPass
    <3>2. pc \in WithNewest /\ c = sell => sell \in abandoned \/ d < sell
      BY <3>1, NewestOfPass DEF Sell
    <3>. QED BY <3>2 DEF Sell
  <2>. QED BY <2>1, <2>2, DoneStays
<1>. QED BY <1>1, <1>2, RowsKept

(* Recording an exit keeps no more than the exit sold from what remains. *)
LEMMA RemainingSteps ==
    ASSUME PassUnits, [Next]_vars
    PROVE  Recorded \/ \A l \in Lot : Remaining(l)' = Remaining(l)
<1>1. CASE UNCHANGED <<nextSell, intent, exits, status, sold>>
  BY <1>1, RemainingKept DEF PassUnits, FillInv
<1>2. CASE Planning
  BY <1>2, PlanningKeepsExits DEF PassUnits, FillInv
<1>3. CASE Trading
  <2>1. PICK c \in Sell : Accept(c) \/ Trade(c) \/ EndList(c)
    BY <1>3 DEF Trading
  <2>2. UNCHANGED <<intent, exits>>
    BY <2>1 DEF Accept, Trade, EndList, Answer, journalVars
  <2>3. \A d \in exits : d \in Sell /\ status[d] = "canceled"
    BY DEF PassUnits, FillInv, RowsInv, Known
  <2>4. \A d \in exits : sold'[d] = sold[d]
    BY <2>1, <2>3, AcceptEffect DEF Trade, EndList, PassUnits, FillInv, Typed
  <2>. QED BY <2>2, <2>4, RemainingKept DEF PassUnits, FillInv
<1>. QED BY <1>1, <1>2, <1>3, RowsChange DEF RowsMove

(* What remains of a lot, as a formula that also holds after a step. *)
RemainingSum == UnitsInv => \A l \in Lot :
                    /\ SumFunctionOnSet(sold, exits \cap ChildrenOf(l)) \in Nat
                    /\ Remaining(l) = Size[l] - SumFunctionOnSet(sold, exits \cap ChildrenOf(l))

(* It is true in every state, *)
LEMMA RemainingSumHolds == RemainingSum
  BY RemainingIs DEF RemainingSum

(* so it is after a step. *)
LEMMA RemainingSumNext == RemainingSum'
  BY RemainingSumHolds, PTL

(* A recorded exit takes from what remains what it sold, once. *)
LEMMA RecordedRemaining ==
    ASSUME PassUnits, PassUnits', Recorded, NEW l \in Lot
    PROVE  /\ l # cur \/ sell \in exits => Remaining(l)' = Remaining(l)
           /\ l = cur /\ sell \notin exits => Remaining(l)' = Remaining(l) - sold[sell]
<1>1. /\ sell \in Sell /\ intent[sell] # NoIntent /\ intent[sell].lot = cur
      /\ exits' = exits \cup {sell} /\ UNCHANGED <<intent, sold>>
  BY RecordedEffect DEF PassUnits, FillInv, Known
<1>2. ChildrenOf(l)' = ChildrenOf(l)
  BY <1>1 DEF ChildrenOf, Known
<1>3. ASSUME l # cur \/ sell \in exits PROVE Remaining(l)' = Remaining(l)
  <2>1. (exits \cap ChildrenOf(l))' = exits \cap ChildrenOf(l)
    BY <1>1, <1>2, <1>3 DEF ChildrenOf
  <2>. QED BY <2>1, <1>1, RemainingDepends
<1>4. ASSUME l = cur, sell \notin exits PROVE Remaining(l)' = Remaining(l) - sold[sell]
  <2>. DEFINE E == exits \cap ChildrenOf(l)
              F == exits' \cap ChildrenOf(l)
  <2>1. sell \in ChildrenOf(l) /\ ChildrenOf(l) \subseteq Sell /\ IsFiniteSet(ChildrenOf(l))
    BY <1>1, <1>4, ChildrenFinite DEF ChildrenOf, Known
  <2>2. sell \in F /\ E = F \ {sell} /\ F \subseteq Sell /\ IsFiniteSet(F)
    BY <1>1, <1>4, <2>1, FS_Subset
  <2>3. \A c \in Sell : sold[c] \in Nat
    BY DEF PassUnits, UnitsInv, UnitInv
  <2>4. /\ Size[l] \in Nat /\ SumFunctionOnSet(sold, E) \in Nat
        /\ Remaining(l) = Size[l] - SumFunctionOnSet(sold, E)
    BY RemainingIs DEF PassUnits
  <2>5. Remaining(l)' = Size[l] - SumFunctionOnSet(sold', exits' \cap ChildrenOf(l)')
    BY RemainingSumNext DEF PassUnits, RemainingSum
  <2>6. Remaining(l)' = Size[l] - SumFunctionOnSet(sold, F)
    BY <1>1, <1>2, <2>5
  <2>. HIDE DEF E, F
  <2>7. SumFunctionOnSet(sold, F) = sold[sell] + SumFunctionOnSet(sold, E)
    BY <2>2, <2>3, SumTake
  <2>8. sold[sell] \in Nat
    BY <1>1, <2>3
  <2>. QED BY <2>4, <2>6, <2>7, <2>8
<1>. QED BY <1>3, <1>4

(* A sell stays quiet until it is sent, *)
LEMMA QuietStays ==
    ASSUME PassUnits, PosInv, NEW row \in Sell,
           intent[row] # NoIntent, Quiet(row), pc \in Sending => row # sell,
           [Next]_vars
    PROVE  Quiet(row)'
<1>1. CASE StepFails
  BY <1>1
  DEF Quiet, StepFails, Halt, EndPass, journalVars, exchangeVars
<1>2. CASE PollFails
  BY <1>2
  DEF Quiet, PollFails, Halt, EndPass, At, journalVars, exchangeVars
<1>3. CASE RecoverNothing
  BY <1>3
  DEF Quiet, RecoverNothing, Goto, At, ProtectionFor, journalVars, exchangeVars
<1>4. CASE LegsActive
  BY <1>4
  DEF Quiet, LegsActive, Untrack, EndPass, SetBoth, At, VerifyQuantities, exchangeVars
<1>5. CASE LegsEndedMeanwhile
  BY <1>5
  DEF Quiet, LegsEndedMeanwhile, Goto, At, VerifyQuantities, Terminal, journalVars,
      exchangeVars
<1>6. CASE LegsCanceled
  BY <1>6
  DEF Quiet, LegsCanceled, Goto, Reopen, At, VerifyQuantities, exchangeVars
<1>7. CASE LegsClosed("legs", "exit")
  BY <1>7
  DEF Quiet, LegsClosed, Goto, At, VerifyQuantities, Terminal, exchangeVars
<1>8. CASE LegsClosed("reuse-legs", "reuse-exit")
  BY <1>8
  DEF Quiet, LegsClosed, Goto, At, VerifyQuantities, Terminal, exchangeVars
<1>9. CASE CloseExact
  BY <1>9
  DEF Quiet, CloseExact, Untrack, EndPass, SetBoth, At, ExactExit, exchangeVars
<1>10. CASE RecordPartialExit
  BY <1>10
  DEF Quiet, RecordPartialExit, Goto, PartialExit, Reopen, At, exchangeVars
<1>11. CASE NothingLeft
  BY <1>11
  DEF Quiet, NothingLeft, Untrack, EndPass, At, journalVars, exchangeVars
<1>12. CASE PlanCrossed
  BY <1>12
  DEF Quiet, PlanCrossed, Goto, At, Covered, journalVars, exchangeVars
<1>13. CASE ReusePartial
  BY <1>13
  DEF Quiet, ReusePartial, Halt, EndPass, PartialExit, Reopen, At, exchangeVars
<1>14. CASE ReuseActive
  BY <1>14
  DEF Quiet, ReuseActive, Goto, At, VerifyQuantities, exchangeVars
<1>15. CASE ReuseProtected
  BY <1>15
  DEF Quiet, ReuseProtected, Untrack, EndPass, SetBoth, At, exchangeVars
<1>16. CASE OcoVerified
  BY <1>16
  DEF Quiet, OcoVerified, Goto, At, VerifyQuantities, journalVars, exchangeVars
<1>17. CASE OcoRejected
  BY <1>17
  DEF Quiet, OcoRejected, Goto, Reopen, At, exchangeVars
<1>18. CASE OcoUnknown
  BY <1>18
  DEF Quiet, OcoUnknown, Goto, At, exchangeVars
<1>19. CASE LookupFindsOco
  BY <1>19
  DEF Quiet, LookupFindsOco, Goto, At, VerifyQuantities, journalVars, exchangeVars
<1>20. CASE LookupGivesUp
  BY <1>20
  DEF Quiet, LookupGivesUp, Goto, At, journalVars, exchangeVars
<1>21. CASE RecordList
  BY <1>21
  DEF Quiet, RecordList, Goto, At, exchangeVars
<1>22. CASE RecordLegs
  BY <1>22
  DEF Quiet, RecordLegs, Goto, At, exchangeVars
<1>23. CASE MarkProtected
  BY <1>23
  DEF Quiet, MarkProtected, Untrack, EndPass, SetBoth, At, exchangeVars
<1>24. CASE MarketAnswered
  BY <1>24
  DEF Quiet, MarketAnswered, Goto, At, exchangeVars
<1>25. CASE MarketRejected
  BY <1>25
  DEF Quiet, MarketRejected, Halt, EndPass, At, exchangeVars
<1>26. CASE MarketUnknown
  BY <1>26
  DEF Quiet, MarketUnknown, Goto, At, exchangeVars
<1>27. CASE CloseFlattened \/ HaltFlattened
  BY <1>27
  DEF Quiet, CloseFlattened, HaltFlattened, journalVars, Goto, Untrack, EndPass, At,
      exchangeVars
<1>28. CASE Crash
  BY <1>28
  DEF Quiet, Crash, GoDown, At, journalVars, exchangeVars
<1>29. CASE Stop
  BY <1>29
  DEF Quiet, Stop, GoDown, At, journalVars, exchangeVars
<1>30. CASE OperatorReset
  BY <1>30
  DEF Quiet, OperatorReset, At, journalVars, exchangeVars, workerVars
<1>31. CASE Boot
  BY <1>31
  DEF Quiet, Boot, At, UnresolvedBuys, Unreconciled, Known, Nonterminal, exchangeVars
<1>32. CASE BootFails
  BY <1>32
  DEF Quiet, BootFails, At, UnresolvedBuys, Unreconciled, Known, Nonterminal,
      exchangeVars, workerVars
<1>33. ASSUME NEW l \in Lot, Poll(l)
      PROVE  Quiet(row)'
  BY <1>33
  DEF Quiet, Poll, At, exchangeVars
<1>34. ASSUME NEW c \in Sell, RecoverMarket(c)
      PROVE  Quiet(row)'
  BY <1>34
  DEF Quiet, RecoverMarket, Goto, At, ProtectionFor, journalVars, exchangeVars
<1>35. ASSUME NEW c \in Sell, RecoverList(c)
      PROVE  Quiet(row)'
  BY <1>35
  DEF Quiet, RecoverList, ReadList, ProtectionFor, At, journalVars, exchangeVars
<1>36. ASSUME NEW p \in Price, PlanOco(p)
      PROVE  Quiet(row)'
  <2>1. Planning
    BY <1>36 DEF Planning
  <2>2. UNCHANGED <<status, wire, sold, exits>>
    BY <2>1, PlannedIsNew DEF PosInv
  <2>. QED BY <2>2 DEF Quiet
<1>37. ASSUME NEW p \in Price, NEW c \in Sell, ReuseList(p, c)
      PROVE  Quiet(row)'
  BY <1>37
  DEF Quiet, ReuseList, ReadList, At, ActiveOco, SellActive, Covered, journalVars,
      exchangeVars
<1>38. ASSUME NEW p \in Price, NEW c \in Sell, ReuseAbsent(p, c)
      PROVE  Quiet(row)'
  BY <1>38
  DEF Quiet, ReuseAbsent, Goto, At, ActiveOco, SellActive, Covered, exchangeVars
<1>39. ASSUME NEW c \in Sell, ReuseUnreadable(c)
      PROVE  Quiet(row)'
  BY <1>39
  DEF Quiet, ReuseUnreadable, Halt, EndPass, At, ActiveOco, SellActive, Covered,
      exchangeVars
<1>40. CASE ReuseCanceled
  <2>1. Planning
    BY <1>40 DEF Planning
  <2>2. UNCHANGED <<status, wire, sold, exits>>
    BY <2>1, PlannedIsNew DEF PosInv
  <2>. QED BY <2>2 DEF Quiet
<1>41. CASE SendOco
  BY <1>41
  DEF Quiet, PassUnits, FillInv, Typed, PosInv, Sending, UnitsInv, UnitInv, WireInv,
      SendOco, Goto, At, journalVars
<1>42. CASE PlanMarket
  <2>1. Planning
    BY <1>42 DEF Planning
  <2>2. UNCHANGED <<status, wire, sold, exits>>
    BY <2>1, PlannedIsNew DEF PosInv
  <2>. QED BY <2>2 DEF Quiet
<1>43. ASSUME NEW c \in Sell, AdoptMarket(c)
      PROVE  Quiet(row)'
  BY <1>43
  DEF Quiet, AdoptMarket, Goto, At, ActiveMarket, SellActive, exchangeVars
<1>44. ASSUME NEW c \in Sell, MarketUnreadable(c)
      PROVE  Quiet(row)'
  BY <1>44
  DEF Quiet, MarketUnreadable, Halt, EndPass, At, ActiveMarket, SellActive,
      exchangeVars
<1>45. CASE SendMarket
  BY <1>45
  DEF Quiet, PassUnits, FillInv, Typed, PosInv, Sending, UnitsInv, UnitInv, WireInv,
      SendMarket, Goto, At, journalVars
<1>46. ASSUME NEW c \in Sell, OnFill(c)
      PROVE  Quiet(row)'
  BY <1>46
  DEF Quiet, OnFill, At, ExactExit, exchangeVars, workerVars
<1>47. ASSUME NEW l \in Lot, FillBuy(l)
      PROVE  Quiet(row)'
  BY <1>47
  DEF Quiet, FillBuy, journalVars, workerVars
<1>48. ASSUME NEW c \in Sell, Accept(c)
      PROVE  Quiet(row)'
  BY <1>48
  DEF Quiet, PassUnits, FillInv, Typed, PosInv, Sending, UnitsInv, UnitInv, WireInv,
      Accept, Answer, journalVars
<1>49. ASSUME NEW c \in Sell, Refuse(c)
      PROVE  Quiet(row)'
  BY <1>49
  DEF Quiet, Refuse, Answer, journalVars
<1>50. ASSUME NEW c \in Sell, Lose(c)
      PROVE  Quiet(row)'
  BY <1>50
  DEF Quiet, Lose, Answer, journalVars
<1>51. ASSUME NEW c \in Sell, Trade(c)
      PROVE  Quiet(row)'
  BY <1>51
  DEF Quiet, Trade, journalVars, workerVars, At
<1>52. ASSUME NEW c \in Sell, EndList(c)
      PROVE  Quiet(row)'
  BY <1>52
  DEF Quiet, EndList, journalVars, workerVars, At
<1>53. CASE UNCHANGED vars
  BY <1>53
  DEF Quiet, vars
<1>. QED
  BY <1>1, <1>2, <1>3, <1>4, <1>5, <1>6, <1>7, <1>8, <1>9, <1>10, <1>11, <1>12,
     <1>13, <1>14, <1>15, <1>16, <1>17, <1>18, <1>19, <1>20, <1>21, <1>22, <1>23,
     <1>24, <1>25, <1>26, <1>27, <1>28, <1>29, <1>30, <1>31, <1>32, <1>33, <1>34,
     <1>35, <1>36, <1>37, <1>38, <1>39, <1>40, <1>41, <1>42, <1>43, <1>44, <1>45,
     <1>46, <1>47, <1>48, <1>49, <1>50, <1>51, <1>52, <1>53
  DEF Next, Worker, Recovery, PlaceOco, Flatten, Exchange, Restart

(* and until it is quiet it sells what remains of its lot. *)
LEMMA RestNext ==
    ASSUME PassUnits, PosInv, OlderInv, RestInv, [Next]_vars, PassUnits'
    PROVE  RestInv'
<1>0. abandoned \subseteq abandoned'
  BY EveryPosition DEF Positions
<1>1. ASSUME NEW c \in Sell, c \notin abandoned', NEW l \in Lot, intent'[c].lot = l
      PROVE  (Quiet(c) \/ (c \notin exits /\ intent[c].qty = Remaining(l)))'
  <2>1. CASE Planning
    <3>1. /\ UNCHANGED <<wire, status, sold, exits>>
          /\ nextSell \notin wire /\ status[nextSell] = "absent"
          /\ \A d \in Sell \ {nextSell} : intent'[d] = intent[d]
          /\ Remaining(l)' = Remaining(l)
      BY <2>1, PlannedIsNew DEF PosInv
    <3>2. CASE c = nextSell
      BY <3>1, <3>2 DEF Quiet
    <3>3. CASE c # nextSell
      <4>1. intent'[c] = intent[c]
        BY <3>1, <3>3
      <4>2. Quiet(c) \/ (c \notin exits /\ intent[c].qty = Remaining(l))
        BY <1>0, <1>1, <4>1 DEF RestInv
      <4>. QED BY <3>1, <4>1, <4>2 DEF Quiet
    <3>. QED BY <3>2, <3>3
  <2>2. CASE UNCHANGED intent
    <3>1. intent[c].lot = l /\ intent[c] # NoIntent
      BY <1>1, <2>2, ProtectionAssumption DEF NoIntent, ProtectionAssumption
    <3>2. ASSUME Quiet(c), pc \in Sending, c = sell
          PROVE  c \notin exits' /\ intent'[c].qty = Remaining(l)'
      <4>1. cur = l /\ status[c] = "absent"
        BY <3>1, <3>2 DEF PosInv, NewestInv, SendInv, WithNewest
      <4>2. intent[c].qty = Remaining(l)
        BY <3>2, <4>1 DEF PosInv, SendInv
      <4>3. c \notin exits
        BY <4>1 DEF PassUnits, FillInv, RowsInv
      <4>4. ~Recorded
        BY <3>2, RecordedEffect DEF PassUnits, FillInv, Sending
      <4>5. Remaining(l)' = Remaining(l) /\ UNCHANGED exits
        BY <4>4, RemainingSteps, RowsKept
      <4>. QED BY <2>2, <4>2, <4>3, <4>5
    <3>3. CASE Quiet(c) /\ (pc \in Sending => c # sell)
      BY <3>1, <3>3, QuietStays
    <3>4. CASE ~Recorded /\ c \notin exits /\ intent[c].qty = Remaining(l)
      BY <2>2, <3>4, RemainingSteps, RowsKept
    <3>5. CASE Recorded /\ c \notin exits /\ intent[c].qty = Remaining(l)
      <4>1. /\ pc \in {"exit", "reuse-exit"} /\ sell \in Sell /\ intent[sell].lot = cur
            /\ status[sell] = "canceled" /\ exits' = exits \cup {sell} /\ status' = status
        BY <3>5, RecordedEffect DEF PassUnits, FillInv, Known
      <4>2. CASE l # cur
        <5>1. Remaining(l)' = Remaining(l)
          BY <3>5, <4>2, RecordedRemaining
        <5>. QED BY <2>2, <3>1, <3>5, <4>1, <4>2, <5>1
      <4>3. CASE c = sell
        <5>1. c \notin wire
          BY <3>1, <4>1, <4>3 DEF PosInv, WireInv
        <5>2. UNCHANGED wire
          BY <3>5 DEF Recorded, RecordPartialExit, ReusePartial, exchangeVars
        <5>. QED BY <4>1, <4>3, <5>1, <5>2 DEF Quiet
      <4>4. CASE l = cur /\ c # sell
        <5>1. pc \notin Sending
          BY <4>1 DEF Sending
        <5>2. Done(c)
          <6>1. CASE pc = "exit"
            BY <3>1, <4>4, <6>1, NewestOfPass DEF WithNewest
          <6>2. CASE pc = "reuse-exit"
            BY <3>1, <4>4, <6>2 DEF PosInv, PlanInv, Deciding, Reusing
          <6>. QED BY <4>1, <6>1, <6>2
        <5>3. Quiet(c)
          BY <1>0, <1>1, <5>2 DEF Done, Settled
        <5>. QED BY <3>1, <5>1, <5>3, QuietStays
      <4>. QED BY <4>2, <4>3, <4>4
    <3>6. Quiet(c) \/ (c \notin exits /\ intent[c].qty = Remaining(l))
      BY <1>0, <1>1, <3>1 DEF RestInv
    <3>. QED BY <3>2, <3>3, <3>4, <3>5, <3>6
  <2>. QED BY <2>1, <2>2, RowsKept
<1>. QED BY <1>1, Zenon DEF RestInv

(* The recorded exits that were not given up sold no more than the lot bought. *)
LEMMA FloorNext ==
    ASSUME PassUnits, PosInv, RestInv, FloorInv, [Next]_vars, PassUnits'
    PROVE  FloorInv'
<1>. SUFFICES ASSUME NEW l \in Lot
              PROVE  SumFunctionOnSet(sold', KeptExits(l)') <= Size[l]
  BY DEF FloorInv
<1>. DEFINE A == KeptExits(l)
            B == KeptExits(l)'
            E == exits \cap ChildrenOf(l)
<1>0. abandoned \subseteq abandoned'
  BY EveryPosition DEF Positions
<1>1. /\ A \subseteq Sell /\ IsFiniteSet(A) /\ B \subseteq Sell /\ IsFiniteSet(B)
      /\ E \subseteq Sell /\ IsFiniteSet(E) /\ A \subseteq E
  <2>1. A \subseteq Sell /\ B \subseteq Sell /\ E \subseteq Sell /\ A \subseteq E
    BY DEF KeptExits, ChildrenOf, Known
  <2>. QED BY <2>1, SellFinite, FS_Subset
<1>2. \A c \in Sell : sold[c] \in Nat /\ sold'[c] \in Nat
  BY DEF PassUnits, UnitsInv, UnitInv
<1>3. SumFunctionOnSet(sold, A) <= Size[l] /\ SumFunctionOnSet(sold, A) \in Nat /\ Size[l] \in Nat
  BY <1>1, <1>2, SumNat, RemainingIs DEF FloorInv, PassUnits
<1>4. \A c \in B \cap exits : sold'[c] = sold[c] /\ c \in A
  <2>1. ASSUME NEW c \in B \cap exits PROVE sold'[c] = sold[c] /\ c \in A
    <3>1. c \in Sell /\ c \in exits /\ c \notin abandoned /\ status[c] = "canceled" /\ intent[c] # NoIntent
      BY <1>0, <2>1 DEF KeptExits, ChildrenOf, Known, PassUnits, FillInv, RowsInv
    <3>2. intent'[c] = intent[c]
      <4>1. CASE Planning
        BY <3>1, <4>1, PlanningEffect DEF PassUnits, FillInv
      <4>. QED BY <4>1, RowsKept
    <3>3. sold'[c] = sold[c]
      <4>1. CASE Trading
        BY <3>1, <4>1, AcceptEffect DEF Trading, Trade, EndList, PassUnits, FillInv, Typed
      <4>2. CASE Planning \/ Recorded
        BY <3>1, <4>2, PlanningEffect, RecordedEffect DEF PassUnits, FillInv
      <4>. QED BY <4>1, <4>2, RowsChange DEF RowsMove
    <3>4. intent'[c].lot = l
      BY <2>1 DEF KeptExits, ChildrenOf
    <3>. QED BY <3>1, <3>2, <3>3, <3>4 DEF KeptExits, ChildrenOf, Known
  <2>. QED BY <2>1
<1>5. CASE B \subseteq exits
  <2>1. B \in SUBSET A /\ \A c \in B : sold'[c] = sold[c]
    BY <1>4, <1>5
  <2>. HIDE DEF A, B
  <2>2. SumFunctionOnSet(sold', B) = SumFunctionOnSet(sold, B)
    BY <1>1, <2>1, SumSame
  <2>3. SumFunctionOnSet(sold, B) <= SumFunctionOnSet(sold, A)
    BY <1>1, <1>2, <2>1, SumPart
  <2>4. SumFunctionOnSet(sold, B) \in Nat
    BY <1>1, <1>2, SumNat
  <2>. QED BY <1>3, <2>2, <2>3, <2>4 DEF B
<1>6. CASE ~(B \subseteq exits)
  <2>1. Recorded
    BY <1>6, RowsKept DEF KeptExits
  <2>2. /\ sell \in Sell /\ intent[sell].lot = cur /\ status[sell] = "canceled"
        /\ exits' = exits \cup {sell} /\ UNCHANGED <<intent, sold>>
    BY <2>1, RecordedEffect DEF PassUnits, FillInv, Known
  <2>3. sell \in B /\ sell \notin exits /\ B \ {sell} \subseteq exits
    BY <1>6, <2>2 DEF KeptExits
  <2>4. cur = l /\ sell \notin abandoned
    BY <1>0, <2>2, <2>3 DEF KeptExits, ChildrenOf
  <2>5. B \ {sell} \in SUBSET A
    BY <1>4, <2>3
  <2>. HIDE DEF A, B, E
  <2>6. SumFunctionOnSet(sold, B) = sold[sell] + SumFunctionOnSet(sold, B \ {sell})
    BY <1>1, <1>2, <2>3, SumTake
  <2>7. /\ SumFunctionOnSet(sold, B \ {sell}) <= SumFunctionOnSet(sold, A)
        /\ SumFunctionOnSet(sold, B \ {sell}) \in Nat
    <3>1. \A c \in B \ {sell} : sold[c] \in Nat
      BY <1>1, <1>2
    <3>2. IsFiniteSet(B \ {sell})
      BY <1>1, FS_RemoveElement
    <3>3. \A c \in A : sold[c] \in Nat
      BY <1>1, <1>2
    <3>. QED BY <1>1, <2>5, <3>1, <3>2, <3>3, SumPart, SumNat
  <2>8. UnitInv(sell)
    BY <2>2 DEF PassUnits, UnitsInv
  <2>9. sold[sell] = 0 \/ sold[sell] <= Remaining(l)
    <3>1. Quiet(sell) \/ intent[sell].qty = Remaining(l)
      BY <2>2, <2>4 DEF RestInv
    <3>2. CASE Quiet(sell)
      BY <2>2, <2>3, <3>2 DEF Quiet
    <3>3. CASE intent[sell].qty = Remaining(l)
      BY <2>8, <3>3 DEF UnitInv
    <3>. QED BY <3>1, <3>2, <3>3
  <2>10. /\ Remaining(l) = Size[l] - SumFunctionOnSet(sold, E)
         /\ SumFunctionOnSet(sold, E) \in Nat
    BY RemainingIs DEF PassUnits, E
  <2>11. SumFunctionOnSet(sold, A) <= SumFunctionOnSet(sold, E)
    <3>1. A \in SUBSET E
      BY <1>1
    <3>2. \A c \in E : sold[c] \in Nat
      BY <1>1, <1>2
    <3>. QED BY <1>1, <3>1, <3>2, SumPart
  <2>12. sold[sell] \in Nat
    BY <2>8 DEF UnitInv
  <2>13. SumFunctionOnSet(sold, B) <= Size[l]
    BY <1>3, <2>6, <2>7, <2>9, <2>10, <2>11, <2>12
  <2>. QED BY <2>2, <2>13 DEF B
<1>. QED BY <1>5, <1>6

(* What remains never grows, so every sell keeps covering it. *)
LEMMA CoverNext ==
    ASSUME PassUnits, WireInv, CoverInv, [Next]_vars, PassUnits'
    PROVE  CoverInv'
<1>1. ASSUME NEW l \in Lot
      PROVE  Remaining(l) \in Int /\ \E n \in Int : n <= Remaining(l) /\ Remaining(l)' = n
  <2>1. Remaining(l) \in Int
    BY RemainingIs DEF PassUnits
  <2>2. CASE Remaining(l)' = Remaining(l)
    BY <2>1, <2>2
  <2>3. CASE Recorded /\ l = cur /\ sell \notin exits
    <3>1. Remaining(l)' = Remaining(l) - sold[sell]
      BY <2>3, RecordedRemaining
    <3>2. sold[sell] \in Nat
      BY <2>3, RecordedEffect DEF PassUnits, FillInv, Known, UnitsInv, UnitInv
    <3>3. Remaining(l) - sold[sell] \in Int /\ Remaining(l) - sold[sell] <= Remaining(l)
      BY <2>1, <3>2
    <3>. QED BY <2>1, <3>1, <3>3
  <2>. QED BY <2>2, <2>3, RemainingSteps, RecordedRemaining
<1>2. ASSUME NEW c \in Sell, NEW l \in Lot, intent'[c] # NoIntent, intent'[c].lot = l
      PROVE  (Remaining(l) <= intent[c].qty)'
  <2>1. PICK n \in Int : n <= Remaining(l) /\ Remaining(l)' = n
    BY <1>1
  <2>2. n <= intent'[c].qty
    <3>1. CASE Planning /\ c = nextSell
      <4>1. intent'[c].qty = Remaining(cur) /\ cur = l
        BY <1>2, <3>1, PlannedIsNew
      <4>. QED BY <2>1, <4>1
    <3>2. CASE intent'[c] = intent[c]
      <4>1. Remaining(l) <= intent[c].qty /\ intent[c].qty \in Nat
        BY <1>2, <3>2 DEF CoverInv, PassUnits, UnitsInv, UnitInv
      <4>. QED BY <1>1, <2>1, <3>2, <4>1
    <3>. QED BY <3>1, <3>2, PlannedIsNew, RowsKept
  <2>. QED BY <2>1, <2>2, Zenon
<1>. QED BY <1>2, Zenon DEF CoverInv

(* The invariant holds at the start, *)
LEMMA ChainInit ==
    ASSUME Init
    PROVE  ChainInv
<1>1. FieldsOK
  <2>1. nextSell \in 1..(MaxSells + 1) /\ crashes \in 0..MaxCrashes
    BY ProtectionAssumption DEF Init, ProtectionAssumption
  <2>2. child \in [Sell -> ChildState]
    BY DEF Init, ChildState
  <2>. QED BY <2>1, <2>2 DEF Init, FieldsOK, NoSell
<1>2. PosInv
  BY DEF Init, PosInv, WireInv, NewestInv, SendInv, RefusedInv, ReuseInv, PlanInv,
         WithNewest, Sending, Reusing, Deciding
<1>3. ListInv
  BY DEF Init, ListInv, WithList, Reading, Selling, Recording
<1>4. OlderInv /\ CoverInv
  BY DEF Init, OlderInv, CoverInv
<1>5. RestInv
  BY ProtectionAssumption DEF Init, RestInv, NoIntent, ProtectionAssumption
<1>6. FloorInv
  <2>1. ASSUME NEW l \in Lot PROVE SumFunctionOnSet(sold, KeptExits(l)) <= Size[l]
    <3>1. KeptExits(l) = {}
      BY DEF Init, KeptExits
    <3>2. Size[l] \in Nat
      BY PassUnitsInit, RemainingIs DEF PassUnits
    <3>3. SumFunctionOnSet(sold, {}) = 0
      BY SumEmpty
    <3>. QED BY <3>1, <3>2, <3>3
  <2>. QED BY <2>1 DEF FloorInv
<1>. QED BY <1>1, <1>2, <1>3, <1>4, <1>5, <1>6, PassUnitsInit DEF ChainInv

(* and every step keeps it. *)
LEMMA ChainNext ==
    ASSUME ChainInv, [Next]_vars
    PROVE  ChainInv'
<1>1. /\ PassUnits /\ FieldsOK /\ ListInv /\ PosInv
      /\ OlderInv /\ RestInv /\ FloorInv /\ CoverInv
  BY DEF ChainInv
<1>2. FillInv
  BY <1>1 DEF PassUnits
<1>3. PassUnits' /\ FieldsOK'
  BY <1>1, <1>2, PassUnitsNext, FieldsNext
<1>4. ListInv'
  BY <1>1, <1>2, ListNext
<1>5. PosInv'
  BY <1>1, PosNext
<1>6. OlderInv'
  BY <1>1, <1>3, OlderNext
<1>7. RestInv' /\ FloorInv'
  BY <1>1, <1>3, RestNext, FloorNext
<1>8. CoverInv'
  BY <1>1, <1>3, CoverNext DEF PosInv
<1>. QED BY <1>3, <1>4, <1>5, <1>6, <1>7, <1>8 DEF ChainInv

---------------------------------------------------------------------------
(* What a lot commits *)

(* Quiet sells commit what their exits recorded. *)
LEMMA QuietCommit ==
    ASSUME UnitsInv, NEW T, T \subseteq Sell, \A c \in T : Quiet(c)
    PROVE  SumFunctionOnSet(Commitment, T) = SumFunctionOnSet(sold, exits \cap T)
<1>1. IsFiniteSet(T) /\ IsFiniteSet(T \ exits)
  BY SellFinite, FS_Subset
<1>2. \A c \in T : Commitment[c] = sold[c]
  <2>1. ASSUME NEW c \in T PROVE Commitment[c] = sold[c]
    <3>1. Resting(c) = 0
      BY DEF Quiet, Resting
    <3>2. Commitment[c] = sold[c] + Resting(c) /\ sold[c] \in Nat
      BY DEF Commitment, UnitsInv, UnitInv
    <3>. QED BY <3>1, <3>2
  <2>. QED BY <2>1
<1>3. SumFunctionOnSet(Commitment, T) = SumFunctionOnSet(sold, T)
  BY <1>1, <1>2, SumSame
<1>4. \A c \in T : sold[c] \in Int
  BY DEF UnitsInv, UnitInv
<1>5. SumFunctionOnSet(sold, T) = SumFunctionOnSet(sold, exits \cap T)
                                  + SumFunctionOnSet(sold, T \ (exits \cap T))
  <2>1. exits \cap T \in SUBSET T
    OBVIOUS
  <2>. QED BY <1>1, <1>4, <2>1, SumSplit
<1>6. T \ (exits \cap T) = T \ exits
  OBVIOUS
<1>7. \A c \in T \ exits : sold[c] = 0
  BY DEF Quiet, UnitsInv, UnitInv
<1>8. SumFunctionOnSet(sold, T \ exits) = 0
  BY <1>1, <1>7, SumZero
<1>9. SumFunctionOnSet(sold, exits \cap T) \in Int
  <2>1. IsFiniteSet(exits \cap T) /\ \A c \in exits \cap T : sold[c] \in Int
    BY <1>1, <1>4, FS_Subset
  <2>. QED BY <2>1, SumInt
<1>. QED BY <1>3, <1>5, <1>6, <1>8, <1>9

(* What a sell commits, and what the exits of a lot commit. *)
LEMMA CommitmentOf ==
    ASSUME PassUnits, NEW c \in Sell
    PROVE  /\ Commitment[c] = sold[c] + Resting(c) /\ Commitment[c] \in Nat
           /\ Commitment[c] <= intent[c].qty
           /\ status[c] = "live" => Commitment[c] = intent[c].qty
           /\ c \in exits => Commitment[c] = sold[c]
<1>1. UnitInv(c) /\ Commitment[c] = sold[c] + Resting(c)
  BY DEF PassUnits, UnitsInv, Commitment
<1>2. c \in exits => status[c] = "canceled"
  BY DEF PassUnits, FillInv, RowsInv
<1>. QED BY <1>1, <1>2 DEF UnitInv, Resting

(* The sells of a lot that were not given up commit no more than it bought. *)
LEMMA KeptCommitment ==
    ASSUME ChainInv, NEW l \in Lot
    PROVE  SumFunctionOnSet(Commitment, ChildrenOf(l) \ abandoned) <= Size[l]
<1>. DEFINE T == ChildrenOf(l) \ abandoned
            A == KeptExits(l)
            E == exits \cap ChildrenOf(l)
<1>1. PassUnits /\ UnitsInv /\ T \subseteq Sell /\ IsFiniteSet(T) /\ IsFiniteSet(E) /\ E \subseteq Sell
  <2>1. IsFiniteSet(ChildrenOf(l)) /\ ChildrenOf(l) \subseteq Sell
    BY ChildrenFinite
  <2>. QED BY <2>1, FS_Subset DEF ChainInv, PassUnits
<1>2. /\ Size[l] \in Nat /\ SumFunctionOnSet(sold, E) \in Nat
      /\ Remaining(l) = Size[l] - SumFunctionOnSet(sold, E)
  BY <1>1, RemainingIs
<1>3. \A c \in E : sold[c] \in Nat
  BY <1>1 DEF UnitsInv, UnitInv
<1>4. /\ SumFunctionOnSet(sold, A) <= Size[l] /\ SumFunctionOnSet(sold, A) \in Nat
      /\ SumFunctionOnSet(sold, A) <= SumFunctionOnSet(sold, E)
  <2>1. A \in SUBSET E
    BY DEF KeptExits
  <2>2. IsFiniteSet(A) /\ \A c \in A : sold[c] \in Nat
    BY <1>1, <1>3, <2>1, FS_Subset
  <2>3. SumFunctionOnSet(sold, A) <= Size[l]
    BY DEF ChainInv, FloorInv
  <2>. HIDE DEF A, E
  <2>. QED BY <1>1, <1>3, <2>1, <2>2, <2>3, SumPart, SumNat
<1>5. CASE \A c \in T : Quiet(c)
  <2>1. SumFunctionOnSet(Commitment, T) = SumFunctionOnSet(sold, exits \cap T)
    BY <1>1, <1>5, QuietCommit
  <2>2. exits \cap T = A
    BY DEF KeptExits
  <2>. QED BY <1>4, <2>1, <2>2
<1>6. ASSUME NEW c \in T, ~Quiet(c) PROVE SumFunctionOnSet(Commitment, T) <= Size[l]
  <2>1. c \in Sell /\ c \notin abandoned /\ intent[c] # NoIntent /\ intent[c].lot = l
    BY DEF ChildrenOf, Known
  <2>2. c \notin exits /\ intent[c].qty = Remaining(l)
    BY <1>6, <2>1 DEF ChainInv, RestInv
  <2>3. ASSUME NEW d \in T \ {c} PROVE Quiet(d)
    <3>1. d \in Sell /\ d \notin abandoned /\ intent[d] # NoIntent /\ intent[d].lot = l /\ d # c
      BY DEF ChildrenOf, Known
    <3>2. d < c \/ c < d
      BY <2>1, <3>1 DEF Sell
    <3>. QED BY <1>6, <2>1, <3>1, <3>2 DEF ChainInv, OlderInv, Done, Settled
  <2>4. \A d \in T : Commitment[d] \in Int
    BY <1>1, CommitmentOf
  <2>5. SumFunctionOnSet(Commitment, T) = Commitment[c] + SumFunctionOnSet(Commitment, T \ {c})
    <3>. HIDE DEF T
    <3>. QED BY <1>1, <1>6, <2>4, SumTake
  <2>6. SumFunctionOnSet(Commitment, T \ {c}) = SumFunctionOnSet(sold, A)
    <3>1. SumFunctionOnSet(Commitment, T \ {c}) = SumFunctionOnSet(sold, exits \cap (T \ {c}))
      BY <1>1, <2>3, QuietCommit
    <3>2. exits \cap (T \ {c}) = A
      BY <2>2 DEF KeptExits
    <3>. QED BY <3>1, <3>2
  <2>7. Commitment[c] \in Nat /\ Commitment[c] <= Remaining(l)
    BY <1>1, <2>1, <2>2, CommitmentOf
  <2>. HIDE DEF T, A, E
  <2>. QED BY <1>2, <1>4, <2>5, <2>6, <2>7
<1>. QED BY <1>5, <1>6

(* A list on the book and the exits before it commit all a lot bought. *)
LEMMA LiveCommitment ==
    ASSUME ChainInv, NEW l \in Lot, NEW c \in ChildrenOf(l), status[c] = "live"
    PROVE  Committed(l) >= Size[l]
<1>. DEFINE C == ChildrenOf(l)
            E == exits \cap ChildrenOf(l)
<1>1. PassUnits /\ UnitsInv /\ C \subseteq Sell /\ IsFiniteSet(C) /\ E \subseteq C /\ IsFiniteSet(E)
  <2>1. IsFiniteSet(ChildrenOf(l)) /\ ChildrenOf(l) \subseteq Sell
    BY ChildrenFinite
  <2>. QED BY <2>1, FS_Subset DEF ChainInv, PassUnits
<1>2. /\ Size[l] \in Nat /\ SumFunctionOnSet(sold, E) \in Nat
      /\ Remaining(l) = Size[l] - SumFunctionOnSet(sold, E)
  BY <1>1, RemainingIs
<1>3. c \in Sell /\ intent[c] # NoIntent /\ intent[c].lot = l
  BY DEF ChildrenOf, Known
<1>4. c \notin exits
  BY <1>1, <1>3 DEF PassUnits, FillInv, RowsInv
<1>5. Remaining(l) <= intent[c].qty /\ Commitment[c] = intent[c].qty /\ Commitment[c] \in Nat
  BY <1>1, <1>3, CommitmentOf DEF ChainInv, CoverInv
<1>6. \A d \in C : Commitment[d] \in Nat
  BY <1>1, CommitmentOf
<1>7. SumFunctionOnSet(Commitment, E) = SumFunctionOnSet(sold, E)
  <2>1. \A d \in E : Commitment[d] = sold[d]
    BY <1>1, CommitmentOf
  <2>. HIDE DEF E
  <2>. QED BY <1>1, <2>1, SumSame
<1>8. c \in C /\ E \in SUBSET (C \ {c}) /\ IsFiniteSet(C \ {c})
  BY <1>1, <1>4, FS_RemoveElement
<1>. HIDE DEF C, E
<1>9. SumFunctionOnSet(Commitment, C) = Commitment[c] + SumFunctionOnSet(Commitment, C \ {c})
  BY <1>1, <1>6, <1>8, SumTake
<1>10. /\ SumFunctionOnSet(Commitment, E) <= SumFunctionOnSet(Commitment, C \ {c})
       /\ SumFunctionOnSet(Commitment, C \ {c}) \in Nat
  BY <1>6, <1>8, SumPart, SumNat
<1>11. SumFunctionOnSet(Commitment, C) >= Size[l]
  BY <1>2, <1>5, <1>7, <1>9, <1>10
<1>. QED BY <1>11 DEF Committed, C

(* The invariant of the sells of a lot holds in every state. *)
THEOREM ChainInvariant == Spec => []ChainInv
<1>1. Init => ChainInv
  BY ChainInit
<1>2. ChainInv /\ [Next]_vars => ChainInv'
  BY ChainNext
<1>. QED BY <1>1, <1>2, PTL DEF Spec

(* Managed and legacy inventory stay separate: through partial exits, rejections,   *)
(* lost answers, flattens, crashes and restarts, what a lot has sold and still has   *)
(* on the book exceeds what it bought by no more than the OCO intents a pass went on *)
(* from without knowing them over.                                                   *)
THEOREM LegacyUntouchedHolds == Spec => []LegacyUntouched
<1>1. ChainInv => LegacyUntouched
  BY KeptCommitment DEF LegacyUntouched
<1>. QED BY <1>1, ChainInvariant, PTL

(* Protection is complete: with the list on the book, every unit the lot bought has *)
(* been sold or is on the book, whatever the exchange answered before.              *)
THEOREM ProtectionIsCompleteHolds == Spec => []ProtectionIsComplete
<1>1. ChainInv => ProtectionIsComplete
  BY LiveCommitment DEF ProtectionIsComplete
<1>. QED BY <1>1, ChainInvariant, PTL

=============================================================================
