------------------------- MODULE ExitManagementProofs -------------------------
(***************************************************************************)
(* Proofs about ExitManagement, for any BUYs, quantities, inventory held    *)
(* before and number of faults.                                             *)
(*                                                                          *)
(* SafeShape says what state a step of a control finds; it gives the types, *)
(* and Free >= 0: the exits never offer units the account does not have.    *)
(* GateInv ties the journal to the lists and gives the recovery gate.       *)
(* BalanceInv is the account of a session in one line: what it holds is     *)
(* what the lists in hand have to sell plus what the polled BUYs executed,  *)
(* up to the units the history variables count.  It needs to know that the  *)
(* controls' sums are right (GapInv, DriftInv, SnapUpper), that nothing     *)
(* they took in hand got lost (ClosingInv, OpenInv) and that BUYs which may *)
(* execute are polled (PolledInv).                                          *)
(***************************************************************************)
EXTENDS ExitManagement, FiniteSums, TLAPS

ListRec == [qty : 0..Qty, sold : 0..Qty, status : {"none", "open", "closing", "done"}]

Ranges ==
    /\ buy \in [Lots -> {"OPEN", "FILLED", "CANCELED"}]
    /\ bought \in [Lots -> 0..Qty]
    /\ lists \in [ListId -> ListRec]
    /\ flat \in Nat
    /\ prot \in [Lots -> {"none", "PENDING", "PROTECTED", "CLOSED"}]
    /\ anchors \subseteq ListId
    /\ halted \in BOOLEAN /\ faults \in 0..MaxFaults
    /\ worker \in {"up", "down"}
    /\ pc = "down" <=> worker = "down"
    /\ tracked \subseteq Lots /\ cur \in Lots \union {NoLot}
    /\ todo \subseteq Lots \/ todo \subseteq ListId
    /\ target \subseteq ListId /\ snap \in [ListId -> 0..Qty]
    /\ expected \in Nat /\ total0 \in Nat
    /\ resold \in Nat /\ missed \in Nat

(* A list sells at most its quantity, and rests while something of it is left. *)
ListsInv ==
    \A i \in ListId : /\ Remaining(i) >= 0
                      /\ Live(i) => Remaining(i) > 0
                      /\ lists[i].status = "none" => lists[i].qty = 0 /\ lists[i].sold = 0

LotsInv ==
    \A l \in Lots :
        /\ buy[l] = "OPEN" => bought[l] < Qty /\ prot[l] = "none"
        /\ prot[l] = "none" => lists[First(l)].status = "none"
        /\ lists[First(l)].status # "done" => lists[Raised(l)].status = "none"

SnapInv ==
    \A l \in Lots :
        /\ snap[Raised(l)] = 0
        /\ snap[First(l)] > 0 => /\ pc \in {"evenNext", "evenVerify", "evenPlace"}
                                 /\ lists[First(l)].status # "none"
                                 /\ lists[Raised(l)].status = "none"

FlattenSteps == {"gapBalances", "gapCancel", "gapPoll", "gapSell"}

StageInv ==
    /\ pc \in {"evenVerify", "evenPlace"} => \E l \in Lots : target = {First(l)} /\ snap[First(l)] > 0
    /\ pc \in {"evenPlace", "gapSell"} => Released
    /\ pc \in {"settle", "place"} => cur \in tracked /\ bought[cur] > 0 /\ prot[cur] = "none"
    /\ pc = "place" => buy[cur] # "OPEN"
    /\ pc = "cancelDelete" => cur \in tracked
    /\ pc = "timeHalt" => cur \in Lots /\ buy[cur] = "FILLED"
    /\ pc = "gapCancel" => todo \subseteq target
    /\ pc \in {"cancelRead", "cancelDelete"} => todo \subseteq tracked
    /\ target # {} => pc \in FlattenSteps \union {"evenVerify", "evenPlace"}
    /\ pc \in FlattenSteps => \A i \in target : lists[i].status # "none"

ShapeInv == Ranges /\ ListsInv /\ LotsInv /\ SnapInv /\ StageInv

(* The two lists of a BUY are lists, and different from each other and from those of
   any other BUY; every list is one of them. *)
LEMMA IdFacts ==
    /\ \A l \in Lots : First(l) \in ListId /\ Raised(l) \in ListId
    /\ \A l, m \in Lots : First(l) # Raised(m)
    /\ \A l, m \in Lots : l # m => First(l) # First(m) /\ Raised(l) # Raised(m)
    /\ \A i \in ListId : i[1] \in Lots /\ (i = First(i[1]) \/ i = Raised(i[1]))
    /\ \A i \in ListId : i[2] = "first" => i = First(i[1])
BY DEF ListId, First, Raised

(* A session has finitely many BUYs, hence lists. *)
LEMMA ListsFinite == IsFiniteSet(Lots) /\ IsFiniteSet(ListId)
<1>1. IsFiniteSet({"first", "raised"})
  <2>1. IsFiniteSet({"first"}) /\ IsFiniteSet({"raised"})
    BY FS_Singleton
  <2>2. IsFiniteSet({"first"} \union {"raised"})
    BY <2>1, FS_Union
  <2>3. {"first", "raised"} = {"first"} \union {"raised"}
    OBVIOUS
  <2> QED BY <2>2, <2>3, Zenon
<1>2. IsFiniteSet(Lots)
  BY ExitAssumption DEF ExitAssumption
<1>3. IsFiniteSet(Lots \X {"first", "raised"})
  BY <1>1, <1>2, FS_Product
<1> QED BY <1>2, <1>3 DEF ListId

(* Every list is one record; a step that touches one list leaves the others. *)
LEMMA OneListChanges ==
    ASSUME NEW i \in ListId, lists \in [ListId -> ListRec], lists' \in [ListId -> ListRec],
           \A j \in ListId \ {i} : lists'[j] = lists[j]
    PROVE  /\ SumFunctionOnSet(Sold', ListId) =
                SumFunctionOnSet(Sold, ListId) + lists'[i].sold - lists[i].sold
           /\ SumFunctionOnSet(Remainders', ListId) =
                SumFunctionOnSet(Remainders, ListId) + Remainders'[i] - Remainders[i]
<1>1. \A j \in ListId : /\ Sold[j] \in Int /\ Sold'[j] \in Int
                        /\ Remainders[j] \in Int /\ Remainders'[j] \in Int
                        /\ Sold[j] = lists[j].sold /\ Sold'[j] = lists'[j].sold
  BY ExitAssumption DEF ExitAssumption, Sold, Remainders, Remaining, ListRec
<1>2. \A j \in ListId \ {i} : Sold[j] = Sold'[j] /\ Remainders[j] = Remainders'[j]
  BY DEF Sold, Remainders, Remaining, Live
<1>3. SumFunctionOnSet(Sold', ListId) = SumFunctionOnSet(Sold, ListId) + Sold'[i] - Sold[i]
  BY <1>1, <1>2, ListsFinite, SumChange
<1>4. SumFunctionOnSet(Remainders', ListId) =
         SumFunctionOnSet(Remainders, ListId) + Remainders'[i] - Remainders[i]
  BY <1>1, <1>2, ListsFinite, SumChange
<1> QED BY <1>1, <1>3, <1>4

(* What the three kinds of change to a list do. *)
LEMMA ClosingEffect ==
    ASSUME lists \in [ListId -> ListRec], NEW i \in ListId, NEW s \in {"closing", "done"},
           lists' = [lists EXCEPT ![i].status = s]
    PROVE  /\ lists' \in [ListId -> ListRec]
           /\ \A j \in ListId \ {i} : lists'[j] = lists[j]
           /\ lists'[i].qty = lists[i].qty /\ lists'[i].sold = lists[i].sold
           /\ lists'[i].status = s
BY ExitAssumption DEF ListRec, ExitAssumption

(* A leg that executes adds a unit to what its list sold, and ends the list with the
   last one. *)
LEMMA LegEffect ==
    ASSUME lists \in [ListId -> ListRec], NEW i \in ListId, LegExecutes(i), Remaining(i) > 0
    PROVE  /\ lists' \in [ListId -> ListRec]
           /\ \A j \in ListId \ {i} : lists'[j] = lists[j]
           /\ lists'[i].qty = lists[i].qty /\ lists'[i].sold = lists[i].sold + 1
           /\ lists'[i].status = IF Remaining(i) = 1 THEN "done" ELSE lists[i].status
<1> DEFINE s == IF Remaining(i) = 1 THEN "done" ELSE lists[i].status
           r == [lists[i] EXCEPT !.sold = @ + 1]
           t == [r EXCEPT !.status = s]
<1>1. lists[i] \in ListRec
  OBVIOUS
<1>2. r \in ListRec /\ r.qty = lists[i].qty /\ r.sold = lists[i].sold + 1
  BY <1>1, ExitAssumption DEF ListRec, ExitAssumption, Remaining
<1>3. s \in {"none", "open", "closing", "done"}
  BY <1>1 DEF ListRec
<1>4. [lists[i] EXCEPT !.sold = @ + 1, !.status = s] = t
  OBVIOUS
<1>5. lists' = [lists EXCEPT ![i] = t]
  BY <1>4, Zenon DEF LegExecutes
<1> HIDE DEF s, r
<1>6. t \in ListRec /\ t.qty = r.qty /\ t.sold = r.sold /\ t.status = s
  BY <1>2, <1>3 DEF ListRec
<1> HIDE DEF t
<1>7. lists' \in [ListId -> ListRec] /\ lists'[i] = t /\ \A j \in ListId \ {i} : lists'[j] = lists[j]
  BY <1>5, <1>6
<1> QED BY <1>2, <1>6, <1>7 DEF s

(* A list that is placed rests with its whole quantity. *)
LEMMA NewListEffect ==
    ASSUME lists \in [ListId -> ListRec], NEW i \in ListId, NEW n \in 0..Qty,
           lists' = [lists EXCEPT ![i] = NewList(n)]
    PROVE  /\ lists' \in [ListId -> ListRec]
           /\ \A j \in ListId \ {i} : lists'[j] = lists[j]
           /\ lists'[i].qty = n /\ lists'[i].sold = 0 /\ lists'[i].status = "open"
<1>1. NewList(n) \in ListRec
  BY ExitAssumption DEF NewList, ListRec, ExitAssumption
<1>2. lists'[i] = NewList(n)
  OBVIOUS
<1> QED BY <1>1, <1>2 DEF NewList

(* The account is a number of units. *)
AccountNumbers ==
    Ranges /\ ListsInv =>
        /\ SumFunctionOnSet(bought, Lots) \in Nat
        /\ SumFunctionOnSet(Sold, ListId) \in Nat
        /\ SumFunctionOnSet(Remainders, ListId) \in Nat
        /\ Held \in Int /\ Total \in Int /\ Free \in Int
        /\ \A S \in SUBSET ListId : SumFunctionOnSet(Remainders, S) \in Nat

(* What was bought, sold and is on offer are natural numbers, and the balances
   integers. *)
LEMMA AccountIsNumber == AccountNumbers
<1> SUFFICES ASSUME Ranges, ListsInv
             PROVE  /\ SumFunctionOnSet(bought, Lots) \in Nat
                    /\ SumFunctionOnSet(Sold, ListId) \in Nat
                    /\ SumFunctionOnSet(Remainders, ListId) \in Nat
                    /\ Held \in Int /\ Total \in Int /\ Free \in Int
                    /\ \A S \in SUBSET ListId : SumFunctionOnSet(Remainders, S) \in Nat
  BY DEF AccountNumbers
<1> USE ExitAssumption DEF ExitAssumption
<1>1. /\ \A l \in Lots : bought[l] \in Nat
      /\ \A i \in ListId : Sold[i] \in Nat /\ Remainders[i] \in Nat
  BY DEF Ranges, ListsInv, Sold, Remainders, Remaining, ListRec
<1>2. /\ SumFunctionOnSet(bought, Lots) \in Nat
      /\ SumFunctionOnSet(Sold, ListId) \in Nat
      /\ \A S \in SUBSET ListId : SumFunctionOnSet(Remainders, S) \in Nat
  BY <1>1, ListsFinite, FS_Subset, SumNat
<1>3. flat \in Nat
  BY DEF Ranges
<1> QED BY <1>2, <1>3 DEF Held, Total, Free

Executed(l) == /\ bought'[l] = bought[l] + 1
               /\ \A m \in Lots \ {l} : bought'[m] = bought[m]

(* A BUY that executes a unit adds it to what was bought. *)
LEMMA BoughtEffect ==
    ASSUME Ranges, Ranges', NEW l \in Lots, Executed(l)
    PROVE  SumFunctionOnSet(bought, Lots)' = SumFunctionOnSet(bought, Lots) + 1
<1>1. \A m \in Lots : bought[m] \in Int /\ bought'[m] \in Int
  BY ExitAssumption DEF Ranges, ExitAssumption
<1>2. \A m \in Lots \ {l} : bought[m] = bought'[m]
  BY DEF Executed
<1>3. SumFunctionOnSet(bought', Lots) = SumFunctionOnSet(bought, Lots) + bought'[l] - bought[l]
  BY <1>1, <1>2, ListsFinite, SumChange
<1>4. SumFunctionOnSet(bought, Lots) \in Int
  BY <1>1, ListsFinite, SumInt
<1>5. bought'[l] = bought[l] + 1
  BY DEF Executed
<1> QED BY <1>1, <1>3, <1>4, <1>5

(* Every step keeps the ranges of the variables. *)
LEMMA RangesStep ==
    ASSUME ShapeInv, Free >= 0, [Next]_vars
    PROVE  Ranges'
<1> USE ExitAssumption
    DEF ExitAssumption, Ranges, ShapeInv, exchangeVars, durableVars, localVars,
        historyVars, HaltEndsHistory
<1>1. ASSUME SafetyCancelNotDue PROVE Ranges'
  BY <1>1 DEF SafetyCancelNotDue
<1>2. ASSUME SafetyCancelBegins PROVE Ranges'
  BY <1>2 DEF SafetyCancelBegins
<1>3. ASSUME SafetyDelete PROVE Ranges'
  BY <1>3 DEF SafetyDelete, Settled
<1>4. ASSUME SafetyReadFails PROVE Ranges'
  BY <1>4 DEF SafetyReadFails, NoLocals, Dies, Disturb
<1>5. ASSUME SafetyDeleteUnconfirmed PROVE Ranges'
  BY <1>5 DEF SafetyDeleteUnconfirmed, NoLocals, Dies, Disturb
<1>6. ASSUME SafetyCancelEnds PROVE Ranges'
  BY <1>6 DEF SafetyCancelEnds
<1>7. ASSUME NEW l \in Lots, SafetyRead(l) PROVE Ranges'
  BY <1>7 DEF SafetyRead, Settled
<1>8. ASSUME NoBreach PROVE Ranges'
  BY <1>8 DEF NoBreach
<1>9. ASSUME GapBalances PROVE Ranges'
  <2>1. Total \in Nat
    BY AccountIsNumber DEF AccountNumbers, Free
  <2>2. CASE Total < expected
    BY <1>9, <2>2 DEF GapBalances, HaltThen, FlattenEnds
  <2>3. CASE ~(Total < expected)
    BY <1>9, <2>1, <2>3 DEF GapBalances
  <2> QED BY <2>2, <2>3
<1>10. ASSUME GapSoldOut PROVE Ranges'
  BY <1>10 DEF GapSoldOut, FlattenEnds
<1>11. ASSUME GapReleased PROVE Ranges'
  <2>1. Residual \in Int
    BY AccountIsNumber DEF AccountNumbers, Residual, AtLeastZero
  <2> QED BY <1>11, <2>1 DEF GapReleased
<1>12. ASSUME GapGivesUp PROVE Ranges'
  BY <1>12 DEF GapGivesUp, HaltThen, FlattenEnds, Disturb
<1>13. ASSUME NEW breached \in SUBSET Resting, GapRead(breached) PROVE Ranges'
  <2>1. breached \subseteq ListId
    BY DEF Resting
  <2>2. SumFunctionOnSet(Remainders, breached) \in Nat
    BY <2>1, AccountIsNumber DEF AccountNumbers
  <2> QED BY <1>13, <2>1, <2>2 DEF GapRead
<1>14. ASSUME NEW i \in ListId, GapCancel(i) PROVE Ranges'
  <2>1. lists' \in [ListId -> ListRec]
    BY <1>14, ClosingEffect DEF GapCancel, Closing
  <2>2. todo' \subseteq ListId \/ todo' \subseteq Lots
    BY <1>14 DEF GapCancel
  <2> QED BY <1>14, <2>1, <2>2 DEF GapCancel
<1>15. ASSUME NEW i \in ListId, GapCancelFails(i) PROVE Ranges'
  <2>1. lists' \in [ListId -> ListRec]
    BY <1>15, ClosingEffect DEF GapCancelFails, Closing
  <2>2. faults' \in 0..MaxFaults
    BY <1>15 DEF GapCancelFails, Disturb
  <2> QED BY <1>15, <2>1, <2>2 DEF GapCancelFails
<1>16. ASSUME NEW n \in 0..(Qty * Cardinality(Lots)), GapSell(n) PROVE Ranges'
  <2>0. Qty * Cardinality(Lots) \in Nat
    <3>1. \A a, b \in Nat : a * b \in Nat
      OBVIOUS
    <3> QED BY <3>1, ListsFinite, FS_CardinalityType
  <2>1. n \in Nat /\ flat' = flat + n
    BY <1>16, <2>0 DEF GapSell
  <2>2. halted' \in BOOLEAN
    BY <1>16 DEF GapSell
  <2>3. faults' \in 0..MaxFaults
    BY <1>16 DEF GapSell, Disturb
  <2>4. FlattenEnds /\ pc = "gapSell" /\ pc' = "protect" /\ UNCHANGED <<buy, bought, lists, prot, anchors, worker>>
    BY <1>16 DEF GapSell
  <2>5. resold' \in Nat /\ missed' \in Nat
    BY <1>16 DEF GapSell
  <2> QED BY <2>1, <2>2, <2>3, <2>4, <2>5 DEF FlattenEnds
<1>17. ASSUME SweepEnds PROVE Ranges'
  BY <1>17 DEF SweepEnds
<1>18. ASSUME SettleRead PROVE Ranges'
  <2>1. faults' \in 0..MaxFaults
    BY <1>18 DEF SettleRead
  <2>2. resold' \in Nat /\ missed' \in Nat
    BY <1>18 DEF SettleRead
  <2>3. pc' \in {"place", "protect"} /\ pc = "settle" /\ halted' \in BOOLEAN
        /\ cur' \in Lots \union {NoLot}
    BY <1>18 DEF SettleRead
  <2>4. UNCHANGED <<exchangeVars, prot, anchors, worker, tracked, todo, target, snap,
                    expected, total0>>
    BY <1>18 DEF SettleRead
  <2> QED BY <2>1, <2>2, <2>3, <2>4
<1>19. ASSUME Protect PROVE Ranges'
  <2>1. cur \in Lots
    BY <1>19 DEF Protect, StageInv
  <2>2. lists' \in [ListId -> ListRec]
    BY <1>19, <2>1, IdFacts, NewListEffect DEF Protect
  <2>3. anchors' \subseteq ListId
    BY <1>19, <2>1, IdFacts DEF Protect
  <2> QED BY <1>19, <2>1, <2>2, <2>3 DEF Protect
<1>20. ASSUME NEW l \in Lots, SweepDrops(l) PROVE Ranges'
  BY <1>20 DEF SweepDrops
<1>21. ASSUME NEW l \in Lots, SettleCancel(l) PROVE Ranges'
  BY <1>21 DEF SettleCancel, Disturb
<1>22. ASSUME NEW l \in Lots, SweepReads(l) PROVE Ranges'
  BY <1>22 DEF SweepReads
<1>23. ASSUME NEW n \in 0..Qty, ProtectFails(n) PROVE Ranges'
  BY <1>23 DEF ProtectFails, Disturb
<1>24. ASSUME NoTimeStop PROVE Ranges'
  BY <1>24 DEF NoTimeStop
<1>25. ASSUME TimeStopUnavailable PROVE Ranges'
  BY <1>25 DEF TimeStopUnavailable, HaltThen, Disturb
<1>26. ASSUME TimeStopHalts PROVE Ranges'
  BY <1>26 DEF TimeStopHalts, HaltThen
<1>27. ASSUME NEW l \in Lots, NEW n \in 0..Qty, TimeSellRaises(l, n) PROVE Ranges'
  <2>1. n \in Nat /\ flat' = flat + n
    BY <1>27 DEF TimeSellRaises
  <2>2. halted' \in BOOLEAN
    BY <1>27 DEF TimeSellRaises
  <2>3. faults' \in 0..MaxFaults
    BY <1>27 DEF TimeSellRaises, Disturb
  <2>4. Dies /\ UNCHANGED <<buy, bought, lists, prot, anchors>>
    BY <1>27 DEF TimeSellRaises
  <2>5. resold' \in Nat /\ missed' \in Nat
    BY <1>27 DEF TimeSellRaises
  <2> QED BY <2>1, <2>2, <2>3, <2>4, <2>5 DEF Dies, NoLocals
<1>28. ASSUME NEW l \in Lots, NEW q \in 1..Qty, NEW n \in 0..Qty, TimeSell(l, q, n)
       PROVE  Ranges'
  BY <1>28 DEF TimeSell, Disturb
<1>29. ASSUME BreakevenNotDue PROVE Ranges'
  BY <1>29 DEF BreakevenNotDue
<1>30. ASSUME BreakevenRead PROVE Ranges'
  <2>1. snap' \in [ListId -> 0..Qty]
    BY <1>30 DEF BreakevenRead, ListsInv, Remaining, ListRec
  <2> QED BY <1>30, <2>1 DEF BreakevenRead
<1>31. ASSUME BreakevenConfirmed PROVE Ranges'
  BY <1>31 DEF BreakevenConfirmed
<1>32. ASSUME BreakevenUnconfirmed PROVE Ranges'
  BY <1>32 DEF BreakevenUnconfirmed, HaltThen, BreakevenAborts, Disturb
<1>33. ASSUME BreakevenEnds PROVE Ranges'
  BY <1>33 DEF BreakevenEnds
<1>34. ASSUME NEW i \in ListId, BreakevenCancel(i) PROVE Ranges'
  <2>1. lists' \in [ListId -> ListRec]
    BY <1>34, ClosingEffect DEF BreakevenCancel, Closing
  <2> QED BY <1>34, <2>1 DEF BreakevenCancel, Disturb
<1>35. ASSUME NEW i \in ListId, Rearm(i) PROVE Ranges'
  <2>1. lists' \in [ListId -> ListRec]
    <3>1. i[1] \in Lots /\ Raised(i[1]) \in ListId /\ snap[i] \in 0..Qty
      BY IdFacts
    <3> QED BY <1>35, <3>1, NewListEffect DEF Rearm
  <2>2. anchors' \subseteq ListId
    BY <1>35, IdFacts DEF Rearm
  <2> QED BY <1>35, <2>1, <2>2 DEF Rearm, Disturb
<1>36. ASSUME NEW i \in ListId, RearmFails(i) PROVE Ranges'
  <2>1. lists' \in [ListId -> ListRec]
    <3>1. i[1] \in Lots /\ Raised(i[1]) \in ListId /\ snap[i] \in 0..Qty
      BY IdFacts
    <3> QED BY <1>36, <3>1, NewListEffect DEF RearmFails
  <2>2. anchors' \subseteq ListId
    BY <1>36, IdFacts DEF RearmFails
  <2> QED BY <1>36, <2>1, <2>2 DEF RearmFails, Disturb
<1>37. ASSUME GateOpens PROVE Ranges'
  BY <1>37 DEF GateOpens
<1>38. ASSUME GateHalts PROVE Ranges'
  <2>1. prot' \in [Lots -> {"none", "PENDING", "PROTECTED", "CLOSED"}]
    BY <1>38 DEF GateHalts, Verified, Broken
  <2> QED BY <1>38, <2>1 DEF GateHalts
<1>39. ASSUME NEW l \in Lots, BuyExecutes(l) PROVE Ranges'
  <2>1. bought[l] + 1 \in 0..Qty
    BY <1>39 DEF BuyExecutes, LotsInv
  <2> QED BY <1>39, <2>1 DEF BuyExecutes
<1>40. ASSUME NEW l \in Lots, BuyExpires(l) PROVE Ranges'
  BY <1>40 DEF BuyExpires
<1>41. ASSUME NEW l \in Lots, RiskCheck(l) PROVE Ranges'
  BY <1>41 DEF RiskCheck, Verified
<1>42. ASSUME NEW i \in ListId, LegExecutes(i) PROVE Ranges'
  <2>1. Remaining(i) > 0
    BY <1>42 DEF LegExecutes, ListsInv
  <2>2. lists' \in [ListId -> ListRec]
    BY <1>42, <2>1, LegEffect
  <2> QED BY <1>42, <2>2 DEF LegExecutes
<1>43. ASSUME NEW i \in ListId, CancelTakesEffect(i) PROVE Ranges'
  <2>1. lists' \in [ListId -> ListRec]
    BY <1>43, ClosingEffect DEF CancelTakesEffect
  <2> QED BY <1>43, <2>1 DEF CancelTakesEffect
<1>44. ASSUME SessionEnds PROVE Ranges'
  BY <1>44 DEF SessionEnds, NoLocals, Dies
<1>45. ASSUME Crash PROVE Ranges'
  BY <1>45 DEF Crash, NoLocals, Dies, Disturb
<1>46. ASSUME UNCHANGED vars PROVE Ranges'
  BY <1>46 DEF vars, exchangeVars, durableVars, localVars
<1> QED
  BY <1>1, <1>2, <1>3, <1>4, <1>5, <1>6, <1>7, <1>8, <1>9, <1>10, <1>11, <1>12, <1>13,
     <1>14, <1>15, <1>16, <1>17, <1>18, <1>19, <1>20, <1>21, <1>22, <1>23, <1>24, <1>25,
     <1>26, <1>27, <1>28, <1>29, <1>30, <1>31, <1>32, <1>33, <1>34, <1>35, <1>36, <1>37,
     <1>38, <1>39, <1>40, <1>41, <1>42, <1>43, <1>44, <1>45, <1>46
  DEF Next, Tick, SafetyCancel, GapFlatten, Sweep, TimeStop, Breakeven, Gate, Exchange

---------------------------------------------------------------------------
(* What a step can do to the lists: one that rests sells a unit or nears its end, or
   a lot gets its first list or, when that one is done, its raised one. *)
Moved(i) == /\ Live(i)
            /\ \A j \in ListId \ {i} : lists'[j] = lists[j]
            /\ lists'[i].qty = lists[i].qty
            /\ lists'[i].sold \in {lists[i].sold, lists[i].sold + 1}
            /\ lists'[i].sold # lists[i].sold => LegExecutes(i)
            /\ lists'[i].status \in {"open", "closing", "done"}
            /\ lists'[i].status # "done" => lists'[i].sold < lists'[i].qty

Placed(i, n) == /\ lists[i].status = "none" /\ n > 0
                /\ \A j \in ListId \ {i} : lists'[j] = lists[j]
                /\ lists'[i].qty = n /\ lists'[i].sold = 0 /\ lists'[i].status = "open"

Replaced(l) == /\ pc = "evenPlace" /\ target = {First(l)} /\ snap'[First(l)] = 0
               /\ lists[First(l)].status = "done" /\ snap[First(l)] > 0
               /\ snap[First(l)] <= Free
               /\ Placed(Raised(l), snap[First(l)])

ListsChange == \/ UNCHANGED lists
               \/ \E i \in ListId : Moved(i)
               \/ \E l \in Lots : prot[l] = "none" /\ buy[l] # "OPEN" /\ prot'[l] = "PROTECTED"
                                   /\ bought[l] <= Free /\ Placed(First(l), bought[l])
               \/ \E l \in Lots : Replaced(l)

(* Every step changes the lists in one of the four ways of ListsChange. *)
LEMMA ListsMove ==
    ASSUME ShapeInv, [Next]_vars
    PROVE  ListsChange
<1> USE ExitAssumption
    DEF ExitAssumption, Ranges, ShapeInv, ListsChange, exchangeVars, durableVars, localVars
<1>1. ASSUME SafetyCancelNotDue PROVE ListsChange
  BY <1>1 DEF SafetyCancelNotDue
<1>2. ASSUME SafetyCancelBegins PROVE ListsChange
  BY <1>2 DEF SafetyCancelBegins
<1>3. ASSUME SafetyDelete PROVE ListsChange
  BY <1>3 DEF SafetyDelete
<1>4. ASSUME SafetyReadFails PROVE ListsChange
  BY <1>4 DEF SafetyReadFails
<1>5. ASSUME SafetyDeleteUnconfirmed PROVE ListsChange
  BY <1>5 DEF SafetyDeleteUnconfirmed
<1>6. ASSUME SafetyCancelEnds PROVE ListsChange
  BY <1>6 DEF SafetyCancelEnds
<1>7. ASSUME NEW l \in Lots, SafetyRead(l) PROVE ListsChange
  BY <1>7 DEF SafetyRead
<1>8. ASSUME NoBreach PROVE ListsChange
  BY <1>8 DEF NoBreach
<1>9. ASSUME GapBalances PROVE ListsChange
  BY <1>9 DEF GapBalances, HaltThen
<1>10. ASSUME GapSoldOut PROVE ListsChange
  BY <1>10 DEF GapSoldOut
<1>11. ASSUME GapReleased PROVE ListsChange
  BY <1>11 DEF GapReleased
<1>12. ASSUME GapGivesUp PROVE ListsChange
  BY <1>12 DEF GapGivesUp, HaltThen
<1>13. ASSUME NEW breached \in SUBSET Resting, GapRead(breached)
       PROVE  ListsChange
  BY <1>13 DEF GapRead
<1>14. ASSUME NEW i \in ListId, GapCancel(i) PROVE ListsChange
  <2>1. CASE lists' = Closing(i) /\ lists[i].status = "open"
    <3>1. Remaining(i) > 0 /\ Live(i)
      BY <2>1 DEF ListsInv, Live
    <3>2. Moved(i)
      BY <2>1, <3>1, ClosingEffect DEF Moved, Live, Closing, Remaining, ListRec
    <3> QED BY <3>2
  <2> QED BY <1>14, <2>1 DEF GapCancel
<1>15. ASSUME NEW i \in ListId, GapCancelFails(i) PROVE ListsChange
  <2>1. CASE lists' = Closing(i) /\ lists[i].status = "open"
    <3>1. Remaining(i) > 0 /\ Live(i)
      BY <2>1 DEF ListsInv, Live
    <3>2. Moved(i)
      BY <2>1, <3>1, ClosingEffect DEF Moved, Live, Closing, Remaining, ListRec
    <3> QED BY <3>2
  <2>2. CASE lists' = lists
    BY <2>2
  <2> QED BY <1>15, <2>1, <2>2 DEF GapCancelFails
<1>16. ASSUME NEW n \in 0..(Qty * Cardinality(Lots)), GapSell(n) PROVE ListsChange
  BY <1>16 DEF GapSell
<1>17. ASSUME SweepEnds PROVE ListsChange
  BY <1>17 DEF SweepEnds
<1>18. ASSUME SettleRead PROVE ListsChange
  BY <1>18 DEF SettleRead
<1>19. ASSUME Protect PROVE ListsChange
  <2>1. cur \in Lots /\ First(cur) \in ListId
    BY <1>19, IdFacts DEF Protect, StageInv
  <2>2. prot[cur] = "none" /\ bought[cur] > 0 /\ buy[cur] # "OPEN" /\ bought[cur] \in 0..Qty
    BY <1>19, <2>1 DEF Protect, StageInv
  <2>3. lists[First(cur)].status = "none"
    BY <2>1, <2>2 DEF LotsInv
  <2>4. lists' = [lists EXCEPT ![First(cur)] = NewList(bought[cur])]
    BY <1>19 DEF Protect
  <2>5. Placed(First(cur), bought[cur])
    BY <2>1, <2>2, <2>3, <2>4, NewListEffect DEF Placed
  <2>6. prot'[cur] = "PROTECTED" /\ bought[cur] <= Free
    BY <1>19, <2>1 DEF Protect
  <2> QED BY <2>1, <2>2, <2>5, <2>6
<1>20. ASSUME NEW l \in Lots, SweepDrops(l) PROVE ListsChange
  BY <1>20 DEF SweepDrops
<1>21. ASSUME NEW l \in Lots, SettleCancel(l) PROVE ListsChange
  BY <1>21 DEF SettleCancel
<1>22. ASSUME NEW l \in Lots, SweepReads(l) PROVE ListsChange
  BY <1>22 DEF SweepReads
<1>23. ASSUME NEW n \in 0..Qty, ProtectFails(n) PROVE ListsChange
  BY <1>23 DEF ProtectFails
<1>24. ASSUME NoTimeStop PROVE ListsChange
  BY <1>24 DEF NoTimeStop
<1>25. ASSUME TimeStopUnavailable PROVE ListsChange
  BY <1>25 DEF TimeStopUnavailable, HaltThen
<1>26. ASSUME TimeStopHalts PROVE ListsChange
  BY <1>26 DEF TimeStopHalts, HaltThen
<1>27. ASSUME NEW l \in Lots, NEW n \in 0..Qty, TimeSellRaises(l, n) PROVE ListsChange
  BY <1>27 DEF TimeSellRaises
<1>28. ASSUME NEW l \in Lots, NEW q \in 1..Qty, NEW n \in 0..Qty, TimeSell(l, q, n)
       PROVE  ListsChange
  BY <1>28 DEF TimeSell
<1>29. ASSUME BreakevenNotDue PROVE ListsChange
  BY <1>29 DEF BreakevenNotDue
<1>30. ASSUME BreakevenRead PROVE ListsChange
  BY <1>30 DEF BreakevenRead
<1>31. ASSUME BreakevenConfirmed PROVE ListsChange
  BY <1>31 DEF BreakevenConfirmed
<1>32. ASSUME BreakevenUnconfirmed PROVE ListsChange
  BY <1>32 DEF BreakevenUnconfirmed, HaltThen, BreakevenAborts
<1>33. ASSUME BreakevenEnds PROVE ListsChange
  BY <1>33 DEF BreakevenEnds
<1>34. ASSUME NEW i \in ListId, BreakevenCancel(i) PROVE ListsChange
  <2>1. CASE lists' = Closing(i) /\ lists[i].status = "open"
    <3>1. Remaining(i) > 0 /\ Live(i)
      BY <2>1 DEF ListsInv, Live
    <3>2. Moved(i)
      BY <2>1, <3>1, ClosingEffect DEF Moved, Live, Closing, Remaining, ListRec
    <3> QED BY <3>2
  <2>2. CASE lists' = lists
    BY <2>2
  <2> QED BY <1>34, <2>1, <2>2 DEF BreakevenCancel
<1>35. ASSUME NEW i \in ListId, Rearm(i) PROVE ListsChange
  <2>1. PICK l \in Lots : target = {First(l)} /\ snap[First(l)] > 0
    BY <1>35 DEF Rearm, StageInv
  <2>2. i = First(l) /\ i[1] = l /\ Raised(l) \in ListId /\ First(l) \in ListId
    BY <1>35, <2>1, IdFacts DEF Rearm, First
  <2>3. /\ ~Live(First(l)) /\ lists[First(l)].status # "none" /\ lists[Raised(l)].status = "none"
        /\ snap[First(l)] \in 0..Qty
    BY <1>35, <2>1, <2>2 DEF Rearm, StageInv, SnapInv, Released
  <2>4. lists[First(l)].status = "done"
    BY <2>2, <2>3 DEF Live, ListRec
  <2>5. ASSUME lists' = [lists EXCEPT ![Raised(i[1])] = NewList(snap[i])] PROVE Replaced(l)
    <3>1. pc = "evenPlace" /\ snap[First(l)] <= Free
      BY <1>35, <2>2 DEF Rearm
    <3>3. snap' = [snap EXCEPT ![i] = 0]
      BY <1>35, Zenon DEF Rearm
    <3>2. snap'[First(l)] = 0
      BY <2>2, <3>3
    <3>4. Placed(Raised(l), snap[First(l)])
      BY <2>1, <2>2, <2>3, <2>5, NewListEffect DEF Placed
    <3> QED BY <2>1, <2>4, <3>1, <3>2, <3>4 DEF Replaced
  <2> QED BY <1>35, <2>5 DEF Rearm
<1>36. ASSUME NEW i \in ListId, RearmFails(i) PROVE ListsChange
  <2>1. PICK l \in Lots : target = {First(l)} /\ snap[First(l)] > 0
    BY <1>36 DEF RearmFails, StageInv
  <2>2. i = First(l) /\ i[1] = l /\ Raised(l) \in ListId /\ First(l) \in ListId
    BY <1>36, <2>1, IdFacts DEF RearmFails, First
  <2>3. /\ ~Live(First(l)) /\ lists[First(l)].status # "none" /\ lists[Raised(l)].status = "none"
        /\ snap[First(l)] \in 0..Qty
    BY <1>36, <2>1, <2>2 DEF RearmFails, StageInv, SnapInv, Released
  <2>4. lists[First(l)].status = "done"
    BY <2>2, <2>3 DEF Live, ListRec
  <2>5. ASSUME snap[i] <= Free, lists' = [lists EXCEPT ![Raised(i[1])] = NewList(snap[i])]
        PROVE  Replaced(l)
    <3>1. pc = "evenPlace" /\ snap[First(l)] <= Free
      BY <1>36, <2>2, <2>5 DEF RearmFails
    <3>3. snap' = [j \in ListId |-> 0]
      BY <1>36, Zenon DEF RearmFails
    <3>2. snap'[First(l)] = 0
      BY <2>2, <3>3
    <3>4. Placed(Raised(l), snap[First(l)])
      BY <2>1, <2>2, <2>3, <2>5, NewListEffect DEF Placed
    <3> QED BY <2>1, <2>4, <3>1, <3>2, <3>4 DEF Replaced
  <2> QED BY <1>36, <2>5 DEF RearmFails
<1>37. ASSUME GateOpens PROVE ListsChange
  BY <1>37 DEF GateOpens
<1>38. ASSUME GateHalts PROVE ListsChange
  BY <1>38 DEF GateHalts
<1>39. ASSUME NEW l \in Lots, BuyExecutes(l) PROVE ListsChange
  BY <1>39 DEF BuyExecutes
<1>40. ASSUME NEW l \in Lots, BuyExpires(l) PROVE ListsChange
  BY <1>40 DEF BuyExpires
<1>41. ASSUME NEW l \in Lots, RiskCheck(l) PROVE ListsChange
  BY <1>41 DEF RiskCheck
<1>42. ASSUME NEW i \in ListId, LegExecutes(i) PROVE ListsChange
  <2>1. Live(i) /\ Remaining(i) > 0 /\ Remaining(i) \in Int
    BY <1>42 DEF LegExecutes, ListsInv, Remaining, ListRec
  <2>2. /\ \A j \in ListId \ {i} : lists'[j] = lists[j]
        /\ lists'[i].qty = lists[i].qty /\ lists'[i].sold = lists[i].sold + 1
        /\ lists'[i].status = IF Remaining(i) = 1 THEN "done" ELSE lists[i].status
    BY <1>42, <2>1, LegEffect
  <2>3. lists[i].qty \in Int /\ lists[i].sold \in Int /\ lists[i].status \in {"open", "closing"}
    BY <2>1 DEF Live, ListRec
  <2>4. lists'[i].status # "done" => lists'[i].sold < lists'[i].qty
    BY <2>1, <2>2, <2>3 DEF Remaining
  <2>5. Moved(i)
    BY <1>42, <2>1, <2>2, <2>3, <2>4 DEF Moved
  <2> QED BY <2>5
<1>43. ASSUME NEW i \in ListId, CancelTakesEffect(i) PROVE ListsChange
  <2>1. lists' = [lists EXCEPT ![i].status = "done"] /\ lists[i].status = "closing"
    BY <1>43 DEF CancelTakesEffect
  <2>2. Moved(i)
    BY <2>1, ClosingEffect DEF Moved, Live, ListRec
  <2> QED BY <2>2
<1>44. ASSUME SessionEnds PROVE ListsChange
  BY <1>44 DEF SessionEnds
<1>45. ASSUME Crash PROVE ListsChange
  BY <1>45 DEF Crash
<1>46. ASSUME UNCHANGED vars PROVE ListsChange
  BY <1>46 DEF vars
<1> QED
  BY <1>1, <1>2, <1>3, <1>4, <1>5, <1>6, <1>7, <1>8, <1>9, <1>10, <1>11, <1>12, <1>13,
     <1>14, <1>15, <1>16, <1>17, <1>18, <1>19, <1>20, <1>21, <1>22, <1>23, <1>24, <1>25,
     <1>26, <1>27, <1>28, <1>29, <1>30, <1>31, <1>32, <1>33, <1>34, <1>35, <1>36, <1>37,
     <1>38, <1>39, <1>40, <1>41, <1>42, <1>43, <1>44, <1>45, <1>46
  DEF Next, Tick, SafetyCancel, GapFlatten, Sweep, TimeStop, Breakeven, Gate, Exchange

(* No step lets a list sell more than its quantity, or rest with nothing left. *)
LEMMA ListsStep ==
    ASSUME Ranges, ListsInv, ListsChange, Ranges'
    PROVE  ListsInv'
<1> USE ExitAssumption DEF ExitAssumption
<1>0. \A i \in ListId : lists[i] \in ListRec /\ lists'[i] \in ListRec
  BY DEF Ranges
<1>1. ASSUME NEW i \in ListId, lists'[i] = lists[i]
      PROVE /\ Remaining(i)' >= 0
            /\ Live(i)' => Remaining(i)' > 0
            /\ lists'[i].status = "none" => lists'[i].qty = 0 /\ lists'[i].sold = 0
  BY <1>1 DEF ListsInv, Remaining, Live
<1>2. ASSUME NEW j \in ListId, Moved(j) PROVE ListsInv'
  <2>1. /\ Remaining(j)' >= 0
        /\ Live(j)' => Remaining(j)' > 0
        /\ lists'[j].status # "none"
    BY <1>0, <1>2 DEF Moved, ListsInv, Remaining, Live, ListRec
  <2>2. \A i \in ListId \ {j} : lists'[i] = lists[i]
    BY <1>2 DEF Moved
  <2> QED BY <1>1, <2>1, <2>2 DEF ListsInv
<1>3. ASSUME NEW j \in ListId, NEW n \in Nat, Placed(j, n) PROVE ListsInv'
  <2>1. /\ Remaining(j)' >= 0
        /\ Live(j)' => Remaining(j)' > 0
        /\ lists'[j].status # "none"
    BY <1>3 DEF Placed, Remaining
  <2>2. \A i \in ListId \ {j} : lists'[i] = lists[i]
    BY <1>3 DEF Placed
  <2> QED BY <1>1, <2>1, <2>2 DEF ListsInv
<1>4. CASE UNCHANGED lists
  BY <1>1, <1>4 DEF ListsInv
<1>5. \A l \in Lots : /\ First(l) \in ListId /\ Raised(l) \in ListId
                      /\ bought[l] \in Nat /\ snap[First(l)] \in Nat
  BY IdFacts DEF Ranges
<1> QED BY <1>2, <1>3, <1>4, <1>5 DEF ListsChange, Replaced

(* A list that was placed stays placed, and one that is done stays done. *)
LEMMA ListsAge ==
    ASSUME ListsChange, NEW i \in ListId, lists[i].status # "none"
    PROVE  /\ lists'[i].status # "none"
           /\ lists[i].status = "done" => lists'[i] = lists[i]
           /\ Live(i)' => Live(i)
<1>1. \A j \in ListId : Moved(j) => /\ lists'[i].status # "none"
                                    /\ lists[i].status = "done" => lists'[i] = lists[i]
                                    /\ Live(i)' => Live(i)
  BY DEF Moved, Live
<1>2. \A j \in ListId : \A n : Placed(j, n) => lists'[i] = lists[i]
  BY DEF Placed
<1>3. \A l \in Lots : First(l) \in ListId /\ Raised(l) \in ListId
  BY IdFacts
<1>4. \/ lists'[i] = lists[i]
      \/ \E j \in ListId : Moved(j)
  BY <1>2, <1>3 DEF ListsChange, Replaced
<1>5. CASE lists'[i] = lists[i]
  BY <1>5 DEF Live
<1> QED BY <1>1, <1>4, <1>5

(* The quantity of a list is fixed when it is placed. *)
LEMMA ListQuantityStays ==
    ASSUME ListsChange, NEW i \in ListId, lists[i].status # "none"
    PROVE  lists'[i].qty = lists[i].qty
<1>1. \A j \in ListId : Moved(j) => lists'[i].qty = lists[i].qty
  BY DEF Moved
<1>2. \A j \in ListId : \A n : Placed(j, n) => lists'[i] = lists[i]
  BY DEF Placed
<1>3. \A l \in Lots : First(l) \in ListId /\ Raised(l) \in ListId
  BY IdFacts
<1> QED BY <1>1, <1>2, <1>3 DEF ListsChange, Replaced

---------------------------------------------------------------------------
(* What a step can do to a BUY: only an open one executes, and the journal says
   nothing of it before it is closed. *)
BuyChange ==
    \A l \in Lots : /\ buy'[l] = "OPEN" => buy[l] = "OPEN" /\ prot'[l] = prot[l] /\ bought'[l] < Qty
                    /\ prot'[l] = "none" => prot[l] = "none"
                    /\ buy[l] # "OPEN" => bought'[l] = bought[l] /\ buy'[l] = buy[l]
                    /\ bought'[l] \in {bought[l], bought[l] + 1}

(* Every step changes the BUYs in one of the ways of BuyChange. *)
LEMMA BuysMove ==
    ASSUME ShapeInv, [Next]_vars
    PROVE  BuyChange
<1> USE ExitAssumption
    DEF ExitAssumption, Ranges, ShapeInv, LotsInv, BuyChange, exchangeVars, durableVars, localVars
<1>1. ASSUME SafetyCancelNotDue PROVE BuyChange
  BY <1>1 DEF SafetyCancelNotDue
<1>2. ASSUME SafetyCancelBegins PROVE BuyChange
  BY <1>2 DEF SafetyCancelBegins
<1>3. ASSUME SafetyDelete PROVE BuyChange
  BY <1>3 DEF SafetyDelete
<1>4. ASSUME SafetyReadFails PROVE BuyChange
  BY <1>4 DEF SafetyReadFails
<1>5. ASSUME SafetyDeleteUnconfirmed PROVE BuyChange
  BY <1>5 DEF SafetyDeleteUnconfirmed
<1>6. ASSUME SafetyCancelEnds PROVE BuyChange
  BY <1>6 DEF SafetyCancelEnds
<1>7. ASSUME NEW l \in Lots, SafetyRead(l) PROVE BuyChange
  BY <1>7 DEF SafetyRead
<1>8. ASSUME NoBreach PROVE BuyChange
  BY <1>8 DEF NoBreach
<1>9. ASSUME GapBalances PROVE BuyChange
  BY <1>9 DEF GapBalances, HaltThen
<1>10. ASSUME GapSoldOut PROVE BuyChange
  BY <1>10 DEF GapSoldOut
<1>11. ASSUME GapReleased PROVE BuyChange
  BY <1>11 DEF GapReleased
<1>12. ASSUME GapGivesUp PROVE BuyChange
  BY <1>12 DEF GapGivesUp, HaltThen
<1>13. ASSUME NEW breached \in SUBSET Resting, GapRead(breached)
       PROVE  BuyChange
  BY <1>13 DEF GapRead
<1>14. ASSUME NEW i \in ListId, GapCancel(i) PROVE BuyChange
  BY <1>14 DEF GapCancel
<1>15. ASSUME NEW i \in ListId, GapCancelFails(i) PROVE BuyChange
  BY <1>15 DEF GapCancelFails
<1>16. ASSUME NEW n \in 0..(Qty * Cardinality(Lots)), GapSell(n) PROVE BuyChange
  BY <1>16 DEF GapSell
<1>17. ASSUME SweepEnds PROVE BuyChange
  BY <1>17 DEF SweepEnds
<1>18. ASSUME SettleRead PROVE BuyChange
  BY <1>18 DEF SettleRead
<1>19. ASSUME Protect PROVE BuyChange
  <2>1. cur \in Lots /\ buy[cur] # "OPEN"
    BY <1>19 DEF Protect, StageInv
  <2> QED BY <1>19, <2>1 DEF Protect
<1>20. ASSUME NEW l \in Lots, SweepDrops(l) PROVE BuyChange
  BY <1>20 DEF SweepDrops
<1>21. ASSUME NEW l \in Lots, SettleCancel(l) PROVE BuyChange
  BY <1>21 DEF SettleCancel
<1>22. ASSUME NEW l \in Lots, SweepReads(l) PROVE BuyChange
  BY <1>22 DEF SweepReads
<1>23. ASSUME NEW n \in 0..Qty, ProtectFails(n) PROVE BuyChange
  <2>1. cur \in Lots /\ buy[cur] # "OPEN"
    BY <1>23 DEF ProtectFails, StageInv
  <2>2. UNCHANGED <<buy, bought>>
    BY <1>23 DEF ProtectFails
  <2>3. \E p \in {"CLOSED", "PENDING", prot[cur]} : prot' = [prot EXCEPT ![cur] = p]
    BY <1>23 DEF ProtectFails
  <2>4. \A l \in Lots \ {cur} : prot'[l] = prot[l]
    BY <2>3
  <2>5. prot'[cur] = "none" => prot[cur] = "none"
    BY <2>1, <2>3
  <2> QED BY <2>1, <2>2, <2>4, <2>5
<1>24. ASSUME NoTimeStop PROVE BuyChange
  BY <1>24 DEF NoTimeStop
<1>25. ASSUME TimeStopUnavailable PROVE BuyChange
  BY <1>25 DEF TimeStopUnavailable, HaltThen
<1>26. ASSUME TimeStopHalts PROVE BuyChange
  BY <1>26 DEF TimeStopHalts, HaltThen
<1>27. ASSUME NEW l \in Lots, NEW n \in 0..Qty, TimeSellRaises(l, n) PROVE BuyChange
  BY <1>27 DEF TimeSellRaises
<1>28. ASSUME NEW l \in Lots, NEW q \in 1..Qty, NEW n \in 0..Qty, TimeSell(l, q, n)
       PROVE  BuyChange
  BY <1>28 DEF TimeSell
<1>29. ASSUME BreakevenNotDue PROVE BuyChange
  BY <1>29 DEF BreakevenNotDue
<1>30. ASSUME BreakevenRead PROVE BuyChange
  BY <1>30 DEF BreakevenRead
<1>31. ASSUME BreakevenConfirmed PROVE BuyChange
  BY <1>31 DEF BreakevenConfirmed
<1>32. ASSUME BreakevenUnconfirmed PROVE BuyChange
  BY <1>32 DEF BreakevenUnconfirmed, HaltThen, BreakevenAborts
<1>33. ASSUME BreakevenEnds PROVE BuyChange
  BY <1>33 DEF BreakevenEnds
<1>34. ASSUME NEW i \in ListId, BreakevenCancel(i) PROVE BuyChange
  BY <1>34 DEF BreakevenCancel
<1>35. ASSUME NEW i \in ListId, Rearm(i) PROVE BuyChange
  BY <1>35 DEF Rearm
<1>36. ASSUME NEW i \in ListId, RearmFails(i) PROVE BuyChange
  BY <1>36 DEF RearmFails
<1>37. ASSUME GateOpens PROVE BuyChange
  BY <1>37 DEF GateOpens
<1>38. ASSUME GateHalts PROVE BuyChange
  <2>1. \A l \in Lots : prot'[l] = prot[l] \/ (prot[l] = "PROTECTED" /\ prot'[l] # "none")
    <3>1. CASE prot' = prot
      BY <3>1
    <3>2. ASSUME NEW m \in Lots, prot[m] = "PROTECTED", prot' = [prot EXCEPT ![m] = Verified(m)]
          PROVE  \A l \in Lots : prot'[l] = prot[l] \/ (prot[l] = "PROTECTED" /\ prot'[l] # "none")
      <4>1. Verified(m) # "none"
        BY DEF Verified
      <4>2. prot'[m] # "none"
        BY <3>2, <4>1
      <4>3. \A l \in Lots \ {m} : prot'[l] = prot[l]
        BY <3>2
      <4> QED BY <3>2, <4>2, <4>3
    <3> QED BY <1>38, <3>1, <3>2 DEF GateHalts, Broken
  <2> QED BY <1>38, <2>1 DEF GateHalts
<1>39. ASSUME NEW l \in Lots, BuyExecutes(l) PROVE BuyChange
  <2>1. buy[l] = "OPEN" /\ bought' = [bought EXCEPT ![l] = bought[l] + 1] /\ prot' = prot
    BY <1>39 DEF BuyExecutes
  <2>2. buy' = [buy EXCEPT ![l] = IF bought[l] + 1 = Qty THEN "FILLED" ELSE buy[l]]
    BY <1>39 DEF BuyExecutes
  <2>3. \A m \in Lots \ {l} : bought'[m] = bought[m] /\ buy'[m] = buy[m]
    BY <2>1, <2>2
  <2>4. bought'[l] = bought[l] + 1 /\ bought[l] < Qty /\ bought[l] \in Nat
    BY <2>1
  <2>5. buy'[l] = "OPEN" => bought'[l] < Qty
    BY <2>1, <2>2, <2>4
  <2> QED BY <2>1, <2>3, <2>4, <2>5
<1>40. ASSUME NEW l \in Lots, BuyExpires(l) PROVE BuyChange
  BY <1>40 DEF BuyExpires
<1>41. ASSUME NEW l \in Lots, RiskCheck(l) PROVE BuyChange
  <2>1. \A m \in Lots : prot'[m] = prot[m] \/ (prot[m] = "PROTECTED" /\ prot'[m] # "none")
    <3>1. prot[l] = "PROTECTED" /\ prot' = [prot EXCEPT ![l] = Verified(l)]
      BY <1>41 DEF RiskCheck
    <3>2. Verified(l) # "none"
      BY DEF Verified
    <3>3. prot'[l] # "none"
      BY <3>1, <3>2
    <3>4. \A m \in Lots \ {l} : prot'[m] = prot[m]
      BY <3>1
    <3> QED BY <3>1, <3>3, <3>4
  <2> QED BY <1>41, <2>1 DEF RiskCheck
<1>42. ASSUME NEW i \in ListId, LegExecutes(i) PROVE BuyChange
  BY <1>42 DEF LegExecutes
<1>43. ASSUME NEW i \in ListId, CancelTakesEffect(i) PROVE BuyChange
  BY <1>43 DEF CancelTakesEffect
<1>44. ASSUME SessionEnds PROVE BuyChange
  BY <1>44 DEF SessionEnds
<1>45. ASSUME Crash PROVE BuyChange
  BY <1>45 DEF Crash
<1>46. ASSUME UNCHANGED vars PROVE BuyChange
  BY <1>46 DEF vars
<1> QED
  BY <1>1, <1>2, <1>3, <1>4, <1>5, <1>6, <1>7, <1>8, <1>9, <1>10, <1>11, <1>12, <1>13,
     <1>14, <1>15, <1>16, <1>17, <1>18, <1>19, <1>20, <1>21, <1>22, <1>23, <1>24, <1>25,
     <1>26, <1>27, <1>28, <1>29, <1>30, <1>31, <1>32, <1>33, <1>34, <1>35, <1>36, <1>37,
     <1>38, <1>39, <1>40, <1>41, <1>42, <1>43, <1>44, <1>45, <1>46
  DEF Next, Tick, SafetyCancel, GapFlatten, Sweep, TimeStop, Breakeven, Gate, Exchange

(* The order in which a BUY, its journal entry and its two lists come into being is
   kept. *)
LEMMA LotsStep ==
    ASSUME LotsInv, ListsChange, BuyChange, Ranges
    PROVE  LotsInv'
<1> SUFFICES ASSUME NEW l \in Lots
             PROVE  /\ buy'[l] = "OPEN" => bought'[l] < Qty /\ prot'[l] = "none"
                    /\ prot'[l] = "none" => lists'[First(l)].status = "none"
                    /\ lists'[First(l)].status # "done" => lists'[Raised(l)].status = "none"
  BY DEF LotsInv
<1>0. First(l) \in ListId /\ Raised(l) \in ListId
  BY IdFacts
<1>1. buy'[l] = "OPEN" => bought'[l] < Qty /\ prot'[l] = "none"
  BY Zenon DEF LotsInv, BuyChange
<1>2. ASSUME prot'[l] = "none" PROVE lists'[First(l)].status = "none"
  <2>1. lists[First(l)].status = "none"
    BY <1>2, Zenon DEF LotsInv, BuyChange
  <2>2. \A i \in ListId : Moved(i) => lists'[First(l)] = lists[First(l)]
    BY <1>0, <2>1 DEF Moved, Live
  <2>3. \A m \in Lots : /\ Replaced(m) => lists'[First(l)] = lists[First(l)]
                        /\ m # l /\ Placed(First(m), bought[m]) => lists'[First(l)] = lists[First(l)]
    BY <1>0, IdFacts DEF Replaced, Placed
  <2>4. lists'[First(l)] = lists[First(l)]
    BY <1>2, <2>2, <2>3 DEF ListsChange
  <2> QED BY <2>1, <2>4
<1>3. ASSUME lists'[First(l)].status # "done" PROVE lists'[Raised(l)].status = "none"
  <2>1. lists[First(l)].status # "done"
    BY <1>0, <1>3, ListsAge
  <2>2. lists[Raised(l)].status = "none"
    BY <2>1 DEF LotsInv
  <2>3. \A i \in ListId : Moved(i) => lists'[Raised(l)] = lists[Raised(l)]
    BY <1>0, <2>2 DEF Moved, Live
  <2>4. \A m \in Lots : /\ Placed(First(m), bought[m]) => lists'[Raised(l)] = lists[Raised(l)]
                        /\ Replaced(m) => lists'[Raised(l)] = lists[Raised(l)]
    BY <1>0, <2>1, IdFacts DEF Replaced, Placed
  <2>5. lists'[Raised(l)] = lists[Raised(l)]
    BY <2>3, <2>4 DEF ListsChange
  <2> QED BY <2>2, <2>5
<1> QED BY <1>1, <1>2, <1>3

(* A step outside breakeven leaves what breakeven read alone or forgets it. *)
LEMMA SnapMoves ==
    ASSUME ListsChange, SnapInv, NEW l \in Lots, snap[First(l)] > 0, snap'[First(l)] # 0
    PROVE  lists'[First(l)].status # "none" /\ lists'[Raised(l)].status = "none"
<1>0. First(l) \in ListId /\ Raised(l) \in ListId
  BY IdFacts
<1>1. lists[First(l)].status # "none" /\ lists[Raised(l)].status = "none"
  BY DEF SnapInv
<1>2. lists'[First(l)].status # "none"
  BY <1>0, <1>1, ListsAge
<1>3. \A i \in ListId : Moved(i) => lists'[Raised(l)] = lists[Raised(l)]
  BY <1>0, <1>1 DEF Moved, Live
<1>4. \A m \in Lots : /\ Placed(First(m), bought[m]) => lists'[Raised(l)] = lists[Raised(l)]
                      /\ Replaced(m) => m # l
  BY <1>0, IdFacts DEF Replaced, Placed
<1>5. \A m \in Lots : Replaced(m) => lists'[Raised(l)] = lists[Raised(l)]
  BY <1>0, <1>4, IdFacts DEF Replaced, Placed
<1>6. lists'[Raised(l)] = lists[Raised(l)]
  BY <1>3, <1>4, <1>5 DEF ListsChange
<1> QED BY <1>1, <1>2, <1>6

---------------------------------------------------------------------------
(* What a step can do to the remaining quantities breakeven read. *)
Raising == {"evenNext", "evenVerify", "evenPlace"}

SnapChange ==
    \A i \in ListId :
        \/ snap'[i] = 0
        \/ snap'[i] = snap[i] /\ (pc' = pc \/ pc' \in Raising)
        \/ /\ pc' = "evenNext" /\ UNCHANGED lists
           /\ Movable(i) /\ snap'[i] = Remaining(i)

(* Each remaining quantity breakeven read is kept, dropped, or read anew. *)
LEMMA SnapsMove ==
    ASSUME Ranges, SnapInv, [Next]_vars
    PROVE  SnapChange
<1> USE DEF Ranges, SnapChange, exchangeVars, durableVars, localVars, Raising
<1>0. pc \notin Raising => \A i \in ListId : snap[i] = 0
  <2>1. \A i \in ListId : snap[i] \in Nat /\ i[1] \in Lots /\ (i = First(i[1]) \/ i = Raised(i[1]))
    BY IdFacts, ExitAssumption DEF ExitAssumption
  <2> QED BY <2>1 DEF SnapInv
<1> USE <1>0
<1>1. ASSUME SafetyCancelNotDue PROVE SnapChange
  BY <1>1 DEF SafetyCancelNotDue
<1>2. ASSUME SafetyCancelBegins PROVE SnapChange
  BY <1>2 DEF SafetyCancelBegins
<1>3. ASSUME SafetyDelete PROVE SnapChange
  BY <1>3 DEF SafetyDelete, Settled
<1>4. ASSUME SafetyReadFails PROVE SnapChange
  BY <1>4 DEF SafetyReadFails, Dies, NoLocals, Disturb
<1>5. ASSUME SafetyDeleteUnconfirmed PROVE SnapChange
  BY <1>5 DEF SafetyDeleteUnconfirmed, Dies, NoLocals, Disturb
<1>6. ASSUME SafetyCancelEnds PROVE SnapChange
  BY <1>6 DEF SafetyCancelEnds
<1>7. ASSUME NEW l \in Lots, SafetyRead(l) PROVE SnapChange
  BY <1>7 DEF SafetyRead, Settled
<1>8. ASSUME NoBreach PROVE SnapChange
  BY <1>8 DEF NoBreach
<1>9. ASSUME GapBalances PROVE SnapChange
  BY <1>9 DEF GapBalances, HaltThen, FlattenEnds
<1>10. ASSUME GapSoldOut PROVE SnapChange
  BY <1>10 DEF GapSoldOut, FlattenEnds
<1>11. ASSUME GapReleased PROVE SnapChange
  BY <1>11 DEF GapReleased
<1>12. ASSUME GapGivesUp PROVE SnapChange
  BY <1>12 DEF GapGivesUp, HaltThen, FlattenEnds, Disturb
<1>13. ASSUME NEW breached \in SUBSET Resting, GapRead(breached)
       PROVE  SnapChange
  BY <1>13 DEF GapRead
<1>14. ASSUME NEW i \in ListId, GapCancel(i) PROVE SnapChange
  BY <1>14 DEF GapCancel
<1>15. ASSUME NEW i \in ListId, GapCancelFails(i) PROVE SnapChange
  BY <1>15 DEF GapCancelFails, Disturb
<1>16. ASSUME NEW n \in 0..(Qty * Cardinality(Lots)), GapSell(n) PROVE SnapChange
  BY <1>16 DEF GapSell, FlattenEnds
<1>17. ASSUME SweepEnds PROVE SnapChange
  BY <1>17 DEF SweepEnds
<1>18. ASSUME SettleRead PROVE SnapChange
  BY <1>18 DEF SettleRead
<1>19. ASSUME Protect PROVE SnapChange
  BY <1>19 DEF Protect
<1>20. ASSUME NEW l \in Lots, SweepDrops(l) PROVE SnapChange
  BY <1>20 DEF SweepDrops
<1>21. ASSUME NEW l \in Lots, SettleCancel(l) PROVE SnapChange
  BY <1>21 DEF SettleCancel, Disturb
<1>22. ASSUME NEW l \in Lots, SweepReads(l) PROVE SnapChange
  BY <1>22 DEF SweepReads
<1>23. ASSUME NEW n \in 0..Qty, ProtectFails(n) PROVE SnapChange
  BY <1>23 DEF ProtectFails
<1>24. ASSUME NoTimeStop PROVE SnapChange
  BY <1>24 DEF NoTimeStop
<1>25. ASSUME TimeStopUnavailable PROVE SnapChange
  BY <1>25 DEF TimeStopUnavailable, HaltThen, Disturb
<1>26. ASSUME TimeStopHalts PROVE SnapChange
  BY <1>26 DEF TimeStopHalts, HaltThen
<1>27. ASSUME NEW l \in Lots, NEW n \in 0..Qty, TimeSellRaises(l, n) PROVE SnapChange
  BY <1>27 DEF TimeSellRaises, Dies, NoLocals
<1>28. ASSUME NEW l \in Lots, NEW q \in 1..Qty, NEW n \in 0..Qty, TimeSell(l, q, n)
       PROVE  SnapChange
  BY <1>28 DEF TimeSell
<1>29. ASSUME BreakevenNotDue PROVE SnapChange
  BY <1>29 DEF BreakevenNotDue
<1>30. ASSUME BreakevenRead PROVE SnapChange
  BY <1>30 DEF BreakevenRead
<1>31. ASSUME BreakevenConfirmed PROVE SnapChange
  BY <1>31 DEF BreakevenConfirmed
<1>32. ASSUME BreakevenUnconfirmed PROVE SnapChange
  BY <1>32 DEF BreakevenUnconfirmed, HaltThen, BreakevenAborts, Disturb
<1>33. ASSUME BreakevenEnds PROVE SnapChange
  BY <1>33 DEF BreakevenEnds
<1>34. ASSUME NEW i \in ListId, BreakevenCancel(i) PROVE SnapChange
  BY <1>34 DEF BreakevenCancel, Disturb
<1>35. ASSUME NEW i \in ListId, Rearm(i) PROVE SnapChange
  BY <1>35 DEF Rearm
<1>36. ASSUME NEW i \in ListId, RearmFails(i) PROVE SnapChange
  <2>1. snap' = [j \in ListId |-> 0]
    BY <1>36 DEF RearmFails
  <2>2. \A k \in ListId : snap'[k] = 0
    BY <2>1
  <2> QED BY <2>2, Zenon
<1>37. ASSUME GateOpens PROVE SnapChange
  <2>1. pc = "down" /\ UNCHANGED snap
    BY <1>37 DEF GateOpens, GateRuns
  <2> QED BY <2>1
<1>38. ASSUME GateHalts PROVE SnapChange
  BY <1>38 DEF GateHalts
<1>39. ASSUME NEW l \in Lots, BuyExecutes(l) PROVE SnapChange
  BY <1>39 DEF BuyExecutes
<1>40. ASSUME NEW l \in Lots, BuyExpires(l) PROVE SnapChange
  BY <1>40 DEF BuyExpires
<1>41. ASSUME NEW l \in Lots, RiskCheck(l) PROVE SnapChange
  BY <1>41 DEF RiskCheck
<1>42. ASSUME NEW i \in ListId, LegExecutes(i) PROVE SnapChange
  BY <1>42 DEF LegExecutes
<1>43. ASSUME NEW i \in ListId, CancelTakesEffect(i) PROVE SnapChange
  BY <1>43 DEF CancelTakesEffect
<1>44. ASSUME SessionEnds PROVE SnapChange
  BY <1>44 DEF SessionEnds, Dies, NoLocals
<1>45. ASSUME Crash PROVE SnapChange
  BY <1>45 DEF Crash, Dies, NoLocals, Disturb
<1>46. ASSUME UNCHANGED vars PROVE SnapChange
  BY <1>46 DEF vars, localVars
<1> QED
  BY <1>1, <1>2, <1>3, <1>4, <1>5, <1>6, <1>7, <1>8, <1>9, <1>10, <1>11, <1>12, <1>13,
     <1>14, <1>15, <1>16, <1>17, <1>18, <1>19, <1>20, <1>21, <1>22, <1>23, <1>24, <1>25,
     <1>26, <1>27, <1>28, <1>29, <1>30, <1>31, <1>32, <1>33, <1>34, <1>35, <1>36, <1>37,
     <1>38, <1>39, <1>40, <1>41, <1>42, <1>43, <1>44, <1>45, <1>46
  DEF Next, Tick, SafetyCancel, GapFlatten, Sweep, TimeStop, Breakeven, Gate, Exchange

(* Breakeven holds a quantity read of a placed first list only, and only while it
   moves lists. *)
LEMMA SnapStep ==
    ASSUME Ranges, LotsInv, SnapInv, ListsInv, SnapChange, ListsChange
    PROVE  SnapInv'
<1> SUFFICES ASSUME NEW l \in Lots
             PROVE  /\ snap'[Raised(l)] = 0
                    /\ snap'[First(l)] > 0 => /\ pc' \in Raising
                                              /\ lists'[First(l)].status # "none"
                                              /\ lists'[Raised(l)].status = "none"
  BY DEF SnapInv, Raising
<1>0. First(l) \in ListId /\ Raised(l) \in ListId /\ Raised(l)[2] # "first"
  BY IdFacts DEF Raised
<1>1. snap'[Raised(l)] = 0
  BY <1>0 DEF SnapInv, SnapChange, Movable
<1>2. ASSUME snap'[First(l)] > 0
      PROVE  /\ pc' \in Raising
             /\ lists'[First(l)].status # "none"
             /\ lists'[Raised(l)].status = "none"
  <2>1. CASE snap'[First(l)] = snap[First(l)] /\ (pc' = pc \/ pc' \in Raising)
    <3>1. snap[First(l)] > 0 /\ pc' \in Raising
      BY <1>2, <2>1 DEF SnapInv, Raising
    <3> QED BY <1>2, <3>1, SnapMoves
  <2>2. CASE pc' = "evenNext" /\ UNCHANGED lists /\ Movable(First(l))
    BY <2>2 DEF LotsInv, Movable, Live, Raising
  <2> QED BY <1>0, <1>2, <2>1, <2>2 DEF SnapChange
<1> QED BY <1>1, <1>2

---------------------------------------------------------------------------
(* Where the worker is in its tick: what it holds there stays true while the
   exchange and the supervisor act. *)
LEMMA StageStays ==
    ASSUME Ranges, SnapInv, StageInv, ListsChange, BuyChange,
           \A l \in Lots : prot[l] = "none" => prot'[l] = "none",
           UNCHANGED <<pc, localVars>>
    PROVE  StageInv'
<1> USE DEF StageInv, localVars
<1>1. ASSUME pc \in {"evenPlace", "gapSell"} PROVE Released'
  <2>1. CASE pc = "gapSell"
    BY <2>1, ListsAge DEF Ranges, Released, Live, FlattenSteps
  <2>2. CASE pc = "evenPlace"
    <3>1. PICK l \in Lots : target = {First(l)} /\ snap[First(l)] > 0
      BY <2>2
    <3>2. lists[First(l)].status # "none" /\ First(l) \in ListId
      BY <3>1, IdFacts DEF SnapInv
    <3> QED BY <2>2, <3>1, <3>2, ListsAge DEF Released, Live
  <2> QED BY <1>1, <2>1, <2>2
<1>2. pc' \in {"settle", "place"} => cur' \in tracked' /\ bought'[cur'] > 0 /\ prot'[cur'] = "none"
  BY DEF Ranges, BuyChange
<1>3. pc' = "place" => buy'[cur'] # "OPEN"
  BY DEF Ranges, BuyChange
<1>4. pc' = "timeHalt" => cur' \in Lots /\ buy'[cur'] = "FILLED"
  BY DEF Ranges, BuyChange
<1>5. pc' \in FlattenSteps => \A i \in target' : lists'[i].status # "none"
  BY ListsAge DEF Ranges
<1> QED BY <1>1, <1>2, <1>3, <1>4, <1>5

(* Each step of a control finds what the steps before it left: the BUY and the lists
   in hand. *)
LEMMA StageStep ==
    ASSUME Ranges, ListsInv, LotsInv, SnapInv, StageInv, ListsChange, BuyChange, [Next]_vars
    PROVE  StageInv'
<1> USE DEF Ranges, StageInv, exchangeVars, durableVars, localVars
<1>1. ASSUME SafetyCancelNotDue PROVE StageInv'
  BY <1>1 DEF SafetyCancelNotDue, FlattenSteps
<1>2. ASSUME SafetyCancelBegins PROVE StageInv'
  BY <1>2 DEF SafetyCancelBegins, FlattenSteps
<1>3. ASSUME SafetyDelete PROVE StageInv'
  BY <1>3 DEF SafetyDelete, Settled, FlattenSteps
<1>4. ASSUME SafetyReadFails PROVE StageInv'
  BY <1>4 DEF SafetyReadFails, Dies, NoLocals, Disturb, FlattenSteps
<1>5. ASSUME SafetyDeleteUnconfirmed PROVE StageInv'
  BY <1>5 DEF SafetyDeleteUnconfirmed, Dies, NoLocals, Disturb, FlattenSteps
<1>6. ASSUME SafetyCancelEnds PROVE StageInv'
  BY <1>6 DEF SafetyCancelEnds, FlattenSteps
<1>7. ASSUME NEW l \in Lots, SafetyRead(l) PROVE StageInv'
  BY <1>7 DEF SafetyRead, Settled, FlattenSteps
<1>8. ASSUME NoBreach PROVE StageInv'
  BY <1>8 DEF NoBreach, FlattenSteps
<1>9. ASSUME GapBalances PROVE StageInv'
  BY <1>9 DEF GapBalances, HaltThen, FlattenEnds, FlattenSteps
<1>10. ASSUME GapSoldOut PROVE StageInv'
  BY <1>10 DEF GapSoldOut, FlattenEnds, FlattenSteps
<1>11. ASSUME GapReleased PROVE StageInv'
  <2>1. Released'
    BY <1>11 DEF GapReleased, Released, Live
  <2> QED BY <1>11, <2>1 DEF GapReleased, FlattenSteps
<1>12. ASSUME GapGivesUp PROVE StageInv'
  BY <1>12 DEF GapGivesUp, HaltThen, FlattenEnds, Disturb, FlattenSteps
<1>13. ASSUME NEW breached \in SUBSET Resting, GapRead(breached)
       PROVE  StageInv'
  <2>1. \A i \in target' : lists'[i].status # "none"
    BY <1>13 DEF GapRead, Resting, Live
  <2> QED BY <1>13, <2>1 DEF GapRead, FlattenSteps
<1>14. ASSUME NEW i \in ListId, GapCancel(i) PROVE StageInv'
  <2>1. \A j \in target' : lists'[j].status # "none"
    BY <1>14 DEF GapCancel, Closing, FlattenSteps
  <2> QED BY <1>14, <2>1 DEF GapCancel, FlattenSteps
<1>15. ASSUME NEW i \in ListId, GapCancelFails(i) PROVE StageInv'
  BY <1>15 DEF GapCancelFails, Disturb, FlattenSteps
<1>16. ASSUME NEW n \in 0..(Qty * Cardinality(Lots)), GapSell(n) PROVE StageInv'
  BY <1>16 DEF GapSell, FlattenEnds, Disturb, FlattenSteps
<1>17. ASSUME SweepEnds PROVE StageInv'
  BY <1>17 DEF SweepEnds, FlattenSteps
<1>18. ASSUME SettleRead PROVE StageInv'
  BY <1>18 DEF SettleRead, FlattenSteps
<1>19. ASSUME Protect PROVE StageInv'
  BY <1>19 DEF Protect, FlattenSteps
<1>20. ASSUME NEW l \in Lots, SweepDrops(l) PROVE StageInv'
  BY <1>20 DEF SweepDrops, FlattenSteps
<1>21. ASSUME NEW l \in Lots, SettleCancel(l) PROVE StageInv'
  <2>1. prot[l] = "none"
    BY <1>21 DEF SettleCancel, LotsInv
  <2> QED BY <1>21, <2>1 DEF SettleCancel, FlattenSteps
<1>22. ASSUME NEW l \in Lots, SweepReads(l) PROVE StageInv'
  BY <1>22 DEF SweepReads, FlattenSteps
<1>23. ASSUME NEW n \in 0..Qty, ProtectFails(n) PROVE StageInv'
  BY <1>23 DEF ProtectFails, Disturb, FlattenSteps
<1>24. ASSUME NoTimeStop PROVE StageInv'
  BY <1>24 DEF NoTimeStop, FlattenSteps
<1>25. ASSUME TimeStopUnavailable PROVE StageInv'
  BY <1>25 DEF TimeStopUnavailable, HaltThen, Disturb, FlattenSteps
<1>26. ASSUME TimeStopHalts PROVE StageInv'
  BY <1>26 DEF TimeStopHalts, HaltThen, FlattenSteps
<1>27. ASSUME NEW l \in Lots, NEW n \in 0..Qty, TimeSellRaises(l, n) PROVE StageInv'
  BY <1>27 DEF TimeSellRaises, Dies, NoLocals, Disturb, FlattenSteps
<1>28. ASSUME NEW l \in Lots, NEW q \in 1..Qty, NEW n \in 0..Qty, TimeSell(l, q, n)
       PROVE  StageInv'
  BY <1>28 DEF TimeSell, Disturb, FlattenSteps
<1>29. ASSUME BreakevenNotDue PROVE StageInv'
  BY <1>29 DEF BreakevenNotDue, FlattenSteps
<1>30. ASSUME BreakevenRead PROVE StageInv'
  BY <1>30 DEF BreakevenRead, FlattenSteps
<1>31. ASSUME BreakevenConfirmed PROVE StageInv'
  <2>1. Released'
    BY <1>31 DEF BreakevenConfirmed, Released, Live
  <2> QED BY <1>31, <2>1 DEF BreakevenConfirmed, FlattenSteps
<1>32. ASSUME BreakevenUnconfirmed PROVE StageInv'
  BY <1>32 DEF BreakevenUnconfirmed, HaltThen, BreakevenAborts, Disturb, FlattenSteps
<1>33. ASSUME BreakevenEnds PROVE StageInv'
  BY <1>33 DEF BreakevenEnds, FlattenSteps
<1>34. ASSUME NEW i \in ListId, BreakevenCancel(i) PROVE StageInv'
  <2>1. i = First(i[1]) /\ i[1] \in Lots
    BY <1>34, IdFacts DEF BreakevenCancel, SnapInv
  <2>2. target' = {First(i[1])} /\ snap'[First(i[1])] > 0 /\ pc' = "evenVerify"
    BY <1>34, <2>1 DEF BreakevenCancel
  <2> QED BY <2>1, <2>2 DEF FlattenSteps
<1>35. ASSUME NEW i \in ListId, Rearm(i) PROVE StageInv'
  BY <1>35 DEF Rearm, FlattenSteps
<1>36. ASSUME NEW i \in ListId, RearmFails(i) PROVE StageInv'
  BY <1>36 DEF RearmFails, Disturb, FlattenSteps
<1>37. ASSUME GateOpens PROVE StageInv'
  <2>1. target' = {} /\ pc' = "cancel"
    BY <1>37 DEF GateOpens, GateRuns, FlattenSteps
  <2> QED BY <2>1 DEF FlattenSteps
<1>38. ASSUME GateHalts PROVE StageInv'
  <2>1. UNCHANGED <<pc, localVars>> /\ \A m \in Lots : prot[m] = "none" => prot'[m] = "none"
    BY <1>38 DEF GateHalts, Broken
  <2> QED BY <2>1, StageStays
<1>39. ASSUME NEW l \in Lots, BuyExecutes(l) PROVE StageInv'
  <2>1. UNCHANGED <<pc, localVars>> /\ \A m \in Lots : prot[m] = "none" => prot'[m] = "none"
    BY <1>39 DEF BuyExecutes
  <2> QED BY <2>1, StageStays
<1>40. ASSUME NEW l \in Lots, BuyExpires(l) PROVE StageInv'
  <2>1. UNCHANGED <<pc, localVars>> /\ \A m \in Lots : prot[m] = "none" => prot'[m] = "none"
    BY <1>40 DEF BuyExpires
  <2> QED BY <2>1, StageStays
<1>41. ASSUME NEW l \in Lots, RiskCheck(l) PROVE StageInv'
  <2>1. UNCHANGED <<pc, localVars>> /\ \A m \in Lots : prot[m] = "none" => prot'[m] = "none"
    BY <1>41 DEF RiskCheck
  <2> QED BY <2>1, StageStays
<1>42. ASSUME NEW i \in ListId, LegExecutes(i) PROVE StageInv'
  <2>1. UNCHANGED <<pc, localVars>> /\ \A m \in Lots : prot[m] = "none" => prot'[m] = "none"
    BY <1>42 DEF LegExecutes
  <2> QED BY <2>1, StageStays
<1>43. ASSUME NEW i \in ListId, CancelTakesEffect(i) PROVE StageInv'
  <2>1. UNCHANGED <<pc, localVars>> /\ \A m \in Lots : prot[m] = "none" => prot'[m] = "none"
    BY <1>43 DEF CancelTakesEffect
  <2> QED BY <2>1, StageStays
<1>44. ASSUME SessionEnds PROVE StageInv'
  BY <1>44 DEF SessionEnds, Dies, NoLocals, FlattenSteps
<1>45. ASSUME Crash PROVE StageInv'
  BY <1>45 DEF Crash, Dies, NoLocals, Disturb, FlattenSteps
<1>46. ASSUME UNCHANGED vars PROVE StageInv'
  BY <1>46, StageStays DEF vars
<1> QED
  BY <1>1, <1>2, <1>3, <1>4, <1>5, <1>6, <1>7, <1>8, <1>9, <1>10, <1>11, <1>12, <1>13,
     <1>14, <1>15, <1>16, <1>17, <1>18, <1>19, <1>20, <1>21, <1>22, <1>23, <1>24, <1>25,
     <1>26, <1>27, <1>28, <1>29, <1>30, <1>31, <1>32, <1>33, <1>34, <1>35, <1>36, <1>37,
     <1>38, <1>39, <1>40, <1>41, <1>42, <1>43, <1>44, <1>45, <1>46
  DEF Next, Tick, SafetyCancel, GapFlatten, Sweep, TimeStop, Breakeven, Gate, Exchange

---------------------------------------------------------------------------
(* What a step can do to the account: one list moves, or a BUY executes a unit, or
   units that are free are sold off the books of the lists. *)
AccountChange ==
    \/ UNCHANGED <<bought, flat>>
    \/ /\ UNCHANGED <<lists, flat>>
       /\ \E l \in Lots : Executed(l)
    \/ /\ UNCHANGED <<lists, bought>>
       /\ \E n \in Nat : n <= Free /\ flat' = flat + n

(* A MARKET SELL executes no more than is free. *)
LEMMA SmallSale ==
    ASSUME Free >= 0, Free \in Int, NEW q \in Nat, NEW n \in Executable(q)
    PROVE  n \in Nat /\ n <= Free /\ n <= q
BY DEF Executable

(* Every step sells at most what is free, or moves units between BUYs, lists and the
   account in one of the ways of AccountChange. *)
LEMMA AccountMoves ==
    ASSUME Ranges, StageInv, Free \in Int, Free >= 0, [Next]_vars
    PROVE  AccountChange
<1> USE DEF Ranges, AccountChange, exchangeVars, durableVars, localVars
<1>1. ASSUME SafetyCancelNotDue PROVE AccountChange
  BY <1>1 DEF SafetyCancelNotDue
<1>2. ASSUME SafetyCancelBegins PROVE AccountChange
  BY <1>2 DEF SafetyCancelBegins
<1>3. ASSUME SafetyDelete PROVE AccountChange
  BY <1>3 DEF SafetyDelete, Settled
<1>4. ASSUME SafetyReadFails PROVE AccountChange
  BY <1>4 DEF SafetyReadFails, Dies
<1>5. ASSUME SafetyDeleteUnconfirmed PROVE AccountChange
  BY <1>5 DEF SafetyDeleteUnconfirmed, Dies
<1>6. ASSUME SafetyCancelEnds PROVE AccountChange
  BY <1>6 DEF SafetyCancelEnds
<1>7. ASSUME NEW l \in Lots, SafetyRead(l) PROVE AccountChange
  BY <1>7 DEF SafetyRead, Settled
<1>8. ASSUME NoBreach PROVE AccountChange
  BY <1>8 DEF NoBreach
<1>9. ASSUME GapBalances PROVE AccountChange
  BY <1>9 DEF GapBalances, HaltThen, FlattenEnds
<1>10. ASSUME GapSoldOut PROVE AccountChange
  BY <1>10 DEF GapSoldOut, FlattenEnds
<1>11. ASSUME GapReleased PROVE AccountChange
  BY <1>11 DEF GapReleased
<1>12. ASSUME GapGivesUp PROVE AccountChange
  BY <1>12 DEF GapGivesUp, HaltThen, FlattenEnds
<1>13. ASSUME NEW breached \in SUBSET Resting, GapRead(breached)
       PROVE  AccountChange
  BY <1>13 DEF GapRead
<1>14. ASSUME NEW i \in ListId, GapCancel(i) PROVE AccountChange
  BY <1>14 DEF GapCancel
<1>15. ASSUME NEW i \in ListId, GapCancelFails(i) PROVE AccountChange
  BY <1>15 DEF GapCancelFails
<1>16. ASSUME NEW n \in 0..(Qty * Cardinality(Lots)), GapSell(n) PROVE AccountChange
  BY <1>16, SmallSale DEF GapSell
<1>17. ASSUME SweepEnds PROVE AccountChange
  BY <1>17 DEF SweepEnds
<1>18. ASSUME SettleRead PROVE AccountChange
  BY <1>18 DEF SettleRead
<1>19. ASSUME Protect PROVE AccountChange
  BY <1>19 DEF Protect
<1>20. ASSUME NEW l \in Lots, SweepDrops(l) PROVE AccountChange
  BY <1>20 DEF SweepDrops
<1>21. ASSUME NEW l \in Lots, SettleCancel(l) PROVE AccountChange
  BY <1>21 DEF SettleCancel
<1>22. ASSUME NEW l \in Lots, SweepReads(l) PROVE AccountChange
  BY <1>22 DEF SweepReads
<1>23. ASSUME NEW n \in 0..Qty, ProtectFails(n) PROVE AccountChange
  <2>1. cur \in Lots /\ bought[cur] \in Nat
    BY <1>23, ExitAssumption DEF ProtectFails, StageInv, ExitAssumption
  <2> QED BY <1>23, <2>1, SmallSale DEF ProtectFails
<1>24. ASSUME NoTimeStop PROVE AccountChange
  BY <1>24 DEF NoTimeStop
<1>25. ASSUME TimeStopUnavailable PROVE AccountChange
  BY <1>25 DEF TimeStopUnavailable, HaltThen
<1>26. ASSUME TimeStopHalts PROVE AccountChange
  BY <1>26 DEF TimeStopHalts, HaltThen
<1>27. ASSUME NEW l \in Lots, NEW n \in 0..Qty, TimeSellRaises(l, n) PROVE AccountChange
  <2>1. bought[l] \in Nat
    BY ExitAssumption DEF ExitAssumption
  <2> QED BY <1>27, <2>1, SmallSale DEF TimeSellRaises
<1>28. ASSUME NEW l \in Lots, NEW q \in 1..Qty, NEW n \in 0..Qty, TimeSell(l, q, n)
       PROVE  AccountChange
  <2>1. q \in Nat
    OBVIOUS
  <2> QED BY <1>28, <2>1, SmallSale DEF TimeSell
<1>29. ASSUME BreakevenNotDue PROVE AccountChange
  BY <1>29 DEF BreakevenNotDue
<1>30. ASSUME BreakevenRead PROVE AccountChange
  BY <1>30 DEF BreakevenRead
<1>31. ASSUME BreakevenConfirmed PROVE AccountChange
  BY <1>31 DEF BreakevenConfirmed
<1>32. ASSUME BreakevenUnconfirmed PROVE AccountChange
  BY <1>32 DEF BreakevenUnconfirmed, HaltThen, BreakevenAborts
<1>33. ASSUME BreakevenEnds PROVE AccountChange
  BY <1>33 DEF BreakevenEnds
<1>34. ASSUME NEW i \in ListId, BreakevenCancel(i) PROVE AccountChange
  BY <1>34 DEF BreakevenCancel
<1>35. ASSUME NEW i \in ListId, Rearm(i) PROVE AccountChange
  BY <1>35 DEF Rearm
<1>36. ASSUME NEW i \in ListId, RearmFails(i) PROVE AccountChange
  BY <1>36 DEF RearmFails
<1>37. ASSUME GateOpens PROVE AccountChange
  BY <1>37 DEF GateOpens
<1>38. ASSUME GateHalts PROVE AccountChange
  BY <1>38 DEF GateHalts
<1>39. ASSUME NEW l \in Lots, BuyExecutes(l) PROVE AccountChange
  BY <1>39 DEF BuyExecutes, Executed
<1>40. ASSUME NEW l \in Lots, BuyExpires(l) PROVE AccountChange
  BY <1>40 DEF BuyExpires
<1>41. ASSUME NEW l \in Lots, RiskCheck(l) PROVE AccountChange
  BY <1>41 DEF RiskCheck
<1>42. ASSUME NEW i \in ListId, LegExecutes(i) PROVE AccountChange
  BY <1>42 DEF LegExecutes
<1>43. ASSUME NEW i \in ListId, CancelTakesEffect(i) PROVE AccountChange
  BY <1>43 DEF CancelTakesEffect
<1>44. ASSUME SessionEnds PROVE AccountChange
  BY <1>44 DEF SessionEnds, Dies
<1>45. ASSUME Crash PROVE AccountChange
  BY <1>45 DEF Crash, Dies
<1>46. ASSUME UNCHANGED vars PROVE AccountChange
  BY <1>46 DEF vars
<1> QED
  BY <1>1, <1>2, <1>3, <1>4, <1>5, <1>6, <1>7, <1>8, <1>9, <1>10, <1>11, <1>12, <1>13,
     <1>14, <1>15, <1>16, <1>17, <1>18, <1>19, <1>20, <1>21, <1>22, <1>23, <1>24, <1>25,
     <1>26, <1>27, <1>28, <1>29, <1>30, <1>31, <1>32, <1>33, <1>34, <1>35, <1>36, <1>37,
     <1>38, <1>39, <1>40, <1>41, <1>42, <1>43, <1>44, <1>45, <1>46
  DEF Next, Tick, SafetyCancel, GapFlatten, Sweep, TimeStop, Breakeven, Gate, Exchange

(* The free units never run out: whatever is placed or sold was free before. *)
LEMMA FreeStep ==
    ASSUME Ranges, ListsInv, Ranges', ListsInv', Free >= 0, ListsChange, AccountChange
    PROVE  Free' >= 0
<1> USE DEF Ranges
<1>1. /\ SumFunctionOnSet(bought, Lots) \in Nat
      /\ SumFunctionOnSet(Sold, ListId) \in Nat /\ SumFunctionOnSet(Sold, ListId)' \in Nat
      /\ SumFunctionOnSet(Remainders, ListId) \in Nat /\ SumFunctionOnSet(Remainders, ListId)' \in Nat
      /\ Free \in Int /\ flat \in Nat /\ Legacy \in Nat
  <2>1. AccountNumbers'
    BY AccountIsNumber, PTL
  <2> QED BY <2>1, AccountIsNumber, ExitAssumption DEF ExitAssumption, AccountNumbers
<1>2. CASE UNCHANGED <<lists, flat>> /\ \E l \in Lots : Executed(l)
  <2>1. PICK l \in Lots : Executed(l)
    BY <1>2
  <2>2. SumFunctionOnSet(bought, Lots)' = SumFunctionOnSet(bought, Lots) + 1
    BY <2>1, BoughtEffect
  <2>3. Remainders' = Remainders /\ Sold' = Sold
    BY <1>2 DEF Remainders, Sold, Remaining, Live
  <2> QED BY <1>1, <1>2, <2>2, <2>3 DEF Free, Total, Held
<1>3. ASSUME NEW n \in Nat, n <= Free, flat' = flat + n, UNCHANGED <<lists, bought>>
      PROVE  Free' >= 0
  <2>1. Remainders' = Remainders /\ Sold' = Sold
    BY <1>3 DEF Remainders, Sold, Remaining, Live
  <2> QED BY <1>1, <1>3, <2>1 DEF Free, Total, Held
<1>4. CASE UNCHANGED <<bought, flat, lists>>
  <2>1. Remainders' = Remainders /\ Sold' = Sold
    BY <1>4 DEF Remainders, Sold, Remaining, Live
  <2> QED BY <1>4, <2>1 DEF Free, Total, Held
<1>5. ASSUME UNCHANGED <<bought, flat>>, NEW i \in ListId, Moved(i)
      PROVE  Free' >= 0
  <2>1. /\ SumFunctionOnSet(Sold', ListId) =
              SumFunctionOnSet(Sold, ListId) + lists'[i].sold - lists[i].sold
        /\ SumFunctionOnSet(Remainders', ListId) =
              SumFunctionOnSet(Remainders, ListId) + Remainders'[i] - Remainders[i]
    BY <1>5, OneListChanges DEF Moved
  <2>2. lists[i] \in ListRec /\ lists'[i] \in ListRec
    OBVIOUS
  <2>3. Remainders'[i] - Remainders[i] <= lists[i].sold - lists'[i].sold
    BY <1>5, <2>2, ExitAssumption
       DEF ExitAssumption, Moved, Remainders, Remaining, Live, ListRec, ListsInv
  <2>4. lists[i].sold \in Int /\ lists'[i].sold \in Int /\ Remainders'[i] \in Int /\ Remainders[i] \in Int
    BY <2>2, ExitAssumption DEF ListRec, Remainders, Remaining, ExitAssumption
  <2> QED BY <1>1, <1>5, <2>1, <2>3, <2>4 DEF Free, Total, Held
<1>6. ASSUME UNCHANGED <<bought, flat>>, NEW i \in ListId, NEW n \in Nat, n <= Free, Placed(i, n)
      PROVE  Free' >= 0
  <2>1. /\ SumFunctionOnSet(Sold', ListId) =
              SumFunctionOnSet(Sold, ListId) + lists'[i].sold - lists[i].sold
        /\ SumFunctionOnSet(Remainders', ListId) =
              SumFunctionOnSet(Remainders, ListId) + Remainders'[i] - Remainders[i]
    BY <1>6, OneListChanges DEF Placed
  <2>2. lists[i].sold = 0 /\ lists'[i].sold = 0 /\ Remainders'[i] = n /\ Remainders[i] = 0
    BY <1>6 DEF Placed, ListsInv, Remainders, Remaining, Live
  <2> QED BY <1>1, <1>6, <2>1, <2>2 DEF Free, Total, Held
<1>7. \A l \in Lots : /\ First(l) \in ListId /\ Raised(l) \in ListId
                      /\ bought[l] \in Nat /\ snap[First(l)] \in Nat
  BY IdFacts, ExitAssumption DEF ExitAssumption
<1>8. CASE UNCHANGED <<bought, flat>>
  BY <1>4, <1>5, <1>6, <1>7, <1>8 DEF ListsChange, Replaced
<1> QED BY <1>2, <1>3, <1>8 DEF AccountChange

---------------------------------------------------------------------------
(* The invariant behind the types: the shape of the state, and free units that are
   never negative. *)
SafeShape == ShapeInv /\ Free >= 0

(* The first state has the shape, and nothing is on offer. *)
LEMMA InitShape == Init => SafeShape
<1> SUFFICES ASSUME Init PROVE SafeShape
  OBVIOUS
<1> USE ExitAssumption DEF ExitAssumption, Init
<1>1. Ranges
  <2>1. [qty |-> 0, sold |-> 0, status |-> "none"] \in ListRec
    BY DEF ListRec
  <2>2. lists \in [ListId -> ListRec]
    BY <2>1
  <2>3. snap \in [ListId -> 0..Qty] /\ bought \in [Lots -> 0..Qty] /\ faults \in 0..MaxFaults
    OBVIOUS
  <2>4. /\ buy \in [Lots -> {"OPEN", "FILLED", "CANCELED"}]
        /\ prot \in [Lots -> {"none", "PENDING", "PROTECTED", "CLOSED"}]
    OBVIOUS
  <2>5. halted \in BOOLEAN /\ flat \in Nat /\ expected \in Nat /\ total0 \in Nat
    OBVIOUS
  <2>6. pc = "down" <=> worker = "down"
    OBVIOUS
  <2> QED BY <2>2, <2>3, <2>4, <2>5, <2>6 DEF Ranges
<1>2. ListsInv
  BY DEF ListsInv, Remaining, Live
<1>3. LotsInv
  BY IdFacts DEF LotsInv
<1>4. SnapInv
  BY IdFacts DEF SnapInv
<1>5. StageInv
  BY DEF StageInv, FlattenSteps
<1>6. Free >= 0
  <2>1. /\ \A l \in Lots : bought[l] = 0
        /\ \A i \in ListId : Sold[i] = 0 /\ Remainders[i] = 0
    BY DEF Sold, Remainders, Live
  <2>2. /\ SumFunctionOnSet(bought, Lots) = 0
        /\ SumFunctionOnSet(Sold, ListId) = 0
        /\ SumFunctionOnSet(Remainders, ListId) = 0
    BY <2>1, ListsFinite, SumZero
  <2> QED BY <2>2 DEF Free, Total, Held
<1> QED BY <1>1, <1>2, <1>3, <1>4, <1>5, <1>6 DEF SafeShape, ShapeInv

(* Every step keeps the shape and the free units, and is one of the changes named
   above. *)
LEMMA ShapeStep ==
    ASSUME SafeShape, [Next]_vars
    PROVE  SafeShape' /\ ListsChange /\ BuyChange /\ SnapChange /\ AccountChange
<1> USE DEF SafeShape, ShapeInv
<1>1. Ranges'
  BY RangesStep
<1>2. ListsChange /\ BuyChange /\ SnapChange
  BY ListsMove, BuysMove, SnapsMove
<1>3. Free \in Int
  BY AccountIsNumber DEF AccountNumbers
<1>4. AccountChange
  BY <1>3, AccountMoves
<1>5. ListsInv'
  BY <1>1, <1>2, ListsStep
<1>6. LotsInv'
  BY <1>2, LotsStep
<1>7. SnapInv'
  BY <1>2, SnapStep
<1>8. StageInv'
  BY <1>2, StageStep
<1>9. Free' >= 0
  BY <1>1, <1>2, <1>4, <1>5, FreeStep
<1> QED BY <1>1, <1>2, <1>4, <1>5, <1>6, <1>7, <1>8, <1>9

(* Every reachable state has the shape. *)
LEMMA ShapeAlways == Spec => []SafeShape
<1>1. SafeShape /\ [Next]_vars => SafeShape'
  BY ShapeStep
<1> QED BY <1>1, InitShape, PTL DEF Spec

(* The shape has the types. *)
LEMMA ShapeIsTyped == SafeShape => TypeOK
BY DEF SafeShape, ShapeInv, Ranges, ListsInv, TypeOK, ListRec

(* Every variable stays in its domain: in particular the exits never sell or offer
   units the account does not have. *)
THEOREM ExitTypeCorrect == Spec => []TypeOK
BY ShapeAlways, ShapeIsTyped, PTL

---------------------------------------------------------------------------
(* What the journal says of a protection, while no HALT stands: the first list of a
   protected BUY covers all it executed, and that of a closed one sold it. *)
GateInv ==
    ~halted => \A l \in Lots :
                 /\ prot[l] \in {"PROTECTED", "CLOSED"} =>
                       lists[First(l)].qty = bought[l] /\ lists[First(l)].status # "none"
                 /\ prot[l] = "CLOSED" => Remaining(First(l)) = 0

(* What a step without HALT writes to the journal: a protection that was placed, or
   what is read of one that was there. *)
Journaled(l) ==
    \/ prot'[l] = prot[l]
    \/ /\ prot'[l] = "PROTECTED" /\ buy[l] # "OPEN"
       /\ lists'[First(l)].qty = bought[l] /\ lists'[First(l)].status = "open"
    \/ /\ prot[l] = "PROTECTED" /\ UNCHANGED lists
       /\ prot'[l] = "CLOSED" => Remaining(First(l)) = 0

JournalChange == /\ halted => halted'
                 /\ halted' \/ \A l \in Lots : Journaled(l)

(* Every step writes to the journal in one of the ways of Journaled, or under HALT. *)
LEMMA JournalMoves ==
    ASSUME Ranges, ListsInv, StageInv, [Next]_vars
    PROVE  JournalChange
<1> USE DEF Ranges, JournalChange, exchangeVars, durableVars, localVars
<1>0. UNCHANGED prot => \A l \in Lots : Journaled(l)
  BY DEF Journaled
<1> USE <1>0
<1>1. ASSUME SafetyCancelNotDue PROVE JournalChange
  BY <1>1 DEF SafetyCancelNotDue
<1>2. ASSUME SafetyCancelBegins PROVE JournalChange
  BY <1>2 DEF SafetyCancelBegins
<1>3. ASSUME SafetyDelete PROVE JournalChange
  BY <1>3 DEF SafetyDelete, Settled
<1>4. ASSUME SafetyReadFails PROVE JournalChange
  BY <1>4 DEF SafetyReadFails, Dies
<1>5. ASSUME SafetyDeleteUnconfirmed PROVE JournalChange
  BY <1>5 DEF SafetyDeleteUnconfirmed, Dies
<1>6. ASSUME SafetyCancelEnds PROVE JournalChange
  BY <1>6 DEF SafetyCancelEnds
<1>7. ASSUME NEW l \in Lots, SafetyRead(l) PROVE JournalChange
  BY <1>7 DEF SafetyRead, Settled
<1>8. ASSUME NoBreach PROVE JournalChange
  BY <1>8 DEF NoBreach
<1>9. ASSUME GapBalances PROVE JournalChange
  BY <1>9 DEF GapBalances, HaltThen, FlattenEnds
<1>10. ASSUME GapSoldOut PROVE JournalChange
  BY <1>10 DEF GapSoldOut, FlattenEnds
<1>11. ASSUME GapReleased PROVE JournalChange
  BY <1>11 DEF GapReleased
<1>12. ASSUME GapGivesUp PROVE JournalChange
  BY <1>12 DEF GapGivesUp, HaltThen, FlattenEnds
<1>13. ASSUME NEW breached \in SUBSET Resting, GapRead(breached)
       PROVE  JournalChange
  BY <1>13 DEF GapRead
<1>14. ASSUME NEW i \in ListId, GapCancel(i) PROVE JournalChange
  BY <1>14 DEF GapCancel
<1>15. ASSUME NEW i \in ListId, GapCancelFails(i) PROVE JournalChange
  BY <1>15 DEF GapCancelFails
<1>16. ASSUME NEW n \in 0..(Qty * Cardinality(Lots)), GapSell(n) PROVE JournalChange
  BY <1>16 DEF GapSell, FlattenEnds
<1>17. ASSUME SweepEnds PROVE JournalChange
  BY <1>17 DEF SweepEnds
<1>18. ASSUME SettleRead PROVE JournalChange
  BY <1>18 DEF SettleRead
<1>19. ASSUME Protect PROVE JournalChange
  <2>1. cur \in Lots /\ First(cur) \in ListId
    BY <1>19, IdFacts DEF Protect, StageInv
  <2>2. buy[cur] # "OPEN" /\ bought[cur] \in 0..Qty
    BY <1>19, <2>1 DEF Protect, StageInv
  <2>3. lists' = [lists EXCEPT ![First(cur)] = NewList(bought[cur])]
    BY <1>19 DEF Protect
  <2>4. lists'[First(cur)].qty = bought[cur] /\ lists'[First(cur)].status = "open"
    BY <2>1, <2>2, <2>3, NewListEffect
  <2>5. prot' = [prot EXCEPT ![cur] = "PROTECTED"] /\ UNCHANGED halted
    BY <1>19 DEF Protect
  <2>6. prot'[cur] = "PROTECTED" /\ \A l \in Lots \ {cur} : prot'[l] = prot[l]
    BY <2>1, <2>5
  <2>7. \A l \in Lots : Journaled(l)
    BY <2>2, <2>4, <2>6 DEF Journaled
  <2> QED BY <2>5, <2>7
<1>20. ASSUME NEW l \in Lots, SweepDrops(l) PROVE JournalChange
  BY <1>20 DEF SweepDrops
<1>21. ASSUME NEW l \in Lots, SettleCancel(l) PROVE JournalChange
  BY <1>21 DEF SettleCancel
<1>22. ASSUME NEW l \in Lots, SweepReads(l) PROVE JournalChange
  BY <1>22 DEF SweepReads
<1>23. ASSUME NEW n \in 0..Qty, ProtectFails(n) PROVE JournalChange
  BY <1>23 DEF ProtectFails
<1>24. ASSUME NoTimeStop PROVE JournalChange
  BY <1>24 DEF NoTimeStop
<1>25. ASSUME TimeStopUnavailable PROVE JournalChange
  BY <1>25 DEF TimeStopUnavailable, HaltThen
<1>26. ASSUME TimeStopHalts PROVE JournalChange
  BY <1>26 DEF TimeStopHalts, HaltThen
<1>27. ASSUME NEW l \in Lots, NEW n \in 0..Qty, TimeSellRaises(l, n) PROVE JournalChange
  BY <1>27 DEF TimeSellRaises, Dies
<1>28. ASSUME NEW l \in Lots, NEW q \in 1..Qty, NEW n \in 0..Qty, TimeSell(l, q, n)
       PROVE  JournalChange
  BY <1>28 DEF TimeSell
<1>29. ASSUME BreakevenNotDue PROVE JournalChange
  BY <1>29 DEF BreakevenNotDue
<1>30. ASSUME BreakevenRead PROVE JournalChange
  BY <1>30 DEF BreakevenRead
<1>31. ASSUME BreakevenConfirmed PROVE JournalChange
  BY <1>31 DEF BreakevenConfirmed
<1>32. ASSUME BreakevenUnconfirmed PROVE JournalChange
  BY <1>32 DEF BreakevenUnconfirmed, HaltThen, BreakevenAborts
<1>33. ASSUME BreakevenEnds PROVE JournalChange
  BY <1>33 DEF BreakevenEnds
<1>34. ASSUME NEW i \in ListId, BreakevenCancel(i) PROVE JournalChange
  BY <1>34 DEF BreakevenCancel
<1>35. ASSUME NEW i \in ListId, Rearm(i) PROVE JournalChange
  BY <1>35 DEF Rearm
<1>36. ASSUME NEW i \in ListId, RearmFails(i) PROVE JournalChange
  BY <1>36 DEF RearmFails
<1>37. ASSUME GateOpens PROVE JournalChange
  <2>1. UNCHANGED <<lists, halted>> /\ Broken = {}
    BY <1>37 DEF GateOpens
  <2>2. prot' = [l \in Lots |-> IF prot[l] = "PROTECTED" /\ ~Live(First(l)) THEN "CLOSED" ELSE prot[l]]
    BY <1>37 DEF GateOpens
  <2>3. \A l \in Lots : prot[l] = "PROTECTED" /\ ~Live(First(l)) => Remaining(First(l)) = 0
    <3>1. \A l \in Lots : /\ First(l) \in ListId
                          /\ lists[First(l)].qty \in Int /\ lists[First(l)].sold \in Int
                          /\ Remaining(First(l)) >= 0
      BY IdFacts, ExitAssumption DEF ExitAssumption, ListsInv, ListRec
    <3> QED BY <2>1, <3>1 DEF Broken, Remaining
  <2>4. ASSUME NEW l \in Lots PROVE Journaled(l)
    <3>1. CASE prot[l] = "PROTECTED" /\ ~Live(First(l))
      BY <2>1, <2>3, <3>1 DEF Journaled
    <3>2. CASE ~(prot[l] = "PROTECTED" /\ ~Live(First(l)))
      <4>1. prot'[l] = prot[l]
        BY <2>2, <3>2
      <4> QED BY <4>1 DEF Journaled
    <3> QED BY <3>1, <3>2
  <2> QED BY <2>1, <2>4
<1>38. ASSUME GateHalts PROVE JournalChange
  BY <1>38 DEF GateHalts
<1>39. ASSUME NEW l \in Lots, BuyExecutes(l) PROVE JournalChange
  BY <1>39 DEF BuyExecutes
<1>40. ASSUME NEW l \in Lots, BuyExpires(l) PROVE JournalChange
  BY <1>40 DEF BuyExpires
<1>41. ASSUME NEW l \in Lots, RiskCheck(l) PROVE JournalChange
  <2>1. /\ prot[l] = "PROTECTED" /\ prot' = [prot EXCEPT ![l] = Verified(l)]
        /\ UNCHANGED <<lists, halted>>
    BY <1>41 DEF RiskCheck
  <2>2. Verified(l) = "CLOSED" => Remaining(First(l)) = 0
    BY DEF Verified
  <2>3. Journaled(l)
    BY <2>1, <2>2 DEF Journaled
  <2>4. \A m \in Lots \ {l} : Journaled(m)
    BY <2>1 DEF Journaled
  <2> QED BY <2>1, <2>3, <2>4
<1>42. ASSUME NEW i \in ListId, LegExecutes(i) PROVE JournalChange
  BY <1>42 DEF LegExecutes
<1>43. ASSUME NEW i \in ListId, CancelTakesEffect(i) PROVE JournalChange
  BY <1>43 DEF CancelTakesEffect
<1>44. ASSUME SessionEnds PROVE JournalChange
  BY <1>44 DEF SessionEnds, Dies
<1>45. ASSUME Crash PROVE JournalChange
  BY <1>45 DEF Crash, Dies
<1>46. ASSUME UNCHANGED vars PROVE JournalChange
  BY <1>46 DEF vars
<1> QED
  BY <1>1, <1>2, <1>3, <1>4, <1>5, <1>6, <1>7, <1>8, <1>9, <1>10, <1>11, <1>12, <1>13,
     <1>14, <1>15, <1>16, <1>17, <1>18, <1>19, <1>20, <1>21, <1>22, <1>23, <1>24, <1>25,
     <1>26, <1>27, <1>28, <1>29, <1>30, <1>31, <1>32, <1>33, <1>34, <1>35, <1>36, <1>37,
     <1>38, <1>39, <1>40, <1>41, <1>42, <1>43, <1>44, <1>45, <1>46
  DEF Next, Tick, SafetyCancel, GapFlatten, Sweep, TimeStop, Breakeven, Gate, Exchange

(* No step breaks what the journal says of a protection. *)
LEMMA GateStep ==
    ASSUME SafeShape, GateInv, ListsChange, BuyChange, JournalChange
    PROVE  GateInv'
<1> SUFFICES ASSUME ~halted', NEW l \in Lots
             PROVE  /\ prot'[l] \in {"PROTECTED", "CLOSED"} =>
                          lists'[First(l)].qty = bought'[l] /\ lists'[First(l)].status # "none"
                    /\ prot'[l] = "CLOSED" => Remaining(First(l))' = 0
  BY DEF GateInv
<1> USE DEF SafeShape, ShapeInv
<1>1. Journaled(l) /\ ~halted /\ First(l) \in ListId
  BY IdFacts DEF JournalChange
<1>2. ASSUME prot[l] \in {"PROTECTED", "CLOSED"}
      PROVE  /\ bought'[l] = bought[l] /\ lists[First(l)].qty = bought[l]
             /\ lists[First(l)].status # "none"
             /\ lists'[First(l)].qty = bought'[l] /\ lists'[First(l)].status # "none"
  <2>1. bought'[l] = bought[l] /\ lists[First(l)].qty = bought[l] /\ lists[First(l)].status # "none"
    BY <1>1, <1>2 DEF GateInv, LotsInv, BuyChange
  <2>2. lists'[First(l)].status # "none" /\ lists'[First(l)].qty = lists[First(l)].qty
    BY <1>1, <2>1, ListsAge, ListQuantityStays
  <2> QED BY <2>1, <2>2
<1>3. CASE prot'[l] = prot[l]
  <2>1. ASSUME prot[l] = "CLOSED" PROVE Remaining(First(l))' = 0
    <3>1. Remaining(First(l)) = 0 /\ lists[First(l)].status # "none"
      BY <1>1, <2>1 DEF GateInv
    <3>2. lists[First(l)].status = "done"
      BY <1>1, <3>1 DEF ListsInv, Live, Ranges, ListRec
    <3>3. lists'[First(l)] = lists[First(l)]
      BY <1>1, <3>1, <3>2, ListsAge
    <3> QED BY <3>1, <3>3 DEF Remaining
  <2> QED BY <1>2, <1>3, <2>1
<1>4. CASE /\ prot'[l] = "PROTECTED" /\ buy[l] # "OPEN"
           /\ lists'[First(l)].qty = bought[l] /\ lists'[First(l)].status = "open"
  BY <1>4 DEF BuyChange
<1>5. CASE /\ prot[l] = "PROTECTED" /\ UNCHANGED lists
           /\ prot'[l] = "CLOSED" => Remaining(First(l)) = 0
  BY <1>2, <1>5 DEF Remaining
<1> QED BY <1>1, <1>3, <1>4, <1>5 DEF Journaled

(* What the journal says of a protection is true in every reachable state. *)
LEMMA GateAlways == Spec => []GateInv
<1>1. Init => GateInv
  BY DEF Init, GateInv
<1>2. SafeShape /\ GateInv /\ [Next]_vars => GateInv'
  BY ShapeStep, JournalMoves, GateStep DEF SafeShape, ShapeInv
<1> QED BY <1>1, <1>2, ShapeAlways, PTL DEF Spec

---------------------------------------------------------------------------
(* What the first lists of the BUYs add up to is part of what all lists do. *)
LEMMA FirstLists ==
    ASSUME NEW f, \A i \in ListId : f[i] \in Nat,
           NEW g, \A l \in Lots : g[l] = f[First(l)]
    PROVE  SumFunctionOnSet(g, Lots) <= SumFunctionOnSet(f, ListId)
<1> DEFINE h == [l \in Lots |-> First(l)]
           Firsts == {h[l] : l \in Lots}
<1>1. h \in [Lots -> ListId] /\ \A l, m \in Lots : h[l] = h[m] => l = m
  BY IdFacts
<1>2. \A l \in Lots : g[l] = f[h[l]]
  OBVIOUS
<1>3. Firsts \subseteq ListId
  BY <1>1
<1>4. \A i \in ListId : f[i] \in Int
  OBVIOUS
<1> HIDE DEF h
<1>5. SumFunctionOnSet(g, Lots) = SumFunctionOnSet(f, Firsts)
  BY <1>1, <1>2, <1>4, ListsFinite, SumImage
<1>6. SumFunctionOnSet(f, Firsts) <= SumFunctionOnSet(f, ListId)
  <2> HIDE DEF Firsts
  <2> QED BY <1>3, ListsFinite, SumPart
<1> QED BY <1>5, <1>6

(* When the gate finds every protected BUY in a list that rests or sold out, the
   units of all BUYs are sold, in a resting list, or of a BUY the worker polls. *)
LEMMA GateAttends ==
    ASSUME SafeShape, GateInv, SafeShape', GateOpens
    PROVE  Held' <= Attended'
<1> USE DEF SafeShape, ShapeInv
<1>1. UNCHANGED <<buy, bought, lists, flat>> /\ tracked' \subseteq Lots /\ flat \in Nat
  BY DEF GateOpens, exchangeVars, Ranges
<1>2. /\ Sold' = Sold /\ Remainders' = Remainders
      /\ SumFunctionOnSet(bought, Lots) \in Nat
      /\ SumFunctionOnSet(Sold, ListId) \in Nat
      /\ SumFunctionOnSet(Remainders, ListId) \in Nat
  BY <1>1, AccountIsNumber DEF AccountNumbers, Sold, Remainders, Remaining, Live
<1>3. \A i \in ListId : /\ lists[i] \in ListRec /\ Sold[i] \in Nat /\ Remainders[i] \in Nat
                        /\ Sold[i] = lists[i].sold
                        /\ Remainders[i] = IF Live(i) THEN Remaining(i) ELSE 0
                        /\ Remaining(i) = lists[i].qty - lists[i].sold
  BY ExitAssumption
  DEF ExitAssumption, Ranges, ListsInv, Sold, Remainders, Remaining, ListRec
<1> DEFINE sold == [l \in Lots |-> Sold[First(l)]]
           rest == [l \in Lots |-> Remainders[First(l)]]
           both == [l \in Lots |-> sold[l] + rest[l]]
<1>4. \A l \in Lots : /\ bought[l] \in Nat /\ bought'[l] \in Nat /\ First(l) \in ListId
                      /\ sold[l] \in Nat /\ rest[l] \in Nat /\ both[l] \in Nat
  BY <1>1, <1>3, IdFacts, ExitAssumption DEF ExitAssumption, Ranges
<1>5. ASSUME NEW l \in Lots PROVE bought[l] <= both[l]
  <2>1. CASE bought[l] = 0
    BY <1>4, <2>1
  <2>2. CASE bought[l] > 0
    <3>1. prot[l] \in {"PROTECTED", "CLOSED"}
      BY <2>2 DEF GateOpens, Unprotected, Ranges
    <3>2. lists[First(l)].qty = bought[l] /\ lists[First(l)].status # "none"
      BY <3>1 DEF GateInv, GateOpens, GateRuns
    <3>3. Live(First(l)) \/ Remaining(First(l)) = 0
      <4>1. prot[l] = "CLOSED" => Remaining(First(l)) = 0
        BY DEF GateInv, GateOpens, GateRuns
      <4>2. prot[l] = "PROTECTED" => Live(First(l)) \/ ~(Remaining(First(l)) > 0)
        BY DEF GateOpens, Broken
      <4>3. Remaining(First(l)) \in Nat
        BY <1>3, <1>4 DEF ListsInv, ListRec
      <4> QED BY <3>1, <4>1, <4>2, <4>3
    <3>4. /\ lists[First(l)].sold \in Nat /\ lists[First(l)].qty \in Nat
          /\ sold[l] = lists[First(l)].sold
          /\ rest[l] = IF Live(First(l)) THEN lists[First(l)].qty - lists[First(l)].sold ELSE 0
          /\ Remaining(First(l)) = lists[First(l)].qty - lists[First(l)].sold
      BY <1>3, <1>4, ExitAssumption DEF ExitAssumption, ListRec
    <3> QED BY <3>2, <3>3, <3>4
  <2> QED BY <1>4, <2>1, <2>2
<1> HIDE DEF sold, rest
<1>6. SumFunctionOnSet(bought, Lots) <= SumFunctionOnSet(both, Lots)
  <2> HIDE DEF both
  <2>1. \A l \in Lots : bought[l] \in Int /\ both[l] \in Int /\ bought[l] <= both[l]
    BY <1>4, <1>5
  <2> QED BY <2>1, ListsFinite, SumMonotone
<1>7. SumFunctionOnSet(both, Lots) = SumFunctionOnSet(sold, Lots) + SumFunctionOnSet(rest, Lots)
  <2>1. \A l \in Lots : sold[l] \in Int /\ rest[l] \in Int /\ both[l] = sold[l] + rest[l]
    BY <1>4
  <2> HIDE DEF both
  <2> QED BY <2>1, ListsFinite, SumPlus
<1>8. SumFunctionOnSet(sold, Lots) <= SumFunctionOnSet(Sold, ListId)
  <2>1. \A l \in Lots : sold[l] = Sold[First(l)]
    BY DEF sold
  <2> QED BY <1>3, <2>1, FirstLists
<1>9. SumFunctionOnSet(rest, Lots) <= SumFunctionOnSet(Remainders, ListId)
  <2>1. \A l \in Lots : rest[l] = Remainders[First(l)]
    BY DEF rest
  <2> QED BY <1>3, <2>1, FirstLists
<1>10. /\ SumFunctionOnSet(sold, Lots) \in Nat /\ SumFunctionOnSet(rest, Lots) \in Nat
       /\ SumFunctionOnSet(both, Lots) \in Nat
  <2> HIDE DEF both
  <2> QED BY <1>4, ListsFinite, SumNat
<1>11. SumFunctionOnSet(bought', tracked') \in Nat
  BY <1>1, <1>4, ListsFinite, FS_Subset, SumNat
<1>12. /\ Held' = SumFunctionOnSet(bought, Lots) - SumFunctionOnSet(Sold, ListId) - flat
       /\ Attended' = SumFunctionOnSet(Remainders, ListId) + SumFunctionOnSet(bought', tracked')
  BY <1>1, <1>2 DEF Held, Attended
<1> HIDE DEF both
<1> QED BY <1>1, <1>2, <1>6, <1>7, <1>8, <1>9, <1>10, <1>11, <1>12

(* A worker that was down starts through the recovery gate and in no other way. *)
LEMMA StartsByGate ==
    ASSUME worker = "down", worker' = "up", Ranges, [Next]_vars
    PROVE  GateOpens
<1>1. ASSUME SafetyCancel PROVE GateOpens
  BY <1>1
  DEF SafetyCancel, SafetyCancelNotDue, SafetyCancelBegins, SafetyDelete,
      SafetyReadFails, SafetyDeleteUnconfirmed, SafetyCancelEnds, SafetyRead, Dies,
      Settled, exchangeVars, durableVars, localVars
<1>2. ASSUME GapFlatten PROVE GateOpens
  BY <1>2
  DEF GapFlatten, NoBreach, GapBalances, GapSoldOut, GapReleased, GapGivesUp, GapRead,
      GapCancel, GapCancelFails, GapSell, HaltThen, FlattenEnds, exchangeVars,
      durableVars, localVars
<1>3. ASSUME Sweep PROVE GateOpens
  BY <1>3
  DEF Sweep, SweepEnds, SettleRead, Protect, SweepDrops, SettleCancel, SweepReads,
      ProtectFails, exchangeVars, durableVars, localVars
<1>4. ASSUME TimeStop PROVE GateOpens
  BY <1>4
  DEF TimeStop, NoTimeStop, TimeStopUnavailable, TimeStopHalts, TimeSellRaises,
      TimeSell, HaltThen, Dies, exchangeVars, durableVars, localVars
<1>5. ASSUME Breakeven PROVE GateOpens
  BY <1>5
  DEF Breakeven, BreakevenNotDue, BreakevenRead, BreakevenConfirmed,
      BreakevenUnconfirmed, BreakevenEnds, BreakevenCancel, Rearm, RearmFails, HaltThen,
      BreakevenAborts, exchangeVars, durableVars, localVars
<1>6. ASSUME Gate PROVE GateOpens
  BY <1>6
  DEF Gate, GateHalts, exchangeVars, localVars
<1>7. ASSUME Exchange PROVE GateOpens
  BY <1>7
  DEF Exchange, BuyExecutes, BuyExpires, RiskCheck, LegExecutes, CancelTakesEffect,
      exchangeVars, durableVars, localVars
<1>8. ASSUME SessionEnds PROVE GateOpens
  BY <1>8
  DEF SessionEnds, Dies, exchangeVars, durableVars
<1>9. ASSUME Crash PROVE GateOpens
  BY <1>9
  DEF Crash, Dies, exchangeVars, durableVars
<1>10. ASSUME UNCHANGED vars PROVE GateOpens
  BY <1>10 DEF vars, exchangeVars, durableVars, localVars
<1> QED BY <1>1, <1>2, <1>3, <1>4, <1>5, <1>6, <1>7, <1>8, <1>9, <1>10 DEF Next, Tick

(* The recovery gate lets a worker start only when every unit bought rests in a list
   or belongs to a BUY the new worker polls, whatever crashed, was lost or executed
   before. *)
THEOREM RestartHolds == Spec => RestartIsAttended
<1>1. SafeShape /\ GateInv /\ [Next]_vars =>
          [worker = "down" /\ worker' = "up" => Held' <= Attended']_vars
  <2>1. ASSUME SafeShape, GateInv, [Next]_vars, worker = "down", worker' = "up"
        PROVE  Held' <= Attended'
    <3>1. GateOpens
      BY <2>1, StartsByGate DEF SafeShape, ShapeInv
    <3> QED BY <2>1, <3>1, ShapeStep, GateAttends
  <2> QED BY <2>1
<1> QED BY <1>1, ShapeAlways, GateAlways, PTL DEF Spec, RestartIsAttended

---------------------------------------------------------------------------
(* While a worker runs and no HALT stands: what the exchange accepted to cancel is in
   hand of a control that waits for it, and the BUYs that may still execute are
   polled. *)
Running == worker = "up" /\ ~halted

ClosingInv == Running => \A i \in ListId :
                  lists[i].status = "closing" => i \in target /\ pc \in Between

(* What breakeven or the watchdog read and did not cancel yet rests or sold out. *)
Waiting(i) == \/ snap[i] > 0 /\ i \notin target
              \/ i \in target /\ pc = "gapBalances"
OpenInv == Running => \A i \in ListId :
                  Waiting(i) => lists[i].status = "open" \/ Remaining(i) = 0

PolledInv == Running => \A l \in Lots : buy[l] = "OPEN" => l \in tracked

(* No step forgets a list the exchange accepted to cancel. *)
LEMMA ClosingStep ==
    ASSUME Ranges, ListsInv, StageInv, SnapInv, ClosingInv, [Next]_vars
    PROVE  ClosingInv'
<1> USE DEF Ranges, StageInv, ClosingInv, Running, Between, exchangeVars, durableVars, localVars
<1>1. ASSUME SafetyCancelNotDue PROVE ClosingInv'
  BY <1>1 DEF SafetyCancelNotDue
<1>2. ASSUME SafetyCancelBegins PROVE ClosingInv'
  BY <1>2 DEF SafetyCancelBegins
<1>3. ASSUME SafetyDelete PROVE ClosingInv'
  BY <1>3 DEF SafetyDelete, Settled
<1>4. ASSUME SafetyReadFails PROVE ClosingInv'
  BY <1>4 DEF SafetyReadFails, Dies
<1>5. ASSUME SafetyDeleteUnconfirmed PROVE ClosingInv'
  BY <1>5 DEF SafetyDeleteUnconfirmed, Dies
<1>6. ASSUME SafetyCancelEnds PROVE ClosingInv'
  BY <1>6 DEF SafetyCancelEnds
<1>7. ASSUME NEW l \in Lots, SafetyRead(l) PROVE ClosingInv'
  BY <1>7 DEF SafetyRead, Settled
<1>8. ASSUME NoBreach PROVE ClosingInv'
  BY <1>8 DEF NoBreach
<1>9. ASSUME GapBalances PROVE ClosingInv'
  BY <1>9 DEF GapBalances, HaltThen, FlattenEnds
<1>10. ASSUME GapSoldOut PROVE ClosingInv'
  BY <1>10 DEF GapSoldOut, FlattenEnds, Released, Live
<1>11. ASSUME GapReleased PROVE ClosingInv'
  BY <1>11 DEF GapReleased
<1>12. ASSUME GapGivesUp PROVE ClosingInv'
  BY <1>12 DEF GapGivesUp, HaltThen, FlattenEnds
<1>13. ASSUME NEW breached \in SUBSET Resting, GapRead(breached)
       PROVE  ClosingInv'
  BY <1>13 DEF GapRead
<1>14. ASSUME NEW i \in ListId, GapCancel(i) PROVE ClosingInv'
  BY <1>14 DEF GapCancel, Closing
<1>15. ASSUME NEW i \in ListId, GapCancelFails(i) PROVE ClosingInv'
  BY <1>15 DEF GapCancelFails
<1>16. ASSUME NEW n \in 0..(Qty * Cardinality(Lots)), GapSell(n) PROVE ClosingInv'
  BY <1>16 DEF GapSell, FlattenEnds, Released, Live
<1>17. ASSUME SweepEnds PROVE ClosingInv'
  BY <1>17 DEF SweepEnds
<1>18. ASSUME SettleRead PROVE ClosingInv'
  BY <1>18 DEF SettleRead
<1>19. ASSUME Protect PROVE ClosingInv'
  <2>1. /\ pc = "place" /\ UNCHANGED <<worker, halted>> /\ cur \in Lots
        /\ lists' = [lists EXCEPT ![First(cur)] = NewList(bought[cur])]
    BY <1>19 DEF Protect
  <2>2. \A i \in ListId : lists'[i] = lists[i] \/ lists'[i] = NewList(bought[cur])
    BY <2>1
  <2> QED BY <2>1, <2>2 DEF NewList
<1>20. ASSUME NEW l \in Lots, SweepDrops(l) PROVE ClosingInv'
  BY <1>20 DEF SweepDrops
<1>21. ASSUME NEW l \in Lots, SettleCancel(l) PROVE ClosingInv'
  BY <1>21 DEF SettleCancel
<1>22. ASSUME NEW l \in Lots, SweepReads(l) PROVE ClosingInv'
  BY <1>22 DEF SweepReads
<1>23. ASSUME NEW n \in 0..Qty, ProtectFails(n) PROVE ClosingInv'
  BY <1>23 DEF ProtectFails
<1>24. ASSUME NoTimeStop PROVE ClosingInv'
  BY <1>24 DEF NoTimeStop
<1>25. ASSUME TimeStopUnavailable PROVE ClosingInv'
  BY <1>25 DEF TimeStopUnavailable, HaltThen
<1>26. ASSUME TimeStopHalts PROVE ClosingInv'
  BY <1>26 DEF TimeStopHalts, HaltThen
<1>27. ASSUME NEW l \in Lots, NEW n \in 0..Qty, TimeSellRaises(l, n) PROVE ClosingInv'
  BY <1>27 DEF TimeSellRaises, Dies
<1>28. ASSUME NEW l \in Lots, NEW q \in 1..Qty, NEW n \in 0..Qty, TimeSell(l, q, n)
       PROVE  ClosingInv'
  BY <1>28 DEF TimeSell
<1>29. ASSUME BreakevenNotDue PROVE ClosingInv'
  BY <1>29 DEF BreakevenNotDue
<1>30. ASSUME BreakevenRead PROVE ClosingInv'
  BY <1>30 DEF BreakevenRead
<1>31. ASSUME BreakevenConfirmed PROVE ClosingInv'
  BY <1>31 DEF BreakevenConfirmed
<1>32. ASSUME BreakevenUnconfirmed PROVE ClosingInv'
  BY <1>32 DEF BreakevenUnconfirmed, HaltThen, BreakevenAborts
<1>33. ASSUME BreakevenEnds PROVE ClosingInv'
  BY <1>33 DEF BreakevenEnds
<1>34. ASSUME NEW i \in ListId, BreakevenCancel(i) PROVE ClosingInv'
  <2>1. target' = {i} /\ pc' = "evenVerify" /\ UNCHANGED <<worker, halted>> /\ target = {}
    BY <1>34 DEF BreakevenCancel, FlattenSteps
  <2>2. \A j \in ListId \ {i} : lists'[j] = lists[j]
    BY <1>34 DEF BreakevenCancel, Closing
  <2> QED BY <2>1, <2>2
<1>35. ASSUME NEW i \in ListId, Rearm(i) PROVE ClosingInv'
  <2>1. /\ pc = "evenPlace" /\ UNCHANGED <<worker, halted>>
        /\ lists' = [lists EXCEPT ![Raised(i[1])] = NewList(snap[i])]
    BY <1>35 DEF Rearm
  <2>2. \A j \in ListId : lists'[j] = lists[j] \/ lists'[j] = NewList(snap[i])
    BY <2>1
  <2>3. Released
    BY <2>1
  <2> QED BY <2>1, <2>2, <2>3 DEF NewList, Released, Live
<1>36. ASSUME NEW i \in ListId, RearmFails(i) PROVE ClosingInv'
  BY <1>36 DEF RearmFails
<1>37. ASSUME GateOpens PROVE ClosingInv'
  BY <1>37 DEF GateOpens, GateRuns
<1>38. ASSUME GateHalts PROVE ClosingInv'
  BY <1>38 DEF GateHalts
<1>39. ASSUME NEW l \in Lots, BuyExecutes(l) PROVE ClosingInv'
  BY <1>39 DEF BuyExecutes
<1>40. ASSUME NEW l \in Lots, BuyExpires(l) PROVE ClosingInv'
  BY <1>40 DEF BuyExpires
<1>41. ASSUME NEW l \in Lots, RiskCheck(l) PROVE ClosingInv'
  BY <1>41 DEF RiskCheck
<1>42. ASSUME NEW i \in ListId, LegExecutes(i) PROVE ClosingInv'
  BY <1>42 DEF LegExecutes
<1>43. ASSUME NEW i \in ListId, CancelTakesEffect(i) PROVE ClosingInv'
  BY <1>43 DEF CancelTakesEffect
<1>44. ASSUME SessionEnds PROVE ClosingInv'
  BY <1>44 DEF SessionEnds, Dies
<1>45. ASSUME Crash PROVE ClosingInv'
  BY <1>45 DEF Crash, Dies
<1>46. ASSUME UNCHANGED vars PROVE ClosingInv'
  BY <1>46 DEF vars
<1> QED
  BY <1>1, <1>2, <1>3, <1>4, <1>5, <1>6, <1>7, <1>8, <1>9, <1>10, <1>11, <1>12, <1>13,
     <1>14, <1>15, <1>16, <1>17, <1>18, <1>19, <1>20, <1>21, <1>22, <1>23, <1>24, <1>25,
     <1>26, <1>27, <1>28, <1>29, <1>30, <1>31, <1>32, <1>33, <1>34, <1>35, <1>36, <1>37,
     <1>38, <1>39, <1>40, <1>41, <1>42, <1>43, <1>44, <1>45, <1>46
  DEF Next, Tick, SafetyCancel, GapFlatten, Sweep, TimeStop, Breakeven, Gate, Exchange

(* No step lets a BUY that may still execute out of the poll list. *)
LEMMA PolledStep ==
    ASSUME Ranges, LotsInv, StageInv, BuyChange, PolledInv, [Next]_vars
    PROVE  PolledInv'
<1> USE DEF Ranges, StageInv, LotsInv, PolledInv, Running, BuyChange, exchangeVars, durableVars, localVars
<1>1. ASSUME SafetyCancelNotDue PROVE PolledInv'
  BY <1>1 DEF SafetyCancelNotDue
<1>2. ASSUME SafetyCancelBegins PROVE PolledInv'
  BY <1>2 DEF SafetyCancelBegins
<1>3. ASSUME SafetyDelete PROVE PolledInv'
  BY <1>3 DEF SafetyDelete, Settled
<1>4. ASSUME SafetyReadFails PROVE PolledInv'
  BY <1>4 DEF SafetyReadFails, Dies
<1>5. ASSUME SafetyDeleteUnconfirmed PROVE PolledInv'
  BY <1>5 DEF SafetyDeleteUnconfirmed, Dies
<1>6. ASSUME SafetyCancelEnds PROVE PolledInv'
  BY <1>6 DEF SafetyCancelEnds
<1>7. ASSUME NEW l \in Lots, SafetyRead(l) PROVE PolledInv'
  BY <1>7 DEF SafetyRead, Settled
<1>8. ASSUME NoBreach PROVE PolledInv'
  BY <1>8 DEF NoBreach
<1>9. ASSUME GapBalances PROVE PolledInv'
  BY <1>9 DEF GapBalances, HaltThen, FlattenEnds
<1>10. ASSUME GapSoldOut PROVE PolledInv'
  BY <1>10 DEF GapSoldOut, FlattenEnds
<1>11. ASSUME GapReleased PROVE PolledInv'
  BY <1>11 DEF GapReleased
<1>12. ASSUME GapGivesUp PROVE PolledInv'
  BY <1>12 DEF GapGivesUp, HaltThen, FlattenEnds
<1>13. ASSUME NEW breached \in SUBSET Resting, GapRead(breached)
       PROVE  PolledInv'
  BY <1>13 DEF GapRead
<1>14. ASSUME NEW i \in ListId, GapCancel(i) PROVE PolledInv'
  BY <1>14 DEF GapCancel
<1>15. ASSUME NEW i \in ListId, GapCancelFails(i) PROVE PolledInv'
  BY <1>15 DEF GapCancelFails
<1>16. ASSUME NEW n \in 0..(Qty * Cardinality(Lots)), GapSell(n) PROVE PolledInv'
  BY <1>16 DEF GapSell, FlattenEnds
<1>17. ASSUME SweepEnds PROVE PolledInv'
  BY <1>17 DEF SweepEnds
<1>18. ASSUME SettleRead PROVE PolledInv'
  BY <1>18 DEF SettleRead
<1>19. ASSUME Protect PROVE PolledInv'
  BY <1>19 DEF Protect
<1>20. ASSUME NEW l \in Lots, SweepDrops(l) PROVE PolledInv'
  BY <1>20 DEF SweepDrops
<1>21. ASSUME NEW l \in Lots, SettleCancel(l) PROVE PolledInv'
  BY <1>21 DEF SettleCancel
<1>22. ASSUME NEW l \in Lots, SweepReads(l) PROVE PolledInv'
  BY <1>22 DEF SweepReads
<1>23. ASSUME NEW n \in 0..Qty, ProtectFails(n) PROVE PolledInv'
  BY <1>23 DEF ProtectFails
<1>24. ASSUME NoTimeStop PROVE PolledInv'
  BY <1>24 DEF NoTimeStop
<1>25. ASSUME TimeStopUnavailable PROVE PolledInv'
  BY <1>25 DEF TimeStopUnavailable, HaltThen
<1>26. ASSUME TimeStopHalts PROVE PolledInv'
  BY <1>26 DEF TimeStopHalts, HaltThen
<1>27. ASSUME NEW l \in Lots, NEW n \in 0..Qty, TimeSellRaises(l, n) PROVE PolledInv'
  BY <1>27 DEF TimeSellRaises, Dies
<1>28. ASSUME NEW l \in Lots, NEW q \in 1..Qty, NEW n \in 0..Qty, TimeSell(l, q, n)
       PROVE  PolledInv'
  BY <1>28 DEF TimeSell
<1>29. ASSUME BreakevenNotDue PROVE PolledInv'
  BY <1>29 DEF BreakevenNotDue
<1>30. ASSUME BreakevenRead PROVE PolledInv'
  BY <1>30 DEF BreakevenRead
<1>31. ASSUME BreakevenConfirmed PROVE PolledInv'
  BY <1>31 DEF BreakevenConfirmed
<1>32. ASSUME BreakevenUnconfirmed PROVE PolledInv'
  BY <1>32 DEF BreakevenUnconfirmed, HaltThen, BreakevenAborts
<1>33. ASSUME BreakevenEnds PROVE PolledInv'
  BY <1>33 DEF BreakevenEnds
<1>34. ASSUME NEW i \in ListId, BreakevenCancel(i) PROVE PolledInv'
  BY <1>34 DEF BreakevenCancel
<1>35. ASSUME NEW i \in ListId, Rearm(i) PROVE PolledInv'
  BY <1>35 DEF Rearm
<1>36. ASSUME NEW i \in ListId, RearmFails(i) PROVE PolledInv'
  BY <1>36 DEF RearmFails
<1>37. ASSUME GateOpens PROVE PolledInv'
  BY <1>37 DEF GateOpens
<1>38. ASSUME GateHalts PROVE PolledInv'
  BY <1>38 DEF GateHalts
<1>39. ASSUME NEW l \in Lots, BuyExecutes(l) PROVE PolledInv'
  BY <1>39 DEF BuyExecutes
<1>40. ASSUME NEW l \in Lots, BuyExpires(l) PROVE PolledInv'
  BY <1>40 DEF BuyExpires
<1>41. ASSUME NEW l \in Lots, RiskCheck(l) PROVE PolledInv'
  BY <1>41 DEF RiskCheck
<1>42. ASSUME NEW i \in ListId, LegExecutes(i) PROVE PolledInv'
  BY <1>42 DEF LegExecutes
<1>43. ASSUME NEW i \in ListId, CancelTakesEffect(i) PROVE PolledInv'
  BY <1>43 DEF CancelTakesEffect
<1>44. ASSUME SessionEnds PROVE PolledInv'
  BY <1>44 DEF SessionEnds, Dies
<1>45. ASSUME Crash PROVE PolledInv'
  BY <1>45 DEF Crash, Dies
<1>46. ASSUME UNCHANGED vars PROVE PolledInv'
  BY <1>46 DEF vars
<1> QED
  BY <1>1, <1>2, <1>3, <1>4, <1>5, <1>6, <1>7, <1>8, <1>9, <1>10, <1>11, <1>12, <1>13,
     <1>14, <1>15, <1>16, <1>17, <1>18, <1>19, <1>20, <1>21, <1>22, <1>23, <1>24, <1>25,
     <1>26, <1>27, <1>28, <1>29, <1>30, <1>31, <1>32, <1>33, <1>34, <1>35, <1>36, <1>37,
     <1>38, <1>39, <1>40, <1>41, <1>42, <1>43, <1>44, <1>45, <1>46
  DEF Next, Tick, SafetyCancel, GapFlatten, Sweep, TimeStop, Breakeven, Gate, Exchange

(* Outside breakeven nothing is read for it. *)
LEMMA NotRaising ==
    ASSUME Ranges, SnapInv, pc \notin Raising
    PROVE  \A i \in ListId : snap[i] = 0
<1>1. \A i \in ListId : snap[i] \in Nat /\ i[1] \in Lots /\ (i = First(i[1]) \/ i = Raised(i[1]))
  BY IdFacts, ExitAssumption DEF Ranges, ExitAssumption
<1> QED BY <1>1 DEF SnapInv, Raising

(* No step, while nothing was canceled yet, finds the lists read by a control gone
   with units left. *)
LEMMA OpenStep ==
    ASSUME Ranges, ListsInv, StageInv, SnapInv, ClosingInv, OpenInv, [Next]_vars
    PROVE  OpenInv'
<1> USE ExitAssumption DEF ExitAssumption, Ranges, StageInv, OpenInv, Waiting, Running, Remaining,
        exchangeVars, durableVars, localVars
<1>1. ASSUME SafetyCancelNotDue PROVE OpenInv'
  BY <1>1 DEF SafetyCancelNotDue
<1>2. ASSUME SafetyCancelBegins PROVE OpenInv'
  BY <1>2 DEF SafetyCancelBegins
<1>3. ASSUME SafetyDelete PROVE OpenInv'
  BY <1>3 DEF SafetyDelete, Settled
<1>4. ASSUME SafetyReadFails PROVE OpenInv'
  BY <1>4 DEF SafetyReadFails, Dies
<1>5. ASSUME SafetyDeleteUnconfirmed PROVE OpenInv'
  BY <1>5 DEF SafetyDeleteUnconfirmed, Dies
<1>6. ASSUME SafetyCancelEnds PROVE OpenInv'
  BY <1>6 DEF SafetyCancelEnds
<1>7. ASSUME NEW l \in Lots, SafetyRead(l) PROVE OpenInv'
  BY <1>7 DEF SafetyRead, Settled
<1>8. ASSUME NoBreach PROVE OpenInv'
  BY <1>8 DEF NoBreach
<1>9. ASSUME GapBalances PROVE OpenInv'
  BY <1>9 DEF GapBalances, HaltThen, FlattenEnds
<1>10. ASSUME GapSoldOut PROVE OpenInv'
  <2>1. pc \notin Raising /\ target' = {} /\ UNCHANGED snap
    BY <1>10 DEF GapSoldOut, FlattenEnds, Raising
  <2>2. \A i \in ListId : snap[i] = 0
    BY <2>1, NotRaising
  <2> QED BY <2>1, <2>2
<1>11. ASSUME GapReleased PROVE OpenInv'
  BY <1>11 DEF GapReleased
<1>12. ASSUME GapGivesUp PROVE OpenInv'
  BY <1>12 DEF GapGivesUp, HaltThen, FlattenEnds
<1>13. ASSUME NEW breached \in SUBSET Resting, GapRead(breached) PROVE OpenInv'
  <2>1. /\ pc = "gap" /\ UNCHANGED <<lists, worker, halted, snap>>
        /\ \A i \in target' : i \in ListId /\ Live(i)
    BY <1>13 DEF GapRead, Resting
  <2>2. \A i \in ListId : snap[i] = 0
    BY <2>1, NotRaising DEF Raising
  <2>3. Running => \A i \in ListId : lists[i].status # "closing"
    BY <2>1 DEF ClosingInv, Between
  <2> QED BY <2>1, <2>2, <2>3 DEF Live
<1>14. ASSUME NEW i \in ListId, GapCancel(i) PROVE OpenInv'
  <2>1. /\ \A j \in ListId \ {i} : lists'[j] = lists[j]
        /\ UNCHANGED <<worker, halted, snap>> /\ pc' # "gapBalances" /\ target' = target
    BY <1>14 DEF GapCancel, Closing, FlattenSteps
  <2> QED BY <1>14, <2>1 DEF GapCancel
<1>15. ASSUME NEW i \in ListId, GapCancelFails(i) PROVE OpenInv'
  BY <1>15 DEF GapCancelFails
<1>16. ASSUME NEW n \in 0..(Qty * Cardinality(Lots)), GapSell(n) PROVE OpenInv'
  <2>1. pc \notin Raising /\ target' = {} /\ UNCHANGED snap
    BY <1>16 DEF GapSell, FlattenEnds, Raising
  <2>2. \A i \in ListId : snap[i] = 0
    BY <2>1, NotRaising
  <2> QED BY <2>1, <2>2
<1>17. ASSUME SweepEnds PROVE OpenInv'
  BY <1>17 DEF SweepEnds
<1>18. ASSUME SettleRead PROVE OpenInv'
  BY <1>18 DEF SettleRead
<1>19. ASSUME Protect PROVE OpenInv'
  <2>1. /\ pc = "place" /\ pc' = "protect" /\ UNCHANGED <<snap, worker, halted>>
    BY <1>19 DEF Protect
  <2>2. \A i \in ListId : snap[i] = 0
    BY <2>1, NotRaising DEF Raising
  <2> QED BY <2>1, <2>2
<1>20. ASSUME NEW l \in Lots, SweepDrops(l) PROVE OpenInv'
  BY <1>20 DEF SweepDrops
<1>21. ASSUME NEW l \in Lots, SettleCancel(l) PROVE OpenInv'
  BY <1>21 DEF SettleCancel
<1>22. ASSUME NEW l \in Lots, SweepReads(l) PROVE OpenInv'
  BY <1>22 DEF SweepReads
<1>23. ASSUME NEW n \in 0..Qty, ProtectFails(n) PROVE OpenInv'
  BY <1>23 DEF ProtectFails
<1>24. ASSUME NoTimeStop PROVE OpenInv'
  BY <1>24 DEF NoTimeStop
<1>25. ASSUME TimeStopUnavailable PROVE OpenInv'
  BY <1>25 DEF TimeStopUnavailable, HaltThen
<1>26. ASSUME TimeStopHalts PROVE OpenInv'
  BY <1>26 DEF TimeStopHalts, HaltThen
<1>27. ASSUME NEW l \in Lots, NEW n \in 0..Qty, TimeSellRaises(l, n) PROVE OpenInv'
  BY <1>27 DEF TimeSellRaises, Dies
<1>28. ASSUME NEW l \in Lots, NEW q \in 1..Qty, NEW n \in 0..Qty, TimeSell(l, q, n)
       PROVE  OpenInv'
  BY <1>28 DEF TimeSell
<1>29. ASSUME BreakevenNotDue PROVE OpenInv'
  BY <1>29 DEF BreakevenNotDue
<1>30. ASSUME BreakevenRead PROVE OpenInv'
  <2>1. /\ pc = "even" /\ pc' = "evenNext" /\ UNCHANGED <<lists, worker, halted>>
        /\ snap' = [i \in ListId |-> IF Movable(i) THEN Remaining(i) ELSE 0]
    BY <1>30 DEF BreakevenRead
  <2>2. \A i \in ListId : snap'[i] > 0 => Live(i)
    BY <2>1 DEF Movable
  <2>3. Running => \A i \in ListId : lists[i].status # "closing"
    BY <2>1 DEF ClosingInv, Between
  <2> QED BY <2>1, <2>2, <2>3 DEF Live
<1>31. ASSUME BreakevenConfirmed PROVE OpenInv'
  BY <1>31 DEF BreakevenConfirmed
<1>32. ASSUME BreakevenUnconfirmed PROVE OpenInv'
  BY <1>32 DEF BreakevenUnconfirmed, HaltThen, BreakevenAborts
<1>33. ASSUME BreakevenEnds PROVE OpenInv'
  BY <1>33 DEF BreakevenEnds
<1>34. ASSUME NEW i \in ListId, BreakevenCancel(i) PROVE OpenInv'
  <2>1. /\ \A j \in ListId \ {i} : lists'[j] = lists[j]
        /\ UNCHANGED <<worker, halted, snap>> /\ pc' # "gapBalances" /\ target' = {i} /\ target = {}
    BY <1>34 DEF BreakevenCancel, Closing, FlattenSteps
  <2> QED BY <1>34, <2>1 DEF BreakevenCancel
<1>35. ASSUME NEW i \in ListId, Rearm(i) PROVE OpenInv'
  <2>1. /\ pc = "evenPlace" /\ pc' = "evenNext" /\ UNCHANGED <<worker, halted>>
        /\ lists' = [lists EXCEPT ![Raised(i[1])] = NewList(snap[i])]
        /\ snap' = [snap EXCEPT ![i] = 0]
    BY <1>35 DEF Rearm
  <2>2. PICK l \in Lots : target = {First(l)}
    BY <2>1
  <2>3. i = First(l) /\ i[1] \in Lots /\ snap'[Raised(i[1])] = 0
    BY <1>35, <2>1, <2>2, IdFacts DEF Rearm, SnapInv
  <2>4. \A j \in ListId : snap'[j] > 0 => j # i /\ snap[j] > 0 /\ lists'[j] = lists[j]
    BY <2>1, <2>3
  <2> QED BY <2>1, <2>2, <2>3, <2>4
<1>36. ASSUME NEW i \in ListId, RearmFails(i) PROVE OpenInv'
  BY <1>36 DEF RearmFails
<1>37. ASSUME GateOpens PROVE OpenInv'
  <2>1. pc = "down" /\ pc' = "cancel" /\ UNCHANGED snap
    BY <1>37 DEF GateOpens, GateRuns
  <2>2. \A i \in ListId : snap[i] = 0
    BY <2>1, NotRaising DEF Raising
  <2> QED BY <2>1, <2>2
<1>38. ASSUME GateHalts PROVE OpenInv'
  BY <1>38 DEF GateHalts
<1>39. ASSUME NEW l \in Lots, BuyExecutes(l) PROVE OpenInv'
  BY <1>39 DEF BuyExecutes
<1>40. ASSUME NEW l \in Lots, BuyExpires(l) PROVE OpenInv'
  BY <1>40 DEF BuyExpires
<1>41. ASSUME NEW l \in Lots, RiskCheck(l) PROVE OpenInv'
  BY <1>41 DEF RiskCheck
<1>42. ASSUME NEW i \in ListId, LegExecutes(i) PROVE OpenInv'
  <2>1. Live(i) /\ Remaining(i) > 0 /\ Remaining(i) \in Int
    BY <1>42 DEF LegExecutes, ListsInv, Remaining, ListRec
  <2>2. /\ \A j \in ListId \ {i} : lists'[j] = lists[j]
        /\ lists'[i].qty = lists[i].qty /\ lists'[i].sold = lists[i].sold + 1
        /\ lists'[i].status = IF Remaining(i) = 1 THEN "done" ELSE lists[i].status
    BY <1>42, <2>1, LegEffect
  <2>3. UNCHANGED <<worker, halted, pc, target, snap>>
    BY <1>42 DEF LegExecutes
  <2>4. lists[i].qty \in Int /\ lists[i].sold \in Int
    BY DEF ListRec
  <2>5. ASSUME lists[i].status = "open" PROVE lists'[i].status = "open" \/ Remaining(i)' = 0
    BY <2>2, <2>4, <2>5 DEF Remaining
  <2> QED BY <2>1, <2>2, <2>3, <2>5
<1>43. ASSUME NEW i \in ListId, CancelTakesEffect(i) PROVE OpenInv'
  <2>1. /\ lists[i].status = "closing" /\ UNCHANGED <<worker, halted, pc, target, snap>>
        /\ \A j \in ListId \ {i} : lists'[j] = lists[j]
    BY <1>43 DEF CancelTakesEffect
  <2>2. Running => ~Waiting(i)
    BY <2>1 DEF ClosingInv, Between
  <2> QED BY <2>1, <2>2
<1>44. ASSUME SessionEnds PROVE OpenInv'
  BY <1>44 DEF SessionEnds, Dies
<1>45. ASSUME Crash PROVE OpenInv'
  BY <1>45 DEF Crash, Dies
<1>46. ASSUME UNCHANGED vars PROVE OpenInv'
  BY <1>46 DEF vars
<1> QED
  BY <1>1, <1>2, <1>3, <1>4, <1>5, <1>6, <1>7, <1>8, <1>9, <1>10, <1>11, <1>12, <1>13,
     <1>14, <1>15, <1>16, <1>17, <1>18, <1>19, <1>20, <1>21, <1>22, <1>23, <1>24, <1>25,
     <1>26, <1>27, <1>28, <1>29, <1>30, <1>31, <1>32, <1>33, <1>34, <1>35, <1>36, <1>37,
     <1>38, <1>39, <1>40, <1>41, <1>42, <1>43, <1>44, <1>45, <1>46
  DEF Next, Tick, SafetyCancel, GapFlatten, Sweep, TimeStop, Breakeven, Gate, Exchange

---------------------------------------------------------------------------
(* The quantity breakeven read is never less than what the list still has to sell. *)
SnapUpper == \A i \in ListId : snap[i] > 0 => snap[i] >= Remaining(i)

(* What a list that was placed has still to sell only falls, and only as a leg executes. *)
LEMMA RemainingFalls ==
    ASSUME Ranges, Ranges', ListsChange, NEW i \in ListId, lists[i].status # "none"
    PROVE  /\ Remaining(i) \in Int /\ Remaining(i)' \in Int
           /\ Remaining(i)' <= Remaining(i)
           /\ ~LegExecutes(i) => Remaining(i)' = Remaining(i)
<1>0. lists[i] \in ListRec /\ lists'[i] \in ListRec
  BY DEF Ranges
<1>1. /\ lists[i].qty \in Int /\ lists[i].sold \in Int
      /\ lists'[i].qty \in Int /\ lists'[i].sold \in Int
  BY <1>0, ExitAssumption DEF ListRec, ExitAssumption
<1>2. \A j \in ListId : Moved(j) => /\ lists'[i].sold \in {lists[i].sold, lists[i].sold + 1}
                                    /\ lists'[i].sold # lists[i].sold => LegExecutes(i)
  BY DEF Moved
<1>3. \A j \in ListId : \A n : Placed(j, n) => lists'[i] = lists[i]
  BY DEF Placed
<1>4. \A l \in Lots : First(l) \in ListId /\ Raised(l) \in ListId
  BY IdFacts
<1>5. /\ lists'[i].sold \in {lists[i].sold, lists[i].sold + 1}
      /\ lists'[i].sold # lists[i].sold => LegExecutes(i)
  BY <1>2, <1>3, <1>4 DEF ListsChange, Replaced
<1> QED BY <1>1, <1>5, ListQuantityStays DEF Remaining

(* No step makes a list sell more than breakeven read of it. *)
LEMMA SnapUpperStep ==
    ASSUME Ranges, Ranges', SnapInv, SnapChange, ListsChange, SnapUpper
    PROVE  SnapUpper'
<1> SUFFICES ASSUME NEW i \in ListId, snap'[i] > 0 PROVE snap'[i] >= Remaining(i)'
  BY DEF SnapUpper
<1>1. lists[i].status # "none"
  <2>1. CASE Movable(i)
    BY <2>1 DEF Movable, Live
  <2>2. CASE snap'[i] = snap[i]
    BY <2>2, IdFacts DEF SnapInv
  <2> QED BY <2>1, <2>2 DEF SnapChange
<1>2. Remaining(i) \in Int /\ Remaining(i)' \in Int /\ Remaining(i)' <= Remaining(i)
  BY <1>1, RemainingFalls
<1>3. snap[i] \in Int /\ snap'[i] \in Int
  BY ExitAssumption DEF Ranges, ExitAssumption
<1>4. snap'[i] \in {snap[i], Remaining(i)}
  BY DEF SnapChange
<1> QED BY <1>2, <1>3, <1>4 DEF SnapUpper

---------------------------------------------------------------------------
(* What the lists of a breach have still to sell, whether they rest or not. *)
Left == [i \in ListId |-> Remaining(i)]
LeftInTarget == SumFunctionOnSet(Left, target)

(* What the watchdog read is never less than what the breached lists have still to
   sell: they only sell. *)
GapInv == pc \in {"gapBalances", "gapCancel", "gapPoll"} => LeftInTarget <= expected

LeftNumbers ==
    Ranges /\ ListsInv => /\ \A i \in ListId : Left[i] \in Nat /\ Left[i] = Remaining(i)
                          /\ \A S \in SUBSET ListId : SumFunctionOnSet(Left, S) \in Nat

(* What lists have left to sell are natural numbers, and their sums too. *)
LEMMA LeftIsNumber == LeftNumbers
<1> SUFFICES ASSUME Ranges, ListsInv
             PROVE  /\ \A i \in ListId : Left[i] \in Nat /\ Left[i] = Remaining(i)
                    /\ \A S \in SUBSET ListId : SumFunctionOnSet(Left, S) \in Nat
  BY DEF LeftNumbers
<1>1. \A i \in ListId : Left[i] \in Nat /\ Left[i] = Remaining(i)
  BY ExitAssumption DEF ExitAssumption, Ranges, ListsInv, Left, Remaining, ListRec
<1>2. \A S \in SUBSET ListId : SumFunctionOnSet(Left, S) \in Nat
  BY <1>1, ListsFinite, FS_Subset, SumNat
<1> QED BY <1>1, <1>2

(* A list that is accepted for cancellation, or gone, still has the same to sell. *)
LEMMA StatusIsNoSale ==
    ASSUME Ranges, ListsInv, Ranges', ListsInv', UNCHANGED <<bought, flat, target>>,
           \A i \in ListId : lists'[i].qty = lists[i].qty /\ lists'[i].sold = lists[i].sold
    PROVE  LeftInTarget' = LeftInTarget /\ Total' = Total
<1>1. Left' = Left /\ Sold' = Sold
  BY DEF Left, Sold, Remaining
<1> QED BY <1>1 DEF LeftInTarget, Total, Held

(* A leg that executes a unit takes it from the account and from its list. *)
LEMMA LegIsSale ==
    ASSUME Ranges, ListsInv, Ranges', ListsInv', NEW i \in ListId, LegExecutes(i)
    PROVE  /\ Total' = Total - 1
           /\ LeftInTarget' = IF i \in target THEN LeftInTarget - 1 ELSE LeftInTarget
<1>1. Live(i) /\ Remaining(i) > 0 /\ Remaining(i) \in Int
  BY LeftIsNumber DEF LeftNumbers, LegExecutes, ListsInv
<1>2. /\ \A j \in ListId \ {i} : lists'[j] = lists[j]
      /\ lists'[i].qty = lists[i].qty /\ lists'[i].sold = lists[i].sold + 1
  BY <1>1, LegEffect DEF Ranges
<1>3. UNCHANGED <<bought, flat, target>>
  BY DEF LegExecutes, localVars
<1>4. lists[i].qty \in Int /\ lists[i].sold \in Int
  BY ExitAssumption DEF ExitAssumption, Ranges, ListRec
<1>5. /\ SumFunctionOnSet(bought, Lots) \in Int /\ SumFunctionOnSet(Sold, ListId) \in Int
      /\ flat \in Int /\ Legacy \in Int
  BY AccountIsNumber, ExitAssumption DEF ExitAssumption, AccountNumbers, Ranges
<1>6. Total' = Total - 1
  <2>1. SumFunctionOnSet(Sold', ListId) =
              SumFunctionOnSet(Sold, ListId) + lists'[i].sold - lists[i].sold
    BY <1>2, OneListChanges DEF Ranges
  <2> QED BY <1>2, <1>3, <1>4, <1>5, <2>1 DEF Total, Held
<1>7. ASSUME i \in target PROVE LeftInTarget' = LeftInTarget - 1
  <2>1. \A j \in target : Left[j] \in Int /\ Left'[j] \in Int
    BY ExitAssumption DEF ExitAssumption, Ranges, Left, Remaining, ListRec
  <2>2. \A j \in target \ {i} : Left[j] = Left'[j]
    BY <1>2 DEF Ranges, Left, Remaining
  <2>3. IsFiniteSet(target)
    BY ListsFinite, FS_Subset DEF Ranges
  <2>4. SumFunctionOnSet(Left', target) = SumFunctionOnSet(Left, target) + Left'[i] - Left[i]
    BY <1>7, <2>1, <2>2, <2>3, SumChange
  <2>5. Left'[i] = Left[i] - 1
    BY <1>2, <1>4 DEF Left, Remaining
  <2>6. SumFunctionOnSet(Left, target) \in Int
    BY <2>1, <2>3, SumInt
  <2> QED BY <1>3, <1>7, <2>1, <2>4, <2>5, <2>6 DEF LeftInTarget
<1>8. ASSUME i \notin target PROVE LeftInTarget' = LeftInTarget
  <2>1. \A j \in target : Left'[j] = Left[j]
    BY <1>2, <1>8 DEF Ranges, Left, Remaining
  <2>2. IsFiniteSet(target)
    BY ListsFinite, FS_Subset DEF Ranges
  <2>3. SumFunctionOnSet(Left', target) = SumFunctionOnSet(Left, target)
    BY <2>1, <2>2, SumSame
  <2> QED BY <1>3, <2>3 DEF LeftInTarget
<1> QED BY <1>6, <1>7, <1>8

(* What the watchdog reads is what the lists it will cancel have still to sell. *)
LEMMA ReadIsLeft ==
    ASSUME Ranges, ListsInv, NEW breached \in SUBSET Resting, GapRead(breached)
    PROVE  LeftInTarget' = expected' /\ expected' \in Nat
<1>1. /\ target' = breached /\ expected' = SumFunctionOnSet(Remainders, breached)
      /\ UNCHANGED lists
  BY DEF GapRead, exchangeVars
<1>2. Left' = Left
  BY <1>1 DEF Left, Remaining
<1>3. breached \subseteq ListId /\ \A i \in breached : Remainders[i] = Left[i]
  BY DEF Resting, Remainders, Left
<1>4. SumFunctionOnSet(Remainders, breached) = SumFunctionOnSet(Left, breached)
  BY <1>3, ListsFinite, FS_Subset, SumSame
<1>5. SumFunctionOnSet(Left, breached) \in Nat
  BY <1>3, LeftIsNumber DEF LeftNumbers
<1> QED BY <1>1, <1>2, <1>4, <1>5 DEF LeftInTarget

(* The steps that lead into the watchdog's work or stay there. *)
FlattenMove == \/ \E breached \in SUBSET Resting : GapRead(breached)
               \/ GapBalances
               \/ GapReleased
               \/ \E i \in ListId : GapCancel(i)
               \/ Exchange
               \/ UNCHANGED vars

(* No other step does. *)
LEMMA FlattenMoves ==
    ASSUME Ranges, pc' \in FlattenSteps, [Next]_vars
    PROVE  FlattenMove
<1> USE DEF FlattenSteps
<1>1. ~SafetyCancel
  BY DEF SafetyCancel, SafetyCancelNotDue, SafetyCancelBegins, SafetyDelete,
         SafetyReadFails, SafetyDeleteUnconfirmed, SafetyCancelEnds, SafetyRead, Dies,
         Settled, exchangeVars, durableVars, localVars
<1>2. ASSUME GapFlatten PROVE FlattenMove
  BY <1>2
  DEF GapFlatten, NoBreach, GapSoldOut, GapGivesUp, GapCancelFails, GapSell, HaltThen,
      FlattenMove
<1>3. ~Sweep
  BY DEF Sweep, SweepEnds, SettleRead, Protect, SweepDrops, SettleCancel, SweepReads,
         ProtectFails, exchangeVars, durableVars, localVars
<1>4. ~TimeStop
  BY DEF TimeStop, NoTimeStop, TimeStopUnavailable, TimeStopHalts, TimeSellRaises,
         TimeSell, HaltThen, Dies, exchangeVars, durableVars, localVars
<1>5. ~Breakeven
  BY DEF Breakeven, BreakevenNotDue, BreakevenRead, BreakevenConfirmed,
         BreakevenUnconfirmed, BreakevenEnds, BreakevenCancel, Rearm, RearmFails,
         HaltThen, BreakevenAborts, exchangeVars, durableVars, localVars
<1>6. ~Gate
  BY DEF Gate, GateOpens, GateHalts, GateRuns, exchangeVars, localVars, Ranges
<1>7. ~SessionEnds /\ ~Crash
  BY DEF SessionEnds, Crash, Dies
<1> QED BY <1>1, <1>2, <1>3, <1>4, <1>5, <1>6, <1>7 DEF Next, Tick, FlattenMove

(* No step makes the breached lists sell more than the watchdog read of them. *)
LEMMA GapStep ==
    ASSUME Ranges, ListsInv, Ranges', ListsInv', GapInv, [Next]_vars
    PROVE  GapInv'
<1> DEFINE Reading == pc \in {"gapBalances", "gapCancel", "gapPoll"}
<1> SUFFICES ASSUME Reading' PROVE LeftInTarget' <= expected'
  BY DEF GapInv
<1>0. LeftInTarget \in Nat /\ expected \in Nat
  BY LeftIsNumber DEF LeftNumbers, LeftInTarget, Ranges
<1>1. FlattenMove
  BY FlattenMoves DEF FlattenSteps
<1>2. ASSUME NEW breached \in SUBSET Resting, GapRead(breached)
      PROVE  LeftInTarget' <= expected'
  BY <1>2, ReadIsLeft
<1>3. ASSUME Reading, UNCHANGED <<bought, flat, target, expected>>,
             \A i \in ListId : lists'[i].qty = lists[i].qty /\ lists'[i].sold = lists[i].sold
      PROVE  LeftInTarget' <= expected'
  BY <1>0, <1>3, StatusIsNoSale DEF GapInv
<1>4. ASSUME GapBalances PROVE LeftInTarget' <= expected'
  <2>1. Reading /\ UNCHANGED <<lists, bought, flat, target, expected>>
    BY <1>4 DEF GapBalances, HaltThen, exchangeVars
  <2> QED BY <2>1, <1>3
<1>5. ASSUME GapReleased PROVE LeftInTarget' <= expected'
  BY <1>5 DEF GapReleased
<1>6. ASSUME NEW i \in ListId, GapCancel(i) PROVE LeftInTarget' <= expected'
  <2>1. /\ Reading /\ UNCHANGED <<bought, flat, target, expected>>
        /\ lists' = [lists EXCEPT ![i].status = "closing"]
    BY <1>6 DEF GapCancel, Closing
  <2>2. \A j \in ListId : lists'[j].qty = lists[j].qty /\ lists'[j].sold = lists[j].sold
    BY <2>1, ClosingEffect DEF Ranges
  <2> QED BY <2>1, <2>2, <1>3
<1>7. ASSUME Exchange PROVE LeftInTarget' <= expected'
  <2>1. CASE \E l \in Lots : BuyExecutes(l)
    <3>1. Reading /\ UNCHANGED <<lists, target, expected>>
      BY <2>1 DEF BuyExecutes, localVars
    <3>2. LeftInTarget' = LeftInTarget
      BY <3>1 DEF LeftInTarget, Left, Remaining
    <3> QED BY <1>0, <3>1, <3>2 DEF GapInv
  <2>2. CASE \E l \in Lots : BuyExpires(l) \/ RiskCheck(l)
    <3>1. Reading /\ UNCHANGED <<lists, bought, flat, target, expected>>
      BY <2>2 DEF BuyExpires, RiskCheck, localVars, exchangeVars
    <3> QED BY <3>1, <1>3
  <2>3. ASSUME NEW i \in ListId, LegExecutes(i) PROVE LeftInTarget' <= expected'
    <3>1. Reading /\ UNCHANGED expected
      BY <2>3 DEF LegExecutes, localVars
    <3>2. LeftInTarget' = IF i \in target THEN LeftInTarget - 1 ELSE LeftInTarget
      BY <2>3, LegIsSale
    <3> QED BY <1>0, <3>1, <3>2 DEF GapInv
  <2>4. ASSUME NEW i \in ListId, CancelTakesEffect(i) PROVE LeftInTarget' <= expected'
    <3>1. /\ Reading /\ UNCHANGED <<bought, flat, target, expected>>
          /\ lists' = [lists EXCEPT ![i].status = "done"]
      BY <2>4 DEF CancelTakesEffect, localVars
    <3>2. \A j \in ListId : lists'[j].qty = lists[j].qty /\ lists'[j].sold = lists[j].sold
      BY <3>1, ClosingEffect DEF Ranges
    <3> QED BY <3>1, <3>2, <1>3
  <2> QED BY <1>7, <2>1, <2>2, <2>3, <2>4 DEF Exchange
<1>8. ASSUME UNCHANGED vars PROVE LeftInTarget' <= expected'
  <2>1. Reading /\ UNCHANGED <<lists, bought, flat, target, expected>>
    BY <1>8 DEF vars, exchangeVars, localVars
  <2> QED BY <2>1, <1>3
<1> QED BY <1>1, <1>2, <1>4, <1>5, <1>6, <1>7, <1>8 DEF FlattenMove

---------------------------------------------------------------------------
(* What the lists that rest, or that a control has in hand, have still to sell. *)
Kept(i) == Live(i) \/ i \in target \/ snap[i] > 0
Reserved == [i \in ListId |-> IF Kept(i) THEN Remaining(i) ELSE 0]
Reserve == SumFunctionOnSet(Reserved, ListId)

(* What the polled BUYs executed; the one a time stop just sold counts no more. *)
Selling == IF pc = "timeHalt" THEN {cur} ELSE {}
Polled == SumFunctionOnSet(bought, tracked)
PolledUnsold == SumFunctionOnSet(bought, tracked \ Selling)

(* What breakeven read of a list and the list sold since: it will be offered again. *)
Over == [i \in ListId |-> IF snap[i] > 0 THEN snap[i] - Remaining(i) ELSE 0]
Overhang == SumFunctionOnSet(Over, ListId)

(* The units the session holds are those in hand or polled, but for what the watchdog
   missed, while a worker runs and no HALT stands; and never fewer, but for what was
   sold again.  What will be offered again is already deducted. *)
BalanceInv ==
    ~halted => /\ worker = "up" => Held <= Reserve + Polled + missed
               /\ Held + resold >= Reserve + PolledUnsold + Overhang

(* What the watchdog will sell, as far as it knows now, beyond what the breached lists
   have still to sell. *)
Drift == IF pc \in {"gapCancel", "gapPoll"}
         THEN expected - (total0 - Total) - LeftInTarget
         ELSE expected - LeftInTarget

(* While the watchdog works, the balance holds also for that quantity, and no more than
   what it missed is left out of it. *)
DriftInv ==
    Running /\ pc \in FlattenSteps =>
        /\ Held <= Reserve + Polled + missed + Drift
        /\ Held + resold >= Reserve + PolledUnsold + Drift
        /\ Drift + missed >= 0

ReserveNumbers ==
    Ranges /\ ListsInv =>
        /\ \A i \in ListId : /\ Remaining(i) \in Nat /\ Reserved[i] \in Nat
                             /\ Reserved[i] = IF Kept(i) THEN Remaining(i) ELSE 0
        /\ Reserve \in Nat
        /\ \A l \in Lots : bought[l] \in Nat
        /\ \A S \in SUBSET Lots : SumFunctionOnSet(bought, S) \in Nat
        /\ Polled \in Nat /\ PolledUnsold \in Nat /\ PolledUnsold <= Polled

(* The reserve and what the polled BUYs executed are natural numbers. *)
LEMMA ReserveIsNumber == ReserveNumbers
<1> SUFFICES ASSUME Ranges, ListsInv PROVE ReserveNumbers
  BY DEF ReserveNumbers
<1>1. \A i \in ListId : /\ Remaining(i) \in Nat /\ Reserved[i] \in Nat
                        /\ Reserved[i] = IF Kept(i) THEN Remaining(i) ELSE 0
  BY LeftIsNumber DEF LeftNumbers, Reserved
<1>2. Reserve \in Nat
  BY <1>1, ListsFinite, SumNat DEF Reserve
<1>3. \A l \in Lots : bought[l] \in Nat
  BY ExitAssumption DEF Ranges, ExitAssumption
<1>4. \A S \in SUBSET Lots : SumFunctionOnSet(bought, S) \in Nat
  BY <1>3, ListsFinite, FS_Subset, SumNat
<1>5. IsFiniteSet(tracked) /\ tracked \subseteq Lots
  BY ListsFinite, FS_Subset DEF Ranges
<1>6. SumFunctionOnSet(bought, tracked \ Selling) <= SumFunctionOnSet(bought, tracked)
  <2>1. \A l \in tracked : bought[l] \in Nat
    BY <1>3, <1>5
  <2> QED BY <1>5, <2>1, SumPart
<1> QED BY <1>1, <1>2, <1>3, <1>4, <1>5, <1>6 DEF ReserveNumbers, Polled, PolledUnsold

(* What will be offered again is a number of units. *)
LEMMA OverIsNumber ==
    ASSUME Ranges, ListsInv, SnapUpper
    PROVE  Overhang \in Nat /\ \A i \in ListId : Over[i] \in Nat
<1>1. \A i \in ListId : Remaining(i) \in Int /\ snap[i] \in Int
  BY LeftIsNumber, ExitAssumption DEF LeftNumbers, Ranges, ExitAssumption
<1>2. \A i \in ListId : Over[i] \in Nat
  BY <1>1 DEF Over, SnapUpper
<1> QED BY <1>2, ListsFinite, SumNat DEF Overhang

(* A step that leaves it alone list by list leaves the sum alone. *)
LEMMA OverStays ==
    ASSUME \A i \in ListId : Over'[i] = Over[i]
    PROVE  Overhang' = Overhang
BY ListsFinite, SumSame DEF Overhang

(* A step that leaves each list's share alone leaves the reserve alone. *)
LEMMA ReserveStays ==
    ASSUME \A i \in ListId : Reserved'[i] = Reserved[i]
    PROVE  Reserve' = Reserve
BY ListsFinite, SumSame DEF Reserve

(* A step that raises no list's share does not raise the reserve. *)
LEMMA ReserveFalls ==
    ASSUME Ranges, ListsInv, Ranges', ListsInv', \A i \in ListId : Reserved'[i] <= Reserved[i]
    PROVE  Reserve' <= Reserve
<1>1. ReserveNumbers'
  BY ReserveIsNumber, PTL
<1>2. \A i \in ListId : Reserved[i] \in Int /\ Reserved'[i] \in Int
  BY <1>1, ReserveIsNumber DEF ReserveNumbers
<1> QED BY <1>2, ListsFinite, SumMonotone DEF Reserve

(* A step that changes the share of one list changes the reserve by as much. *)
LEMMA ReserveChanges ==
    ASSUME Ranges, ListsInv, Ranges', ListsInv', NEW i \in ListId,
           \A j \in ListId \ {i} : Reserved'[j] = Reserved[j]
    PROVE  Reserve' = Reserve + Reserved'[i] - Reserved[i]
<1>1. ReserveNumbers'
  BY ReserveIsNumber, PTL
<1>2. \A j \in ListId : Reserved[j] \in Int /\ Reserved'[j] \in Int
  BY <1>1, ReserveIsNumber DEF ReserveNumbers
<1>3. \A j \in ListId \ {i} : Reserved[j] = Reserved'[j]
  OBVIOUS
<1>4. SumFunctionOnSet(Reserved', ListId) = SumFunctionOnSet(Reserved, ListId) + Reserved'[i] - Reserved[i]
  BY <1>2, <1>3, ListsFinite, SumChange
<1> QED BY <1>4 DEF Reserve

(* A step that buys and sells nothing leaves the units held alone. *)
LEMMA HeldStays ==
    ASSUME UNCHANGED <<bought, flat>>, \A i \in ListId : lists'[i].sold = lists[i].sold
    PROVE  Held' = Held
<1>1. Sold' = Sold
  BY DEF Sold
<1> QED BY <1>1 DEF Held

(* A BUY that leaves the poll list takes along what it executed. *)
LEMMA PolledDrops ==
    ASSUME Ranges, NEW S \in SUBSET Lots, NEW l \in S
    PROVE  SumFunctionOnSet(bought, S \ {l}) = SumFunctionOnSet(bought, S) - bought[l]
<1>1. \A m \in S : bought[m] \in Int
  BY ExitAssumption DEF Ranges, ExitAssumption
<1>2. IsFiniteSet(S) /\ IsFiniteSet(S \ {l})
  BY ListsFinite, FS_Subset
<1>3. SumFunctionOnSet(bought, S) = bought[l] + SumFunctionOnSet(bought, S \ {l})
  BY <1>1, <1>2, SumTake
<1>4. SumFunctionOnSet(bought, S \ {l}) \in Int
  BY <1>1, <1>2, SumInt
<1> QED BY <1>1, <1>3, <1>4

(* A BUY that executes a unit adds it to the sum of those that poll it. *)
LEMMA PolledExecutes ==
    ASSUME Ranges, Ranges', NEW l \in Lots, Executed(l), NEW S \in SUBSET Lots
    PROVE  SumFunctionOnSet(bought', S) =
               IF l \in S THEN SumFunctionOnSet(bought, S) + 1 ELSE SumFunctionOnSet(bought, S)
<1>1. \A m \in S : bought[m] \in Int /\ bought'[m] \in Int
  BY ExitAssumption DEF Ranges, ExitAssumption
<1>2. \A m \in S \ {l} : bought[m] = bought'[m]
  BY DEF Executed
<1>3. IsFiniteSet(S)
  BY ListsFinite, FS_Subset
<1>4. CASE l \in S
  <2>1. SumFunctionOnSet(bought', S) = SumFunctionOnSet(bought, S) + bought'[l] - bought[l]
    BY <1>1, <1>2, <1>3, <1>4, SumChange
  <2>2. SumFunctionOnSet(bought, S) \in Int
    BY <1>1, <1>3, SumInt
  <2>3. bought'[l] = bought[l] + 1
    BY DEF Executed
  <2> QED BY <1>1, <1>4, <2>1, <2>2, <2>3
<1>5. CASE l \notin S
  <2>1. \A m \in S : bought'[m] = bought[m]
    BY <1>2, <1>5
  <2> QED BY <1>3, <1>5, <2>1, SumSame
<1> QED BY <1>4, <1>5

(* Released lists that leave the hands of the watchdog leave the reserve. *)
LEMMA TargetDropped ==
    ASSUME Ranges, ListsInv, Ranges', ListsInv', Released, target' = {}, UNCHANGED <<lists, snap>>,
           \A i \in ListId : snap[i] = 0
    PROVE  Reserve' = Reserve - LeftInTarget
<1>1. ReserveNumbers'
  BY ReserveIsNumber, PTL
<1>2. \A i \in ListId : Reserved[i] \in Int /\ Reserved'[i] \in Int /\ Left[i] \in Nat
  BY <1>1, ReserveIsNumber, LeftIsNumber DEF ReserveNumbers, LeftNumbers
<1>3. target \in SUBSET ListId /\ IsFiniteSet(target) /\ IsFiniteSet(ListId \ target)
  BY ListsFinite, FS_Subset DEF Ranges
<1>4. /\ \A i \in target : Reserved[i] = Left[i] /\ Reserved'[i] = 0
      /\ \A i \in ListId \ target : Reserved'[i] = Reserved[i]
  BY <1>3 DEF Reserved, Kept, Left, Released, Live, Remaining
<1>5. /\ SumFunctionOnSet(Reserved, ListId) =
            SumFunctionOnSet(Reserved, target) + SumFunctionOnSet(Reserved, ListId \ target)
      /\ SumFunctionOnSet(Reserved', ListId) =
            SumFunctionOnSet(Reserved', target) + SumFunctionOnSet(Reserved', ListId \ target)
  BY <1>2, <1>3, ListsFinite, SumSplit
<1>6. SumFunctionOnSet(Reserved, target) = SumFunctionOnSet(Left, target)
  BY <1>3, <1>4, SumSame
<1>7. SumFunctionOnSet(Reserved', target) = 0
  BY <1>3, <1>4, SumZero
<1>8. SumFunctionOnSet(Reserved', ListId \ target) = SumFunctionOnSet(Reserved, ListId \ target)
  BY <1>3, <1>4, SumSame
<1>9. SumFunctionOnSet(Left, target) \in Int /\ SumFunctionOnSet(Reserved, ListId \ target) \in Int
  BY <1>2, <1>3, SumInt
<1> QED BY <1>5, <1>6, <1>7, <1>8, <1>9 DEF Reserve, LeftInTarget

---------------------------------------------------------------------------
(* A step that moves no units, between two points where no time stop is half done. *)
LEMMA BalanceFrame ==
    ASSUME BalanceInv, UNCHANGED <<bought, lists, flat, target, snap, tracked, worker, halted>>,
           ~halted' => UNCHANGED historyVars,
           (pc # "timeHalt" /\ pc' # "timeHalt") \/ UNCHANGED <<pc, cur>>
    PROVE  BalanceInv'
<1>1. Reserved' = Reserved /\ Selling' = Selling /\ Held' = Held /\ Over' = Over
  BY DEF Reserved, Kept, Live, Remaining, Selling, Held, Sold, Over
<1> QED BY <1>1 DEF BalanceInv, Reserve, Polled, PolledUnsold, Overhang, historyVars

(* A worker that dies lets go of everything. *)
LEMMA BalanceDies ==
    ASSUME Ranges, ListsInv, Ranges', ListsInv', BalanceInv, SnapUpper, halted => halted',
           ~halted' => UNCHANGED historyVars,
           UNCHANGED <<bought, lists, flat>>, Dies
    PROVE  BalanceInv'
<1>1. Held' = Held
  BY HeldStays
<1>2. \A i \in ListId : Reserved'[i] <= Reserved[i]
  <2>1. \A i \in ListId : /\ Remaining(i) \in Nat /\ Remaining(i)' = Remaining(i)
                          /\ Kept(i)' => Live(i)
    BY ReserveIsNumber DEF ReserveNumbers, Remaining, Kept, Live, Dies, NoLocals
  <2>2. \A i \in ListId : /\ Reserved[i] = IF Kept(i) THEN Remaining(i) ELSE 0
                          /\ Reserved'[i] = IF Kept(i)' THEN Remaining(i)' ELSE 0
    BY DEF Reserved
  <2> QED BY <2>1, <2>2 DEF Kept
<1>3. Reserve' <= Reserve
  BY <1>2, ReserveFalls
<1>4. PolledUnsold' = 0 /\ Overhang' = 0
  <2>1. PolledUnsold' = 0
    BY SumEmpty DEF PolledUnsold, Dies, NoLocals
  <2>2. \A i \in ListId : Over'[i] = 0
    BY DEF Over, Dies, NoLocals
  <2>3. SumFunctionOnSet(Over', ListId) = 0
    BY <2>2, ListsFinite, SumZero
  <2> QED BY <2>1, <2>3 DEF Overhang
<1>5. ReserveNumbers'
  BY ReserveIsNumber, PTL
<1>6. /\ Reserve \in Nat /\ Reserve' \in Nat /\ PolledUnsold \in Nat /\ Held \in Int
      /\ Overhang \in Nat /\ resold \in Nat
  BY <1>5, ReserveIsNumber, AccountIsNumber, OverIsNumber
  DEF ReserveNumbers, AccountNumbers, Ranges
<1>7. ASSUME ~halted' PROVE Held' + resold' >= Reserve' + PolledUnsold' + Overhang'
  <2>1. Held + resold >= Reserve + PolledUnsold + Overhang /\ resold' = resold
    BY <1>7 DEF BalanceInv, historyVars
  <2>2. PICK r \in Nat : r = Reserve'
    BY <1>6
  <2>3. r <= Reserve
    BY <1>3, <2>2, Zenon
  <2>4. Held + resold >= r + 0 + 0
    BY <1>6, <2>1, <2>3
  <2> QED BY <1>1, <1>4, <2>1, <2>2, <2>4, Zenon
<1>8. worker' = "down"
  BY DEF Dies
<1> QED BY <1>7, <1>8 DEF BalanceInv

(* A BUY that executed nothing leaves the poll list. *)
LEMMA BalanceShed ==
    ASSUME Ranges, ListsInv, BalanceInv, NEW l \in Lots,
           UNCHANGED <<bought, lists, flat, target, snap, worker, halted, historyVars>>,
           tracked' = tracked \/ (bought[l] = 0 /\ tracked' = tracked \ {l}),
           pc # "timeHalt" /\ pc' # "timeHalt"
    PROVE  BalanceInv'
<1>1. /\ Reserved' = Reserved /\ Selling = {} /\ Selling' = {} /\ Held' = Held
      /\ Over' = Over
  BY DEF Reserved, Kept, Live, Remaining, Selling, Held, Sold, Over
<1>2. SumFunctionOnSet(bought, tracked') = SumFunctionOnSet(bought, tracked)
  <2>1. CASE tracked' = tracked
    BY <2>1
  <2>2. CASE bought[l] = 0 /\ tracked' = tracked \ {l} /\ l \in tracked
    <3>1. SumFunctionOnSet(bought, tracked \ {l}) = SumFunctionOnSet(bought, tracked) - bought[l]
      BY <2>2, PolledDrops DEF Ranges
    <3>2. SumFunctionOnSet(bought, tracked) \in Int
      BY ReserveIsNumber DEF ReserveNumbers, Polled
    <3> QED BY <2>2, <3>1, <3>2
  <2>3. CASE l \notin tracked
    <3>1. tracked' = tracked
      BY <2>3
    <3> QED BY <3>1
  <2> QED BY <2>1, <2>2, <2>3
<1>3. Polled' = Polled /\ PolledUnsold = Polled /\ PolledUnsold' = Polled
  BY <1>1, <1>2 DEF Polled, PolledUnsold
<1> QED BY <1>1, <1>3 DEF BalanceInv, Reserve, Overhang, historyVars

(* A step that leaves each list's share, the account and the polled BUYs alone. *)
LEMMA BalanceSame ==
    ASSUME BalanceInv, \A i \in ListId : Reserved'[i] = Reserved[i] /\ Over'[i] = Over[i],
           Held' = Held,
           UNCHANGED <<bought, tracked, worker, halted, historyVars>>,
           pc # "timeHalt" /\ pc' # "timeHalt"
    PROVE  BalanceInv'
<1>1. Reserve' = Reserve /\ Overhang' = Overhang
  BY ReserveStays, OverStays
<1>2. Selling = {} /\ Selling' = {}
  BY DEF Selling
<1> QED BY <1>1, <1>2 DEF BalanceInv, Polled, PolledUnsold, historyVars

(* A BUY that executes is polled, while a worker runs: both sides gain a unit. *)
LEMMA BuyMoves ==
    ASSUME SafeShape, SafeShape', PolledInv, NEW l \in Lots, BuyExecutes(l)
    PROVE  /\ Held' = Held + 1 /\ Reserve' = Reserve /\ Overhang' = Overhang
           /\ Running => Polled' = Polled + 1
           /\ PolledUnsold' <= PolledUnsold + 1
<1> USE DEF SafeShape, ShapeInv
<1>1. /\ Executed(l) /\ UNCHANGED <<lists, flat, target, snap, tracked, worker, halted, pc, cur>>
      /\ buy[l] = "OPEN"
  BY DEF BuyExecutes, Executed, durableVars, localVars, Ranges
<1>2. Reserved' = Reserved /\ Selling' = Selling /\ Over' = Over
  BY <1>1 DEF Reserved, Kept, Live, Remaining, Selling, Over
<1>3. Held' = Held + 1
  <2>1. Sold' = Sold
    BY <1>1 DEF Sold
  <2>2. SumFunctionOnSet(bought, Lots)' = SumFunctionOnSet(bought, Lots) + 1
    BY <1>1, BoughtEffect
  <2>3. /\ SumFunctionOnSet(bought, Lots) \in Int /\ SumFunctionOnSet(Sold, ListId) \in Int
        /\ flat \in Int
    BY AccountIsNumber DEF AccountNumbers, Ranges
  <2> QED BY <1>1, <2>1, <2>2, <2>3 DEF Held
<1>4. Running => Polled' = Polled + 1
  <2>1. Running => l \in tracked
    BY <1>1 DEF PolledInv
  <2>2. tracked \in SUBSET Lots
    BY DEF Ranges
  <2>3. l \in tracked => SumFunctionOnSet(bought', tracked) = SumFunctionOnSet(bought, tracked) + 1
    BY <1>1, <2>2, PolledExecutes
  <2> QED BY <1>1, <2>1, <2>3 DEF Polled
<1>5. PolledUnsold' <= PolledUnsold + 1
  <2>1. tracked \ Selling \in SUBSET Lots
    BY DEF Ranges
  <2>2. SumFunctionOnSet(bought', tracked \ Selling) =
           IF l \in tracked \ Selling THEN SumFunctionOnSet(bought, tracked \ Selling) + 1
                                      ELSE SumFunctionOnSet(bought, tracked \ Selling)
    BY <1>1, <2>1, PolledExecutes
  <2>3. SumFunctionOnSet(bought, tracked \ Selling) \in Nat
    BY <2>1, ReserveIsNumber DEF ReserveNumbers
  <2> QED BY <1>1, <1>2, <2>2, <2>3 DEF PolledUnsold
<1> QED BY <1>2, <1>3, <1>4, <1>5 DEF Reserve, Overhang

(* A leg that executes takes a unit from the account and from what its list reserves;
   after breakeven's read, breakeven will offer it again. *)
LEMMA LegMoves ==
    ASSUME SafeShape, SafeShape', NEW i \in ListId, LegExecutes(i)
    PROVE  /\ Held' = Held - 1 /\ Reserve' = Reserve - 1
           /\ Overhang' = IF snap[i] > 0 THEN Overhang + 1 ELSE Overhang
           /\ Polled' = Polled /\ PolledUnsold' = PolledUnsold
<1> USE DEF SafeShape, ShapeInv
<1>1. /\ UNCHANGED <<bought, flat, target, snap, tracked, worker, halted, pc, cur>> /\ Live(i)
  BY DEF LegExecutes, durableVars, localVars
<1>2. /\ Remaining(i) > 0
      /\ \A j \in ListId \ {i} : lists'[j] = lists[j]
      /\ lists'[i].qty = lists[i].qty /\ lists'[i].sold = lists[i].sold + 1
      /\ lists'[i].status = IF Remaining(i) = 1 THEN "done" ELSE lists[i].status
  BY <1>1, LegEffect DEF Ranges, ListsInv
<1>3. lists[i].qty \in Int /\ lists[i].sold \in Int
  BY ExitAssumption DEF ExitAssumption, Ranges, ListRec
<1>4. Held' = Held - 1
  <2>1. SumFunctionOnSet(Sold', ListId) =
            SumFunctionOnSet(Sold, ListId) + lists'[i].sold - lists[i].sold
    BY <1>2, OneListChanges DEF Ranges
  <2>2. /\ SumFunctionOnSet(bought, Lots) \in Int /\ SumFunctionOnSet(Sold, ListId) \in Int
        /\ flat \in Int
    BY AccountIsNumber DEF AccountNumbers, Ranges
  <2> QED BY <1>1, <1>2, <1>3, <2>1, <2>2 DEF Held
<1>5. Remaining(i)' = Remaining(i) - 1 /\ Remaining(i) \in Int
  BY <1>2, <1>3 DEF Remaining
<1>6. Reserve' = Reserve - 1
  <2>1. \A j \in ListId \ {i} : Reserved'[j] = Reserved[j]
    BY <1>1, <1>2 DEF Reserved, Kept, Live, Remaining
  <2>2. Kept(i) /\ (Kept(i)' \/ Remaining(i)' = 0)
    BY <1>1, <1>2, <1>5 DEF Kept, Live
  <2>3. Reserved[i] = Remaining(i) /\ Reserved'[i] = Remaining(i)'
    BY <2>2 DEF Reserved
  <2>4. Reserve' = Reserve + Reserved'[i] - Reserved[i]
    BY <2>1, ReserveChanges
  <2>5. Reserve \in Int
    BY ReserveIsNumber DEF ReserveNumbers
  <2> QED BY <1>5, <2>3, <2>4, <2>5
<1>7. Overhang' = IF snap[i] > 0 THEN Overhang + 1 ELSE Overhang
  <2>1. /\ \A j \in ListId \ {i} : Over[j] = Over'[j]
        /\ \A j \in ListId : Over[j] \in Int /\ Over'[j] \in Int
    <3>1. \A j \in ListId : /\ Remaining(j) \in Int /\ Remaining(j)' \in Int
                            /\ snap[j] \in Int /\ snap'[j] \in Int
      <4>1. LeftNumbers'
        BY LeftIsNumber, PTL
      <4>2. \A j \in ListId : snap[j] \in Int /\ snap'[j] \in Int
        BY ExitAssumption DEF Ranges, ExitAssumption
      <4> QED BY <4>1, <4>2, LeftIsNumber DEF LeftNumbers
    <3> QED BY <1>1, <1>2, <3>1 DEF Over, Remaining
  <2>2. SumFunctionOnSet(Over', ListId) = SumFunctionOnSet(Over, ListId) + Over'[i] - Over[i]
    BY <2>1, ListsFinite, SumChange
  <2>3. /\ Over[i] = IF snap[i] > 0 THEN snap[i] - Remaining(i) ELSE 0
        /\ Over'[i] = IF snap[i] > 0 THEN snap[i] - (Remaining(i) - 1) ELSE 0
    BY <1>1, <1>5 DEF Over
  <2>4. SumFunctionOnSet(Over, ListId) \in Int /\ snap[i] \in Int
    BY <2>1, ListsFinite, SumInt, ExitAssumption DEF Ranges, ExitAssumption
  <2> QED BY <1>5, <2>2, <2>3, <2>4 DEF Overhang
<1>8. Polled' = Polled /\ PolledUnsold' = PolledUnsold
  BY <1>1 DEF Polled, PolledUnsold, Selling
<1> QED BY <1>4, <1>6, <1>7, <1>8

(* A list whose cancel takes effect moves no unit, and stays in hand while a worker
   runs. *)
LEMMA CancelMoves ==
    ASSUME SafeShape, SafeShape', ClosingInv, NEW i \in ListId, CancelTakesEffect(i)
    PROVE  /\ Held' = Held /\ Overhang' = Overhang
           /\ Polled' = Polled /\ PolledUnsold' = PolledUnsold
           /\ Reserve' <= Reserve /\ (Running => Reserve' = Reserve) /\ Reserve' \in Int
<1> USE DEF SafeShape, ShapeInv
<1>1. /\ UNCHANGED <<bought, flat, target, snap, tracked, worker, halted, pc, cur>>
      /\ lists' = [lists EXCEPT ![i].status = "done"] /\ lists[i].status = "closing"
  BY DEF CancelTakesEffect, durableVars, localVars
<1>2. /\ \A j \in ListId \ {i} : lists'[j] = lists[j]
      /\ lists'[i].qty = lists[i].qty /\ lists'[i].sold = lists[i].sold
  BY <1>1, ClosingEffect DEF Ranges
<1>3. Held' = Held
  BY <1>1, <1>2, HeldStays
<1>4. /\ \A j \in ListId \ {i} : Reserved'[j] = Reserved[j]
      /\ Remaining(i)' = Remaining(i) /\ Kept(i)
  BY <1>1, <1>2 DEF Reserved, Kept, Live, Remaining
<1>5. Reserved'[i] <= Reserved[i] /\ Reserved[i] \in Int
  <2>1. Remaining(i) \in Nat
    BY ReserveIsNumber DEF ReserveNumbers
  <2> QED BY <1>4, <2>1 DEF Reserved
<1>6. Reserve' = Reserve + Reserved'[i] - Reserved[i] /\ Reserved'[i] \in Int /\ Reserve \in Int
  <2>1. ReserveNumbers'
    BY ReserveIsNumber, PTL
  <2> QED BY <1>4, <2>1, ReserveIsNumber, ReserveChanges DEF ReserveNumbers
<1>7. Running => Reserved'[i] = Reserved[i]
  <2>1. Running => Kept(i)'
    BY <1>1 DEF ClosingInv, Kept
  <2> QED BY <1>4, <2>1 DEF Reserved
<1>8. Reserve' <= Reserve /\ (Running => Reserve' = Reserve) /\ Reserve' \in Int
  BY <1>5, <1>6, <1>7
<1>9. Overhang' = Overhang
  <2>1. \A j \in ListId : Remaining(j)' = Remaining(j)
    BY <1>2 DEF Remaining
  <2>2. \A j \in ListId : Over'[j] = Over[j]
    BY <1>1, <2>1 DEF Over
  <2> QED BY <2>2, OverStays
<1>10. Polled' = Polled /\ PolledUnsold' = PolledUnsold
  BY <1>1 DEF Polled, PolledUnsold, Selling
<1> QED BY <1>3, <1>8, <1>9, <1>10

(* No step unbalances the account: the units a control takes off one side arrive on
   the other. *)
LEMMA BalanceStep ==
    ASSUME SafeShape, SafeShape', GateInv, ClosingInv, PolledInv, GapInv, DriftInv,
           SnapUpper, BalanceInv, [Next]_vars
    PROVE  BalanceInv'
<1> USE DEF SafeShape, ShapeInv
<1>0. /\ Held \in Int /\ Reserve \in Nat /\ Polled \in Nat /\ PolledUnsold \in Nat
      /\ Overhang \in Nat /\ resold \in Nat /\ missed \in Nat
      /\ resold' \in Nat /\ missed' \in Nat
  BY ReserveIsNumber, AccountIsNumber, OverIsNumber DEF ReserveNumbers, AccountNumbers, Ranges
<1> USE <1>0
<1>1. ASSUME SafetyCancelNotDue PROVE BalanceInv'
  <2>1. /\ UNCHANGED <<bought, lists, flat, target, snap, tracked, worker, halted>>
        /\ ~halted' => UNCHANGED historyVars
        /\ (pc # "timeHalt" /\ pc' # "timeHalt") \/ UNCHANGED <<pc, cur>>
    BY <1>1 DEF SafetyCancelNotDue, exchangeVars, durableVars, localVars
  <2> QED BY <2>1, BalanceFrame
<1>2. ASSUME SafetyCancelBegins PROVE BalanceInv'
  <2>1. /\ UNCHANGED <<bought, lists, flat, target, snap, tracked, worker, halted>>
        /\ ~halted' => UNCHANGED historyVars
        /\ (pc # "timeHalt" /\ pc' # "timeHalt") \/ UNCHANGED <<pc, cur>>
    BY <1>2 DEF SafetyCancelBegins, exchangeVars, durableVars, localVars
  <2> QED BY <2>1, BalanceFrame
<1>3. ASSUME SafetyDelete PROVE BalanceInv'
  <2>1. /\ cur \in Lots /\ UNCHANGED <<bought, lists, flat, target, snap, worker, halted, historyVars>>
        /\ pc # "timeHalt" /\ pc' # "timeHalt"
    BY <1>3
    DEF SafetyDelete, Settled, exchangeVars, durableVars, localVars, StageInv, Ranges
  <2>2. tracked' = tracked \/ (bought[cur] = 0 /\ tracked' = tracked \ {cur})
    BY <1>3 DEF SafetyDelete, Settled
  <2> QED BY <2>1, <2>2, BalanceShed
<1>4. ASSUME SafetyReadFails PROVE BalanceInv'
  <2>1. /\ halted => halted'
        /\ UNCHANGED <<bought, lists, flat>> /\ Dies
        /\ ~halted' => UNCHANGED historyVars
    BY <1>4 DEF HaltEndsHistory, SafetyReadFails, exchangeVars, durableVars, Dies
  <2> QED BY <2>1, BalanceDies
<1>5. ASSUME SafetyDeleteUnconfirmed PROVE BalanceInv'
  <2>1. /\ halted => halted'
        /\ UNCHANGED <<bought, lists, flat>> /\ Dies
        /\ ~halted' => UNCHANGED historyVars
    BY <1>5 DEF HaltEndsHistory, SafetyDeleteUnconfirmed, exchangeVars, durableVars, Dies
  <2> QED BY <2>1, BalanceDies
<1>6. ASSUME SafetyCancelEnds PROVE BalanceInv'
  <2>1. /\ UNCHANGED <<bought, lists, flat, target, snap, tracked, worker, halted>>
        /\ ~halted' => UNCHANGED historyVars
        /\ (pc # "timeHalt" /\ pc' # "timeHalt") \/ UNCHANGED <<pc, cur>>
    BY <1>6 DEF SafetyCancelEnds, exchangeVars, durableVars, localVars
  <2> QED BY <2>1, BalanceFrame
<1>7. ASSUME NEW l \in Lots, SafetyRead(l) PROVE BalanceInv'
  <2>1. /\ l \in Lots /\ UNCHANGED <<bought, lists, flat, target, snap, worker, halted, historyVars>>
        /\ pc # "timeHalt" /\ pc' # "timeHalt"
    BY <1>7 DEF SafetyRead, Settled, exchangeVars, durableVars, localVars, StageInv, Ranges
  <2>2. tracked' = tracked \/ (bought[l] = 0 /\ tracked' = tracked \ {l})
    BY <1>7 DEF SafetyRead, Settled
  <2> QED BY <2>1, <2>2, BalanceShed
<1>8. ASSUME NoBreach PROVE BalanceInv'
  <2>1. /\ UNCHANGED <<bought, lists, flat, target, snap, tracked, worker, halted>>
        /\ ~halted' => UNCHANGED historyVars
        /\ (pc # "timeHalt" /\ pc' # "timeHalt") \/ UNCHANGED <<pc, cur>>
    BY <1>8 DEF NoBreach, exchangeVars, durableVars, localVars
  <2> QED BY <2>1, BalanceFrame
<1>9. ASSUME GapBalances PROVE BalanceInv'
  <2>1. CASE halted'
    BY <2>1 DEF BalanceInv
  <2>2. CASE ~halted'
    <3>1. /\ UNCHANGED <<bought, lists, flat, target, snap, tracked, worker, halted>>
          /\ ~halted' => UNCHANGED historyVars
          /\ pc # "timeHalt" /\ pc' # "timeHalt"
      BY <1>9, <2>2 DEF HaltEndsHistory, GapBalances, HaltThen, exchangeVars, durableVars, localVars
    <3> QED BY <3>1, BalanceFrame
  <2> QED BY <2>1, <2>2
<1>10. ASSUME GapSoldOut PROVE BalanceInv'
  <2>1. /\ pc = "gapPoll" /\ pc' = "protect" /\ Released /\ Residual = 0 /\ target' = {}
        /\ UNCHANGED <<bought, lists, flat, snap, tracked, worker, halted, resold, missed>>
    BY <1>10 DEF GapSoldOut, FlattenEnds, exchangeVars, durableVars, historyVars
  <2>2. Held' = Held /\ Selling = {} /\ Selling' = {} /\ Overhang' = Overhang
    BY <2>1, HeldStays DEF Selling, Overhang, Over, Remaining
  <2>3. LeftInTarget \in Nat /\ (Running => Held <= Reserve + Polled + missed - LeftInTarget)
    <3>1. LeftInTarget \in Nat /\ expected \in Nat /\ total0 \in Nat /\ Total \in Int
      BY LeftIsNumber, AccountIsNumber DEF LeftNumbers, LeftInTarget, AccountNumbers, Ranges
    <3>2. LeftInTarget <= expected
      BY <2>1 DEF GapInv
    <3>3. LeftInTarget = 0 \/ expected - (total0 - Total) <= 0
      BY <2>1, <3>1, <3>2 DEF Residual, AtLeastZero
    <3>4. Running => /\ Held <= Reserve + Polled + missed + Drift
                     /\ Held <= Reserve + Polled + missed
      BY <2>1 DEF DriftInv, FlattenSteps, BalanceInv, Running
    <3>5. Drift = expected - (total0 - Total) - LeftInTarget
      BY <2>1 DEF Drift
    <3> QED BY <3>1, <3>3, <3>4, <3>5
  <2>4. Reserve' = Reserve - LeftInTarget
    BY <2>1, NotRaising, TargetDropped DEF Raising
  <2>5. Reserve \in Int
    BY ReserveIsNumber DEF ReserveNumbers
  <2> QED BY <2>1, <2>2, <2>3, <2>4, <2>5 DEF BalanceInv, Polled, PolledUnsold, Running
<1>11. ASSUME GapReleased PROVE BalanceInv'
  <2>1. /\ UNCHANGED <<bought, lists, flat, target, snap, tracked, worker, halted>>
        /\ ~halted' => UNCHANGED historyVars
        /\ (pc # "timeHalt" /\ pc' # "timeHalt") \/ UNCHANGED <<pc, cur>>
    BY <1>11 DEF GapReleased, exchangeVars, durableVars, localVars
  <2> QED BY <2>1, BalanceFrame
<1>12. ASSUME GapGivesUp PROVE BalanceInv'
  BY <1>12 DEF GapGivesUp, BalanceInv, HaltThen, FlattenEnds
<1>13. ASSUME NEW breached \in SUBSET Resting, GapRead(breached)
       PROVE  BalanceInv'
  <2>1. /\ target' = breached /\ pc = "gap" /\ pc' = "gapBalances"
        /\ UNCHANGED <<bought, lists, flat, snap, tracked, worker, halted, historyVars>>
    BY <1>13 DEF GapRead, exchangeVars, durableVars
  <2>2. target = {} /\ Held' = Held
    BY <2>1, HeldStays DEF StageInv, FlattenSteps
  <2>3. \A i \in ListId : Reserved'[i] = Reserved[i] /\ Over'[i] = Over[i]
    BY <2>1, <2>2 DEF Reserved, Kept, Live, Remaining, Resting, Over
  <2> QED BY <2>1, <2>2, <2>3, BalanceSame
<1>14. ASSUME NEW i \in ListId, GapCancel(i) PROVE BalanceInv'
  <2>1. /\ lists' = [lists EXCEPT ![i].status = "closing"] /\ pc = "gapCancel"
        /\ pc' \in {"gapCancel", "gapPoll"} /\ i \in target
        /\ UNCHANGED <<bought, flat, target, snap, tracked, worker, halted, historyVars>>
    BY <1>14 DEF GapCancel, Closing, StageInv, durableVars
  <2>2. /\ \A j \in ListId \ {i} : lists'[j] = lists[j]
        /\ lists'[i].qty = lists[i].qty /\ lists'[i].sold = lists[i].sold
    BY <2>1, ClosingEffect DEF Ranges
  <2>3. Held' = Held
    BY <2>1, <2>2, HeldStays
  <2>4. \A j \in ListId : Reserved'[j] = Reserved[j] /\ Over'[j] = Over[j]
    BY <2>1, <2>2 DEF Reserved, Kept, Live, Remaining, Over
  <2> QED BY <2>1, <2>3, <2>4, BalanceSame
<1>15. ASSUME NEW i \in ListId, GapCancelFails(i) PROVE BalanceInv'
  BY <1>15 DEF GapCancelFails, BalanceInv
<1>16. ASSUME NEW n \in 0..(Qty * Cardinality(Lots)), GapSell(n) PROVE BalanceInv'
  <2>1. CASE halted'
    BY <2>1 DEF BalanceInv
  <2>2. CASE ~halted'
    <3>1. /\ pc = "gapSell" /\ pc' = "protect" /\ target' = {}
          /\ n = expected /\ flat' = flat + n /\ Released
          /\ UNCHANGED <<bought, lists, snap, tracked, worker, halted, resold, missed>>
      BY <1>16, <2>2 DEF GapSell, FlattenEnds, StageInv, HaltEndsHistory, historyVars
    <3>2. Selling = {} /\ Selling' = {} /\ Overhang' = Overhang /\ Overhang = 0
      <4>1. Over' = Over /\ \A i \in ListId : Over[i] = 0
        BY <3>1, NotRaising DEF Over, Remaining, Raising
      <4>2. Overhang = 0
        BY <4>1, ListsFinite, SumZero DEF Overhang
      <4> QED BY <3>1, <4>1, <4>2 DEF Selling, Overhang
    <3>3. Held' = Held - expected
      <4>1. Sold' = Sold
        BY <3>1 DEF Sold
      <4>2. /\ SumFunctionOnSet(bought, Lots) \in Int /\ SumFunctionOnSet(Sold, ListId) \in Int
            /\ flat \in Int /\ expected \in Int
        BY AccountIsNumber DEF AccountNumbers, Ranges
      <4> QED BY <3>1, <4>1, <4>2 DEF Held
    <3>4. Reserve' = Reserve - LeftInTarget
      BY <3>1, NotRaising, TargetDropped DEF Raising
    <3>5. /\ Held <= Reserve + Polled + missed + (expected - LeftInTarget)
          /\ Held + resold >= Reserve + PolledUnsold + (expected - LeftInTarget)
      <4>1. Running
        BY <2>2, <3>1 DEF Running, Ranges
      <4> QED BY <3>1, <4>1 DEF DriftInv, Drift, FlattenSteps
    <3>6. /\ LeftInTarget \in Int /\ expected \in Int /\ Reserve \in Int /\ Held \in Int
          /\ Polled \in Int
      BY LeftIsNumber, AccountIsNumber, ReserveIsNumber
         DEF LeftNumbers, LeftInTarget, AccountNumbers, ReserveNumbers, Ranges
    <3>7. Polled' = Polled /\ PolledUnsold = Polled /\ PolledUnsold' = Polled
      BY <3>1, <3>2 DEF Polled, PolledUnsold
    <3>8. Held - expected <= Reserve - LeftInTarget + Polled + missed
      BY <3>5, <3>6
    <3>9. Held - expected + resold >= Reserve - LeftInTarget + Polled + 0
      BY <3>5, <3>6, <3>7
    <3>10. resold' = resold /\ missed' = missed /\ Overhang' = 0
      BY <3>1, <3>2
    <3>11. Held' <= Reserve' + Polled' + missed'
      BY <3>3, <3>4, <3>7, <3>8, <3>10, Zenon
    <3>12. Held' + resold' >= Reserve' + PolledUnsold' + Overhang'
      BY <3>3, <3>4, <3>7, <3>9, <3>10, Zenon
    <3> QED BY <3>11, <3>12 DEF BalanceInv
  <2> QED BY <2>1, <2>2
<1>17. ASSUME SweepEnds PROVE BalanceInv'
  <2>1. /\ UNCHANGED <<bought, lists, flat, target, snap, tracked, worker, halted>>
        /\ ~halted' => UNCHANGED historyVars
        /\ (pc # "timeHalt" /\ pc' # "timeHalt") \/ UNCHANGED <<pc, cur>>
    BY <1>17 DEF SweepEnds, exchangeVars, durableVars, localVars
  <2> QED BY <2>1, BalanceFrame
<1>18. ASSUME SettleRead PROVE BalanceInv'
  <2>1. CASE halted'
    BY <2>1 DEF BalanceInv
  <2>2. CASE ~halted'
    <3>1. /\ UNCHANGED <<bought, lists, flat, target, snap, tracked, worker, halted>>
          /\ ~halted' => UNCHANGED historyVars
          /\ pc # "timeHalt" /\ pc' # "timeHalt"
      BY <1>18, <2>2 DEF HaltEndsHistory, SettleRead, exchangeVars, durableVars, localVars
    <3> QED BY <3>1, BalanceFrame
  <2> QED BY <2>1, <2>2
<1>19. ASSUME Protect PROVE BalanceInv'
  <2>0. PICK l \in Lots : l = cur
    BY <1>19 DEF Protect, StageInv, Ranges
  <2>1. /\ pc = "place" /\ pc' = "protect" /\ tracked' = tracked \ {l} /\ l \in tracked
        /\ lists' = [lists EXCEPT ![First(l)] = NewList(bought[l])]
        /\ UNCHANGED <<bought, flat, target, snap, worker, halted, resold, missed>>
    BY <1>19, <2>0 DEF Protect, StageInv, historyVars
  <2>2. First(l) \in ListId /\ bought[l] \in 0..Qty /\ bought[l] > 0
    BY <2>0, <2>1, IdFacts DEF Ranges, StageInv
  <2>3. lists[First(l)].qty = 0 /\ lists[First(l)].sold = 0
    BY <2>0, <2>1, <2>2 DEF StageInv, LotsInv, ListsInv
  <2>4. /\ \A j \in ListId \ {First(l)} : lists'[j] = lists[j]
        /\ lists'[First(l)].qty = bought[l] /\ lists'[First(l)].sold = 0
        /\ lists'[First(l)].status = "open"
    BY <2>1, <2>2, NewListEffect DEF Ranges
  <2>5. Held' = Held
    BY <2>1, <2>2, <2>3, <2>4, HeldStays
  <2>6. Reserve' = Reserve + bought[l]
    <3>1. \A j \in ListId \ {First(l)} : Reserved'[j] = Reserved[j]
      BY <2>1, <2>4 DEF Reserved, Kept, Live, Remaining
    <3>2. Remaining(First(l)) = 0 /\ Remaining(First(l))' = bought[l] /\ Kept(First(l))'
      BY <2>2, <2>3, <2>4, ExitAssumption DEF Remaining, Kept, Live, ExitAssumption
    <3>3. Reserved[First(l)] = 0 /\ Reserved'[First(l)] = bought[l]
      BY <2>2, <3>2 DEF Reserved
    <3>4. Reserve' = Reserve + Reserved'[First(l)] - Reserved[First(l)]
      BY <2>2, <3>1, ReserveChanges
    <3>5. Reserve \in Int /\ bought[l] \in Int
      BY <2>2, ReserveIsNumber DEF ReserveNumbers
    <3> QED BY <3>3, <3>4, <3>5
  <2>7. Polled' = Polled - bought[l] /\ PolledUnsold = Polled /\ PolledUnsold' = Polled'
    <3>1. SumFunctionOnSet(bought, tracked \ {l}) = SumFunctionOnSet(bought, tracked) - bought[l]
      BY <2>1, PolledDrops DEF Ranges
    <3>2. Selling = {} /\ Selling' = {}
      BY <2>1 DEF Selling
    <3> QED BY <2>1, <3>1, <3>2 DEF Polled, PolledUnsold
  <2>8. Held \in Int /\ Reserve \in Int /\ Polled \in Int /\ bought[l] \in Int
    BY <2>2, ReserveIsNumber, AccountIsNumber DEF ReserveNumbers, AccountNumbers
  <2>9. Overhang' = Overhang
    <3>1. /\ snap[First(l)] = 0
          /\ \A j \in ListId : Over'[j] = Over[j]
      <4>1. \A i \in ListId : snap[i] = 0
        BY <2>1, NotRaising DEF Raising
      <4> QED BY <2>1, <2>2, <4>1 DEF Over
    <3> QED BY <3>1, OverStays
  <2> QED BY <2>1, <2>5, <2>6, <2>7, <2>8, <2>9 DEF BalanceInv
<1>20. ASSUME NEW l \in Lots, SweepDrops(l) PROVE BalanceInv'
  <2>1. /\ l \in Lots /\ UNCHANGED <<bought, lists, flat, target, snap, worker, halted, historyVars>>
        /\ pc # "timeHalt" /\ pc' # "timeHalt"
    BY <1>20 DEF SweepDrops, Settled, exchangeVars, durableVars, localVars, StageInv, Ranges
  <2>2. tracked' = tracked \/ (bought[l] = 0 /\ tracked' = tracked \ {l})
    BY <1>20 DEF SweepDrops, Settled
  <2> QED BY <2>1, <2>2, BalanceShed
<1>21. ASSUME NEW l \in Lots, SettleCancel(l) PROVE BalanceInv'
  <2>1. /\ UNCHANGED <<bought, lists, flat, target, snap, tracked, worker, halted>>
        /\ ~halted' => UNCHANGED historyVars
        /\ (pc # "timeHalt" /\ pc' # "timeHalt") \/ UNCHANGED <<pc, cur>>
    BY <1>21 DEF SettleCancel, exchangeVars, durableVars, localVars
  <2> QED BY <2>1, BalanceFrame
<1>22. ASSUME NEW l \in Lots, SweepReads(l) PROVE BalanceInv'
  <2>1. /\ UNCHANGED <<bought, lists, flat, target, snap, tracked, worker, halted>>
        /\ ~halted' => UNCHANGED historyVars
        /\ (pc # "timeHalt" /\ pc' # "timeHalt") \/ UNCHANGED <<pc, cur>>
    BY <1>22 DEF SweepReads, exchangeVars, durableVars, localVars
  <2> QED BY <2>1, BalanceFrame
<1>23. ASSUME NEW n \in 0..Qty, ProtectFails(n) PROVE BalanceInv'
  BY <1>23 DEF ProtectFails, BalanceInv
<1>24. ASSUME NoTimeStop PROVE BalanceInv'
  <2>1. /\ UNCHANGED <<bought, lists, flat, target, snap, tracked, worker, halted>>
        /\ ~halted' => UNCHANGED historyVars
        /\ (pc # "timeHalt" /\ pc' # "timeHalt") \/ UNCHANGED <<pc, cur>>
    BY <1>24 DEF NoTimeStop, exchangeVars, durableVars, localVars
  <2> QED BY <2>1, BalanceFrame
<1>25. ASSUME TimeStopUnavailable PROVE BalanceInv'
  BY <1>25 DEF TimeStopUnavailable, BalanceInv, HaltThen
<1>26. ASSUME TimeStopHalts PROVE BalanceInv'
  BY <1>26 DEF TimeStopHalts, BalanceInv, HaltThen
<1>27. ASSUME NEW l \in Lots, NEW n \in 0..Qty, TimeSellRaises(l, n) PROVE BalanceInv'
  <2>1. CASE halted'
    BY <2>1 DEF BalanceInv
  <2>2. CASE ~halted'
    <3>1. n = 0 /\ UNCHANGED <<bought, lists>> /\ flat' = flat + n /\ Dies /\ (halted => halted')
          /\ UNCHANGED historyVars
      <4>1. Free \in Int /\ bought[l] \in Int
        BY AccountIsNumber, ReserveIsNumber DEF AccountNumbers, ReserveNumbers
      <4> QED BY <1>27, <2>2, <4>1 DEF TimeSellRaises, Executable, HaltEndsHistory
    <3>2. flat' = flat
      BY <3>1 DEF Ranges
    <3> QED BY <3>1, <3>2, BalanceDies
  <2> QED BY <2>1, <2>2
<1>28. ASSUME NEW l \in Lots, NEW q \in 1..Qty, NEW n \in 0..Qty, TimeSell(l, q, n)
       PROVE  BalanceInv'
  <2>1. /\ pc = "time" /\ pc' = "timeHalt" /\ cur' = l /\ l \in tracked
        /\ n \in Executable(q) /\ q \in 1..bought[l] /\ flat' = flat + n
        /\ UNCHANGED <<bought, lists, target, snap, tracked, worker, halted, resold, missed>>
    BY <1>28 DEF TimeSell, durableVars, historyVars
  <2>2. /\ Held \in Int /\ Reserve \in Int /\ Polled \in Nat /\ bought[l] \in Nat /\ flat \in Nat
        /\ SumFunctionOnSet(bought, Lots) \in Int /\ SumFunctionOnSet(Sold, ListId) \in Int
    BY ReserveIsNumber, AccountIsNumber DEF ReserveNumbers, AccountNumbers, Ranges
  <2>3. n \in Nat /\ n <= bought[l]
    BY <2>1, <2>2 DEF Executable
  <2>4. Held' = Held - n /\ Reserved' = Reserved /\ Over' = Over
    BY <2>1, <2>2, <2>3 DEF Held, Sold, Reserved, Kept, Live, Remaining, Over
  <2>5. Polled' = Polled /\ PolledUnsold = Polled /\ PolledUnsold' = Polled - bought[l]
    <3>1. SumFunctionOnSet(bought, tracked \ {l}) = SumFunctionOnSet(bought, tracked) - bought[l]
      BY <2>1, PolledDrops DEF Ranges
    <3>2. Selling = {} /\ Selling' = {l}
      BY <2>1 DEF Selling
    <3> QED BY <2>1, <3>1, <3>2 DEF Polled, PolledUnsold
  <2> QED BY <2>1, <2>2, <2>3, <2>4, <2>5 DEF BalanceInv, Reserve, Overhang
<1>29. ASSUME BreakevenNotDue PROVE BalanceInv'
  <2>1. /\ UNCHANGED <<bought, lists, flat, target, snap, tracked, worker, halted>>
        /\ ~halted' => UNCHANGED historyVars
        /\ (pc # "timeHalt" /\ pc' # "timeHalt") \/ UNCHANGED <<pc, cur>>
    BY <1>29 DEF BreakevenNotDue, exchangeVars, durableVars, localVars
  <2> QED BY <2>1, BalanceFrame
<1>30. ASSUME BreakevenRead PROVE BalanceInv'
  <2>1. /\ snap' = [i \in ListId |-> IF Movable(i) THEN Remaining(i) ELSE 0]
        /\ pc = "even" /\ pc' = "evenNext"
        /\ UNCHANGED <<bought, lists, flat, target, tracked, worker, halted, historyVars>>
    BY <1>30 DEF BreakevenRead, exchangeVars, durableVars
  <2>2. Held' = Held
    BY <2>1, HeldStays
  <2>3. \A i \in ListId : snap[i] = 0
    BY <2>1, NotRaising DEF Raising
  <2>4. \A i \in ListId : snap'[i] > 0 => Live(i)
    BY <2>1 DEF Movable
  <2>5. \A i \in ListId : Kept(i)' <=> Kept(i)
    BY <2>1, <2>3, <2>4 DEF Kept, Live
  <2>6. \A i \in ListId : Reserved'[i] = Reserved[i] /\ Over'[i] = Over[i]
    <3>1. \A i \in ListId : Over[i] = 0 /\ Over'[i] = 0
      <4>1. \A i \in ListId : Remaining(i) \in Int /\ Remaining(i)' = Remaining(i)
        BY <2>1, LeftIsNumber DEF LeftNumbers, Remaining
      <4> QED BY <2>1, <2>3, <4>1 DEF Over
    <3> QED BY <2>1, <2>5, <3>1 DEF Reserved, Remaining
  <2> QED BY <2>1, <2>2, <2>6, BalanceSame
<1>31. ASSUME BreakevenConfirmed PROVE BalanceInv'
  <2>1. /\ UNCHANGED <<bought, lists, flat, target, snap, tracked, worker, halted>>
        /\ ~halted' => UNCHANGED historyVars
        /\ (pc # "timeHalt" /\ pc' # "timeHalt") \/ UNCHANGED <<pc, cur>>
    BY <1>31 DEF BreakevenConfirmed, exchangeVars, durableVars, localVars
  <2> QED BY <2>1, BalanceFrame
<1>32. ASSUME BreakevenUnconfirmed PROVE BalanceInv'
  BY <1>32 DEF BreakevenUnconfirmed, BalanceInv, HaltThen, BreakevenAborts
<1>33. ASSUME BreakevenEnds PROVE BalanceInv'
  <2>1. /\ UNCHANGED <<bought, lists, flat, target, snap, tracked, worker, halted>>
        /\ ~halted' => UNCHANGED historyVars
        /\ (pc # "timeHalt" /\ pc' # "timeHalt") \/ UNCHANGED <<pc, cur>>
    BY <1>33 DEF BreakevenEnds, exchangeVars, durableVars, localVars
  <2> QED BY <2>1, BalanceFrame
<1>34. ASSUME NEW i \in ListId, BreakevenCancel(i) PROVE BalanceInv'
  <2>1. /\ lists' = lists \/ lists' = [lists EXCEPT ![i].status = "closing"]
        /\ pc = "evenNext" /\ pc' = "evenVerify" /\ snap[i] > 0 /\ target = {} /\ target' = {i}
        /\ UNCHANGED <<bought, flat, snap, tracked, worker, halted, historyVars>>
    BY <1>34 DEF BreakevenCancel, Closing, StageInv, FlattenSteps, durableVars
  <2>2. /\ \A j \in ListId \ {i} : lists'[j] = lists[j]
        /\ lists'[i].qty = lists[i].qty /\ lists'[i].sold = lists[i].sold
    BY <2>1, ClosingEffect DEF Ranges
  <2>3. Held' = Held
    BY <2>1, <2>2, HeldStays
  <2>4. \A j \in ListId : Reserved'[j] = Reserved[j] /\ Over'[j] = Over[j]
    BY <2>1, <2>2 DEF Reserved, Kept, Live, Remaining, Over
  <2> QED BY <2>1, <2>3, <2>4, BalanceSame
<1>35. ASSUME NEW i \in ListId, Rearm(i) PROVE BalanceInv'
  <2>1. /\ pc = "evenPlace" /\ pc' = "evenNext" /\ target' = {} /\ i \in target
        /\ lists' = [lists EXCEPT ![Raised(i[1])] = NewList(snap[i])]
        /\ snap' = [snap EXCEPT ![i] = 0]
        /\ UNCHANGED <<bought, flat, tracked, worker, halted, resold, missed>>
    BY <1>35 DEF Rearm, historyVars
  <2>2. PICK l \in Lots : target = {First(l)} /\ snap[First(l)] > 0
    BY <2>1 DEF StageInv
  <2>3. /\ i = First(l) /\ i[1] = l /\ Raised(l) \in ListId /\ First(l) \in ListId
        /\ First(l) # Raised(l) /\ snap[First(l)] \in 0..Qty
    BY <2>1, <2>2, IdFacts DEF First, Ranges
  <2>4. /\ lists[Raised(l)].qty = 0 /\ lists[Raised(l)].sold = 0
        /\ snap[Raised(l)] = 0 /\ ~Live(First(l))
    BY <2>1, <2>2, <2>3 DEF StageInv, SnapInv, ListsInv, Released
  <2>5. /\ \A j \in ListId \ {Raised(l)} : lists'[j] = lists[j]
        /\ lists'[Raised(l)].qty = snap[First(l)] /\ lists'[Raised(l)].sold = 0
        /\ lists'[Raised(l)].status = "open"
    BY <2>1, <2>3, NewListEffect DEF Ranges
  <2>6. Held' = Held /\ Selling = {} /\ Selling' = {}
    BY <2>1, <2>3, <2>4, <2>5, HeldStays DEF Selling
  <2>7. /\ \A j \in ListId \ {First(l), Raised(l)} : Reserved'[j] = Reserved[j]
        /\ Reserved[First(l)] = Remaining(First(l)) /\ Reserved'[First(l)] = 0
        /\ Reserved[Raised(l)] = 0 /\ Reserved'[Raised(l)] = snap[First(l)]
    <3>1. \A j \in ListId \ {First(l), Raised(l)} : Kept(j)' = Kept(j) /\ Remaining(j)' = Remaining(j)
      BY <2>1, <2>2, <2>3, <2>5 DEF Kept, Live, Remaining, Ranges
    <3>2. Kept(First(l)) /\ ~Kept(First(l))'
      BY <2>1, <2>2, <2>3, <2>4, <2>5 DEF Kept, Live, Ranges
    <3>3. Remaining(Raised(l)) = 0 /\ Remaining(Raised(l))' = snap[First(l)] /\ Kept(Raised(l))'
      BY <2>3, <2>4, <2>5, ExitAssumption DEF Remaining, Kept, Live, ExitAssumption
    <3> QED BY <2>3, <3>1, <3>2, <3>3 DEF Reserved
  <2>8. Reserve' = Reserve + snap[First(l)] - Remaining(First(l))
    <3>1. \A j \in ListId : Reserved[j] \in Int /\ Reserved'[j] \in Int
      <4>1. ReserveNumbers'
        BY ReserveIsNumber, PTL
      <4> QED BY <4>1, ReserveIsNumber DEF ReserveNumbers
    <3> DEFINE mid == [j \in ListId |-> IF j = First(l) THEN 0 ELSE Reserved[j]]
    <3>2. /\ \A j \in ListId : mid[j] \in Int
          /\ \A j \in ListId \ {First(l)} : Reserved[j] = mid[j]
          /\ \A j \in ListId \ {Raised(l)} : mid[j] = Reserved'[j]
          /\ mid[First(l)] = 0 /\ mid[Raised(l)] = 0
      BY <2>3, <2>7, <3>1
    <3> HIDE DEF mid
    <3>3. \A j \in ListId : Reserved[j] \in Int /\ mid[j] \in Int
      BY <3>1, <3>2
    <3>4. \A j \in ListId \ {First(l)} : Reserved[j] = mid[j]
      BY <3>2
    <3>5. SumFunctionOnSet(mid, ListId) =
             SumFunctionOnSet(Reserved, ListId) + mid[First(l)] - Reserved[First(l)]
      BY <2>3, <3>3, <3>4, ListsFinite, SumChange
    <3>6. \A j \in ListId : mid[j] \in Int /\ Reserved'[j] \in Int
      BY <3>1, <3>2
    <3>7. \A j \in ListId \ {Raised(l)} : mid[j] = Reserved'[j]
      BY <3>2
    <3>8. SumFunctionOnSet(Reserved', ListId) =
             SumFunctionOnSet(mid, ListId) + Reserved'[Raised(l)] - mid[Raised(l)]
      <4>1. Raised(l) \in ListId
        BY <2>3
      <4> QED BY <3>6, <3>7, <4>1, ListsFinite, SumChange
    <3>9. /\ SumFunctionOnSet(Reserved, ListId) \in Int /\ SumFunctionOnSet(mid, ListId) \in Int
          /\ Remaining(First(l)) \in Int /\ snap[First(l)] \in Int
      BY <2>3, <2>7, <3>1, <3>6, ListsFinite, SumInt
    <3> QED BY <2>7, <3>2, <3>5, <3>8, <3>9 DEF Reserve
  <2>9. snap[First(l)] >= Remaining(First(l))
    BY <2>2, <2>3 DEF SnapUpper
  <2>10. /\ Held \in Int /\ Reserve \in Int /\ Remaining(First(l)) \in Int
         /\ snap[First(l)] \in Int /\ Polled \in Int /\ PolledUnsold \in Int
    BY <2>3, ReserveIsNumber, AccountIsNumber DEF ReserveNumbers, AccountNumbers
  <2>11. Polled' = Polled /\ PolledUnsold' = PolledUnsold
    BY <2>1, <2>6 DEF Polled, PolledUnsold
  <2>12. Overhang' = Overhang - (snap[First(l)] - Remaining(First(l)))
    <3>1. /\ Over[First(l)] = snap[First(l)] - Remaining(First(l)) /\ Over'[First(l)] = 0
          /\ \A j \in ListId \ {First(l)} : Over[j] = Over'[j]
      <4>1. Over[First(l)] = snap[First(l)] - Remaining(First(l)) /\ Over'[First(l)] = 0
        BY <2>1, <2>2, <2>3 DEF Over, Ranges
      <4>2. Over[Raised(l)] = 0 /\ Over'[Raised(l)] = 0
        BY <2>1, <2>3, <2>4 DEF Over, Ranges
      <4>3. \A j \in ListId \ {First(l), Raised(l)} : Over[j] = Over'[j]
        BY <2>1, <2>3, <2>5 DEF Over, Remaining, Ranges
      <4> QED BY <4>1, <4>2, <4>3
    <3>2. \A j \in ListId : Over[j] \in Int /\ Over'[j] \in Int
      <4>1. \A j \in ListId : Over[j] \in Nat
        BY OverIsNumber
      <4> QED BY <3>1, <4>1
    <3>3. SumFunctionOnSet(Over', ListId) =
             SumFunctionOnSet(Over, ListId) + Over'[First(l)] - Over[First(l)]
      BY <2>3, <3>1, <3>2, ListsFinite, SumChange
    <3>4. SumFunctionOnSet(Over, ListId) \in Int
      BY <3>2, ListsFinite, SumInt
    <3> QED BY <2>10, <3>1, <3>3, <3>4 DEF Overhang
  <2> QED BY <2>1, <2>6, <2>8, <2>9, <2>10, <2>11, <2>12 DEF BalanceInv
<1>36. ASSUME NEW i \in ListId, RearmFails(i) PROVE BalanceInv'
  BY <1>36 DEF RearmFails, BalanceInv
<1>37. ASSUME GateOpens PROVE BalanceInv'
  <2>1. /\ UNCHANGED <<bought, lists, flat, target, snap, halted, resold>>
        /\ pc = "down" /\ pc' = "cancel" /\ missed' = 0
        /\ tracked' = {l \in Lots : prot[l] = "none" /\ buy[l] # "CANCELED"} /\ Unprotected = {}
    BY <1>37 DEF GateOpens, GateRuns, exchangeVars, Ranges
  <2>2. Held' = Held /\ Reserved' = Reserved /\ Selling' = {} /\ Over' = Over
    BY <2>1, HeldStays DEF Reserved, Kept, Live, Remaining, Selling, Over
  <2>3. Held' <= Reserve' + Polled'
    <3>1. Held' <= Attended'
      BY <1>37, GateAttends DEF SafeShape, ShapeInv
    <3>2. ReserveNumbers' /\ AccountNumbers'
      BY ReserveIsNumber, AccountIsNumber, PTL
    <3>3. \A i \in ListId : /\ Remainders'[i] \in Int /\ Reserved'[i] \in Int
                            /\ Remainders'[i] <= Reserved'[i]
      BY <3>2 DEF ReserveNumbers, Remainders, Kept, Live, Remaining
    <3>4. SumFunctionOnSet(Remainders', ListId) <= SumFunctionOnSet(Reserved', ListId)
      BY <3>3, ListsFinite, SumMonotone
    <3>5. /\ SumFunctionOnSet(Remainders', ListId) \in Int /\ Reserve' \in Int /\ Polled' \in Int
          /\ Held' \in Int
      BY <3>2 DEF ReserveNumbers, AccountNumbers
    <3> QED BY <3>1, <3>4, <3>5 DEF Attended, Reserve, Polled
  <2>4. PolledUnsold' = 0
    <3>1. \A l \in tracked' : bought'[l] = 0
      BY <2>1, ExitAssumption DEF Unprotected, Ranges, ExitAssumption
    <3>2. IsFiniteSet(tracked')
      BY <2>1, ListsFinite, FS_Subset
    <3> QED BY <2>2, <3>1, <3>2, SumZero DEF PolledUnsold
  <2>5. /\ Reserve' = Reserve /\ Reserve \in Int /\ PolledUnsold \in Nat /\ Held \in Int
    BY <2>2, ReserveIsNumber, AccountIsNumber DEF ReserveNumbers, AccountNumbers, Reserve
  <2>6. Reserve' + Polled' \in Int /\ Overhang' = Overhang
    <3>1. ReserveNumbers'
      BY ReserveIsNumber, PTL
    <3> QED BY <2>2, <3>1 DEF ReserveNumbers, Overhang
  <2> QED BY <2>1, <2>2, <2>3, <2>4, <2>5, <2>6 DEF BalanceInv
<1>38. ASSUME GateHalts PROVE BalanceInv'
  BY <1>38 DEF GateHalts, BalanceInv
<1>39. ASSUME NEW l \in Lots, BuyExecutes(l) PROVE BalanceInv'
  <2>1. /\ UNCHANGED <<worker, halted, missed>> /\ resold' \in {resold, resold + 1}
    BY <1>39 DEF BuyExecutes, durableVars
  <2>2. /\ Held' = Held + 1 /\ Reserve' = Reserve /\ Overhang' = Overhang
        /\ Running => Polled' = Polled + 1
        /\ PolledUnsold' <= PolledUnsold + 1
    BY <1>39, BuyMoves
  <2>3. PICK p \in Nat : p = PolledUnsold'
    <3>1. ReserveNumbers'
      BY ReserveIsNumber, PTL
    <3> QED BY <3>1 DEF ReserveNumbers
  <2>4. ASSUME ~halted PROVE Held' + resold' >= Reserve' + PolledUnsold' + Overhang'
    <3>1. Held + resold >= Reserve + PolledUnsold + Overhang
      BY <2>4 DEF BalanceInv
    <3>2. p <= PolledUnsold + 1
      BY <2>2, <2>3, Zenon
    <3>3. PICK r \in Nat : r = resold' /\ r >= resold
      BY <2>1
    <3>4. r >= resold
      BY <3>3
    <3>5. Held + 1 + r >= Reserve + p + Overhang
      BY <3>1, <3>2, <3>4
    <3> QED BY <2>2, <2>3, <3>3, <3>5, Zenon
  <2>5. ASSUME Running PROVE Held' <= Reserve' + Polled' + missed'
    <3>1. Held <= Reserve + Polled + missed
      BY <2>5 DEF BalanceInv, Running
    <3>2. Held + 1 <= Reserve + (Polled + 1) + missed
      BY <3>1
    <3>3. missed' = missed /\ Polled' = Polled + 1
      BY <2>1, <2>2, <2>5
    <3> QED BY <2>2, <3>2, <3>3, Zenon
  <2> QED BY <2>1, <2>4, <2>5 DEF BalanceInv, Running
<1>40. ASSUME NEW l \in Lots, BuyExpires(l) PROVE BalanceInv'
  <2>1. /\ UNCHANGED <<bought, lists, flat, target, snap, tracked, worker, halted>>
        /\ ~halted' => UNCHANGED historyVars
        /\ (pc # "timeHalt" /\ pc' # "timeHalt") \/ UNCHANGED <<pc, cur>>
    BY <1>40 DEF BuyExpires, exchangeVars, durableVars, localVars
  <2> QED BY <2>1, BalanceFrame
<1>41. ASSUME NEW l \in Lots, RiskCheck(l) PROVE BalanceInv'
  <2>1. /\ UNCHANGED <<bought, lists, flat, target, snap, tracked, worker, halted>>
        /\ ~halted' => UNCHANGED historyVars
        /\ (pc # "timeHalt" /\ pc' # "timeHalt") \/ UNCHANGED <<pc, cur>>
    BY <1>41 DEF RiskCheck, exchangeVars, durableVars, localVars
  <2> QED BY <2>1, BalanceFrame
<1>42. ASSUME NEW i \in ListId, LegExecutes(i) PROVE BalanceInv'
  <2>1. /\ UNCHANGED <<worker, halted>> /\ missed' \in {missed, missed + 1}
        /\ resold' \in {resold, resold + 1}
        /\ ~halted /\ snap[i] > 0 => resold' = resold + 1
    BY <1>42 DEF LegExecutes, StaleSale, durableVars
  <2>2. /\ Held' = Held - 1 /\ Reserve' = Reserve - 1
        /\ Overhang' = IF snap[i] > 0 THEN Overhang + 1 ELSE Overhang
        /\ Polled' = Polled /\ PolledUnsold' = PolledUnsold
    BY <1>42, LegMoves
  <2>3. ASSUME Running PROVE Held' <= Reserve' + Polled' + missed'
    <3>1. Held <= Reserve + Polled + missed
      BY <2>3 DEF BalanceInv, Running
    <3>2. PICK m \in Nat : m = missed' /\ m >= missed
      BY <2>1
    <3>3. m >= missed
      BY <3>2
    <3>4. Held - 1 <= (Reserve - 1) + Polled + m
      BY <3>1, <3>3
    <3> QED BY <2>2, <3>2, <3>4, Zenon
  <2>4. ASSUME ~halted PROVE Held' + resold' >= Reserve' + PolledUnsold' + Overhang'
    <3>1. Held + resold >= Reserve + PolledUnsold + Overhang
      BY <2>4 DEF BalanceInv
    <3>2. CASE snap[i] > 0
      <4>1. resold' = resold + 1
        BY <2>1, <2>4, <3>2
      <4>2. (Held - 1) + (resold + 1) >= (Reserve - 1) + PolledUnsold + (Overhang + 1)
        BY <3>1
      <4>3. Overhang' = Overhang + 1
        BY <2>2, <3>2
      <4> QED BY <2>2, <4>1, <4>2, <4>3, Zenon
    <3>3. CASE ~(snap[i] > 0)
      <4>1. PICK r \in Nat : r = resold' /\ r >= resold
        BY <2>1
      <4>2. r >= resold
        BY <4>1
      <4>3. (Held - 1) + r >= (Reserve - 1) + PolledUnsold + Overhang
        BY <3>1, <4>2
      <4>4. Overhang' = Overhang
        BY <2>2, <3>3
      <4> QED BY <2>2, <4>1, <4>3, <4>4, Zenon
    <3> QED BY <3>2, <3>3
  <2> QED BY <2>1, <2>3, <2>4 DEF BalanceInv, Running
<1>43. ASSUME NEW i \in ListId, CancelTakesEffect(i) PROVE BalanceInv'
  <2>1. UNCHANGED <<worker, halted, resold, missed>>
    BY <1>43 DEF CancelTakesEffect, durableVars, historyVars
  <2>2. /\ Held' = Held /\ Overhang' = Overhang
        /\ Polled' = Polled /\ PolledUnsold' = PolledUnsold
        /\ Reserve' <= Reserve /\ (Running => Reserve' = Reserve) /\ Reserve' \in Int
    BY <1>43, CancelMoves
  <2>3. ASSUME Running PROVE Held' <= Reserve' + Polled' + missed'
    <3>1. Held <= Reserve + Polled + missed
      BY <2>3 DEF BalanceInv, Running
    <3>2. Reserve' = Reserve /\ missed' = missed
      BY <2>1, <2>2, <2>3
    <3> QED BY <2>2, <3>1, <3>2, Zenon
  <2>4. ASSUME ~halted PROVE Held' + resold' >= Reserve' + PolledUnsold' + Overhang'
    <3>1. Held + resold >= Reserve + PolledUnsold + Overhang
      BY <2>4 DEF BalanceInv
    <3>2. PICK r \in Int : r = Reserve'
      BY <2>2
    <3>3. r <= Reserve
      BY <2>2, <3>2, Zenon
    <3>4. Held + resold >= r + PolledUnsold + Overhang
      BY <3>1, <3>3
    <3>5. resold' = resold
      BY <2>1
    <3> QED BY <2>2, <3>2, <3>4, <3>5, Zenon
  <2> QED BY <2>1, <2>3, <2>4 DEF BalanceInv, Running
<1>44. ASSUME SessionEnds PROVE BalanceInv'
  <2>1. /\ halted => halted'
        /\ UNCHANGED <<bought, lists, flat>> /\ Dies
        /\ ~halted' => UNCHANGED historyVars
    BY <1>44 DEF HaltEndsHistory, SessionEnds, exchangeVars, durableVars, Dies
  <2> QED BY <2>1, BalanceDies
<1>45. ASSUME Crash PROVE BalanceInv'
  <2>1. /\ halted => halted'
        /\ UNCHANGED <<bought, lists, flat>> /\ Dies
        /\ ~halted' => UNCHANGED historyVars
    BY <1>45 DEF HaltEndsHistory, Crash, exchangeVars, durableVars, Dies
  <2> QED BY <2>1, BalanceDies
<1>46. ASSUME UNCHANGED vars PROVE BalanceInv'
  BY <1>46, BalanceFrame DEF vars, exchangeVars, durableVars, localVars
<1> QED
  BY <1>1, <1>2, <1>3, <1>4, <1>5, <1>6, <1>7, <1>8, <1>9, <1>10, <1>11, <1>12, <1>13,
     <1>14, <1>15, <1>16, <1>17, <1>18, <1>19, <1>20, <1>21, <1>22, <1>23, <1>24, <1>25,
     <1>26, <1>27, <1>28, <1>29, <1>30, <1>31, <1>32, <1>33, <1>34, <1>35, <1>36, <1>37,
     <1>38, <1>39, <1>40, <1>41, <1>42, <1>43, <1>44, <1>45, <1>46
  DEF Next, Tick, SafetyCancel, GapFlatten, Sweep, TimeStop, Breakeven, Gate, Exchange

---------------------------------------------------------------------------
(* The watchdog's balance: the units held, in hand, polled, sold again, missed, and what
   it will sell beyond what the breached lists have left. *)
Fits(held, reserve, polled, unsold, again, left, drift) ==
    /\ held <= reserve + polled + left + drift
    /\ held + again >= reserve + unsold + drift
    /\ drift + left >= 0

(* Whatever executes while the watchdog works, what it will sell stays in balance. *)
LEMMA DriftStep ==
    ASSUME SafeShape, SafeShape', ClosingInv, PolledInv, GapInv, DriftInv,
           SnapUpper, BalanceInv, [Next]_vars
    PROVE  DriftInv'
<1> DEFINE Goal == Fits(Held', Reserve', Polled', PolledUnsold', resold', missed', Drift')
<1> SUFFICES ASSUME Running', pc' \in FlattenSteps PROVE Goal
  BY DEF DriftInv, Fits
<1> USE DEF SafeShape, ShapeInv
<1>0. /\ Held \in Int /\ Reserve \in Int /\ Polled \in Int /\ PolledUnsold \in Int
      /\ Overhang \in Nat /\ resold \in Nat /\ missed \in Nat
      /\ Total \in Int /\ LeftInTarget \in Nat /\ expected \in Nat /\ total0 \in Nat
      /\ Drift \in Int
  BY ReserveIsNumber, AccountIsNumber, OverIsNumber, LeftIsNumber
  DEF ReserveNumbers, AccountNumbers, Ranges, LeftNumbers, LeftInTarget, Drift
<1>1. FlattenMove
  BY FlattenMoves
<1>2. ASSUME Running, pc \in FlattenSteps
      PROVE  Fits(Held, Reserve, Polled, PolledUnsold, resold, missed, Drift)
  BY <1>2 DEF DriftInv, Fits
<1>3. ASSUME Running, pc \in FlattenSteps, Drift' = Drift,
             UNCHANGED <<Held, Reserve, Polled, PolledUnsold, resold, missed>>
      PROVE  Goal
  BY <1>2, <1>3, Zenon
<1>4. ASSUME NEW breached \in SUBSET Resting, GapRead(breached) PROVE Goal
  <2>1. /\ target' = breached /\ pc = "gap" /\ pc' = "gapBalances"
        /\ UNCHANGED <<bought, lists, flat, snap, tracked, worker, halted, resold, missed>>
    BY <1>4 DEF GapRead, exchangeVars, durableVars, historyVars
  <2>2. target = {} /\ Held' = Held
    BY <2>1, HeldStays DEF StageInv, FlattenSteps
  <2>3. Reserved' = Reserved
    BY <2>1, <2>2 DEF Reserved, Kept, Live, Remaining, Resting
  <2>4. Reserve' = Reserve /\ Polled' = Polled /\ PolledUnsold' = PolledUnsold
    BY <2>1, <2>3 DEF Reserve, Polled, PolledUnsold, Selling
  <2>5. Drift' = 0
    BY <1>4, <2>1, ReadIsLeft DEF Drift
  <2>6. /\ Held <= Reserve + Polled + missed
        /\ Held + resold >= Reserve + PolledUnsold + Overhang
    BY <2>1 DEF BalanceInv, Running
  <2>7. Fits(Held, Reserve, Polled, PolledUnsold, resold, missed, 0)
    BY <1>0, <2>6 DEF Fits
  <2> QED BY <2>1, <2>2, <2>4, <2>5, <2>7, Zenon
<1>5. ASSUME GapBalances PROVE Goal
  <2>1. /\ pc = "gapBalances" /\ pc' = "gapCancel" /\ total0' = Total
        /\ UNCHANGED <<bought, lists, flat, target, snap, tracked, expected, worker, halted>>
    BY <1>5 DEF GapBalances, HaltThen, exchangeVars, durableVars, FlattenSteps
  <2>2. UNCHANGED <<resold, missed>> /\ Running
    BY <1>5, <2>1 DEF GapBalances, HaltEndsHistory, Running, historyVars
  <2>3. /\ Reserved' = Reserved /\ Held' = Held /\ Selling' = Selling
        /\ LeftInTarget' = LeftInTarget /\ Total' = Total
    BY <2>1
    DEF Reserved, Kept, Live, Remaining, Held, Sold, Selling, LeftInTarget, Left, Total
  <2>4. Drift' = Drift
    <3>1. Drift = expected - LeftInTarget /\ Drift' = expected - (Total - Total) - LeftInTarget
      BY <2>1, <2>3 DEF Drift
    <3> QED BY <1>0, <3>1
  <2>5. Reserve' = Reserve /\ Polled' = Polled /\ PolledUnsold' = PolledUnsold
    BY <2>1, <2>3 DEF Reserve, Polled, PolledUnsold
  <2> QED BY <1>3, <2>1, <2>2, <2>3, <2>4, <2>5 DEF FlattenSteps
<1>6. ASSUME GapReleased PROVE Goal
  <2>1. /\ pc = "gapPoll" /\ pc' = "gapSell" /\ expected' = Residual /\ Residual > 0
        /\ UNCHANGED <<bought, lists, flat, target, snap, tracked, worker, halted, resold, missed>>
    BY <1>6 DEF GapReleased, exchangeVars, durableVars, historyVars
  <2>2. /\ Reserved' = Reserved /\ Held' = Held /\ Selling' = Selling
        /\ LeftInTarget' = LeftInTarget
    BY <2>1 DEF Reserved, Kept, Live, Remaining, Held, Sold, Selling, LeftInTarget, Left
  <2>3. Reserve' = Reserve /\ Polled' = Polled /\ PolledUnsold' = PolledUnsold
    BY <2>1, <2>2 DEF Reserve, Polled, PolledUnsold
  <2>4. Running /\ pc \in FlattenSteps
    BY <2>1 DEF Running, FlattenSteps
  <2>5. Drift = expected - (total0 - Total) - LeftInTarget /\ LeftInTarget <= expected
    BY <2>1 DEF Drift, GapInv
  <2>6. Drift' = Residual - LeftInTarget
    BY <2>1, <2>2 DEF Drift
  <2>7. Fits(Held, Reserve, Polled, PolledUnsold, resold, missed, Residual - LeftInTarget)
    <3>1. Fits(Held, Reserve, Polled, PolledUnsold, resold, missed, Drift)
      BY <1>2, <2>4
    <3>2. Held <= Reserve + Polled + missed
      BY <2>4 DEF BalanceInv, Running
    <3>3. CASE Total <= total0
      <4>1. Residual = expected - (total0 - Total)
        BY <1>0, <2>1, <3>3 DEF Residual, AtLeastZero
      <4> QED BY <2>5, <3>1, <4>1
    <3>4. CASE Total > total0
      <4>1. Residual = expected
        BY <1>0, <2>1, <3>4 DEF Residual, AtLeastZero
      <4> QED BY <1>0, <2>5, <3>1, <3>2, <3>4, <4>1 DEF Fits
    <3> QED BY <1>0, <3>3, <3>4
  <2> QED BY <2>1, <2>2, <2>3, <2>6, <2>7, Zenon
<1>7. ASSUME NEW i \in ListId, GapCancel(i) PROVE Goal
  <2>1. /\ lists' = [lists EXCEPT ![i].status = "closing"] /\ pc = "gapCancel"
        /\ pc' \in {"gapCancel", "gapPoll"} /\ i \in target
        /\ UNCHANGED <<bought, flat, target, snap, tracked, worker, halted, resold, missed,
                       expected, total0>>
    BY <1>7 DEF GapCancel, Closing, StageInv, durableVars, historyVars
  <2>2. /\ \A j \in ListId \ {i} : lists'[j] = lists[j]
        /\ lists'[i].qty = lists[i].qty /\ lists'[i].sold = lists[i].sold
    BY <2>1, ClosingEffect DEF Ranges
  <2>3. Held' = Held /\ LeftInTarget' = LeftInTarget /\ Total' = Total
    BY <2>1, <2>2, HeldStays, StatusIsNoSale
  <2>4. \A j \in ListId : Reserved'[j] = Reserved[j]
    BY <2>1, <2>2 DEF Reserved, Kept, Live, Remaining
  <2>5. Reserve' = Reserve /\ Polled' = Polled /\ PolledUnsold' = PolledUnsold
    BY <2>1, <2>4, ReserveStays DEF Polled, PolledUnsold, Selling
  <2>6. Drift' = Drift /\ Running /\ pc \in FlattenSteps
    BY <2>1, <2>3 DEF Drift, Running, FlattenSteps
  <2> QED BY <1>3, <2>1, <2>3, <2>5, <2>6
<1>8. ASSUME NEW l \in Lots, BuyExecutes(l) PROVE Goal
  <2>1. /\ UNCHANGED <<worker, halted, pc, target, expected, total0, missed, lists>>
        /\ resold' = IF Measuring THEN resold + 1 ELSE resold
    BY <1>8 DEF BuyExecutes, durableVars, localVars
  <2>2. Running /\ pc \in FlattenSteps
    BY <2>1 DEF Running
  <2>3. /\ Held' = Held + 1 /\ Reserve' = Reserve /\ Polled' = Polled + 1
        /\ PolledUnsold' <= PolledUnsold + 1
    BY <1>8, <2>2, BuyMoves
  <2>4. PICK p \in Nat : p = PolledUnsold'
    <3>1. ReserveNumbers'
      BY ReserveIsNumber, PTL
    <3> QED BY <3>1 DEF ReserveNumbers
  <2>5. p <= PolledUnsold + 1
    BY <2>3, <2>4, Zenon
  <2>6. Total' = Total + 1 /\ LeftInTarget' = LeftInTarget
    <3>1. Held \in Int /\ Legacy \in Int
      BY <1>0, ExitAssumption DEF ExitAssumption
    <3>2. Left' = Left
      BY <2>1 DEF Left, Remaining
    <3> QED BY <2>1, <2>3, <3>1, <3>2 DEF Total, LeftInTarget
  <2>7. Fits(Held, Reserve, Polled, PolledUnsold, resold, missed, Drift)
    BY <1>2, <2>2
  <2>8. CASE pc \in {"gapCancel", "gapPoll"}
    <3>1. resold' = resold + 1
      BY <2>1, <2>2, <2>8 DEF Measuring, Running
    <3>2. Drift' = Drift + 1
      <4>1. /\ Drift = expected - (total0 - Total) - LeftInTarget
            /\ Drift' = expected - (total0 - (Total + 1)) - LeftInTarget
        BY <2>1, <2>6, <2>8 DEF Drift
      <4> QED BY <1>0, <4>1
    <3>3. Fits(Held + 1, Reserve, Polled + 1, p, resold + 1, missed, Drift + 1)
      BY <1>0, <2>5, <2>7 DEF Fits
    <3>4. missed' = missed
      BY <2>1
    <3> QED BY <2>3, <2>4, <3>1, <3>2, <3>3, <3>4, Zenon
  <2>9. CASE pc \notin {"gapCancel", "gapPoll"}
    <3>1. resold' = resold /\ missed' = missed
      BY <2>1, <2>9 DEF Measuring
    <3>2. Drift' = Drift
      BY <2>1, <2>6, <2>9 DEF Drift
    <3>3. Fits(Held + 1, Reserve, Polled + 1, p, resold, missed, Drift)
      BY <1>0, <2>5, <2>7 DEF Fits
    <3> QED BY <2>3, <2>4, <3>1, <3>2, <3>3, Zenon
  <2> QED BY <2>8, <2>9
<1>9. ASSUME NEW l \in Lots, BuyExpires(l) \/ RiskCheck(l) PROVE Goal
  <2>1. UNCHANGED <<bought, lists, flat, target, snap, tracked, worker, halted, resold, missed,
                    expected, total0, pc, cur>>
    BY <1>9 DEF BuyExpires, RiskCheck, exchangeVars, durableVars, localVars, historyVars
  <2>2. /\ UNCHANGED <<Held, Reserve, Polled, PolledUnsold, Drift>>
        /\ Running /\ pc \in FlattenSteps
    BY <2>1
    DEF Held, Sold, Reserve, Reserved, Kept, Live, Remaining, Polled, PolledUnsold, Selling,
        Drift, Total, LeftInTarget, Left, Running
  <2> QED BY <1>3, <2>1, <2>2
<1>10. ASSUME NEW i \in ListId, LegExecutes(i) PROVE Goal
  <2>1. /\ UNCHANGED <<worker, halted, pc, target, expected, total0>>
        /\ resold' = IF StaleSale(i) THEN resold + 1 ELSE resold
        /\ missed' = IF OtherSale(i) THEN missed + 1 ELSE missed
        /\ Live(i)
    BY <1>10 DEF LegExecutes, durableVars, localVars
  <2>2. Running /\ pc \in FlattenSteps
    BY <2>1 DEF Running
  <2>3. /\ Held' = Held - 1 /\ Reserve' = Reserve - 1
        /\ Polled' = Polled /\ PolledUnsold' = PolledUnsold
    BY <1>10, LegMoves
  <2>4. /\ Total' = Total - 1
        /\ LeftInTarget' = IF i \in target THEN LeftInTarget - 1 ELSE LeftInTarget
    BY <1>10, LegIsSale
  <2>5. Fits(Held, Reserve, Polled, PolledUnsold, resold, missed, Drift)
    BY <1>2, <2>2
  <2>6. PICK r \in {resold, resold + 1} : resold' = r
    BY <2>1
  <2>7. r \in Nat /\ r >= resold
    BY <1>0
  <2>8. CASE pc \in {"gapCancel", "gapPoll"} /\ i \in target
    <3>1. missed' = missed
      BY <2>1, <2>8 DEF OtherSale
    <3>2. Drift' = Drift
      <4>1. /\ Drift = expected - (total0 - Total) - LeftInTarget
            /\ Drift' = expected - (total0 - (Total - 1)) - (LeftInTarget - 1)
        BY <2>1, <2>4, <2>8 DEF Drift
      <4> QED BY <1>0, <4>1
    <3>3. Fits(Held - 1, Reserve - 1, Polled, PolledUnsold, r, missed, Drift)
      BY <1>0, <2>5, <2>7 DEF Fits
    <3> QED BY <2>3, <2>6, <3>1, <3>2, <3>3, Zenon
  <2>9. CASE pc \in {"gapCancel", "gapPoll"} /\ i \notin target
    <3>1. missed' = missed + 1
      BY <2>1, <2>2, <2>9 DEF OtherSale, Measuring, Running
    <3>2. Drift' = Drift - 1
      <4>1. /\ Drift = expected - (total0 - Total) - LeftInTarget
            /\ Drift' = expected - (total0 - (Total - 1)) - LeftInTarget
        BY <2>1, <2>4, <2>9 DEF Drift
      <4> QED BY <1>0, <4>1
    <3>3. Fits(Held - 1, Reserve - 1, Polled, PolledUnsold, r, missed + 1, Drift - 1)
      BY <1>0, <2>5, <2>7 DEF Fits
    <3> QED BY <2>3, <2>6, <3>1, <3>2, <3>3, Zenon
  <2>10. CASE pc = "gapBalances" /\ i \in target
    <3>1. resold' = resold + 1 /\ missed' = missed
      BY <2>1, <2>2, <2>10 DEF StaleSale, OtherSale, Running
    <3>2. Drift' = Drift + 1
      <4>1. Drift = expected - LeftInTarget /\ Drift' = expected - (LeftInTarget - 1)
        BY <2>1, <2>4, <2>10 DEF Drift
      <4> QED BY <1>0, <4>1
    <3>3. Fits(Held - 1, Reserve - 1, Polled, PolledUnsold, resold + 1, missed, Drift + 1)
      BY <1>0, <2>5 DEF Fits
    <3> QED BY <2>3, <3>1, <3>2, <3>3, Zenon
  <2>11. CASE pc \in {"gapBalances", "gapSell"} /\ i \notin target
    <3>1. missed' = missed
      BY <2>1, <2>11 DEF OtherSale, Measuring
    <3>2. Drift' = Drift
      BY <2>1, <2>4, <2>11 DEF Drift
    <3>3. Fits(Held - 1, Reserve - 1, Polled, PolledUnsold, r, missed, Drift)
      BY <1>0, <2>5, <2>7 DEF Fits
    <3> QED BY <2>3, <2>6, <3>1, <3>2, <3>3, Zenon
  <2>12. ~(pc = "gapSell" /\ i \in target)
    BY <2>1 DEF StageInv, Released
  <2> QED BY <2>2, <2>8, <2>9, <2>10, <2>11, <2>12 DEF FlattenSteps
<1>11. ASSUME NEW i \in ListId, CancelTakesEffect(i) PROVE Goal
  <2>1. /\ lists' = [lists EXCEPT ![i].status = "done"]
        /\ UNCHANGED <<bought, flat, target, worker, halted, resold, missed, expected, total0, pc>>
    BY <1>11 DEF CancelTakesEffect, durableVars, localVars, historyVars
  <2>2. Running /\ pc \in FlattenSteps
    BY <2>1 DEF Running
  <2>3. \A j \in ListId : lists'[j].qty = lists[j].qty /\ lists'[j].sold = lists[j].sold
    BY <2>1, ClosingEffect DEF Ranges
  <2>4. LeftInTarget' = LeftInTarget /\ Total' = Total
    BY <2>1, <2>3, StatusIsNoSale
  <2>5. Drift' = Drift
    BY <2>1, <2>4 DEF Drift
  <2>6. UNCHANGED <<Held, Reserve, Polled, PolledUnsold>>
    BY <1>11, <2>2, CancelMoves
  <2> QED BY <1>3, <2>1, <2>2, <2>5, <2>6
<1>12. ASSUME UNCHANGED vars PROVE Goal
  <2>1. /\ UNCHANGED <<Held, Reserve, Polled, PolledUnsold, Drift, resold, missed>>
        /\ Running /\ pc \in FlattenSteps
    BY <1>12
    DEF vars, exchangeVars, durableVars, localVars, historyVars, Held, Sold, Reserve, Reserved,
        Kept, Live, Remaining, Polled, PolledUnsold, Selling, Drift, Total, LeftInTarget, Left,
        Running
  <2> QED BY <1>3, <2>1
<1> QED
  BY <1>1, <1>4, <1>5, <1>6, <1>7, <1>8, <1>9, <1>10, <1>11, <1>12 DEF FlattenMove, Exchange

---------------------------------------------------------------------------
(* In the beginning nothing is bought, placed or read. *)
LEMMA InitBalance ==
    Init => /\ ClosingInv /\ OpenInv /\ PolledInv /\ SnapUpper
            /\ GapInv /\ DriftInv /\ BalanceInv
<1> SUFFICES ASSUME Init
             PROVE  /\ ClosingInv /\ OpenInv /\ PolledInv /\ SnapUpper
                    /\ GapInv /\ DriftInv /\ BalanceInv
  OBVIOUS
<1> USE ExitAssumption DEF ExitAssumption, Init
<1>1. ClosingInv /\ OpenInv /\ PolledInv
  BY DEF ClosingInv, OpenInv, Waiting, PolledInv
<1>2. SnapUpper /\ GapInv /\ DriftInv
  BY DEF SnapUpper, GapInv, DriftInv, FlattenSteps
<1>3. BalanceInv
  <2>1. /\ \A l \in Lots : bought[l] = 0
        /\ \A i \in ListId : Sold[i] = 0 /\ Reserved[i] = 0 /\ Over[i] = 0
    BY DEF Sold, Reserved, Kept, Live, Over
  <2>2. IsFiniteSet(tracked) /\ IsFiniteSet(tracked \ Selling) /\ tracked = Lots
    BY ListsFinite, FS_Subset
  <2>3. /\ SumFunctionOnSet(bought, Lots) = 0
        /\ SumFunctionOnSet(Sold, ListId) = 0
        /\ SumFunctionOnSet(Reserved, ListId) = 0
        /\ SumFunctionOnSet(Over, ListId) = 0
    BY <2>1, ListsFinite, SumZero
  <2>4. SumFunctionOnSet(bought, tracked) = 0 /\ SumFunctionOnSet(bought, tracked \ Selling) = 0
    <3>1. \A l \in tracked \ Selling : bought[l] = 0
      BY <2>1, <2>2
    <3> QED BY <2>2, <2>3, <3>1, SumZero
  <2> QED BY <2>3, <2>4 DEF BalanceInv, Held, Reserve, Polled, PolledUnsold, Overhang
<1> QED BY <1>1, <1>2, <1>3

(* What the controls know of the lists in hand holds in every run. *)
ControlInv == /\ SafeShape /\ GateInv
              /\ ClosingInv /\ OpenInv /\ PolledInv /\ SnapUpper

(* The controls' knowledge survives every step. *)
LEMMA ControlAlways == Spec => []ControlInv
<1>1. Init => ControlInv
  BY InitShape, InitBalance DEF ControlInv, Init, GateInv
<1>2. ControlInv /\ [Next]_vars => ControlInv'
  <2> SUFFICES ASSUME ControlInv, [Next]_vars PROVE ControlInv'
    OBVIOUS
  <2> USE DEF ControlInv, SafeShape, ShapeInv
  <2>1. SafeShape' /\ ListsChange /\ BuyChange /\ SnapChange
    BY ShapeStep
  <2>2. GateInv'
    BY <2>1, JournalMoves, GateStep
  <2>3. ClosingInv' /\ OpenInv' /\ PolledInv'
    BY <2>1, ClosingStep, OpenStep, PolledStep
  <2>4. SnapUpper'
    BY <2>1, SnapUpperStep
  <2> QED BY <2>1, <2>2, <2>3, <2>4
<1> QED BY <1>1, <1>2, PTL DEF Spec

(* The watchdog's sums and the balance of the session hold in every run. *)
AccountInv == GapInv /\ DriftInv /\ BalanceInv

LEMMA BalanceAlways == Spec => [](ControlInv /\ AccountInv)
<1>1. Init => AccountInv
  BY InitBalance DEF AccountInv
<1>2. ControlInv /\ ControlInv' /\ AccountInv /\ [Next]_vars => AccountInv'
  <2> SUFFICES ASSUME ControlInv, ControlInv', AccountInv, [Next]_vars
               PROVE  AccountInv'
    OBVIOUS
  <2> USE DEF ControlInv, AccountInv
  <2>1. GapInv'
    BY GapStep DEF SafeShape, ShapeInv
  <2>2. DriftInv'
    BY DriftStep
  <2>3. BalanceInv'
    BY BalanceStep
  <2> QED BY <2>1, <2>2, <2>3
<1> QED BY <1>1, <1>2, ControlAlways, PTL DEF Spec

---------------------------------------------------------------------------
(* Away from the steps that take an exit off, what a control has in hand still rests
   or has nothing left to sell: the reserve is what the resting lists sell. *)
LEMMA ReserveRests ==
    ASSUME ControlInv, Running, pc \notin Between
    PROVE  Reserve = SumFunctionOnSet(Remainders, ListId)
<1>1. ASSUME NEW i \in ListId, ~Live(i), Kept(i) PROVE Remaining(i) = 0
  <2>1. lists[i].status # "open"
    BY <1>1 DEF Live
  <2>2. Waiting(i)
    <3>1. i \in target => pc \in FlattenSteps \union {"evenVerify", "evenPlace"}
      BY DEF ControlInv, SafeShape, ShapeInv, StageInv
    <3> QED BY <1>1, <3>1 DEF Kept, Waiting, Between, FlattenSteps
  <2> QED BY <2>1, <2>2 DEF ControlInv, OpenInv
<1>2. \A i \in ListId : Reserved[i] = Remainders[i]
  BY <1>1 DEF Reserved, Remainders, Kept
<1> QED BY <1>2, ListsFinite, SumSame DEF Reserve

(* A worker that runs without HALT never turns to the rest of its work while more units
   it bought than the watchdog missed, because other lists sold while it measured, are
   neither in a resting list nor of a BUY it polls. *)
THEOREM NothingUnattendedHolds == Spec => []NothingUnattended
<1>1. ControlInv /\ AccountInv => NothingUnattended
  <2> SUFFICES ASSUME ControlInv, AccountInv, worker = "up", ~halted, pc \notin Between
               PROVE  Held <= Attended + missed
    BY DEF NothingUnattended
  <2>1. Reserve = SumFunctionOnSet(Remainders, ListId)
    BY ReserveRests DEF Running
  <2> QED BY <2>1 DEF AccountInv, BalanceInv, Attended, Polled
<1> QED BY <1>1, BalanceAlways, PTL

(* Whatever executes while lists are canceled, replaced and flattened, the exits of a
   worker without HALT sell and offer more than its BUYs bought by no more units than
   executed between a control's read and its use. *)
THEOREM ExitsWithinBuysHolds == Spec => []ExitsWithinBuys
<1>1. ControlInv /\ AccountInv => ExitsWithinBuys
  <2> SUFFICES ASSUME ControlInv, AccountInv, ~halted
               PROVE  Held + resold >= SumFunctionOnSet(Remainders, ListId)
    BY DEF ExitsWithinBuys
  <2> USE DEF ControlInv, SafeShape, ShapeInv
  <2>1. Held + resold >= Reserve + PolledUnsold + Overhang
    BY DEF AccountInv, BalanceInv
  <2>2. \A i \in ListId : /\ Remainders[i] \in Int /\ Reserved[i] \in Int
                          /\ Remainders[i] <= Reserved[i]
    BY ReserveIsNumber DEF ReserveNumbers, Remainders, Kept
  <2>3. SumFunctionOnSet(Remainders, ListId) <= Reserve
    BY <2>2, ListsFinite, SumMonotone DEF Reserve
  <2>4. /\ Held \in Int /\ Reserve \in Nat /\ PolledUnsold \in Nat /\ Overhang \in Nat
        /\ SumFunctionOnSet(Remainders, ListId) \in Nat /\ resold \in Nat
    BY ReserveIsNumber, AccountIsNumber, OverIsNumber
    DEF ReserveNumbers, AccountNumbers, Ranges
  <2> QED BY <2>1, <2>3, <2>4
<1> QED BY <1>1, BalanceAlways, PTL

---------------------------------------------------------------------------
(* The watchdog leaves its polls without HALT in one way only. *)
LEMMA PollEnds ==
    ASSUME pc = "gapPoll", pc' = "protect", ~halted', Ranges, [Next]_vars
    PROVE  GapSoldOut
<1>1. ASSUME SafetyCancel PROVE GapSoldOut
  BY <1>1
  DEF SafetyCancel, SafetyCancelNotDue, SafetyCancelBegins, SafetyDelete,
      SafetyReadFails, SafetyDeleteUnconfirmed, SafetyCancelEnds, SafetyRead, Dies,
      Settled, exchangeVars, durableVars, localVars
<1>2. ASSUME GapFlatten PROVE GapSoldOut
  BY <1>2
  DEF GapFlatten, NoBreach, GapBalances, GapReleased, GapGivesUp, GapRead, GapCancel,
      GapCancelFails, GapSell, HaltThen, FlattenEnds, exchangeVars, durableVars,
      localVars
<1>3. ASSUME Sweep PROVE GapSoldOut
  BY <1>3
  DEF Sweep, SweepEnds, SettleRead, Protect, SweepDrops, SettleCancel, SweepReads,
      ProtectFails, exchangeVars, durableVars, localVars
<1>4. ASSUME TimeStop PROVE GapSoldOut
  BY <1>4
  DEF TimeStop, NoTimeStop, TimeStopUnavailable, TimeStopHalts, TimeSellRaises,
      TimeSell, HaltThen, Dies, exchangeVars, durableVars, localVars
<1>5. ASSUME Breakeven PROVE GapSoldOut
  BY <1>5
  DEF Breakeven, BreakevenNotDue, BreakevenRead, BreakevenConfirmed,
      BreakevenUnconfirmed, BreakevenEnds, BreakevenCancel, Rearm, RearmFails, HaltThen,
      BreakevenAborts, exchangeVars, durableVars, localVars
<1>6. ASSUME Gate PROVE GapSoldOut
  BY <1>6
  DEF Gate, GateOpens, GateHalts, exchangeVars, localVars
<1>7. ASSUME Exchange PROVE GapSoldOut
  BY <1>7
  DEF Exchange, BuyExecutes, BuyExpires, RiskCheck, LegExecutes, CancelTakesEffect,
      exchangeVars, durableVars, localVars
<1>8. ASSUME SessionEnds PROVE GapSoldOut
  BY <1>8
  DEF SessionEnds, Dies, exchangeVars, durableVars
<1>9. ASSUME Crash PROVE GapSoldOut
  BY <1>9
  DEF Crash, Dies, exchangeVars, durableVars
<1>10. ASSUME UNCHANGED vars PROVE GapSoldOut
  BY <1>10 DEF vars, exchangeVars, durableVars, localVars
<1> QED BY <1>1, <1>2, <1>3, <1>4, <1>5, <1>6, <1>7, <1>8, <1>9, <1>10 DEF Next, Tick

(* When the watchdog takes a breach for flat, the breached lists have no more left to sell
   than other lists sold while it measured the account. *)
SuccessLeaves == pc = "gapPoll" /\ pc' = "protect" /\ ~halted' => LeftInTarget <= missed

THEOREM SuccessLeavesMissed == Spec => [][SuccessLeaves]_vars
<1>1. ControlInv /\ AccountInv /\ [Next]_vars => [SuccessLeaves]_vars
  <2>1. ASSUME ControlInv, AccountInv, [Next]_vars,
               pc = "gapPoll", pc' = "protect", ~halted'
        PROVE  LeftInTarget <= missed
    <3> USE <2>1 DEF ControlInv, AccountInv, SafeShape, ShapeInv
    <3>1. GapSoldOut
      BY PollEnds
    <3>2. /\ Total \in Int /\ expected \in Nat /\ total0 \in Nat /\ LeftInTarget \in Nat
          /\ missed \in Nat
      BY AccountIsNumber, LeftIsNumber DEF AccountNumbers, LeftNumbers, LeftInTarget, Ranges
    <3>3. LeftInTarget <= expected /\ Residual = 0
      BY <3>1 DEF GapInv, GapSoldOut
    <3>4. Running /\ pc \in FlattenSteps
      BY <3>1 DEF GapSoldOut, durableVars, Running, FlattenSteps, Ranges
    <3>5. expected - (total0 - Total) - LeftInTarget + missed >= 0
      BY <3>4 DEF DriftInv, Drift
    <3>6. expected = 0 \/ expected - (total0 - Total) <= 0
      BY <3>2, <3>3 DEF Residual, AtLeastZero
    <3> QED BY <3>2, <3>3, <3>5, <3>6
  <2> QED BY <2>1 DEF SuccessLeaves
<1> QED BY <1>1, BalanceAlways, PTL DEF Spec
===============================================================================
