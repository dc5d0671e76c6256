---------------------------- MODULE ExitManagement ----------------------------
(***************************************************************************)
(* The ways a running worker takes inventory out of one symbol, in the      *)
(* order of a tick of its event loop: the safety cancel of open BUYs        *)
(* (panic, entry veto), the gap watchdog, the protection sweep, the time    *)
(* stop and the breakeven move.  Three of them remove a resting exit before *)
(* they know that another one stands.  A worker that died is started again  *)
(* behind the supervisor's recovery gate.                                   *)
(*                                                                         *)
(* One symbol, quantities in units of the exchange minimum.  Each lot has   *)
(* at most two OCO lists: the one protection placed and the one breakeven   *)
(* put in its place.  The protection sweep is reduced to its outcomes: it   *)
(* is the subject of FilledBuyProtection.  HALT is not lifted here.         *)
(***************************************************************************)
EXTENDS Integers, FiniteSets, Functions

CONSTANTS
    Lots,         \* BUYs of the session
    Qty,          \* quantity of each BUY
    Legacy,       \* base asset the account held before
    MaxFaults     \* bound: crashes, failed reads, lost answers, short fills

ASSUME ExitAssumption == /\ IsFiniteSet(Lots) /\ Qty \in Nat \ {0} /\ Legacy \in Nat
                         /\ MaxFaults \in Nat

VARIABLES
    buy,       \* status of each BUY at the exchange
    bought,    \* its executed quantity
    lists,     \* the OCO lists at the exchange
    flat,      \* quantity sold by MARKET orders
    prot,      \* journal: protection state of each BUY
    anchors,   \* breakeven state file: lists with a recorded fill price
    halted,
    worker,
    pc,        \* where the worker is in its tick
    tracked,   \* placed_ids
    todo,      \* orders a loop of cancels has still to visit
    cur,       \* BUY in hand
    target,    \* lists the gap watchdog or breakeven is taking off
    snap,      \* remaining quantities breakeven read
    expected,  \* expected_quantity of the gap watchdog
    total0,    \* initial_total of the gap watchdog
    resold,    \* history: units a control may offer again, see StaleSale
    missed,    \* history: units the watchdog may leave, see OtherSale
    faults

exchangeVars == <<buy, bought, lists, flat>>
durableVars == <<prot, anchors, halted>>
localVars == <<tracked, todo, cur, target, snap, expected, total0>>
historyVars == <<resold, missed>>
vars == <<exchangeVars, durableVars, worker, pc, localVars, historyVars, faults>>

ListId == Lots \X {"first", "raised"}
NoLot == "none"

First(l) == <<l, "first">>
Raised(l) == <<l, "raised">>

---------------------------------------------------------------------------
(* The account *)

Remaining(i) == lists[i].qty - lists[i].sold
Live(i) == lists[i].status \in {"open", "closing"}
Resting == {i \in ListId : Live(i)}
Remainders == [i \in ListId |-> IF Live(i) THEN Remaining(i) ELSE 0]
Sold == [i \in ListId |-> lists[i].sold]

Held == SumFunctionOnSet(bought, Lots) - SumFunctionOnSet(Sold, ListId) - flat
Total == Legacy + Held
Free == Total - SumFunctionOnSet(Remainders, ListId)

Closing(i) == [lists EXCEPT ![i].status = "closing"]
NewList(quantity) == [qty |-> quantity, sold |-> 0, status |-> "open"]

Disturb == /\ faults < MaxFaults
           /\ faults' = faults + 1

NoLocals == /\ tracked' = {} /\ todo' = {} /\ cur' = NoLot /\ target' = {}
            /\ snap' = [i \in ListId |-> 0] /\ expected' = 0 /\ total0' = 0

(* Mutant: an escaped exception ends the loop and leaves the process. *)
LoopDies == pc' = "down" /\ worker' = worker /\ NoLocals

Dies == worker' = "down" /\ pc' = "down" /\ NoLocals

(* Nothing is claimed, and nothing counted, after HALT. *)
HaltEndsHistory == IF halted' THEN resold' = 0 /\ missed' = 0 ELSE UNCHANGED historyVars

(* A control that ends with HALT; the loop goes on. *)
HaltThen(next) == /\ halted' = TRUE /\ pc' = next
                  /\ UNCHANGED <<exchangeVars, prot, anchors, worker>>

Init == /\ buy = [l \in Lots |-> "OPEN"]
        /\ bought = [l \in Lots |-> 0]
        /\ lists = [i \in ListId |-> [qty |-> 0, sold |-> 0, status |-> "none"]]
        /\ flat = 0
        /\ prot = [l \in Lots |-> "none"]
        /\ anchors = {}
        /\ halted = FALSE
        /\ worker = "up" /\ pc = "cancel"
        /\ tracked = Lots
        /\ todo = {} /\ cur = NoLot /\ target = {}
        /\ snap = [i \in ListId |-> 0] /\ expected = 0 /\ total0 = 0
        /\ resold = 0 /\ missed = 0 /\ faults = 0

---------------------------------------------------------------------------
(* The exchange and the supervisor *)

(* Units that execute between the read a control relies on and its use of it.  A
   list that sells after breakeven read it, or after the watchdog did and before
   it took the balance, is offered or sold once more. *)
StaleSale(i) == ~halted /\ (snap[i] > 0 \/ (pc = "gapBalances" /\ i \in target))

(* While the watchdog measures how far the account falls, a BUY that executes hides
   a sale of the lists in hand, and what other lists sell passes for one. *)
Measuring == ~halted /\ pc \in {"gapCancel", "gapPoll"}
OtherSale(i) == Measuring /\ i \notin target

BuyExecutes(l) ==
    /\ buy[l] = "OPEN"
    /\ bought' = [bought EXCEPT ![l] = @ + 1]
    /\ buy' = [buy EXCEPT ![l] = IF bought[l] + 1 = Qty THEN "FILLED" ELSE @]
    /\ resold' = IF Measuring THEN resold + 1 ELSE resold
    /\ UNCHANGED <<lists, flat, durableVars, worker, pc, localVars, missed, faults>>

LegExecutes(i) ==
    /\ Live(i)
    /\ lists' = [lists EXCEPT ![i].sold = @ + 1,
                              ![i].status = IF Remaining(i) = 1 THEN "done" ELSE @]
    /\ resold' = IF StaleSale(i) THEN resold + 1 ELSE resold
    /\ missed' = IF OtherSale(i) THEN missed + 1 ELSE missed
    /\ UNCHANGED <<buy, bought, flat, durableVars, worker, pc, localVars, faults>>

(* The answer to a cancel is an acceptance, not the end of the list. *)
CancelTakesEffect(i) ==
    /\ lists[i].status = "closing"
    /\ lists' = [lists EXCEPT ![i].status = "done"]
    /\ UNCHANGED <<buy, bought, flat, durableVars, worker, pc, localVars,
                   historyVars, faults>>

(* The supervisor's TTL cleanup. *)
BuyExpires(l) ==
    /\ buy[l] = "OPEN"
    /\ buy' = [buy EXCEPT ![l] = "CANCELED"]
    /\ UNCHANGED <<bought, lists, flat, durableVars, worker, pc, localVars,
                   historyVars, faults>>

(* verify_live_protection, in a risk check while the worker runs. *)
Verified(l) == IF Remaining(First(l)) = 0 THEN "CLOSED"
               ELSE IF lists[First(l)].sold > 0 THEN "PENDING" ELSE "PROTECTED"

RiskCheck(l) ==
    /\ prot[l] = "PROTECTED" /\ lists[First(l)].status = "done"
    /\ prot' = [prot EXCEPT ![l] = Verified(l)]
    /\ UNCHANGED <<exchangeVars, anchors, halted, worker, pc, localVars,
                   historyVars, faults>>

---------------------------------------------------------------------------
(* cancel_open_buys: panic and entry veto *)

SafetyCancelNotDue ==
    /\ pc = "cancel" /\ pc' = "gap"
    /\ UNCHANGED <<exchangeVars, durableVars, worker, localVars, historyVars,
                   faults>>

SafetyCancelBegins ==
    /\ pc = "cancel" /\ tracked # {}
    /\ pc' = "cancelRead" /\ todo' = tracked
    /\ UNCHANGED <<exchangeVars, durableVars, worker, tracked, cur, target,
                   snap, expected, total0, historyVars, faults>>

(* Only a BUY that executed nothing leaves the poll list. *)
Settled(l) == /\ tracked' = IF bought[l] = 0 THEN tracked \ {l} ELSE tracked
              /\ todo' = todo \ {l} /\ cur' = NoLot /\ pc' = "cancelRead"

SafetyRead(l) ==
    /\ pc = "cancelRead" /\ l \in todo
    /\ \/ /\ buy[l] # "OPEN" /\ Settled(l)
       \/ /\ buy[l] = "OPEN" /\ cur' = l /\ pc' = "cancelDelete"
          /\ UNCHANGED <<tracked, todo>>
    /\ UNCHANGED <<exchangeVars, durableVars, worker, target, snap, expected,
                   total0, historyVars, faults>>

SafetyReadFails ==
    /\ pc = "cancelRead" /\ todo # {} /\ Disturb
    /\ halted' = TRUE /\ Dies
    /\ HaltEndsHistory
    /\ UNCHANGED <<exchangeVars, prot, anchors>>

(* Accepted, or lost but applied, or the BUY was canceled by somebody else. *)
SafetyDelete ==
    /\ pc = "cancelDelete" /\ buy[cur] \in {"OPEN", "CANCELED"}
    /\ buy' = [buy EXCEPT ![cur] = "CANCELED"]
    /\ Settled(cur)
    /\ UNCHANGED <<bought, lists, flat, durableVars, worker, target, snap,
                   expected, total0, historyVars, faults>>

(* Lost and still open, or filled meanwhile: HALT, and the worker raises. *)
SafetyDeleteUnconfirmed ==
    /\ pc = "cancelDelete"
    /\ \/ buy[cur] = "OPEN" /\ Disturb
       \/ buy[cur] = "FILLED" /\ faults' = faults
    /\ halted' = TRUE /\ Dies
    /\ HaltEndsHistory
    /\ UNCHANGED <<exchangeVars, prot, anchors>>

SafetyCancelEnds ==
    /\ pc = "cancelRead" /\ todo = {} /\ pc' = "gap"
    /\ UNCHANGED <<exchangeVars, durableVars, worker, localVars, historyVars,
                   faults>>

---------------------------------------------------------------------------
(* emergency_gap_flatten *)

(* The price gives the breached lists: each has a stop of its own. *)
NoBreach ==
    /\ pc = "gap" /\ pc' = "protect"
    /\ UNCHANGED <<exchangeVars, durableVars, worker, localVars, historyVars,
                   faults>>

GapRead(breached) ==
    /\ pc = "gap" /\ breached # {}
    /\ target' = breached
    /\ expected' = SumFunctionOnSet(Remainders, breached)
    /\ pc' = "gapBalances"
    /\ UNCHANGED <<exchangeVars, durableVars, worker, tracked, todo, cur, snap,
                   total0, historyVars, faults>>

FlattenEnds == /\ target' = {} /\ expected' = 0 /\ total0' = 0
               /\ UNCHANGED <<tracked, todo, cur, snap>>

GapBalances ==
    /\ pc = "gapBalances"
    /\ IF Total < expected
       THEN HaltThen("protect") /\ FlattenEnds
       ELSE /\ total0' = Total /\ todo' = target /\ pc' = "gapCancel"
            /\ UNCHANGED <<exchangeVars, durableVars, worker, tracked, cur, target,
                           snap, expected>>
    /\ HaltEndsHistory
    /\ UNCHANGED <<faults>>

(* Each list in turn; an answer other than an acceptance is an error. *)
GapCancel(i) ==
    /\ pc = "gapCancel" /\ i \in todo /\ lists[i].status = "open"
    /\ lists' = Closing(i)
    /\ todo' = todo \ {i}
    /\ pc' = IF todo = {i} THEN "gapPoll" ELSE pc
    /\ UNCHANGED <<buy, bought, flat, durableVars, worker, tracked, cur, target,
                   snap, expected, total0, historyVars, faults>>

GapCancelFails(i) ==
    /\ pc = "gapCancel" /\ i \in todo
    /\ \/ lists[i].status = "done" /\ lists' = lists /\ faults' = faults
       \/ lists[i].status = "open" /\ lists' \in {lists, Closing(i)} /\ Disturb
    /\ halted' = TRUE /\ pc' = "protect"
    /\ todo' = {} /\ target' = {} /\ expected' = 0 /\ total0' = 0
    /\ HaltEndsHistory
    /\ UNCHANGED <<buy, bought, flat, prot, anchors, worker, tracked, cur, snap>>

AtLeastZero(n) == IF n < 0 THEN 0 ELSE n

(* Mutant: what the lists sold while they were canceled is not deducted. *)
ReadResidual == expected

(* remaining_expected: a fall of the account is taken for sales of the lists. *)
Residual == AtLeastZero(expected - AtLeastZero(total0 - Total))

Released == \A i \in target : ~Live(i)

GapSoldOut ==
    /\ pc = "gapPoll" /\ Released /\ Residual = 0
    /\ pc' = "protect" /\ FlattenEnds
    /\ UNCHANGED <<exchangeVars, durableVars, worker, historyVars, faults>>

(* expected now is the quantity of the MARKET SELL. *)
GapReleased ==
    /\ pc = "gapPoll" /\ Released /\ Residual > 0 /\ Free >= Residual
    /\ expected' = Residual /\ pc' = "gapSell"
    /\ UNCHANGED <<exchangeVars, durableVars, worker, tracked, todo, cur,
                   target, snap, total0, historyVars, faults>>

(* Mutant: the watchdog gives up in silence. *)
GapLeaves ==
    /\ pc = "gapPoll" /\ ~(Released /\ Residual = 0)
    /\ pc' = "protect" /\ FlattenEnds
    /\ UNCHANGED <<exchangeVars, durableVars, worker, historyVars, faults>>

(* Polls or time are used up, or a read fails. *)
GapGivesUp ==
    /\ pc = "gapPoll"
    /\ \/ ~(Released /\ Free >= Residual) /\ faults' = faults
       \/ Disturb
    /\ HaltThen("protect") /\ FlattenEnds
    /\ HaltEndsHistory

(* The most a MARKET SELL can execute. *)
Executable(quantity) == IF quantity <= Free THEN 0..quantity ELSE {0}

GapSell(executed) ==
    /\ pc = "gapSell" /\ executed \in Executable(expected)
    /\ \/ executed = expected /\ halted' = halted /\ faults' = faults
       \/ executed < expected /\ Free < expected /\ halted' = TRUE /\ faults' = faults
       \/ halted' = TRUE /\ Disturb
    /\ flat' = flat + executed
    /\ pc' = "protect" /\ FlattenEnds
    /\ HaltEndsHistory
    /\ UNCHANGED <<buy, bought, lists, prot, anchors, worker>>

---------------------------------------------------------------------------
(* protect_filled_buys, reduced to its outcomes *)

SweepEnds ==
    /\ pc = "protect" /\ pc' = "time"
    /\ UNCHANGED <<exchangeVars, durableVars, worker, localVars, historyVars,
                   faults>>

SweepDrops(l) ==
    /\ pc = "protect" /\ l \in tracked /\ buy[l] = "CANCELED" /\ bought[l] = 0
    /\ tracked' = tracked \ {l}
    /\ UNCHANGED <<exchangeVars, durableVars, worker, pc, todo, cur, target,
                   snap, expected, total0, historyVars, faults>>

(* settle_partial_entry: the cancel's own answer is not looked at. *)
SettleCancel(l) ==
    /\ pc = "protect" /\ l \in tracked /\ buy[l] = "OPEN" /\ bought[l] > 0
    /\ \/ buy' = [buy EXCEPT ![l] = "CANCELED"] /\ faults' = faults
       \/ buy' = buy /\ Disturb
    /\ cur' = l /\ pc' = "settle"
    /\ UNCHANGED <<bought, lists, flat, durableVars, worker, tracked, todo,
                   target, snap, expected, total0, historyVars>>

SettleRead ==
    /\ pc = "settle"
    /\ \/ /\ buy[cur] # "OPEN" /\ pc' = "place"
          /\ UNCHANGED <<halted, cur, faults>>
       \/ /\ buy[cur] = "OPEN" \/ faults < MaxFaults
          /\ halted' = TRUE /\ pc' = "protect" /\ cur' = NoLot
          /\ faults' = IF buy[cur] = "OPEN" THEN faults ELSE faults + 1
    /\ HaltEndsHistory
    /\ UNCHANGED <<exchangeVars, prot, anchors, worker, tracked, todo, target,
                   snap, expected, total0>>

SweepReads(l) ==
    /\ pc = "protect" /\ l \in tracked /\ buy[l] # "OPEN" /\ bought[l] > 0
    /\ prot[l] = "none"
    /\ cur' = l /\ pc' = "place"
    /\ UNCHANGED <<exchangeVars, durableVars, worker, tracked, todo, target,
                   snap, expected, total0, historyVars, faults>>

(* The fill price is saved after the list stands; a failed save is only logged. *)
Protect ==
    /\ pc = "place" /\ bought[cur] <= Free
    /\ lists' = [lists EXCEPT ![First(cur)] = NewList(bought[cur])]
    /\ prot' = [prot EXCEPT ![cur] = "PROTECTED"]
    /\ anchors' \in {anchors, anchors \union {First(cur)}}
    /\ tracked' = tracked \ {cur}
    /\ cur' = NoLot /\ pc' = "protect"
    /\ UNCHANGED <<buy, bought, flat, halted, worker, todo, target, snap,
                   expected, total0, historyVars, faults>>

(* No full coverage, no list: a MARKET SELL is tried, and HALT in any case.  A
   sale that is not confirmed stays with the BUY; later sweeps only raise. *)
ProtectFails(executed) ==
    /\ pc = "place" /\ executed \in Executable(bought[cur])
    /\ \/ Free < bought[cur] /\ faults' = faults
       \/ Disturb
    /\ flat' = flat + executed
    /\ \/ /\ executed = bought[cur] /\ tracked' = tracked \ {cur}
          /\ prot' = [prot EXCEPT ![cur] = "CLOSED"]
       \/ /\ tracked' = tracked
          /\ prot' = [prot EXCEPT ![cur] = IF executed > 0 THEN "PENDING" ELSE @]
    /\ halted' = TRUE /\ cur' = NoLot /\ pc' = "protect"
    /\ HaltEndsHistory
    /\ UNCHANGED <<buy, bought, lists, anchors, worker, todo, target, snap,
                   expected, total0>>

---------------------------------------------------------------------------
(* apply_time_stop *)

NoTimeStop ==
    /\ pc = "time" /\ pc' = "even"
    /\ UNCHANGED <<exchangeVars, durableVars, worker, localVars, historyVars,
                   faults>>

(* The BUY cannot be read, or its quantity is below the minimum. *)
TimeStopUnavailable ==
    /\ pc = "time" /\ tracked # {} /\ Disturb
    /\ HaltThen("even")
    /\ HaltEndsHistory
    /\ UNCHANGED <<localVars>>

(* The FIFO lots of the accounting may know less than the order executed. *)
TimeSell(l, quantity, executed) ==
    /\ pc = "time" /\ l \in tracked /\ buy[l] = "FILLED"
    /\ quantity \in 1..bought[l] /\ executed \in Executable(quantity)
    /\ quantity <= Free
    /\ IF executed = quantity THEN faults' = faults ELSE Disturb
    /\ flat' = flat + executed
    /\ cur' = l /\ pc' = "timeHalt"
    /\ UNCHANGED <<buy, bought, lists, durableVars, worker, tracked, todo,
                   target, snap, expected, total0, historyVars>>

(* Refusals and unknown outcomes are raised and end the worker; only an unknown
   outcome trips HALT. *)
TimeSellRaises(l, executed) ==
    /\ pc = "time" /\ l \in tracked /\ buy[l] = "FILLED"
    /\ executed \in Executable(bought[l])
    /\ \/ Free < bought[l] /\ halted' = halted /\ faults' = faults
       \/ executed = 0 /\ halted' = halted /\ Disturb
       \/ halted' = TRUE /\ Disturb
    /\ flat' = flat + executed
    /\ Dies
    /\ HaltEndsHistory
    /\ UNCHANGED <<buy, bought, lists, prot, anchors>>

TimeStopHalts ==
    /\ pc = "timeHalt"
    /\ tracked' = tracked \ {cur} /\ cur' = NoLot
    /\ HaltThen("time")
    /\ HaltEndsHistory
    /\ UNCHANGED <<todo, target, snap, expected, total0, faults>>

---------------------------------------------------------------------------
(* maintain_breakeven *)

Movable(i) == Live(i) /\ lists[i].sold > 0 /\ i \in anchors /\ i[2] = "first"

BreakevenNotDue ==
    /\ pc = "even" /\ pc' = "cancel"
    /\ UNCHANGED <<exchangeVars, durableVars, worker, localVars, historyVars,
                   faults>>

(* One read serves all the lists of the symbol. *)
BreakevenRead ==
    /\ pc = "even" /\ \E i \in ListId : Movable(i)
    /\ snap' = [i \in ListId |-> IF Movable(i) THEN Remaining(i) ELSE 0]
    /\ pc' = "evenNext"
    /\ UNCHANGED <<exchangeVars, durableVars, worker, tracked, todo, cur,
                   target, expected, total0, historyVars, faults>>

(* Every answer of the cancel, an error too, is followed by reads. *)
BreakevenCancel(i) ==
    /\ pc = "evenNext" /\ snap[i] > 0
    /\ \/ lists[i].status = "open" /\ lists' = Closing(i) /\ faults' = faults
       \/ lists[i].status # "open" /\ lists' = lists /\ faults' = faults
       \/ lists' = lists /\ Disturb
    /\ target' = {i} /\ pc' = "evenVerify"
    /\ UNCHANGED <<buy, bought, flat, durableVars, worker, tracked, todo, cur,
                   snap, expected, total0, historyVars>>

BreakevenConfirmed ==
    /\ pc = "evenVerify" /\ Released
    /\ pc' = "evenPlace"
    /\ UNCHANGED <<exchangeVars, durableVars, worker, localVars, historyVars,
                   faults>>

BreakevenAborts == /\ target' = {} /\ snap' = [i \in ListId |-> 0]
                   /\ HaltThen("cancel")
                   /\ UNCHANGED <<tracked, todo, cur, expected, total0>>

BreakevenUnconfirmed ==
    /\ pc = "evenVerify"
    /\ \/ ~Released /\ faults' = faults
       \/ Disturb
    /\ BreakevenAborts
    /\ HaltEndsHistory

Rearm(i) ==
    /\ pc = "evenPlace" /\ i \in target /\ snap[i] <= Free
    /\ lists' = [lists EXCEPT ![Raised(i[1])] = NewList(snap[i])]
    /\ anchors' = (anchors \ {i}) \union {Raised(i[1])}
    /\ target' = {} /\ snap' = [snap EXCEPT ![i] = 0] /\ pc' = "evenNext"
    /\ UNCHANGED <<buy, bought, flat, prot, halted, worker, tracked, todo, cur,
                   expected, total0, historyVars, faults>>

(* Mutant: a refused replacement is only logged. *)
RearmLogged(i) ==
    /\ pc = "evenPlace" /\ i \in target
    /\ Disturb
    /\ target' = {} /\ snap' = [j \in ListId |-> 0] /\ pc' = "cancel"
    /\ UNCHANGED <<exchangeVars, durableVars, worker, tracked, todo, cur,
                   expected, total0, historyVars>>

(* Refused, or the answer is lost: then the list may stand. *)
RearmFails(i) ==
    /\ pc = "evenPlace" /\ i \in target
    /\ \/ snap[i] > Free /\ lists' = lists /\ faults' = faults
       \/ lists' = lists /\ Disturb
       \/ /\ snap[i] <= Free /\ Disturb
          /\ lists' = [lists EXCEPT ![Raised(i[1])] = NewList(snap[i])]
    /\ halted' = TRUE /\ pc' = "cancel"
    /\ target' = {} /\ snap' = [j \in ListId |-> 0]
    /\ HaltEndsHistory
    /\ UNCHANGED <<buy, bought, flat, prot, anchors, worker, tracked, todo, cur,
                   expected, total0>>

BreakevenEnds ==
    /\ pc = "evenNext" /\ \A i \in ListId : snap[i] = 0
    /\ pc' = "cancel"
    /\ UNCHANGED <<exchangeVars, durableVars, worker, localVars, historyVars,
                   faults>>

---------------------------------------------------------------------------
(* Sessions *)

(* loop_minutes are over: the worker leaves between two ticks. *)
SessionEnds ==
    /\ pc = "cancel" /\ Dies
    /\ UNCHANGED <<exchangeVars, durableVars, historyVars, faults>>

Crash == /\ worker = "up" /\ Disturb /\ Dies
         /\ UNCHANGED <<exchangeVars, durableVars, historyVars>>

(* Mutant: a fill without protection does not stop the gate. *)
NothingUnprotected == {}

(* pre_running_recovery_gate: fills without a protection the journal trusts *)
Unprotected == {l \in Lots : bought[l] > 0 /\ prot[l] \in {"none", "PENDING"}}

(* ... and protections that neither rest nor sold everything. *)
Broken == {l \in Lots : /\ prot[l] = "PROTECTED" /\ ~Live(First(l))
                        /\ Remaining(First(l)) > 0}

(* Lists accepted for cancellation are gone when a new worker is started. *)
GateRuns == /\ worker = "down" /\ ~halted
            /\ \A i \in ListId : lists[i].status # "closing"

GateOpens ==
    /\ GateRuns /\ Unprotected = {} /\ Broken = {}
    /\ worker' = "up" /\ pc' = "cancel"
    /\ tracked' = {l \in Lots : prot[l] = "none" /\ buy[l] # "CANCELED"}
    /\ prot' = [l \in Lots |-> IF prot[l] = "PROTECTED" /\ ~Live(First(l))
                               THEN "CLOSED" ELSE prot[l]]
    /\ missed' = 0
    /\ UNCHANGED <<exchangeVars, anchors, halted, todo, cur, target, snap,
                   expected, total0, resold, faults>>

GateHalts ==
    /\ GateRuns
    /\ \/ Unprotected # {} /\ prot' = prot
       \/ /\ Unprotected = {}
          /\ \E l \in Broken : prot' = [prot EXCEPT ![l] = Verified(l)]
    /\ halted' = TRUE
    /\ HaltEndsHistory
    /\ UNCHANGED <<exchangeVars, anchors, worker, pc, localVars,
                   faults>>

---------------------------------------------------------------------------
SafetyCancel == \/ SafetyCancelNotDue \/ SafetyCancelBegins \/ SafetyDelete
                \/ SafetyReadFails \/ SafetyDeleteUnconfirmed \/ SafetyCancelEnds
                \/ \E l \in Lots : SafetyRead(l)

GapFlatten == \/ NoBreach \/ GapBalances \/ GapSoldOut \/ GapReleased \/ GapGivesUp
              \/ \E breached \in SUBSET Resting : GapRead(breached)
              \/ \E i \in ListId : GapCancel(i) \/ GapCancelFails(i)
              \/ \E n \in 0..(Qty * Cardinality(Lots)) : GapSell(n)

Sweep == \/ SweepEnds \/ SettleRead \/ Protect
         \/ \E l \in Lots : SweepDrops(l) \/ SettleCancel(l) \/ SweepReads(l)
         \/ \E n \in 0..Qty : ProtectFails(n)

TimeStop == \/ NoTimeStop \/ TimeStopUnavailable \/ TimeStopHalts
            \/ \E l \in Lots, n \in 0..Qty : TimeSellRaises(l, n)
            \/ \E l \in Lots, q \in 1..Qty, n \in 0..Qty : TimeSell(l, q, n)

Breakeven == \/ BreakevenNotDue \/ BreakevenRead \/ BreakevenConfirmed
             \/ BreakevenUnconfirmed \/ BreakevenEnds
             \/ \E i \in ListId : BreakevenCancel(i) \/ Rearm(i) \/ RearmFails(i)

Tick == SafetyCancel \/ GapFlatten \/ Sweep \/ TimeStop \/ Breakeven

Gate == GateOpens \/ GateHalts

Exchange == \/ \E l \in Lots : BuyExecutes(l) \/ BuyExpires(l) \/ RiskCheck(l)
            \/ \E i \in ListId : LegExecutes(i) \/ CancelTakesEffect(i)

Next == Tick \/ Gate \/ Exchange \/ SessionEnds \/ Crash

(* The loop runs while the worker lives, the supervisor starts a dead worker
   again, and the exchange ends what it accepted to cancel. *)
Fairness == /\ WF_vars(Tick)
            /\ WF_vars(Gate)
            /\ WF_vars(\E i \in ListId : CancelTakesEffect(i))

Spec == Init /\ [][Next]_vars

FairSpec == Spec /\ Fairness

---------------------------------------------------------------------------
(* Properties *)

(* Every variable stays in its domain: units are neither negative nor more than
   what was ordered, and a dead worker keeps no local state. *)
TypeOK ==
    /\ buy \in [Lots -> {"OPEN", "FILLED", "CANCELED"}]
    /\ bought \in [Lots -> 0..Qty]
    /\ lists \in [ListId -> [qty : 0..Qty, sold : 0..Qty,
                             status : {"none", "open", "closing", "done"}]]
    /\ \A i \in ListId : Remaining(i) >= 0
    /\ flat \in Nat /\ Free >= 0
    /\ prot \in [Lots -> {"none", "PENDING", "PROTECTED", "CLOSED"}]
    /\ anchors \subseteq ListId
    /\ halted \in BOOLEAN /\ faults \in 0..MaxFaults
    /\ worker \in {"up", "down"}
    /\ pc = "down" <=> worker = "down"
    /\ tracked \subseteq Lots /\ cur \in Lots \union {NoLot}
    /\ todo \subseteq Lots \/ todo \subseteq ListId
    /\ target \subseteq ListId /\ snap \in [ListId -> 0..Qty]
    /\ expected \in Nat /\ total0 \in Nat
    /\ resold \in Nat /\ missed \in Nat

(* Units in a resting list, or of a BUY the worker still polls. *)
Attended == SumFunctionOnSet(Remainders, ListId) + SumFunctionOnSet(bought, tracked)

(* Steps between the end of an exit and the one that takes its place. *)
Between == {"gapCancel", "gapPoll", "gapSell", "evenVerify", "evenPlace"}

(* A worker that runs without HALT never turns to the rest of its work while units
   it bought are neither in a resting list nor of a BUY it polls: the gap watchdog,
   breakeven, the time stop and the safety cancel each finish or trip HALT.  The
   only units that can escape are those other lists sold while the watchdog
   measured the account. *)
NothingUnattended ==
    worker = "up" /\ ~halted /\ pc \notin Between => Held <= Attended + missed

(* Whatever executes while lists are canceled, replaced and flattened, and wherever
   a crash falls, a worker without HALT never sells or offers more of what the
   account held before than the units that executed behind a control's back,
   between its read and its use of it. *)
ExitsWithinBuys ==
    ~halted => Held + resold >= SumFunctionOnSet(Remainders, ListId)

(* The recovery gate lets a worker start only when every unit bought rests in a
   list or belongs to a BUY the new worker polls: exits that a crash interrupted,
   and lists that breakeven moved without telling the journal, end in HALT. *)
RestartIsAttended ==
    [][worker = "down" /\ worker' = "up" => Held' <= Attended']_vars

(* Units that no list and no polled BUY covers, and the watchdog did not mistake,
   are sold, covered again or brought to HALT: by the control that freed them, or
   by the gate after a crash. *)
UnattendedResolves == []<>(halted \/ Held <= Attended + missed)

(* The watchdog leaves its polls without HALT only if the breached lists sold
   everything, or a MARKET SELL follows. *)
SuccessIsFlat ==
    [][(pc = "gapPoll" /\ pc' = "protect" /\ ~halted')
          => \A i \in target : Remaining(i) = 0]_vars
=============================================================================
