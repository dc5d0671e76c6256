--------------------------- MODULE FilledBuyProtection ---------------------------
(***************************************************************************)
(* From a filled BUY to its protection: protect_filled_buys of one worker,  *)
(* with recover_existing_protection, place_oco_sell, the emergency MARKET   *)
(* flatten and its place_market_order, the journal's protection             *)
(* transactions, the fill sync of poll_trades, and worker restarts.         *)
(* A lot is one BUY with its settled net quantity; a sell is one journal    *)
(* SELL intent, an OCO list or a MARKET order.  How the BUY got on the book *)
(* is module OrderSubmission.  Prices only matter by being equal or not.    *)
(* Every code path that raises before the lot is protected ends the same    *)
(* way, in HALT with the lot still tracked: that is the action StepFails.   *)
(***************************************************************************)
EXTENDS Integers, FiniteSets, Functions

CONSTANTS
    Lot,              \* the BUYs placed by the batch
    NoLot,
    Size,             \* net quantity each BUY acquires when it fills
    Legacy,           \* free base inventory the program did not buy
    Price,            \* take-profit prices a plan may choose
    NoPrice,
    MaxSells,         \* bound: SELL intents the journal can hold
    MaxCrashes,       \* bound: worker crashes
    SharedPurpose     \* the BUYs share the 12 characters of their id in the purpose

ASSUME ProtectionAssumption == /\ NoLot \notin Lot
                               /\ NoPrice \notin Price
                               /\ IsFiniteSet(Lot)
                               /\ Size \in [Lot -> Nat \ {0}]
                               /\ Legacy \in Nat
                               /\ MaxSells \in Nat
                               /\ MaxCrashes \in Nat
                               /\ SharedPurpose \in BOOLEAN

(* Sells are numbered in the order of their created_at. *)
Sell == 1..MaxSells
NoSell == 0

VARIABLES
    bought,   \* exchange: the BUYs that have filled
    parent,   \* journal: state of each BUY intent
    nextSell, \* the next SELL intent
    intent,   \* journal: immutable columns of each SELL intent
    child,    \* journal: state of each SELL intent
    legs,     \* journal: sells whose verified legs are stored
    listed,   \* journal: sells whose orderListId is stored
    exits,    \* journal: sells with a row in order_partial_protection_exits
    status,   \* exchange: status of the list or order
    sold,     \* exchange: quantity it has executed
    wire,     \* sells whose POST was sent and neither answered nor lost
    pc,       \* where protect_filled_buys is
    cur,      \* the lot it is working on
    sell,     \* the SELL intent it is working on
    seen,     \* listStatusType it read last
    reply,    \* answer to the POST it is waiting for
    tracked,  \* placed_ids, the BUYs the event loop polls
    halted,   \* the persistent HALT marker exists
    crashes,
    abandoned \* history: OCO intents a pass went on from without knowing them over

journalVars == <<parent, nextSell, intent, child, legs, listed, exits>>
exchangeVars == <<bought, status, sold, wire>>
workerVars == <<pc, cur, sell, seen, reply, tracked>>
vars == <<bought, parent, nextSell, intent, child, legs, listed, exits, status,
          sold, wire, pc, cur, sell, seen, reply, tracked, halted, crashes, abandoned>>

---------------------------------------------------------------------------
(* Journal vocabulary *)

BuyActive == {"PREPARED", "UNKNOWN", "SUBMITTED", "PARTIALLY_FILLED",
              "FILLED", "PROTECTION_PENDING"}

SellActive == {"PREPARED", "UNKNOWN", "SUBMITTED", "PARTIALLY_FILLED", "PROTECTED"}

Nonterminal == BuyActive \ {"FILLED"}

NoIntent == [lot |-> NoLot, kind |-> "none", qty |-> 0, price |-> NoPrice]
Known == {c \in Sell : intent[c] # NoIntent}
ChildrenOf(l) == {c \in Known : intent[c].lot = l}
Newest(S) == {c \in S : \A d \in S : d <= c}

(* protection_for_parent: the newest SELL child, of whatever type. *)
ProtectionFor(l) == Newest(ChildrenOf(l))

(* The recorded partial exits of a lot, with what each sold. *)
ExitsOf(l) == [c \in exits \cap ChildrenOf(l) |-> sold[c]]

(* Mutant: an exit row is inserted twice. *)
RemainingTwice(l) == Size[l] - 2 * SumFunction(ExitsOf(l))

(* remaining_inventory: what the lot acquired minus its recorded partial exits. *)
Remaining(l) == Size[l] - SumFunction(ExitsOf(l))

SamePurpose(c) == SharedPurpose \/ intent[c].lot = cur

(* find_active for an OCO of the current lot at take-profit price p. *)
ActiveOco(p) == Newest({c \in Known : /\ intent[c].kind = "OCO"
                                      /\ SamePurpose(c)
                                      /\ intent[c].qty = Remaining(cur)
                                      /\ intent[c].price = p
                                      /\ child[c] \in SellActive})

(* find_active for a MARKET sell: the parent is not part of the key. *)
ActiveMarket == Newest({c \in Known : /\ intent[c].kind = "MARKET"
                                      /\ intent[c].qty = Remaining(cur)
                                      /\ child[c] \in SellActive})

---------------------------------------------------------------------------
(* Exchange vocabulary.  A list is "live" while both legs are open, "filled" *)
(* when one leg sold everything, and "canceled" when it ended otherwise,     *)
(* after a partial execution if sold > 0.                                    *)

Terminal(c) == status[c] \in {"filled", "canceled"}
Resting(c) == IF status[c] = "live" THEN intent[c].qty - sold[c] ELSE 0

(* What a sell takes from the base inventory: open orders lock it. *)
Commitment == [c \in Sell |-> sold[c] + Resting(c)]

(* Free base balance *)
Free == (Legacy + SumFunctionOnSet(Size, bought)) - SumFunctionOnSet(Commitment, Sell)

(* The exchange says that the list or order does not exist, and no POST of  *)
(* it may still arrive: Binance recvWindow has passed.                      *)
Absent(c) == status[c] = "absent" /\ c \notin wire

Waiting(c) == sell = c /\ pc \in {"oco-posted", "market-posted"}

(* Mutant: the exchange's status is stored as it is. *)
StatusAsIs(c) == status[c]

(* record_exchange_order of a MARKET sell; CANCELED stands for EXPIRED. *)
RecordedState(c) == CASE status[c] = "filled" -> "FILLED"
                      [] status[c] # "filled" /\ sold[c] > 0 -> "PROTECTION_PENDING"
                      [] OTHER -> "CANCELED"

(* Mutant: any execution confirms the flatten. *)
AnyExecution(c) == sold[c] > 0

(* _confirmed_market_fill *)
Confirmed(c) == status[c] = "filled" /\ sold[c] >= Remaining(cur)

(* verify_quantities: the list belongs to the current lot and, while it is  *)
(* active or closes the lot, covers exactly the residual.                   *)
VerifyQuantities(c) ==
    /\ intent[c].lot = cur
    /\ status[c] \in {"live", "filled"} => intent[c].qty = Remaining(cur)

---------------------------------------------------------------------------
Init == /\ bought = {}
        /\ parent = [l \in Lot |-> "SUBMITTED"]
        /\ nextSell = 1
        /\ intent = [c \in Sell |-> NoIntent]
        /\ child = [c \in Sell |-> "none"]
        /\ legs = {}
        /\ listed = {}
        /\ exits = {}
        /\ status = [c \in Sell |-> "absent"]
        /\ sold = [c \in Sell |-> 0]
        /\ wire = {}
        /\ pc = "idle"
        /\ cur = NoLot
        /\ sell = NoSell
        /\ seen = "none"
        /\ reply = "none"
        /\ tracked = Lot
        /\ halted = FALSE
        /\ crashes = 0
        /\ abandoned = {}

---------------------------------------------------------------------------
(* Worker steps in general *)

At(p) == pc = p
Goto(p, c) == /\ pc' = p
              /\ sell' = c
              /\ seen' = "none"
              /\ reply' = "none"
              /\ UNCHANGED <<cur, tracked>>

(* The pass over the current lot ends; the lot stays in keep. *)
EndPass(keep) == /\ pc' = "idle"
                 /\ cur' = NoLot
                 /\ sell' = NoSell
                 /\ seen' = "none"
                 /\ reply' = "none"
                 /\ tracked' = keep

Untrack == EndPass(tracked \ {cur})

Halt == /\ halted' = TRUE
        /\ EndPass(tracked)

SetBoth(c, state) == /\ child' = [child EXCEPT ![c] = state]
                     /\ parent' = [parent EXCEPT ![cur] = state]

(* mark_failed of the child, mark_protection_pending of its parent: two     *)
(* transactions in a row.  Taken as one step, as prepare and                *)
(* mark_protection_pending below, because every reader treats a FILLED      *)
(* parent like a PROTECTION_PENDING one.                                    *)
Reopen(c) == /\ child' = [child EXCEPT ![c] = "FAILED"]
             /\ parent' = [parent EXCEPT ![cur] = "PROTECTION_PENDING"]

(* An exception reaches the final protection boundary. *)
StepFails == /\ pc \notin {"down", "idle", "market-posted"}
             /\ Halt
             /\ UNCHANGED <<journalVars, exchangeVars, crashes, abandoned>>

(* The BUY itself cannot be read. *)
PollFails == /\ At("idle")
             /\ tracked # {}
             /\ Halt
             /\ UNCHANGED <<journalVars, exchangeVars, crashes, abandoned>>

(* A filled BUY is recorded, whatever the journal said of it before, and    *)
(* its fills are settled.                                                   *)
Poll(l) == /\ At("idle")
           /\ l \in tracked
           /\ l \in bought
           /\ parent' = [parent EXCEPT ![l] = "FILLED"]
           /\ pc' = "recover"
           /\ cur' = l
           /\ UNCHANGED <<nextSell, intent, child, legs, listed, exits,
                          exchangeVars, sell, seen, reply, tracked, halted, crashes, abandoned>>

---------------------------------------------------------------------------
(* recover_existing_protection *)

RecoverNothing == /\ At("recover")
                  /\ ProtectionFor(cur) = {}
                  /\ Goto("size", NoSell)
                  /\ UNCHANGED <<journalVars, exchangeVars, halted, crashes, abandoned>>

(* A MARKET child that exists raises; one the exchange does not know is no  *)
(* protection, and hides any OCO prepared before it.                        *)
RecoverMarket(c) == /\ At("recover")
                    /\ c \in ProtectionFor(cur)
                    /\ intent[c].kind = "MARKET"
                    /\ Absent(c)
                    /\ Goto("size", NoSell)
                    /\ UNCHANGED <<journalVars, exchangeVars, halted, crashes, abandoned>>

ListStatusType(c) == IF status[c] = "live" THEN "EXEC_STARTED" ELSE "ALL_DONE"

(* The list is read first; an absent or unreadable one raises. *)
ReadList(from, to, c) == /\ At(from)
                         /\ status[c] # "absent"
                         /\ pc' = to
                         /\ sell' = c
                         /\ seen' = ListStatusType(c)
                         /\ UNCHANGED <<journalVars, exchangeVars, cur, reply,
                                        tracked, halted, crashes, abandoned>>

RecoverList(c) == /\ c \in ProtectionFor(cur)
                  /\ intent[c].kind = "OCO"
                  /\ ReadList("recover", "legs", c)

(* Both legs are open: mark_verified_protected, one transaction. *)
LegsActive == /\ At("legs")
              /\ seen = "EXEC_STARTED"
              /\ status[sell] = "live"
              /\ VerifyQuantities(sell)
              /\ SetBoth(sell, "PROTECTED")
              /\ legs' = legs \cup {sell}
              /\ listed' = listed \cup {sell}
              /\ Untrack
              /\ UNCHANGED <<nextSell, intent, exits, exchangeVars, halted, crashes, abandoned>>

(* Mutant: a list that was just executing counts as protection. *)
LegsEndedDone == /\ At("legs")
                 /\ seen = "EXEC_STARTED"
                 /\ Terminal(sell)
                 /\ Untrack
                 /\ UNCHANGED <<journalVars, exchangeVars, halted, crashes, abandoned>>

(* The legs ended after the list had been read as EXEC_STARTED: recovery    *)
(* reports that there is no protection, and records nothing.                *)
LegsEndedMeanwhile == /\ At("legs")
                      /\ seen = "EXEC_STARTED"
                      /\ Terminal(sell)
                      /\ VerifyQuantities(sell)
                      /\ Goto("size", NoSell)
                      /\ abandoned' = abandoned \cup {sell}
                      /\ UNCHANGED <<journalVars, exchangeVars, halted, crashes>>

(* The list ended without a fill: mark_failed and mark_protection_pending. *)
LegsCanceled == /\ At("legs")
                /\ seen = "ALL_DONE"
                /\ status[sell] = "canceled" /\ sold[sell] = 0
                /\ VerifyQuantities(sell)
                /\ Reopen(sell)
                /\ Goto("size", NoSell)
                /\ UNCHANGED <<nextSell, intent, legs, listed, exits, exchangeVars,
                               halted, crashes, abandoned>>

(* One leg sold: its identity is stored before the exit is recorded. *)
LegsClosed(from, to) == /\ At(from)
                        /\ seen = "ALL_DONE"
                        /\ Terminal(sell) /\ sold[sell] > 0
                        /\ VerifyQuantities(sell)
                        /\ legs' = legs \cup {sell}
                        /\ Goto(to, sell)
                        /\ UNCHANGED <<parent, nextSell, intent, child, listed,
                                       exits, exchangeVars, halted, crashes, abandoned>>

(* require_exact_exit: the stored list sold the complete residual. *)
ExactExit(c, l) == /\ c \in legs \cap listed
                   /\ status[c] = "filled"
                   /\ intent[c].qty = Remaining(l)

(* mark_exact_lifecycle_closed *)
CloseExact == /\ At("exit") \/ At("reuse-exit")
              /\ ExactExit(sell, cur)
              /\ SetBoth(sell, "CLOSED")
              /\ Untrack
              /\ UNCHANGED <<nextSell, intent, legs, listed, exits, exchangeVars,
                             halted, crashes, abandoned>>

(* Mutant: the quantity that was sold is not recorded. *)
UnrecordedExit(c) == /\ Reopen(c)
                     /\ UNCHANGED exits

(* record_partial_protection_exit, one transaction *)
PartialExit(c) == /\ Reopen(c)
                  /\ exits' = exits \cup {c}

RecordPartialExit == /\ At("exit")
                     /\ status[sell] = "canceled"
                     /\ PartialExit(sell)
                     /\ Goto("size", NoSell)
                     /\ UNCHANGED <<nextSell, intent, legs, listed, exchangeVars,
                                    halted, crashes, abandoned>>

---------------------------------------------------------------------------
(* protect_filled_buys: size the protection and choose how to protect *)

(* require_full_inventory_coverage: the whole residual, or nothing. *)
Covered == Remaining(cur) > 0 /\ Free >= Remaining(cur)

(* Partial exits already sold the lot. *)
NothingLeft == /\ At("size")
               /\ Remaining(cur) = 0
               /\ Untrack
               /\ UNCHANGED <<journalVars, exchangeVars, halted, crashes, abandoned>>

(* The market already crossed the planned OCO prices. *)
PlanCrossed == /\ At("size")
               /\ Covered
               /\ Goto("flatten", NoSell)
               /\ UNCHANGED <<journalVars, exchangeVars, halted, crashes, abandoned>>

---------------------------------------------------------------------------
(* place_oco_sell *)

(* prepare and mark_protection_pending *)
PrepareSell(kind, p, state) ==
    /\ nextSell <= MaxSells
    /\ intent' = [intent EXCEPT ![nextSell] =
                     [lot |-> cur, kind |-> kind, qty |-> Remaining(cur), price |-> p]]
    /\ nextSell' = nextSell + 1
    /\ parent' = [parent EXCEPT ![cur] = state]

PlanOco(p) == /\ At("size")
              /\ Covered
              /\ ActiveOco(p) = {}
              /\ PrepareSell("OCO", p, "PROTECTION_PENDING")
              /\ child' = [child EXCEPT ![nextSell] = "PREPARED"]
              /\ Goto("oco-prepared", nextSell)
              /\ UNCHANGED <<legs, listed, exits, exchangeVars, halted, crashes, abandoned>>

(* An active intent of the same plan is read before anything is sent. *)
ReuseList(p, c) == /\ At("size")
                   /\ Covered
                   /\ c \in ActiveOco(p)
                   /\ ReadList("size", "reuse-legs", c)

(* It is not on the exchange: the same id is sent again.  An intent of      *)
(* another lot conflicts with its immutable columns and raises.             *)
ReuseAbsent(p, c) == /\ At("size")
                     /\ Covered
                     /\ c \in ActiveOco(p)
                     /\ Absent(c)
                     /\ intent[c].lot = cur
                     /\ parent' = [parent EXCEPT ![cur] = "PROTECTION_PENDING"]
                     /\ Goto("oco-prepared", c)
                     /\ UNCHANGED <<nextSell, intent, child, legs, listed, exits,
                                    exchangeVars, halted, crashes, abandoned>>

(* The lookup fails: the intent is marked UNKNOWN and the pass raises. *)
ReuseUnreadable(c) == /\ At("size")
                      /\ Covered
                      /\ \E p \in Price : c \in ActiveOco(p)
                      /\ child' = [child EXCEPT ![c] = "UNKNOWN"]
                      /\ Halt
                      /\ UNCHANGED <<parent, nextSell, intent, legs, listed, exits,
                                     exchangeVars, crashes, abandoned>>

(* The reused list ended without a fill: a new one takes its place. *)
ReuseCanceled == /\ At("reuse-legs")
                 /\ seen = "ALL_DONE"
                 /\ status[sell] = "canceled" /\ sold[sell] = 0
                 /\ VerifyQuantities(sell)
                 /\ PrepareSell("OCO", intent[sell].price, "PROTECTION_PENDING")
                 /\ child' = [child EXCEPT ![sell] = "FAILED", ![nextSell] = "PREPARED"]
                 /\ Goto("oco-prepared", nextSell)
                 /\ UNCHANGED <<legs, listed, exits, exchangeVars, halted, crashes, abandoned>>

(* A partial execution of the reused list is recorded, then the pass raises. *)
ReusePartial == /\ At("reuse-exit")
                /\ status[sell] = "canceled"
                /\ PartialExit(sell)
                /\ Halt
                /\ UNCHANGED <<nextSell, intent, legs, listed, exchangeVars, crashes, abandoned>>

(* Both legs of the reused list are open: record_order_list, then           *)
(* mark_verified_protected.                                                 *)
ReuseActive == /\ At("reuse-legs")
               /\ seen = "EXEC_STARTED"
               /\ status[sell] = "live"
               /\ VerifyQuantities(sell)
               /\ child' = [child EXCEPT ![sell] = "SUBMITTED"]
               /\ listed' = listed \cup {sell}
               /\ Goto("reuse-protected", sell)
               /\ UNCHANGED <<parent, nextSell, intent, legs, exits, exchangeVars,
                              halted, crashes, abandoned>>

ReuseProtected == /\ At("reuse-protected")
                  /\ SetBoth(sell, "PROTECTED")
                  /\ legs' = legs \cup {sell}
                  /\ Untrack
                  /\ UNCHANGED <<nextSell, intent, listed, exits, exchangeVars,
                                 halted, crashes, abandoned>>

SendOco == /\ At("oco-prepared")
           /\ wire' = wire \cup {sell}
           /\ Goto("oco-posted", sell)
           /\ UNCHANGED <<journalVars, bought, status, sold, halted, crashes, abandoned>>

(* The acknowledged list and both its legs are read back and are open. *)
OcoVerified == /\ At("oco-posted")
               /\ reply = "accepted"
               /\ status[sell] = "live"
               /\ VerifyQuantities(sell)
               /\ Goto("record-list", sell)
               /\ UNCHANGED <<journalVars, exchangeVars, halted, crashes, abandoned>>

(* A definitive rejection: no OCO, so a LIVE worker flattens. *)
OcoRejected == /\ At("oco-posted")
               /\ reply = "refused"
               /\ Reopen(sell)
               /\ Goto("flatten", NoSell)
               /\ UNCHANGED <<nextSell, intent, legs, listed, exits, exchangeVars,
                              halted, crashes, abandoned>>

(* Mutant: a POST without an answer is taken for a rejection. *)
UnansweredIsRejected == /\ At("oco-posted")
                        /\ Reopen(sell)
                        /\ Goto("flatten", NoSell)
                        /\ UNCHANGED <<nextSell, intent, legs, listed, exits,
                                       exchangeVars, halted, crashes, abandoned>>

(* No answer, a malformed one, a duplicate leg id, or a list that cannot be *)
(* verified: mark_unknown.                                                  *)
OcoUnknown == /\ At("oco-posted")
              /\ child' = [child EXCEPT ![sell] = "UNKNOWN"]
              /\ Goto("oco-lookup", sell)
              /\ UNCHANGED <<parent, nextSell, intent, legs, listed, exits,
                             exchangeVars, halted, crashes, abandoned>>

(* Mutant: the lookup is not verified. *)
LookupAssumesOco == /\ At("oco-lookup")
                    /\ Goto("record-list", sell)
                    /\ UNCHANGED <<journalVars, exchangeVars, halted, crashes, abandoned>>

LookupFindsOco == /\ At("oco-lookup")
                  /\ status[sell] = "live"
                  /\ VerifyQuantities(sell)
                  /\ Goto("record-list", sell)
                  /\ UNCHANGED <<journalVars, exchangeVars, halted, crashes, abandoned>>

(* Absent, unreadable, already ended: place_oco_sell returns None, and the  *)
(* caller flattens as it does after a rejection.                            *)
LookupGivesUp == /\ At("oco-lookup")
                 /\ Goto("flatten", NoSell)
                 /\ abandoned' = abandoned \cup {sell}
                 /\ UNCHANGED <<journalVars, exchangeVars, halted, crashes>>

(* The confirmed OCO is written in three transactions: record_order_list,   *)
(* record_verified_protection_legs, mark_protected.                         *)
RecordList == /\ At("record-list")
              /\ child' = [child EXCEPT ![sell] = "SUBMITTED"]
              /\ listed' = listed \cup {sell}
              /\ Goto("record-legs", sell)
              /\ UNCHANGED <<parent, nextSell, intent, legs, exits, exchangeVars,
                             halted, crashes, abandoned>>

RecordLegs == /\ At("record-legs")
              /\ legs' = legs \cup {sell}
              /\ Goto("record-protected", sell)
              /\ UNCHANGED <<parent, nextSell, intent, child, listed, exits,
                             exchangeVars, halted, crashes, abandoned>>

MarkProtected == /\ At("record-protected")
                 /\ SetBoth(sell, "PROTECTED")
                 /\ Untrack
                 /\ UNCHANGED <<nextSell, intent, legs, listed, exits, exchangeVars,
                                halted, crashes, abandoned>>

---------------------------------------------------------------------------
(* _emergency_flatten_unprotected_fill and place_market_order *)

(* A new MARKET intent: none is active, or the active one is absent. *)
PlanMarket == /\ At("flatten")
              /\ \A c \in ActiveMarket : Absent(c)
              /\ PrepareSell("MARKET", NoPrice, parent[cur])
              /\ child' = [child EXCEPT ![nextSell] = "PREPARED"]
              /\ Goto("market-prepared", nextSell)
              /\ UNCHANGED <<legs, listed, exits, exchangeVars, halted, crashes, abandoned>>

(* The active MARKET intent of this quantity exists: its fill is taken for  *)
(* this lot's, whichever lot it was sent for.                               *)
AdoptMarket(c) == /\ At("flatten")
                  /\ c \in ActiveMarket
                  /\ status[c] # "absent"
                  /\ child' = [child EXCEPT ![c] = RecordedState(c)]
                  /\ Goto("market-answer", c)
                  /\ UNCHANGED <<parent, nextSell, intent, legs, listed, exits,
                                 exchangeVars, halted, crashes, abandoned>>

MarketUnreadable(c) == /\ At("flatten")
                       /\ c \in ActiveMarket
                       /\ child' = [child EXCEPT ![c] = "UNKNOWN"]
                       /\ Halt
                       /\ UNCHANGED <<parent, nextSell, intent, legs, listed,
                                      exits, exchangeVars, crashes, abandoned>>

SendMarket == /\ At("market-prepared")
              /\ wire' = wire \cup {sell}
              /\ Goto("market-posted", sell)
              /\ UNCHANGED <<journalVars, bought, status, sold, halted, crashes, abandoned>>

MarketAnswered == /\ \/ At("market-posted") /\ reply = "accepted"
                     \/ At("market-lookup") /\ status[sell] # "absent"
                  /\ child' = [child EXCEPT ![sell] = RecordedState(sell)]
                  /\ Goto("market-answer", sell)
                  /\ UNCHANGED <<parent, nextSell, intent, legs, listed, exits,
                                 exchangeVars, halted, crashes, abandoned>>

MarketRejected == /\ At("market-posted")
                  /\ reply = "refused"
                  /\ child' = [child EXCEPT ![sell] = "FAILED"]
                  /\ Halt
                  /\ UNCHANGED <<parent, nextSell, intent, legs, listed, exits,
                                 exchangeVars, crashes, abandoned>>

(* No usable answer: UNKNOWN and one lookup, which fails in StepFails. *)
MarketUnknown == /\ At("market-posted")
                 /\ child' = [child EXCEPT ![sell] = "UNKNOWN"]
                 /\ Goto("market-lookup", sell)
                 /\ UNCHANGED <<parent, nextSell, intent, legs, listed, exits,
                                exchangeVars, halted, crashes, abandoned>>

(* Only a complete fill closes the parent. *)
CloseFlattened == /\ At("market-answer")
                  /\ Confirmed(sell)
                  /\ parent' = [parent EXCEPT ![cur] = "CLOSED"]
                  /\ Goto("flattened", sell)
                  /\ UNCHANGED <<nextSell, intent, child, legs, listed, exits,
                                 exchangeVars, halted, crashes, abandoned>>

(* HALT follows in a step of its own, and the lot leaves the poll list. *)
HaltFlattened == /\ At("flattened")
                 /\ halted' = TRUE
                 /\ Untrack
                 /\ UNCHANGED <<journalVars, exchangeVars, crashes, abandoned>>

---------------------------------------------------------------------------
(* poll_trades: on_fill closes a lifecycle whose stored leg has filled.     *)

OnFill(c) == LET l == intent[c].lot IN
             /\ At("idle")
             /\ ExactExit(c, l)
             /\ child' = [child EXCEPT ![c] = "CLOSED"]
             /\ parent' = [parent EXCEPT ![l] = "CLOSED"]
             /\ UNCHANGED <<nextSell, intent, legs, listed, exits, exchangeVars,
                            workerVars, halted, crashes, abandoned>>

---------------------------------------------------------------------------
(* The exchange *)

FillBuy(l) == /\ l \notin bought
              /\ bought' = bought \cup {l}
              /\ UNCHANGED <<journalVars, status, sold, wire, workerVars, halted, crashes, abandoned>>

Answer(c, r) == /\ wire' = wire \ {c}
                /\ reply' = IF Waiting(c) THEN r ELSE reply
                /\ UNCHANGED <<journalVars, bought, pc, cur, sell, seen, tracked,
                               halted, crashes, abandoned>>

(* A SELL is accepted when the free balance covers it.  A MARKET order      *)
(* executes at once; what the book cannot take expires.                     *)
Accept(c) == /\ c \in wire
             /\ status[c] = "absent"
             /\ Free >= intent[c].qty
             /\ \/ /\ intent[c].kind = "OCO"
                   /\ status' = [status EXCEPT ![c] = "live"]
                   /\ UNCHANGED sold
                \/ \E q \in 0..intent[c].qty :
                      /\ intent[c].kind = "MARKET"
                      /\ sold' = [sold EXCEPT ![c] = q]
                      /\ status' = [status EXCEPT ![c] =
                                       IF q = intent[c].qty THEN "filled" ELSE "canceled"]
             /\ Answer(c, "accepted")

Refuse(c) == /\ c \in wire
             /\ status[c] = "absent"
             /\ Answer(c, "refused")
             /\ UNCHANGED <<status, sold>>

(* The POST is lost, or its answer is, or it repeats an existing id. *)
Lose(c) == /\ c \in wire
           /\ Answer(c, reply)
           /\ UNCHANGED <<status, sold>>

(* A leg executes one unit. *)
Trade(c) == /\ status[c] = "live"
            /\ sold' = [sold EXCEPT ![c] = @ + 1]
            /\ status' = [status EXCEPT ![c] =
                             IF sold[c] + 1 = intent[c].qty THEN "filled" ELSE "live"]
            /\ UNCHANGED <<journalVars, bought, wire, workerVars, halted, crashes, abandoned>>

(* The list ends without selling everything: canceled outside, or expired. *)
EndList(c) == /\ status[c] = "live"
              /\ status' = [status EXCEPT ![c] = "canceled"]
              /\ UNCHANGED <<journalVars, bought, sold, wire, workerVars, halted, crashes, abandoned>>

---------------------------------------------------------------------------
(* Crashes, HALT and restarts *)

GoDown == /\ pc' = "down"
          /\ cur' = NoLot
          /\ sell' = NoSell
          /\ seen' = "none"
          /\ reply' = "none"
          /\ tracked' = {}
          /\ UNCHANGED <<journalVars, exchangeVars, halted, abandoned>>

Crash == /\ ~At("down")
         /\ crashes < MaxCrashes
         /\ crashes' = crashes + 1
         /\ GoDown

(* The worker ends with nothing left to poll; under HALT it is stopped. *)
Stop == /\ At("idle")
        /\ halted \/ tracked = {}
        /\ GoDown
        /\ UNCHANGED crashes

OperatorReset == /\ At("down")
                 /\ halted
                 /\ halted' = FALSE
                 /\ UNCHANGED <<journalVars, exchangeVars, workerVars, crashes, abandoned>>

Unreconciled == {c \in Known : intent[c].kind = "MARKET" /\ child[c] \in Nonterminal}

(* Mutant: recovery only looks for BUYs that are still open. *)
BuysOpen == {l \in Lot : parent[l] \in BuyActive \ {"FILLED", "PROTECTION_PENDING"}}

(* unresolved_buys *)
UnresolvedBuys == {l \in Lot : parent[l] \in BuyActive}

(* run_worker refuses to start under HALT, reconciles ordinary orders, then *)
(* recovers the unresolved BUYs.  OCO children are not queried.             *)
Boot == /\ At("down")
        /\ ~halted
        /\ \A c \in Unreconciled : status[c] # "absent" \/ Absent(c)
        /\ child' = [c \in Sell |->
                        IF c \notin Unreconciled THEN child[c]
                        ELSE IF status[c] = "absent" THEN "FAILED" ELSE RecordedState(c)]
        /\ parent' = [l \in Lot |->
                         IF l \notin UnresolvedBuys THEN parent[l]
                         ELSE IF l \in bought THEN "FILLED" ELSE "SUBMITTED"]
        /\ tracked' = UnresolvedBuys
        /\ pc' = "idle"
        /\ UNCHANGED <<nextSell, intent, legs, listed, exits, exchangeVars, cur,
                       sell, seen, reply, halted, crashes, abandoned>>

(* A startup query fails: the intent is marked UNKNOWN, HALT, no start. *)
BootFails == /\ At("down")
             /\ ~halted
             /\ \/ \E c \in Unreconciled :
                      /\ child' = [child EXCEPT ![c] = "UNKNOWN"]
                      /\ UNCHANGED parent
                \/ \E l \in UnresolvedBuys :
                      /\ parent' = [parent EXCEPT ![l] = "UNKNOWN"]
                      /\ UNCHANGED child
             /\ halted' = TRUE
             /\ UNCHANGED <<nextSell, intent, legs, listed, exits, exchangeVars,
                            workerVars, crashes, abandoned>>

---------------------------------------------------------------------------
Recovery == \/ RecoverNothing \/ NothingLeft \/ LegsActive \/ LegsEndedMeanwhile \/ LegsCanceled
            \/ LegsClosed("legs", "exit") \/ CloseExact \/ RecordPartialExit
            \/ \E c \in Sell : RecoverMarket(c) \/ RecoverList(c)

PlaceOco == \/ SendOco \/ OcoVerified \/ OcoRejected \/ OcoUnknown
            \/ LookupFindsOco \/ LookupGivesUp
            \/ RecordList \/ RecordLegs \/ MarkProtected
            \/ LegsClosed("reuse-legs", "reuse-exit") \/ ReuseCanceled \/ ReusePartial
            \/ ReuseActive \/ ReuseProtected
            \/ \E p \in Price : \/ PlanOco(p)
                                \/ \E c \in Sell : ReuseList(p, c) \/ ReuseAbsent(p, c)
            \/ \E c \in Sell : ReuseUnreadable(c)

Flatten == \/ PlanCrossed \/ PlanMarket \/ SendMarket \/ MarketAnswered
           \/ MarketRejected \/ MarketUnknown \/ CloseFlattened \/ HaltFlattened
           \/ \E c \in Sell : AdoptMarket(c) \/ MarketUnreadable(c)

Worker == \/ PollFails \/ StepFails \/ Recovery \/ PlaceOco \/ Flatten
          \/ \E l \in Lot : Poll(l)

Exchange == \/ \E l \in Lot : FillBuy(l)
            \/ \E c \in Sell : Accept(c) \/ Refuse(c) \/ Lose(c) \/ Trade(c) \/ EndList(c)

Restart == Boot \/ BootFails

Next == \/ Worker \/ Restart \/ Exchange \/ Crash \/ Stop \/ OperatorReset
        \/ \E c \in Sell : OnFill(c)

Spec == Init /\ [][Next]_vars

(* The event loop polls its BUYs and every step of a pass ends (each request *)
(* has a timeout); the supervisor starts a worker again.  Nothing obliges   *)
(* the exchange to fill or answer, or the operator to reset HALT.           *)
FairSpec == Spec /\ WF_vars(Worker) /\ WF_vars(Restart)

---------------------------------------------------------------------------
(* Properties *)

ChildState == {"none", "PREPARED", "UNKNOWN", "SUBMITTED", "PROTECTED", "FILLED",
               "PROTECTION_PENDING", "CANCELED", "FAILED", "CLOSED"}
WorkerPc == {"down", "idle", "recover", "legs", "exit", "size", "reuse-legs",
             "reuse-exit", "reuse-protected", "oco-prepared", "oco-posted", "oco-lookup",
             "record-list", "record-legs", "record-protected", "flatten",
             "market-prepared", "market-posted", "market-lookup", "market-answer",
             "flattened"}

(* Columns, exchange states and worker fields keep their ranges, and no     *)
(* order sells more than its quantity.                                      *)
TypeOK == /\ bought \subseteq Lot
          /\ parent \in [Lot -> {"SUBMITTED", "UNKNOWN", "FILLED",
                                 "PROTECTION_PENDING", "PROTECTED", "CLOSED"}]
          /\ nextSell \in 1..(MaxSells + 1)
          /\ intent \in [Sell -> [lot : Lot \cup {NoLot},
                                  kind : {"none", "OCO", "MARKET"},
                                  qty : Nat,
                                  price : Price \cup {NoPrice}]]
          /\ child \in [Sell -> ChildState]
          /\ legs \subseteq Sell /\ listed \subseteq Sell /\ exits \subseteq Sell
          /\ status \in [Sell -> {"absent", "live", "filled", "canceled"}]
          /\ sold \in [Sell -> Nat]
          /\ wire \subseteq Sell
          /\ pc \in WorkerPc
          /\ cur \in Lot \cup {NoLot}
          /\ sell \in Sell \cup {NoSell}
          /\ seen \in {"none", "EXEC_STARTED", "ALL_DONE"}
          /\ reply \in {"none", "accepted", "refused"}
          /\ tracked \subseteq Lot
          /\ halted \in BOOLEAN
          /\ crashes \in 0..MaxCrashes
          /\ abandoned \subseteq Sell
          /\ \A c \in Sell : sold[c] <= intent[c].qty

(* PROTECTED is never claimed of a lot without a list that the exchange     *)
(* created for this very lot, whose legs and list id are durable and whose  *)
(* quantity is the residual: the supervisor and the BUY gate trust it.  The *)
(* pass of another BUY may only mark the row UNKNOWN, after a failed read.  *)
ProtectedIsBacked ==
    \A l \in Lot : parent[l] = "PROTECTED" =>
        \E c \in ChildrenOf(l) : /\ child[c] \in {"PROTECTED", "UNKNOWN"}
                                 /\ c \in legs \cap listed
                                 /\ status[c] # "absent"
                                 /\ intent[c].qty = Remaining(l)

(* CLOSED is never claimed of a lot that still holds inventory: the flatten *)
(* was filled completely, or the list and the recorded exits sold it all.   *)
Sold(l) == SumFunctionOnSet(sold, ChildrenOf(l))
ClosedIsSold == \A l \in Lot : parent[l] = "CLOSED" => Sold(l) >= Size[l]

(* No failure, crash or HALT makes the program forget a filled BUY: until   *)
(* it is protected or closed, the event loop polls it, or no worker runs.   *)
NoFillForgotten ==
    \A l \in bought : parent[l] \in BuyActive /\ Remaining(l) # 0
                          => At("down") \/ l \in tracked

(* Managed and legacy inventory stay separate: a lot never sells or offers  *)
(* more than it bought, but for the OCO intents a pass went on from without *)
(* knowing them over, after a lookup that gave up or a list that ended      *)
(* between its two reads.  Nothing else oversells, whatever is lost, read   *)
(* late, refused, taken up again or interrupted.                            *)
Committed(l) == SumFunctionOnSet(Commitment, ChildrenOf(l))
LegacyUntouched ==
    \A l \in Lot : SumFunctionOnSet(Commitment, ChildrenOf(l) \ abandoned) <= Size[l]

(* Protection is complete: with the list on the book, every unit the lot    *)
(* bought has been sold or is on the book, through partial exits, restarts  *)
(* and replacements.                                                        *)
ProtectionIsComplete ==
    \A l \in Lot : parent[l] = "PROTECTED"
                   /\ (\E c \in ChildrenOf(l) : child[c] = "PROTECTED" /\ status[c] = "live")
                       => Committed(l) >= Size[l]

(* Every fill is protected or sold, or HALT calls the operator.  A lot that  *)
(* recorded exits sold in full may stay PROTECTION_PENDING.                 *)
FillsResolve ==
    \A l \in Lot : l \in bought ~> \/ parent[l] \in {"PROTECTED", "CLOSED"}
                                    \/ Remaining(l) = 0
                                    \/ halted
====================================================================================
