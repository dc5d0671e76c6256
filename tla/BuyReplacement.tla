------------------------------ MODULE BuyReplacement ------------------------------
(***************************************************************************)
(* Adaptive re-anchoring of resting BUYs (reanchor mode APPLY, atomic).  A  *)
(* supervisor pass lists the open orders, plans moves towards the current   *)
(* ladder, stops the symbol's worker, and sends one cancelReplace for each  *)
(* candidate: STOP_ON_FAILURE with ONLY_NEW.  The answer, or up to four     *)
(* reads, settle both orders; anything else leaves the replacement UNKNOWN  *)
(* and trips HALT.  Then the worker is started again, reconciles the        *)
(* journal, polls every unresolved BUY, and places new ladder BUYs.         *)
(*                                                                         *)
(* One symbol, equal quantities.  Submission, startup and protection are    *)
(* single steps here: they are the subjects of OrderSubmission and          *)
(* FilledBuyProtection.                                                     *)
(***************************************************************************)
EXTENDS Naturals, FiniteSets

CONSTANTS
    MaxOrders,    \* bound on the rows of the journal
    Level,        \* prices, in ticks: every tick between two of them
    Step,         \* largest move of one pass (reanchor_max_step_pct)
    MaxPerCycle,  \* reanchor_max_per_cycle
    Target,       \* target_buy_per_symbol
    MaxFaults     \* bound: crashes, failed reads, unconfirmed stops

ASSUME ReplacementAssumption == /\ MaxOrders \in Nat \ {0}
                                /\ Level \subseteq Nat /\ IsFiniteSet(Level)
                                /\ \A low, high \in Level : low..high \subseteq Level
                                /\ Step \in Nat \ {0}
                                /\ MaxPerCycle \in Nat /\ Target \in Nat
                                /\ MaxFaults \in Nat

Id == 1..MaxOrders
NoId == 0

VARIABLES
    nextId,    \* rows 1..nextId-1 exist, in the order of created_at
    journal,   \* state of each BUY intent
    level,     \* its price
    replaces,  \* metadata replaces_exchange_order_id, as the row of that order
    origin,    \* history: the ladder BUY a row descends from
    numbered,  \* rows with an exchange_order_id
    order,     \* status of each order at the exchange
    wire,      \* cancelReplace POSTs that may still arrive
    pc,        \* the supervisor's pass over the symbol
    plan,      \* candidates of the pass with their target prices
    cur,       \* replacement under way
    reply,     \* answer to its POST
    seen,      \* its status, as answered or read
    worker,    \* the symbol's worker
    tracked,   \* BUYs the worker polls
    halted,
    faults

journalVars == <<nextId, journal, level, replaces, origin, numbered>>
exchangeVars == <<order, wire>>
passVars == <<pc, plan, cur, reply, seen>>
workerVars == <<worker, tracked>>
vars == <<journalVars, exchangeVars, passVars, workerVars, halted, faults>>

---------------------------------------------------------------------------
(* States *)

BuyActive == {"PREPARED", "UNKNOWN", "SUBMITTED", "PARTIALLY_FILLED", "FILLED",
              "PROTECTION_PENDING"}

(* Mutant: moved BUYs are taken for the supervisor's own business. *)
NonterminalLadder == {i \in Id : /\ journal[i] \in BuyActive \ {"FILLED"}
                                 /\ replaces[i] = NoId}

Nonterminal == {i \in Id : journal[i] \in BuyActive \ {"FILLED"}}

(* Mutant: the status is stored as it was read. *)
StatusAsIs(status) == status

(* PARTLY_CANCELED stands for a terminal status with an executed quantity. *)
RecordedState(status) == CASE status = "NEW" -> "SUBMITTED"
                           [] status = "PARTLY_CANCELED" -> "PROTECTION_PENDING"
                           [] OTHER -> status

Open == {i \in Id : order[i] \in {"NEW", "PARTIALLY_FILLED"}}
Bought == {i \in Id : order[i] \in {"PARTIALLY_FILLED", "FILLED", "PARTLY_CANCELED"}}
Placed(status) == status \in {"NEW", "PARTIALLY_FILLED", "FILLED"}

Disturb == /\ faults < MaxFaults
           /\ faults' = faults + 1

---------------------------------------------------------------------------
Init == /\ nextId = 1
        /\ journal = [i \in Id |-> "none"]
        /\ level = [i \in Id |-> 0]
        /\ replaces = [i \in Id |-> NoId] /\ origin = [i \in Id |-> NoId]
        /\ numbered = {}
        /\ order = [i \in Id |-> "absent"]
        /\ wire = {}
        /\ pc = "idle" /\ plan = {} /\ cur = NoId /\ reply = "none" /\ seen = "absent"
        /\ worker = "down" /\ tracked = {}
        /\ halted = FALSE
        /\ faults = 0

---------------------------------------------------------------------------
(* Planning: plan_buy_reanchors *)

(* Best price first; BUYs at the same price in the order of the list. *)
Rank(i) == Cardinality({j \in Open : level[j] > level[i]
                                     \/ (level[j] = level[i] /\ j < i)})
DesiredAt(ladder, rank) ==
    CHOOSE d \in ladder : Cardinality({e \in ladder : e > d}) = rank

Lower(a, b) == IF a <= b THEN a ELSE b
TargetOf(i, ladder) == Lower(DesiredAt(ladder, Rank(i)), level[i] + Step)

(* Partly filled BUYs and young ones keep their rank and are not moved. *)
Candidates(ladder, young) ==
    {i \in Open : /\ order[i] = "NEW" /\ i \notin young
                  /\ Rank(i) < Cardinality(ladder)
                  /\ TargetOf(i, ladder) > level[i]}

FirstCandidates(ladder, young) ==
    {i \in Candidates(ladder, young) :
        Cardinality({j \in Candidates(ladder, young) : Rank(j) < Rank(i)}) < MaxPerCycle}

(* The ladder is what the pass computed below the market price. *)
Plan(ladder, young) ==
    LET moves == {[id |-> i, to |-> TargetOf(i, ladder)] :
                     i \in FirstCandidates(ladder, young)}
    IN /\ pc = "idle"
       /\ plan' = moves
       /\ pc' = IF moves = {} THEN "launch" ELSE "stop"
       /\ UNCHANGED <<journalVars, exchangeVars, cur, reply, seen, workerVars,
                      halted, faults>>

StopWorker == /\ pc = "stop"
              /\ worker' = "down" /\ tracked' = {}
              /\ pc' = "replace"
              /\ UNCHANGED <<journalVars, exchangeVars, plan, cur, reply, seen,
                             halted, faults>>

(* Mutant: the pass goes on although the worker may still run. *)
GoOn == plan' = plan /\ pc' = "replace"

Suppress == plan' = {} /\ pc' = "launch"

StopUnconfirmed == /\ pc = "stop"
                   /\ worker # "down"
                   /\ Disturb
                   /\ Suppress
                   /\ UNCHANGED <<journalVars, exchangeVars, cur, reply, seen,
                                  workerVars, halted>>

---------------------------------------------------------------------------
(* One replacement: atomic_cancel_replace_buy *)

IsNext(move) == /\ move \in plan
                /\ \A other \in plan : level[other.id] <= level[move.id]

(* The order's row carries no exchange id: nothing is sent. *)
NotInJournal(move) == /\ pc = "replace" /\ IsNext(move)
                      /\ move.id \notin numbered
                      /\ plan' = plan \ {move}
                      /\ UNCHANGED <<journalVars, exchangeVars, pc, cur, reply,
                                     seen, workerVars, halted, faults>>

Prepare(move) == /\ pc = "replace" /\ IsNext(move)
                 /\ move.id \in numbered
                 /\ nextId <= MaxOrders
                 /\ nextId' = nextId + 1
                 /\ journal' = [journal EXCEPT ![nextId] = "PREPARED"]
                 /\ level' = [level EXCEPT ![nextId] = move.to]
                 /\ replaces' = [replaces EXCEPT ![nextId] = move.id]
                 /\ origin' = [origin EXCEPT ![nextId] = origin[move.id]]
                 /\ cur' = nextId
                 /\ plan' = plan \ {move}
                 /\ pc' = "prepared"
                 /\ UNCHANGED <<numbered, exchangeVars, reply, seen, workerVars,
                                halted, faults>>

Send == /\ pc = "prepared"
        /\ wire' = wire \cup {cur}
        /\ pc' = "posted"
        /\ UNCHANGED <<journalVars, order, plan, cur, reply, seen, workerVars,
                       halted, faults>>

Finish == pc' = "replace" /\ cur' = NoId /\ reply' = "none" /\ seen' = "absent"

(* cancel FAILURE, replacement NOT_ATTEMPTED *)
NotAttempted == /\ pc = "posted" /\ reply = "noop"
                /\ journal' = [journal EXCEPT ![cur] = "FAILED"]
                /\ Finish
                /\ UNCHANGED <<nextId, level, replaces, origin, numbered, exchangeVars, plan,
                               workerVars, halted, faults>>

Replaced == /\ pc = "posted" /\ reply = "both"
            /\ journal' = [journal EXCEPT ![replaces[cur]] = "CANCELED"]
            /\ seen' = "NEW"
            /\ pc' = "record"
            /\ UNCHANGED <<nextId, level, replaces, origin, numbered, exchangeVars, plan, cur,
                           reply, workerVars, halted, faults>>

(* No answer, a malformed one, or a cancellation without a replacement. *)
NotUnderstood == /\ pc = "posted" /\ reply \in {"none", "half"}
                 /\ pc' = "reconcile"
                 /\ UNCHANGED <<journalVars, exchangeVars, plan, cur, reply, seen,
                                workerVars, halted, faults>>

BothSettled == /\ order[replaces[cur]] \in {"CANCELED", "PARTLY_CANCELED"}
               /\ Placed(order[cur])

ReconcileFinds == /\ pc = "reconcile"
                  /\ BothSettled
                  /\ journal' = [journal EXCEPT
                                    ![replaces[cur]] = RecordedState(order[replaces[cur]])]
                  /\ seen' = order[cur]
                  /\ pc' = "record"
                  /\ UNCHANGED <<nextId, level, replaces, origin, numbered, exchangeVars, plan,
                                 cur, reply, workerVars, halted, faults>>

(* Mutant: four reads without the replacement prove that it was refused. *)
GiveUpFailed == "FAILED"

GiveUpState == "UNKNOWN"

(* The last read does not settle both orders, or fails. *)
ReconcileGivesUp == /\ pc = "reconcile"
                    /\ \/ ~BothSettled /\ UNCHANGED faults
                       \/ Disturb
                    /\ journal' = [journal EXCEPT ![cur] = GiveUpState]
                    /\ pc' = "halt"
                    /\ UNCHANGED <<nextId, level, replaces, origin, numbered, exchangeVars,
                                   plan, cur, reply, seen, workerVars, halted>>

(* Mutant: the ambiguous outcome is only logged. *)
OnlyLogged == UNCHANGED halted

TripHalt == halted' = TRUE

(* The error is logged by smart_rolling, which takes the next candidate. *)
Ambiguous == /\ pc = "halt"
             /\ TripHalt
             /\ Finish
             /\ UNCHANGED <<journalVars, exchangeVars, plan, workerVars, faults>>

RecordNew == /\ pc = "record"
             /\ journal' = [journal EXCEPT ![cur] = RecordedState(seen)]
             /\ numbered' = numbered \cup {cur}
             /\ Finish
             /\ UNCHANGED <<nextId, level, replaces, origin, exchangeVars, plan, workerVars,
                            halted, faults>>

EndPlan == /\ pc = "replace"
           /\ plan = {} \/ nextId > MaxOrders
           /\ plan' = {}
           /\ pc' = "launch"
           /\ UNCHANGED <<journalVars, exchangeVars, cur, reply, seen, workerVars,
                          halted, faults>>

(* run_child: a live worker is kept. *)
Launch == /\ pc = "launch"
          /\ worker' = IF worker = "down" THEN "starting" ELSE worker
          /\ pc' = "idle"
          /\ UNCHANGED <<journalVars, exchangeVars, plan, cur, reply, seen, tracked,
                         halted, faults>>

---------------------------------------------------------------------------
(* Reconciliation of the journal: the recovery gate and the worker's start *)

(* recvWindow is 5 s: a POST that has not arrived before systemd restarts   *)
(* the service (RestartSec=10) or an operator resets HALT never arrives.    *)
Settled == wire = {}

Reconciled(i) == IF order[i] = "absent" THEN "FAILED" ELSE RecordedState(order[i])

Reconcile(rows) == /\ journal' = [i \in Id |-> IF i \in rows THEN Reconciled(i) ELSE journal[i]]
                   /\ numbered' = numbered \cup {i \in rows : order[i] # "absent"}
                   /\ UNCHANGED <<nextId, level, replaces, origin, exchangeVars>>

ReconcileAll == Reconcile(Nonterminal)

Gate == /\ pc = "down" /\ Settled
        /\ ReconcileAll
        /\ pc' = "idle"
        /\ UNCHANGED <<plan, cur, reply, seen, workerVars, halted, faults>>

(* A query of the gate fails, after it reconciled some rows: the service    *)
(* exits without a HALT and without a mark, and is started again.           *)
GateFails == /\ pc = "down" /\ Settled
             /\ \E i \in Nonterminal : \E rows \in SUBSET (Nonterminal \ {i}) : Reconcile(rows)
             /\ UNCHANGED <<passVars, workerVars, halted, faults>>

StartWorker == /\ worker = "starting" /\ ~halted
               /\ ReconcileAll
               /\ worker' = "up"
               /\ tracked' = {i \in Id : journal'[i] \in BuyActive}
               /\ UNCHANGED <<passVars, halted, faults>>

(* HALT refuses the start. *)
RefuseStart == /\ worker = "starting" /\ halted
               /\ worker' = "down"
               /\ UNCHANGED <<journalVars, exchangeVars, passVars, tracked, halted,
                              faults>>

(* A query of the starting worker fails: UNKNOWN and HALT. *)
ReadFails(i) == /\ i \in Nonterminal
                /\ worker = "starting"
                /\ ~halted
                /\ Disturb
                /\ journal' = [journal EXCEPT ![i] = "UNKNOWN"]
                /\ halted' = TRUE
                /\ worker' = "down"
                /\ UNCHANGED <<nextId, level, replaces, origin, numbered, exchangeVars,
                               passVars, tracked>>

---------------------------------------------------------------------------
(* The worker *)

(* place_buys: the price is not on the book, and no active ladder row of it *)
(* is found.                                                                *)
LevelFree(l) == /\ \A i \in Open : level[i] # l
                /\ \A i \in Id : journal[i] \in BuyActive /\ replaces[i] = NoId
                                     => level[i] # l

PlaceBuy(l) == /\ worker = "up"
               /\ nextId <= MaxOrders
               /\ Cardinality(Open) < Target
               /\ LevelFree(l)
               /\ nextId' = nextId + 1
               /\ journal' = [journal EXCEPT ![nextId] = "SUBMITTED"]
               /\ level' = [level EXCEPT ![nextId] = l]
               /\ numbered' = numbered \cup {nextId}
               /\ order' = [order EXCEPT ![nextId] = "NEW"]
               /\ tracked' = tracked \cup {nextId}
               /\ origin' = [origin EXCEPT ![nextId] = nextId]
               /\ UNCHANGED <<replaces, wire, passVars, worker, halted, faults>>

(* One poll; a fill is protected, or cannot be and HALT is tripped. *)
Observe(i) ==
    /\ worker = "up" /\ i \in tracked
    /\ \/ /\ order[i] \in {"NEW", "PARTIALLY_FILLED", "CANCELED"}
          /\ journal' = [journal EXCEPT ![i] = RecordedState(order[i])]
          /\ tracked' = IF order[i] = "CANCELED" THEN tracked \ {i} ELSE tracked
          /\ UNCHANGED <<halted, faults>>
       \/ /\ order[i] \in {"FILLED", "PARTLY_CANCELED"}
          /\ \/ /\ journal' = [journal EXCEPT ![i] = "PROTECTED"]
                /\ tracked' = tracked \ {i}
                /\ UNCHANGED <<halted, faults>>
             \/ /\ Disturb
                /\ journal' = [journal EXCEPT ![i] = RecordedState(order[i])]
                /\ halted' = TRUE
                /\ UNCHANGED tracked
    /\ UNCHANGED <<nextId, level, replaces, origin, numbered, exchangeVars, passVars, worker>>

(* Loop minutes are over, or it fails. *)
WorkerEnds == /\ worker = "up"
              /\ worker' = "down" /\ tracked' = {}
              /\ UNCHANGED <<journalVars, exchangeVars, passVars, halted, faults>>

(* The risk check of the supervisor stops the worker under HALT. *)
StopUnderHalt == /\ halted /\ pc = "idle" /\ worker # "down"
                 /\ worker' = "down" /\ tracked' = {}
                 /\ UNCHANGED <<journalVars, exchangeVars, passVars, halted, faults>>

---------------------------------------------------------------------------
(* The exchange and the operator *)

(* Mutant: cancelRestrictions is left out. *)
AnyOpen(i) == i \in Open

OnlyNew(i) == order[i] = "NEW"

Canceled(i) == IF order[i] = "NEW" THEN "CANCELED" ELSE "PARTLY_CANCELED"

(* Mutant: cancelReplaceMode is ALLOW_FAILURE. *)
PlaceAnyway(i) == TRUE

StopOnFailure(i) == OnlyNew(replaces[i])

Answer(i, what) == reply' = IF pc = "posted" /\ cur = i THEN what ELSE reply

(* The POST is executed: both halves, the first alone, or neither. *)
Deliver(i) ==
    LET o == replaces[i]
        canceled == IF OnlyNew(o) THEN [order EXCEPT ![o] = Canceled(o)] ELSE order
    IN /\ i \in wire
       /\ wire' = wire \ {i}
       /\ \/ /\ StopOnFailure(i)
             /\ order' = [canceled EXCEPT ![i] = "NEW"]
             /\ Answer(i, "both")
          \/ /\ OnlyNew(o)
             /\ order' = canceled
             /\ Answer(i, "half")
          \/ /\ ~OnlyNew(o)
             /\ order' = order
             /\ Answer(i, "noop")
       /\ UNCHANGED <<journalVars, pc, plan, cur, seen, workerVars, halted, faults>>

Lose(i) == /\ i \in wire
           /\ wire' = wire \ {i}
           /\ UNCHANGED <<journalVars, order, passVars, workerVars, halted, faults>>

Trade(i) == /\ \/ /\ order[i] = "NEW"
                  /\ \E st \in {"PARTIALLY_FILLED", "FILLED"} :
                        order' = [order EXCEPT ![i] = st]
               \/ /\ order[i] = "PARTIALLY_FILLED"
                  /\ order' = [order EXCEPT ![i] = "FILLED"]
            /\ UNCHANGED <<journalVars, wire, passVars, workerVars, halted, faults>>

(* Cleanup by the supervisor, the operator, or the exchange. *)
Cancel(i) == /\ i \in Open
             /\ order' = [order EXCEPT ![i] = Canceled(i)]
             /\ UNCHANGED <<journalVars, wire, passVars, workerVars, halted, faults>>

(* The service ends: its process group goes with it, and it is restarted. *)
Crash == /\ pc # "down"
         /\ Disturb
         /\ pc' = "down" /\ plan' = {} /\ cur' = NoId /\ reply' = "none"
         /\ seen' = "absent"
         /\ worker' = "down" /\ tracked' = {}
         /\ UNCHANGED <<journalVars, exchangeVars, halted>>

OperatorReset == /\ halted /\ pc \in {"idle", "down"} /\ worker = "down"
                 /\ Settled
                 /\ halted' = FALSE
                 /\ UNCHANGED <<journalVars, exchangeVars, passVars, workerVars, faults>>

---------------------------------------------------------------------------
Pass == \/ \E ladder \in SUBSET Level, young \in SUBSET Open : Plan(ladder, young)
        \/ StopWorker \/ StopUnconfirmed
        \/ \E move \in plan : NotInJournal(move) \/ Prepare(move)
        \/ Send \/ NotAttempted \/ Replaced \/ NotUnderstood \/ ReconcileFinds
        \/ ReconcileGivesUp \/ Ambiguous \/ RecordNew \/ EndPlan \/ Launch

Work == \/ StartWorker \/ RefuseStart
        \/ \E l \in Level : PlaceBuy(l)
        \/ WorkerEnds \/ StopUnderHalt

Exchange(i) == Deliver(i) \/ Lose(i) \/ Trade(i) \/ Cancel(i)

Next == \/ Pass \/ Gate \/ GateFails \/ Work
        \/ \E i \in Id : Observe(i) \/ ReadFails(i) \/ Exchange(i)
        \/ Crash \/ OperatorReset

Spec == Init /\ [][Next]_vars

(* The supervisor goes on with its passes; the gate, which systemd repeats,  *)
(* some time reads every row it asks for; a worker that is started again     *)
(* and again comes up some time, each tracked BUY is polled again and again  *)
(* while a worker runs, and a POST arrives or is lost.                       *)
Fairness == /\ WF_vars(Pass) /\ WF_vars(Gate)
            /\ SF_vars(StartWorker \/ RefuseStart)
            /\ SF_vars(\E i \in Id : Observe(i))
            /\ WF_vars(\E i \in wire : Deliver(i) \/ Lose(i))

FairSpec == Spec /\ Fairness

---------------------------------------------------------------------------
(* Properties *)

Status == {"absent", "NEW", "PARTIALLY_FILLED", "FILLED", "CANCELED", "PARTLY_CANCELED"}

(* Rows, orders and the pass keep their ranges. *)
TypeOK == /\ nextId \in 1..(MaxOrders + 1)
          /\ journal \in [Id -> BuyActive \cup {"none", "PROTECTED", "CANCELED", "FAILED"}]
          /\ level \in [Id -> Level \cup {0}]
          /\ replaces \in [Id -> Id \cup {NoId}]
          /\ origin \in [Id -> Id \cup {NoId}]
          /\ numbered \subseteq Id /\ wire \subseteq Id /\ tracked \subseteq Id
          /\ order \in [Id -> Status]
          /\ pc \in {"down", "idle", "stop", "replace", "prepared", "posted",
                     "reconcile", "record", "halt", "launch"}
          /\ plan \subseteq [id : Id, to : Level]
          /\ cur \in Id \cup {NoId}
          /\ reply \in {"none", "noop", "half", "both"}
          /\ seen \in Status
          /\ worker \in {"down", "starting", "up"}
          /\ halted \in BOOLEAN
          /\ faults \in 0..MaxFaults

(* However often a BUY is moved, and whatever is lost, late or repeated on  *)
(* the way: only one of its orders can ever buy or has bought.              *)
OncePerBuy == \A i, j \in Open \cup Bought : origin[i] = origin[j] => i = j

(* The journal never gives up an order that can buy or holds an unprotected *)
(* fill, nor a replacement whose POST may still be executed.                *)
LiveIsActive == \A i \in Open \cup Bought \cup wire :
                    journal[i] \in BuyActive \cup {"PROTECTED"}

(* A replacement whose outcome is open is never concurrent with a running   *)
(* worker, which would count and place BUYs without it.                     *)
OpenOutcomeIsQuiet == wire # {} => worker # "up"

(* Every row whose order has ended or was filled is settled, also when both *)
(* halves of a replacement were executed and neither was recorded.          *)
Ended(i) == journal[i] \in BuyActive /\ i \notin Open
RowsSettle == \A i \in Id : Ended(i) ~> (~Ended(i) \/ halted)
=====================================================================================
