----------------------------- MODULE OrderSubmission -----------------------------
(***************************************************************************)
(* LIMIT BUY submission by one executor worker: startup reconciliation,     *)
(* recovery of pending BUYs, the place_buys batch, place_limit_order with   *)
(* its durable intent, and the event loop's observation of tracked BUYs.    *)
(* The exchange may answer late or not at all, the worker may crash before  *)
(* any step, and any process may trip HALT.  One worker per symbol runs at  *)
(* a time (SymbolLock), so the model has one worker and one symbol.         *)
(* What happens to a filled BUY is module FilledBuyProtection; here it is   *)
(* the single outcome of Observe.                                           *)
(***************************************************************************)
EXTENDS Naturals, FiniteSets

CONSTANTS
    Slot,          \* (price, quantity) pairs of the ladder
    NoSlot,
    MaxIntents,    \* bound: client order ids the journal can hold
    MaxCrashes,    \* bound: worker crashes (exits and HALTs are unbounded)
    EnforceTarget, \* --enforce-target-buys: open BUY prices are not tried again
    PostsSettle    \* TRUE: the exchange never says "absent" of an order whose
                   \* POST may still arrive (Binance recvWindow has passed)

ASSUME SubmissionAssumption == /\ MaxIntents \in Nat
                               /\ MaxCrashes \in Nat
                               /\ NoSlot \notin Slot
                               /\ IsFiniteSet(Slot)
                               /\ EnforceTarget \in BOOLEAN
                               /\ PostsSettle \in BOOLEAN

(* Ids are numbered in creation order: a fresh id never repeats a known one. *)
Id == 1..MaxIntents
NoId == 0

VARIABLES
    nextId,    \* the next client order id to be generated
    slotOf,    \* journal: immutable price and quantity of the intent
    journal,   \* journal: state column, "none" when there is no row
    order,     \* exchange: status of the order with that client id
    accepted,  \* exchange: how often a POST with that id became an order
    wire,      \* POSTs sent and neither answered nor lost
    reply,     \* answer to the POST the worker is waiting for
    pc,        \* where the worker is
    cur,       \* the intent the worker is submitting
    pending,   \* intents the startup pass has still to query
    todo,      \* slots of the batch not yet tried
    tracked,   \* placed_ids, the BUYs the event loop polls
    halted,    \* the persistent HALT marker exists
    crashes

exchangeVars == <<order, accepted, wire>>
journalVars == <<nextId, slotOf, journal>>
workerVars == <<reply, pc, cur, pending, todo, tracked>>
vars == <<nextId, slotOf, journal, order, accepted, wire, reply, pc, cur,
          pending, todo, tracked, halted, crashes>>

---------------------------------------------------------------------------
(* Journal and exchange vocabulary *)

BuyActive == {"PREPARED", "UNKNOWN", "SUBMITTED", "PARTIALLY_FILLED",
              "FILLED", "PROTECTION_PENDING"}

(* Mutant: reconciliation forgets the intents marked UNKNOWN. *)
NonterminalConfirmed == BuyActive \ {"FILLED", "UNKNOWN"}

Nonterminal == BuyActive \ {"FILLED"}
TerminalExchange == {"CANCELED"}
JournalState == BuyActive \cup TerminalExchange \cup {"none", "FAILED", "PROTECTED"}

(* CANCELED stands for every terminal status without a fill (EXPIRED,       *)
(* REJECTED ...), CANCELED_PARTIAL for those with one.                      *)
OpenStatus == {"NEW", "PARTIALLY_FILLED"}
FilledStatus == {"FILLED", "CANCELED_PARTIAL"}
OrderStatus == OpenStatus \cup FilledStatus \cup {"absent", "CANCELED"}

(* What an order may have become when its POST is answered: checked_submission *)
(* accepts every status, those of an order that expired at once included.      *)
AckStatus == OrderStatus \ {"absent"}

(* Mutant: the exchange's status is stored as it is. *)
StatusAsIs(status) == status

RecordedState(status) ==
    CASE status = "NEW" -> "SUBMITTED"
      [] status = "CANCELED_PARTIAL" -> "PROTECTION_PENDING"
      [] OTHER -> status

(* record_exchange_order: the last answer overwrites whatever was recorded. *)
Record(i) == journal' = [journal EXCEPT ![i] = RecordedState(order[i])]

(* find_active: the newest active intent of the slot, if there is one. *)
ActiveIn(s) == {i \in Id : slotOf[i] = s /\ journal[i] \in BuyActive}

(* Mutant: only intents that may still rest on the book are found. *)
FindResting(s) ==
    {i \in ActiveIn(s) : /\ journal[i] \notin {"FILLED", "PROTECTION_PENDING"}
                         /\ \A j \in ActiveIn(s) : j <= i}

FindActive(s) == {i \in ActiveIn(s) : \A j \in ActiveIn(s) : j <= i}

(* The exchange may answer -2013 "order does not exist". *)
MayBeAbsent(i) == /\ order[i] = "absent"
                  /\ PostsSettle => wire[i] = 0

Waiting(i) == pc = "posted" /\ cur = i

---------------------------------------------------------------------------
Init == /\ nextId = 1
        /\ slotOf = [i \in Id |-> NoSlot]
        /\ journal = [i \in Id |-> "none"]
        /\ order = [i \in Id |-> "absent"]
        /\ accepted = [i \in Id |-> 0]
        /\ wire = [i \in Id |-> 0]
        /\ reply = "none"
        /\ pc = "down"
        /\ cur = NoId
        /\ pending = {}
        /\ todo = {}
        /\ tracked = {}
        /\ halted = FALSE
        /\ crashes = 0

---------------------------------------------------------------------------
(* Worker start: run_worker refuses to start under HALT, then reconciles.   *)

(* Forget everything that lives in the worker's memory. *)
GoDown == /\ pc' = "down"
          /\ reply' = "none"
          /\ cur' = NoId
          /\ pending' = {}
          /\ todo' = {}
          /\ tracked' = {}

Boot == /\ pc = "down"
        /\ ~halted
        /\ pc' = "reconcile"
        /\ pending' = {i \in Id : journal[i] \in Nonterminal}
        /\ UNCHANGED <<journalVars, exchangeVars, reply, cur, todo, tracked,
                       halted, crashes>>

(* A known order is recorded.  One Binance does not know is failed if it    *)
(* was never confirmed, and trips HALT if it was.                           *)
ReconcileAnswered(i) ==
    /\ pc = "reconcile" /\ i \in pending
    /\ IF order[i] = "absent"
       THEN /\ MayBeAbsent(i)
            /\ IF journal[i] \in {"PREPARED", "UNKNOWN"}
               THEN /\ journal' = [journal EXCEPT ![i] = "FAILED"]
                    /\ pending' = pending \ {i}
                    /\ UNCHANGED <<reply, pc, cur, todo, tracked, halted>>
               ELSE GoDown /\ halted' = TRUE /\ UNCHANGED journal
       ELSE /\ Record(i)
            /\ pending' = pending \ {i}
            /\ UNCHANGED <<reply, pc, cur, todo, tracked, halted>>
    /\ UNCHANGED <<nextId, slotOf, exchangeVars, crashes>>

(* A failed read in either startup pass: the intent becomes UNKNOWN, HALT,  *)
(* and the worker exits; a malformed answer ends the worker alone.          *)
StartupReadFails(i) ==
    /\ pc \in {"reconcile", "recover"} /\ i \in pending
    /\ \/ /\ journal' = [journal EXCEPT ![i] = "UNKNOWN"]
          /\ halted' = TRUE
       \/ UNCHANGED <<journal, halted>>
    /\ GoDown
    /\ UNCHANGED <<nextId, slotOf, exchangeVars, crashes>>

(* The second pass reads every unresolved BUY, filled ones included. *)
StartRecovery == /\ pc = "reconcile" /\ pending = {}
                 /\ pc' = "recover"
                 /\ pending' = {i \in Id : journal[i] \in BuyActive}
                 /\ UNCHANGED <<journalVars, exchangeVars, reply, cur, todo,
                                tracked, halted, crashes>>

(* Mutant: a BUY found filled at startup is taken for done. *)
TracksOpen(state) == state \in {"SUBMITTED", "PARTIALLY_FILLED"}

(* Binance is asked again: a live BUY is tracked from here on, an absent    *)
(* unconfirmed one is left for the batch, an absent confirmed one HALTs.    *)
Tracks(state) == state \in BuyActive

RecoverAnswered(i) ==
    /\ pc = "recover" /\ i \in pending
    /\ IF order[i] = "absent"
       THEN /\ MayBeAbsent(i)
            /\ IF journal[i] \in {"PREPARED", "UNKNOWN"}
               THEN /\ pending' = pending \ {i}
                    /\ UNCHANGED <<reply, pc, cur, todo, tracked, halted>>
               ELSE GoDown /\ halted' = TRUE
            /\ UNCHANGED journal
       ELSE /\ Record(i)
            /\ pending' = pending \ {i}
            /\ tracked' = IF Tracks(RecordedState(order[i]))
                          THEN tracked \cup {i} ELSE tracked
            /\ UNCHANGED <<reply, pc, cur, todo, halted>>
    /\ UNCHANGED <<nextId, slotOf, exchangeVars, crashes>>

---------------------------------------------------------------------------
(* The place_buys batch *)

(* With EnforceTarget the slots with an open BUY are dropped once, before   *)
(* the first POST.  The batch tries any of the others: caps, balances and   *)
(* market gates decide which.  It has room for the ids left (bound).        *)
OpenSlots == {slotOf[i] : i \in {j \in Id : order[j] \in OpenStatus}}
Candidates == IF EnforceTarget THEN Slot \ OpenSlots ELSE Slot

StartBatch == /\ pc = "recover" /\ pending = {}
              /\ pc' = "select"
              /\ todo' \in {t \in SUBSET Candidates :
                              Cardinality(t) + nextId <= MaxIntents + 1}
              /\ UNCHANGED <<journalVars, exchangeVars, reply, cur, pending,
                             tracked, halted, crashes>>

(* journal.prepare of a new id, committed before anything is sent. *)
Prepare(s) == /\ nextId <= MaxIntents
              /\ journal' = [journal EXCEPT ![nextId] = "PREPARED"]
              /\ slotOf' = [slotOf EXCEPT ![nextId] = s]
              /\ nextId' = nextId + 1
              /\ cur' = nextId
              /\ pc' = "prepared"

SelectNew(s) == /\ pc = "select" /\ s \in todo
                /\ FindActive(s) = {}
                /\ Prepare(s)
                /\ todo' = todo \ {s}
                /\ UNCHANGED <<exchangeVars, reply, pending, tracked, halted, crashes>>

(* An equivalent active intent is looked up instead of being sent again: a  *)
(* live one is adopted, a terminal one without a fill is followed by a      *)
(* fresh id, and one Binance does not know is sent again under its own id   *)
(* (prepare ignores the existing row).                                      *)
LookupAnswered(s) ==
    /\ pc = "select" /\ s \in todo
    /\ \E i \in FindActive(s) :
         IF order[i] = "absent"
         THEN /\ MayBeAbsent(i)
              /\ pc' = "prepared" /\ cur' = i
              /\ UNCHANGED <<journal, tracked>>
         ELSE /\ Record(i)
              /\ IF RecordedState(order[i]) \in TerminalExchange
                 THEN pc' = "fresh" /\ cur' = i /\ UNCHANGED tracked
                 ELSE UNCHANGED <<pc, cur>> /\ tracked' = tracked \cup {i}
    /\ todo' = todo \ {s}
    /\ UNCHANGED <<nextId, slotOf, exchangeVars, reply, pending, halted, crashes>>

SelectFresh == /\ pc = "fresh"
               /\ Prepare(slotOf[cur])
               /\ UNCHANGED <<exchangeVars, reply, pending, todo, tracked, halted,
                              crashes>>

(* A failed lookup skips the slot: UNKNOWN after a transport error, the row *)
(* untouched after a malformed answer.  It does not trip HALT.              *)
LookupFails(s) == /\ pc = "select" /\ s \in todo
                  /\ FindActive(s) # {}
                  /\ \/ \E i \in FindActive(s) :
                          journal' = [journal EXCEPT ![i] = "UNKNOWN"]
                     \/ UNCHANGED journal
                  /\ todo' = todo \ {s}
                  /\ UNCHANGED <<nextId, slotOf, exchangeVars, reply, pc, cur,
                                 pending, tracked, halted, crashes>>

Send == /\ pc = "prepared"
        /\ wire' = [wire EXCEPT ![cur] = @ + 1]
        /\ pc' = "posted"
        /\ reply' = "none"
        /\ UNCHANGED <<journalVars, order, accepted, cur, pending, todo, tracked,
                       halted, crashes>>

---------------------------------------------------------------------------
(* Answers to the POST *)

BackToBatch == pc' = "select" /\ cur' = NoId /\ reply' = "none"

(* Mutant: HALT is tripped but the batch goes on with the next slot. *)
SkipSlot == BackToBatch /\ halted' = TRUE /\ UNCHANGED todo

(* UncertainOrderSubmission leaves place_buys: no later slot is tried. *)
StopBatch == /\ pc' = "watch" /\ cur' = NoId /\ reply' = "none"
             /\ todo' = {}
             /\ halted' = TRUE

Acknowledged == /\ pc = "posted"
                /\ reply \in AckStatus
                /\ journal' = [journal EXCEPT ![cur] = RecordedState(reply)]
                /\ tracked' = tracked \cup {cur}
                /\ BackToBatch
                /\ UNCHANGED <<nextId, slotOf, exchangeVars, pending, todo, halted,
                               crashes>>

(* checked_submission: evidence that does not match the intent is an        *)
(* unknown outcome, and no lookup follows.                                  *)
MalformedAck == /\ pc = "posted"
                /\ reply \in AckStatus
                /\ journal' = [journal EXCEPT ![cur] = "UNKNOWN"]
                /\ StopBatch
                /\ UNCHANGED <<nextId, slotOf, exchangeVars, pending, tracked, crashes>>

(* A definitive rejection fails the intent; the batch goes on. *)
Rejected == /\ pc = "posted"
            /\ reply = "rejected"
            /\ journal' = [journal EXCEPT ![cur] = "FAILED"]
            /\ BackToBatch
            /\ UNCHANGED <<nextId, slotOf, exchangeVars, pending, todo, tracked,
                           halted, crashes>>

(* Mutant: an unanswered POST is sent again. *)
RetryPost == /\ pc = "posted"
             /\ journal' = [journal EXCEPT ![cur] = "UNKNOWN"]
             /\ pc' = "prepared"
             /\ reply' = "none"
             /\ UNCHANGED <<nextId, slotOf, exchangeVars, cur, pending, todo,
                            tracked, halted, crashes>>

(* Mutant: an unanswered POST is taken for a rejection. *)
FailUnanswered == /\ pc = "posted"
                  /\ journal' = [journal EXCEPT ![cur] = "FAILED"]
                  /\ BackToBatch
                  /\ UNCHANGED <<nextId, slotOf, exchangeVars, pending, todo, tracked,
                                 halted, crashes>>

(* No answer, a 5xx, or "duplicate client id": none of them says what happened. *)
OutcomeUnknown == /\ pc = "posted"
                  /\ journal' = [journal EXCEPT ![cur] = "UNKNOWN"]
                  /\ pc' = "requery"
                  /\ reply' = "none"
                  /\ UNCHANGED <<nextId, slotOf, exchangeVars, cur, pending, todo,
                                 tracked, halted, crashes>>

RequeryFound == /\ pc = "requery"
                /\ order[cur] # "absent"
                /\ Record(cur)
                /\ tracked' = tracked \cup {cur}
                /\ BackToBatch
                /\ UNCHANGED <<nextId, slotOf, exchangeVars, pending, todo, halted,
                               crashes>>

(* Absent or unreadable: HALT, and the intent stays UNKNOWN. *)
RequeryFails == /\ pc = "requery"
                /\ StopBatch
                /\ UNCHANGED <<journalVars, exchangeVars, pending, tracked, crashes>>

EndBatch == /\ pc = "select" /\ todo = {}
            /\ pc' = "watch"
            /\ UNCHANGED <<journalVars, exchangeVars, reply, cur, pending, todo,
                           tracked, halted, crashes>>

---------------------------------------------------------------------------
(* The event loop: every read of a tracked BUY is recorded; a terminal one  *)
(* is settled or left pending under HALT.  A partial fill is cancelled      *)
(* first, so it reaches this module as FILLED or CANCELED_PARTIAL.          *)

ObserveOpen(i) == /\ pc = "watch" /\ i \in tracked
                  /\ order[i] \in OpenStatus
                  /\ Record(i)
                  /\ UNCHANGED <<nextId, slotOf, exchangeVars, workerVars, halted,
                                 crashes>>

ObserveEmpty(i) == /\ pc = "watch" /\ i \in tracked
                   /\ order[i] = "CANCELED"
                   /\ Record(i)
                   /\ tracked' = tracked \ {i}
                   /\ UNCHANGED <<nextId, slotOf, exchangeVars, reply, pc, cur,
                                  pending, todo, halted, crashes>>

ObserveFilled(i) ==
    /\ pc = "watch" /\ i \in tracked
    /\ order[i] \in FilledStatus
    /\ \/ /\ journal' = [journal EXCEPT ![i] = "PROTECTED"]
          /\ tracked' = tracked \ {i}
          /\ UNCHANGED halted
       \/ /\ Record(i)
          /\ halted' = TRUE
          /\ UNCHANGED tracked
    /\ UNCHANGED <<nextId, slotOf, exchangeVars, reply, pc, cur, pending, todo,
                   crashes>>

(* loop_minutes are over, or the supervisor's SIGTERM was seen between slots. *)
Exit == /\ pc \in {"select", "watch"}
        /\ GoDown
        /\ UNCHANGED <<journalVars, exchangeVars, halted, crashes>>

Crash == /\ pc # "down"
         /\ crashes < MaxCrashes
         /\ crashes' = crashes + 1
         /\ GoDown
         /\ UNCHANGED <<journalVars, exchangeVars, halted>>

---------------------------------------------------------------------------
(* Everybody else *)

(* A POST that becomes an order; the answer reaches the worker if it still  *)
(* waits for it, else it is dropped.  An id whose order is open is refused. *)
Answer(i, a) == reply' = IF Waiting(i) THEN a ELSE reply

Accept(i) == /\ wire[i] > 0
             /\ IF order[i] \in OpenStatus
                THEN Answer(i, "duplicate") /\ UNCHANGED <<order, accepted>>
                ELSE \E st \in AckStatus :
                       /\ order' = [order EXCEPT ![i] = st]
                       /\ accepted' = [accepted EXCEPT ![i] = @ + 1]
                       /\ Answer(i, st)
             /\ wire' = [wire EXCEPT ![i] = @ - 1]
             /\ UNCHANGED <<journalVars, pc, cur, pending, todo, tracked, halted,
                            crashes>>

Refuse(i) == /\ wire[i] > 0
             /\ Answer(i, "rejected")
             /\ wire' = [wire EXCEPT ![i] = @ - 1]
             /\ UNCHANGED <<journalVars, order, accepted, pc, cur, pending, todo,
                            tracked, halted, crashes>>

Lose(i) == /\ wire[i] > 0
           /\ wire' = [wire EXCEPT ![i] = @ - 1]
           /\ UNCHANGED <<journalVars, order, accepted, workerVars, halted, crashes>>

(* Fills, and cancellations by the supervisor's cleanup, the operator or Binance. *)
Later(status) == CASE status = "NEW" -> {"PARTIALLY_FILLED", "FILLED", "CANCELED"}
                   [] status = "PARTIALLY_FILLED" -> FilledStatus
                   [] OTHER -> {}

Advance(i) == /\ \E st \in Later(order[i]) : order' = [order EXCEPT ![i] = st]
              /\ UNCHANGED <<journalVars, accepted, wire, workerVars, halted, crashes>>

(* Another worker, the risk manager or the supervisor trips HALT. *)
HaltElsewhere == /\ ~halted
                 /\ halted' = TRUE
                 /\ UNCHANGED <<journalVars, exchangeVars, workerVars, crashes>>

(* risk_ctl reset, after the supervisor has stopped the workers. *)
OperatorReset == /\ halted
                 /\ pc = "down"
                 /\ halted' = FALSE
                 /\ UNCHANGED <<journalVars, exchangeVars, workerVars, crashes>>

---------------------------------------------------------------------------
Startup == \/ Boot \/ StartRecovery \/ StartBatch
           \/ \E i \in Id : ReconcileAnswered(i) \/ RecoverAnswered(i) \/ StartupReadFails(i)

Submission == \/ SelectFresh \/ Send \/ Acknowledged \/ MalformedAck \/ Rejected
              \/ OutcomeUnknown \/ RequeryFound \/ RequeryFails \/ EndBatch
              \/ \E s \in Slot : SelectNew(s) \/ LookupAnswered(s) \/ LookupFails(s)

Watching == \E i \in Id : ObserveOpen(i) \/ ObserveEmpty(i) \/ ObserveFilled(i)

Exchange == \E i \in Id : Accept(i) \/ Refuse(i) \/ Lose(i) \/ Advance(i)

Next == \/ Startup \/ Submission \/ Watching \/ Exchange
        \/ Exit \/ Crash \/ HaltElsewhere \/ OperatorReset

Spec == Init /\ [][Next]_vars

(* The supervisor starts a worker again, a running worker takes its next    *)
(* step and polls each tracked BUY, a POST on the wire is answered or lost, *)
(* and Binance does not answer the startup query of an intent with rubbish  *)
(* for ever.  Nothing obliges the operator to reset HALT, an order to fill, *)
(* or a worker to exit.                                                     *)
Fairness == /\ WF_vars(Startup)
            /\ WF_vars(Submission)
            /\ \A i \in Id : /\ SF_vars(ReconcileAnswered(i))
                            /\ WF_vars(ObserveOpen(i) \/ ObserveEmpty(i) \/ ObserveFilled(i))
                            /\ WF_vars(Accept(i) \/ Refuse(i) \/ Lose(i))

FairSpec == Spec /\ Fairness

---------------------------------------------------------------------------
(* Properties *)

WorkerPc == {"down", "reconcile", "recover", "select", "fresh", "prepared",
             "posted", "requery", "watch"}

(* The journal columns, exchange states and worker fields keep their ranges. *)
TypeOK == /\ nextId \in 1..(MaxIntents + 1)
          /\ slotOf \in [Id -> Slot \cup {NoSlot}]
          /\ journal \in [Id -> JournalState]
          /\ order \in [Id -> OrderStatus]
          /\ accepted \in [Id -> Nat]
          /\ wire \in [Id -> Nat]
          /\ reply \in AckStatus \cup {"none", "rejected", "duplicate"}
          /\ pc \in WorkerPc
          /\ cur \in Id \cup {NoId}
          /\ pending \subseteq Id
          /\ todo \subseteq Slot
          /\ tracked \subseteq Id
          /\ halted \in BOOLEAN
          /\ crashes \in 0..MaxCrashes

(* Exactly-once transport: whatever is lost, answered late or cut short by  *)
(* a crash, one intent becomes at most one exchange order.                  *)
AtMostOnce == \A i \in Id : accepted[i] <= 1

(* An unresolved POST blocks every later one, across batches, crashes and   *)
(* operator resets: two outcomes are never unknown at the same time.        *)
OnePostInFlight == \A i, j \in Id : wire[i] > 0 /\ wire[j] > 0 => i = j

(* An order that may still buy, or has bought and is not yet protected. *)
Live(i) == order[i] \in OpenStatus \cup FilledStatus /\ journal[i] # "PROTECTED"

(* find_active and the open-price filter together: one ladder slot is never *)
(* bought twice before its first BUY is protected or ends without a fill.   *)
OneHolderPerSlot ==
    \A i, j \in Id : Live(i) /\ Live(j) /\ slotOf[i] = slotOf[j] => i = j

(* The startup passes only query active rows, so an order that lives, or a  *)
(* POST that may still arrive, must have one; FAILED means never existed.   *)
LiveIsActive == \A i \in Id : Live(i) \/ wire[i] > 0 => journal[i] \in BuyActive

(* When the batch is over, a live BUY is polled by the event loop or HALT   *)
(* is in force: no fill goes unobserved while trading goes on.              *)
LiveIsWatched == pc = "watch" /\ ~halted => \A i \in Id : Live(i) => i \in tracked

(* An unknown outcome does not stay unknown: it is settled by a restart or  *)
(* by polling, or HALT asks for the operator.                               *)
Unresolved(i) == journal[i] \in {"PREPARED", "UNKNOWN"}
OutcomesResolve == \A i \in Id : Unresolved(i) ~> (~Unresolved(i) \/ halted)

(* Refinement mapping to BuyIntents *)
PhaseOf(i) == IF journal[i] = "none" THEN "free"
              ELSE IF Live(i) THEN "live"
              ELSE IF order[i] # "absent" THEN "done"
              ELSE IF journal[i] \in BuyActive THEN "open" ELSE "void"

Intents == INSTANCE BuyIntents WITH phase <- [i \in Id |-> PhaseOf(i)],
                                    owner <- slotOf

(* The submission path implements the intent lifecycle it promises. *)
ImplementsIntents == Intents!Spec

(* HALT blocks trading mutations: no POST leaves while the marker exists. *)
NoPostUnderHalt == [][halted => \A i \in Id : wire'[i] <= wire[i]]_vars
=================================================================================
