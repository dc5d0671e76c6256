-------------------------- MODULE OrderSubmissionProofs --------------------------
(***************************************************************************)
(* Proofs about OrderSubmission for every ladder, journal size and number   *)
(* of crashes.                                                              *)
(***************************************************************************)
EXTENDS OrderSubmission, TLAPS

(* A recorded order always has a journal state, and only CANCELED ends it. *)
LEMMA RecordedIsActive ==
    ASSUME NEW status \in OrderStatus, status # "absent"
    PROVE  IF status = "CANCELED" THEN RecordedState(status) = "CANCELED"
           ELSE RecordedState(status) \in BuyActive
BY DEF OrderStatus, OpenStatus, FilledStatus, RecordedState, BuyActive

(* Counters per intent stay natural numbers. *)
LEMMA CounterSteps ==
    ASSUME NEW f \in [Id -> Nat], NEW i \in Id
    PROVE  /\ [f EXCEPT ![i] = @ + 1] \in [Id -> Nat]
           /\ f[i] > 0 => [f EXCEPT ![i] = @ - 1] \in [Id -> Nat]
OBVIOUS

(* While an intent is being submitted the worker knows which one. *)
CurKnown == pc \in {"fresh", "prepared", "posted", "requery"} => cur \in Id

(* In every state the variables have their types, and while a submission is under way *)
(* the identity it is for is known.                                                   *)
LEMMA TypeInductive == Spec => [](TypeOK /\ CurKnown)
<1> USE SubmissionAssumption DEF SubmissionAssumption, Id, NoId, CurKnown
<1>1. Init => TypeOK /\ CurKnown
  <2> SUFFICES ASSUME Init PROVE TypeOK /\ CurKnown
    OBVIOUS
  <2> USE DEF Init
  <2>1. slotOf \in [Id -> Slot \cup {NoSlot}]
    OBVIOUS
  <2>2. journal \in [Id -> JournalState]
    BY DEF JournalState
  <2>3. order \in [Id -> OrderStatus]
    BY DEF OrderStatus
  <2>4. accepted \in [Id -> Nat] /\ wire \in [Id -> Nat]
    OBVIOUS
  <2>5. nextId \in 1..(MaxIntents + 1) /\ crashes \in 0..MaxCrashes
    OBVIOUS
  <2> QED
    BY <2>1, <2>2, <2>3, <2>4, <2>5 DEF TypeOK, WorkerPc
<1>2. TypeOK /\ CurKnown /\ [Next]_vars => (TypeOK /\ CurKnown)'
  <2> SUFFICES ASSUME TypeOK, CurKnown, [Next]_vars PROVE (TypeOK /\ CurKnown)'
    OBVIOUS
  <2> USE DEF TypeOK, WorkerPc, journalVars, exchangeVars, workerVars
  <2>rec. \A i \in Id : order[i] # "absent" => RecordedState(order[i]) \in JournalState
    BY RecordedIsActive DEF JournalState, TerminalExchange
  <2>js. /\ {"PREPARED", "UNKNOWN", "FAILED", "PROTECTED", "SUBMITTED", "FILLED"} \subseteq JournalState
         /\ BuyActive \subseteq JournalState
    BY DEF JournalState, BuyActive
  <2>os. OrderStatus = {"NEW", "PARTIALLY_FILLED", "FILLED", "CANCELED_PARTIAL", "absent", "CANCELED"}
    BY DEF OrderStatus, OpenStatus, FilledStatus
  <2>1. CASE Boot
    BY <2>1 DEF Boot
  <2>2. ASSUME NEW i \in Id, ReconcileAnswered(i) PROVE (TypeOK /\ CurKnown)'
    BY <2>2, <2>rec, <2>js DEF ReconcileAnswered, Record, GoDown
  <2>3. ASSUME NEW i \in Id, RecoverAnswered(i) PROVE (TypeOK /\ CurKnown)'
    BY <2>3, <2>rec, <2>js DEF RecoverAnswered, Record, GoDown
  <2>4. ASSUME NEW i \in Id, StartupReadFails(i) PROVE (TypeOK /\ CurKnown)'
    BY <2>4, <2>js DEF StartupReadFails, GoDown
  <2>5. CASE StartRecovery
    BY <2>5 DEF StartRecovery
  <2>6. CASE StartBatch
    BY <2>6 DEF StartBatch, Candidates
  <2>7. ASSUME NEW s \in Slot, SelectNew(s) PROVE (TypeOK /\ CurKnown)'
    BY <2>7, <2>js DEF SelectNew, Prepare
  <2>8. ASSUME NEW s \in Slot, LookupAnswered(s) PROVE (TypeOK /\ CurKnown)'
    BY <2>8, <2>rec DEF LookupAnswered, FindActive, ActiveIn, Record
  <2>9. ASSUME NEW s \in Slot, LookupFails(s) PROVE (TypeOK /\ CurKnown)'
    BY <2>9, <2>js DEF LookupFails
  <2>10. CASE SelectFresh
    BY <2>10, <2>js DEF SelectFresh, Prepare
  <2>11. CASE Send
    BY <2>11 DEF Send
  <2>12. CASE Acknowledged
    <3>1. reply \in OrderStatus /\ cur \in Id /\ pc' = "select" /\ cur' = NoId /\ reply' = "none"
      BY <2>12 DEF Acknowledged, BackToBatch, AckStatus
    <3>2. RecordedState(reply) \in JournalState
      BY <2>12, <3>1, RecordedIsActive DEF Acknowledged, AckStatus, JournalState, TerminalExchange
    <3>3. journal' \in [Id -> JournalState] /\ tracked' \subseteq Id
      BY <3>1, <3>2, <2>12 DEF Acknowledged
    <3> QED
      BY <2>12, <3>1, <3>3 DEF Acknowledged, WorkerPc
  <2>13. CASE MalformedAck
    BY <2>13, <2>js DEF MalformedAck, StopBatch
  <2>14. CASE Rejected
    BY <2>14, <2>js DEF Rejected, BackToBatch
  <2>15. CASE OutcomeUnknown
    BY <2>15, <2>js DEF OutcomeUnknown
  <2>16. CASE RequeryFound
    BY <2>16, <2>rec DEF RequeryFound, Record, BackToBatch
  <2>17. CASE RequeryFails
    BY <2>17 DEF RequeryFails, StopBatch
  <2>18. CASE EndBatch
    BY <2>18 DEF EndBatch
  <2>19. ASSUME NEW i \in Id, ObserveOpen(i) \/ ObserveEmpty(i) \/ ObserveFilled(i)
         PROVE (TypeOK /\ CurKnown)'
    <3>1. order[i] # "absent"
      BY <2>19 DEF ObserveOpen, ObserveEmpty, ObserveFilled, OpenStatus, FilledStatus
    <3>2. QED
      BY <2>19, <2>rec, <2>js, <3>1 DEF ObserveOpen, ObserveEmpty, ObserveFilled, Record
  <2>20. ASSUME NEW i \in Id, Accept(i) PROVE (TypeOK /\ CurKnown)'
    <3>a. wire[i] > 0 /\ wire' = [wire EXCEPT ![i] = @ - 1]
      BY <2>20 DEF Accept
    <3>b. accepted' \in {accepted, [accepted EXCEPT ![i] = @ + 1]}
      BY <2>20 DEF Accept
    <3>w. wire' \in [Id -> Nat]
      BY <3>a, CounterSteps
    <3>c. accepted \in [Id -> Nat]
      OBVIOUS
    <3>d. [accepted EXCEPT ![i] = @ + 1] \in [Id -> Nat]
      BY ONLY <3>c, <2>20, CounterSteps
    <3>1. wire' \in [Id -> Nat] /\ accepted' \in [Id -> Nat]
      BY ONLY <3>w, <3>b, <3>c, <3>d
    <3> USE DEF Accept, Answer, Waiting
    <3>2. order' \in [Id -> OrderStatus] /\ reply' \in AckStatus \cup {"none", "rejected", "duplicate"}
      BY <2>20, <2>os DEF AckStatus
    <3> QED
      BY <2>20, <3>1, <3>2
  <2>21. ASSUME NEW i \in Id, Refuse(i) \/ Lose(i) PROVE (TypeOK /\ CurKnown)'
    <3>a. wire[i] > 0 /\ wire' = [wire EXCEPT ![i] = @ - 1]
      BY <2>21 DEF Refuse, Lose
    <3>1. wire' \in [Id -> Nat]
      BY <3>a, CounterSteps
    <3> QED
      BY <2>21, <3>1 DEF Refuse, Lose, Answer, Waiting
  <2>22. ASSUME NEW i \in Id, Advance(i) PROVE (TypeOK /\ CurKnown)'
    BY <2>22, <2>os DEF Advance, Later, FilledStatus
  <2>23. CASE Exit \/ Crash
    BY <2>23 DEF Exit, Crash, GoDown
  <2>24. CASE HaltElsewhere \/ OperatorReset
    BY <2>24 DEF HaltElsewhere, OperatorReset
  <2>25. CASE UNCHANGED vars
    BY <2>25 DEF vars
  <2> QED
    BY <2>1, <2>2, <2>3, <2>4, <2>5, <2>6, <2>7, <2>8, <2>9, <2>10, <2>11, <2>12,
       <2>13, <2>14, <2>15, <2>16, <2>17, <2>18, <2>19, <2>20, <2>21, <2>22, <2>23,
       <2>24, <2>25
    DEF Next, Startup, Submission, Watching, Exchange
<1>3. QED
  BY <1>1, <1>2, PTL DEF Spec

(* The journal, the exchange and the worker keep their types: record_exchange_order *)
(* and the handlers never store a state the schema does not know.                   *)
THEOREM TypeCorrect == Spec => []TypeOK
BY TypeInductive, PTL

---------------------------------------------------------------------------
(* What makes a POST happen at most once: where an unresolved POST may be.  *)

Unconfirmed(i) == journal[i] \in {"PREPARED", "UNKNOWN"}

(* An id that was never prepared was never used. *)
UnusedIds == \A i \in Id : i >= nextId => /\ journal[i] = "none" /\ order[i] = "absent"
                                         /\ accepted[i] = 0 /\ wire[i] = 0

(* A POST is on the wire, or it has become the order, or neither. *)
WireOrOrder == \A i \in Id : /\ wire[i] + accepted[i] <= 1
                             /\ order[i] = "absent" <=> accepted[i] = 0
                             /\ wire[i] > 0 => Unconfirmed(i)
                             /\ order[i] = "absent" =>
                                  Unconfirmed(i) \/ journal[i] \in {"none", "FAILED"}
                             /\ order[i] # "absent" => journal[i] # "none"

(* No POST is unresolved while the worker may send another one. *)
NothingOnWire == \A i \in Id : wire[i] = 0
Quiet == /\ pc \in {"recover", "select", "fresh", "prepared"} => NothingOnWire
         /\ pc = "watch" /\ ~halted => NothingOnWire
         /\ pc = "reconcile" => \A i \in Id : wire[i] > 0 => i \in pending
         /\ pc \in {"posted", "requery"} => \A i \in Id : wire[i] > 0 => i = cur

(* The startup passes only query active rows. *)
PendingActive == pc \in {"reconcile", "recover"} =>
                   \A i \in pending : journal[i] \in BuyActive

(* What the worker knows of the intent it is submitting. *)
Submitting == /\ pc = "prepared" => Unconfirmed(cur) /\ order[cur] = "absent"
              /\ pc = "posted" => Unconfirmed(cur)
              /\ pc = "posted" /\ reply \in AckStatus => order[cur] # "absent"
              /\ pc = "posted" /\ reply = "CANCELED" => order[cur] = "CANCELED"
              /\ pc = "posted" /\ reply = "rejected" => order[cur] = "absent" /\ wire[cur] = 0
              /\ pc = "requery" => journal[cur] = "UNKNOWN"

TransportInv == UnusedIds /\ WireOrOrder /\ OnePostInFlight /\ Quiet /\ PendingActive
                /\ Submitting

(* TransportInv (what is on the wire, at Binance and in the journal row of an identity *)
(* agree) is kept by every step.                                                      *)
LEMMA TransportStep ==
    ASSUME PostsSettle, TypeOK, CurKnown, TransportInv, [Next]_vars
    PROVE  TransportInv'
<1> USE SubmissionAssumption DEF SubmissionAssumption, NoId, TypeOK, CurKnown, TransportInv,
      UnusedIds, WireOrOrder, OnePostInFlight, Quiet, NothingOnWire, PendingActive, Submitting,
      Unconfirmed, journalVars, exchangeVars, workerVars
<1>act. BuyActive = {"PREPARED", "UNKNOWN", "SUBMITTED", "PARTIALLY_FILLED", "FILLED",
                     "PROTECTION_PENDING"}
  BY DEF BuyActive
<1>st. /\ \A st \in AckStatus : st \notin {"absent", "rejected", "none"}
       /\ {"rejected", "none", "duplicate"} \cap AckStatus = {}
       /\ OpenStatus \cup FilledStatus \subseteq AckStatus
  BY DEF AckStatus, OrderStatus, OpenStatus, FilledStatus
<1>rec. \A i \in Id : order[i] # "absent" => RecordedState(order[i]) # "none"
  BY RecordedIsActive, <1>act
<1>sent. \A i \in Id : order[i] # "absent" => wire[i] = 0 /\ ~(i >= nextId)
  <2> SUFFICES ASSUME NEW i \in Id, order[i] # "absent" PROVE wire[i] = 0 /\ ~(i >= nextId)
    OBVIOUS
  <2>1. accepted[i] # 0 /\ wire[i] + accepted[i] <= 1 /\ ~(i >= nextId)
    OBVIOUS
  <2>2. wire[i] \in Nat /\ accepted[i] \in Nat
    OBVIOUS
  <2> QED
    BY ONLY <2>1, <2>2
<1>id. /\ nextId <= MaxIntents => nextId \in Id
       /\ nextId \in Nat /\ Id \subseteq Nat
  BY DEF Id
<1>1. CASE Boot
  BY <1>1, <1>act DEF Boot, Nonterminal
<1>2. ASSUME NEW i \in Id, ReconcileAnswered(i) PROVE TransportInv'
  BY <1>2, <1>act, <1>rec DEF ReconcileAnswered, Record, GoDown, MayBeAbsent
<1>3. ASSUME NEW i \in Id, RecoverAnswered(i) PROVE TransportInv'
  BY <1>3, <1>act, <1>rec DEF RecoverAnswered, Record, GoDown, MayBeAbsent
<1>4. ASSUME NEW i \in Id, StartupReadFails(i) PROVE TransportInv'
  BY <1>4, <1>act DEF StartupReadFails, GoDown
<1>5. CASE StartRecovery
  BY <1>5, <1>act DEF StartRecovery
<1>6. CASE StartBatch
  BY <1>6 DEF StartBatch
<1>7. ASSUME NEW s \in Slot, SelectNew(s) PROVE TransportInv'
  BY <1>7, <1>id DEF SelectNew, Prepare
<1>8. ASSUME NEW s \in Slot, LookupAnswered(s) PROVE TransportInv'
  BY <1>8, <1>act, <1>rec DEF LookupAnswered, FindActive, ActiveIn, Record
<1>9. ASSUME NEW s \in Slot, LookupFails(s) PROVE TransportInv'
  BY <1>9, <1>act DEF LookupFails, FindActive, ActiveIn
<1>10. CASE SelectFresh
  BY <1>10, <1>id DEF SelectFresh, Prepare
<1>11. CASE Send
  <2>1. cur \in Id /\ wire[cur] = 0 /\ accepted[cur] = 0 /\ ~(cur >= nextId)
    BY <1>11 DEF Send
  <2>2. /\ \A i \in Id : wire'[i] = IF i = cur THEN 1 ELSE 0
        /\ pc' = "posted" /\ reply' = "none"
        /\ UNCHANGED <<journalVars, order, accepted, cur, pending>>
    BY <1>11, <2>1 DEF Send
  <2>3. UnusedIds' /\ WireOrOrder'
    BY <1>11, <2>1, <2>2 DEF Send
  <2>4. OnePostInFlight' /\ Quiet' /\ PendingActive' /\ Submitting'
    BY <1>11, <2>1, <2>2, <1>st DEF Send
  <2> QED
    BY <2>3, <2>4
<1>12. CASE Acknowledged
  <2>1. RecordedState(reply) # "none"
    BY <1>12, <1>st, <1>act, RecordedIsActive DEF Acknowledged, AckStatus, OrderStatus
  <2>2. order[cur] # "absent" /\ cur \in Id /\ \A i \in Id : wire[i] = 0
    BY <1>12, <1>sent DEF Acknowledged
  <2> QED
    BY <1>12, <1>sent, <2>1, <2>2 DEF Acknowledged, BackToBatch
<1>13. CASE MalformedAck
  BY <1>13, <1>st DEF MalformedAck, StopBatch
<1>14. CASE Rejected
  BY <1>14 DEF Rejected, BackToBatch
<1>15. CASE OutcomeUnknown
  BY <1>15 DEF OutcomeUnknown
<1>16. CASE RequeryFound
  BY <1>16, <1>sent, <1>rec DEF RequeryFound, Record, BackToBatch
<1>17. CASE RequeryFails
  BY <1>17 DEF RequeryFails, StopBatch
<1>18. CASE EndBatch
  BY <1>18 DEF EndBatch
<1>19. ASSUME NEW i \in Id, ObserveOpen(i) \/ ObserveEmpty(i) \/ ObserveFilled(i)
       PROVE TransportInv'
  <2>1. /\ wire[i] = 0 /\ ~(i >= nextId) /\ order[i] # "absent" /\ pc = "watch"
        /\ UNCHANGED <<nextId, slotOf, exchangeVars, pc, cur, pending, reply>>
        /\ halted => halted'
        /\ \E st : st # "none" /\ journal' = [journal EXCEPT ![i] = st]
    BY <1>19, <1>st, <1>sent, <1>rec DEF ObserveOpen, ObserveEmpty, ObserveFilled, Record
  <2> HIDE <1>19
  <2> QED
    BY <2>1
<1>20. ASSUME NEW i \in Id, Accept(i) PROVE TransportInv'
  BY <1>20, <1>st DEF Accept, Answer, Waiting
<1>21. ASSUME NEW i \in Id, Refuse(i) \/ Lose(i) PROVE TransportInv'
  <2>1. wire[i] = 1 /\ accepted[i] = 0 /\ wire' = [wire EXCEPT ![i] = 0]
    BY <1>21 DEF Refuse, Lose
  <2>2. /\ UNCHANGED <<journalVars, order, accepted, pc, cur, pending, halted>>
        /\ reply' = reply \/ (reply' = "rejected" /\ pc = "posted" /\ cur = i)
    BY <1>21 DEF Refuse, Lose, Answer, Waiting
  <2>3. UnusedIds' /\ WireOrOrder' /\ OnePostInFlight' /\ Quiet' /\ PendingActive'
    BY <2>1, <2>2
  <2>4. Submitting'
    BY <2>1, <2>2, <1>st
  <2> QED
    BY <2>3, <2>4
<1>22. ASSUME NEW i \in Id, Advance(i) PROVE TransportInv'
  BY <1>22 DEF Advance, Later, FilledStatus
<1>23. CASE Exit \/ Crash
  BY <1>23 DEF Exit, Crash, GoDown
<1>24. CASE HaltElsewhere \/ OperatorReset
  BY <1>24 DEF HaltElsewhere, OperatorReset
<1>25. CASE UNCHANGED vars
  BY <1>25 DEF vars
<1> QED
  BY <1>1, <1>2, <1>3, <1>4, <1>5, <1>6, <1>7, <1>8, <1>9, <1>10, <1>11, <1>12, <1>13,
     <1>14, <1>15, <1>16, <1>17, <1>18, <1>19, <1>20, <1>21, <1>22, <1>23, <1>24, <1>25
  DEF Next, Startup, Submission, Watching, Exchange

(* TransportInv holds in every state, if no POST outlives the query that denies it.   *)
LEMMA TransportInductive == PostsSettle => (Spec => []TransportInv)
<1> SUFFICES ASSUME PostsSettle PROVE Spec => []TransportInv
  OBVIOUS
<1>1. Init => TransportInv
  BY DEF Init, TransportInv, UnusedIds, WireOrOrder, OnePostInFlight, Quiet, PendingActive,
     Submitting, NothingOnWire
<1>2. TypeOK /\ CurKnown /\ TransportInv /\ [Next]_vars => TransportInv'
  BY TransportStep
<1>3. QED
  BY <1>1, <1>2, TypeInductive, PTL DEF Spec

(* Exactly-once transport: if Binance never denies an order whose POST may still     *)
(* arrive, no crash, lost answer or retry makes two orders of one client order id.   *)
THEOREM AtMostOnceHolds == PostsSettle => (Spec => []AtMostOnce)
<1> SUFFICES ASSUME PostsSettle PROVE Spec => []AtMostOnce
  OBVIOUS
<1>1. TypeOK /\ TransportInv => AtMostOnce
  BY DEF TypeOK, TransportInv, WireOrOrder, AtMostOnce
<1>2. QED
  BY <1>1, TypeInductive, TransportInductive, PTL

(* An unresolved POST blocks every later one: the batch stops at it, and a restart    *)
(* reconciles it before place_buys runs again.                                        *)
THEOREM OnePostHolds == PostsSettle => (Spec => []OnePostInFlight)
<1> SUFFICES ASSUME PostsSettle PROVE Spec => []OnePostInFlight
  OBVIOUS
<1>1. TransportInv => OnePostInFlight
  BY DEF TransportInv
<1>2. QED
  BY <1>1, TransportInductive, PTL

---------------------------------------------------------------------------
(* What keeps a slot from being bought twice. *)

(* An order that lives keeps its row active; the worker's sets only hold    *)
(* intents whose rows are active or whose orders ended without a fill.      *)
RowsActive == /\ LiveIsActive
              /\ \A i \in tracked : /\ order[i] # "absent"
                                    /\ journal[i] \in BuyActive \/ order[i] = "CANCELED"

(* A slot has at most one active intent, none when a fresh one is prepared. *)
OneActivePerSlot ==
    /\ \A i, j \in Id : /\ journal[i] \in BuyActive /\ journal[j] \in BuyActive
                         /\ slotOf[i] = slotOf[j] => i = j
    /\ \A i \in Id : journal[i] # "none" => slotOf[i] \in Slot
    /\ pc = "fresh" => journal[cur] # "none" /\ ActiveIn(slotOf[cur]) = {}

SlotInv == RowsActive /\ OneActivePerSlot

(* What keeps a fill from going unobserved, at every point of the run. *)
WatchInv == \A i \in Id : Live(i) =>
    /\ pc = "recover" => i \in pending \cup tracked
    /\ pc \in {"select", "fresh", "prepared"} => i \in tracked
    /\ pc = "watch" /\ ~halted => i \in tracked
    /\ pc \in {"posted", "requery"} /\ i # cur => i \in tracked

(* SlotInv (live orders have active rows, at most one per slot) is kept by every step. *)
LEMMA SlotStep ==
    ASSUME PostsSettle, TypeOK, CurKnown, TransportInv, SlotInv, [Next]_vars
    PROVE  SlotInv'
<1> USE SubmissionAssumption DEF SubmissionAssumption, TypeOK, CurKnown, SlotInv, RowsActive,
      OneActivePerSlot, LiveIsActive, Live, ActiveIn, journalVars, exchangeVars, workerVars
<1>act. /\ BuyActive = {"PREPARED", "UNKNOWN", "SUBMITTED", "PARTIALLY_FILLED", "FILLED",
                        "PROTECTION_PENDING"}
        /\ OpenStatus = {"NEW", "PARTIALLY_FILLED"}
        /\ FilledStatus = {"FILLED", "CANCELED_PARTIAL"}
  BY DEF BuyActive, OpenStatus, FilledStatus
<1>rec. \A i \in Id : order[i] # "absent" =>
          IF order[i] = "CANCELED" THEN RecordedState(order[i]) = "CANCELED"
          ELSE RecordedState(order[i]) \in BuyActive
  BY RecordedIsActive
<1>w1. \A i \in Id : wire[i] > 0 => Unconfirmed(i) /\ order[i] = "absent"
  BY DEF TransportInv, WireOrOrder
<1>w2. \A i \in Id : IF order[i] = "absent"
                    THEN Unconfirmed(i) \/ journal[i] \in {"none", "FAILED"}
                    ELSE journal[i] # "none"
  BY DEF TransportInv, WireOrOrder
<1>wire. /\ \A i \in Id : wire[i] > 0 => Unconfirmed(i) /\ order[i] = "absent"
         /\ \A i \in Id : order[i] = "absent" => Unconfirmed(i) \/ journal[i] \in {"none", "FAILED"}
         /\ \A i \in Id : order[i] # "absent" => journal[i] # "none"
         /\ PendingActive /\ Submitting /\ Quiet /\ UnusedIds
  BY <1>w1, <1>w2 DEF TransportInv
<1>id. /\ nextId <= MaxIntents => nextId \in Id
       /\ nextId \in Nat /\ Id \subseteq Nat
  BY DEF Id
<1>find. \A s \in Slot : FindActive(s) = {} => ActiveIn(s) = {}
  BY <1>id DEF FindActive
<1>1. CASE Boot
  BY <1>1 DEF Boot
<1>2. ASSUME NEW i \in Id, ReconcileAnswered(i) PROVE SlotInv'
  BY <1>2, <1>act, <1>rec, <1>wire DEF ReconcileAnswered, Record, GoDown, MayBeAbsent,
     PendingActive, Unconfirmed
<1>3. ASSUME NEW i \in Id, RecoverAnswered(i) PROVE SlotInv'
  BY <1>3, <1>act, <1>rec, <1>wire DEF RecoverAnswered, Record, GoDown, Tracks, PendingActive
<1>4. ASSUME NEW i \in Id, StartupReadFails(i) PROVE SlotInv'
  BY <1>4, <1>act, <1>wire DEF StartupReadFails, GoDown, PendingActive
<1>5. CASE StartRecovery
  BY <1>5 DEF StartRecovery
<1>6. CASE StartBatch
  BY <1>6 DEF StartBatch
<1>7. ASSUME NEW s \in Slot, SelectNew(s) PROVE SlotInv'
  BY <1>7, <1>id, <1>find, <1>act, <1>wire DEF SelectNew, Prepare, UnusedIds
<1>8. ASSUME NEW s \in Slot, LookupAnswered(s) PROVE SlotInv'
  BY <1>8, <1>act, <1>rec, <1>wire DEF LookupAnswered, FindActive, Record, TerminalExchange
<1>9. ASSUME NEW s \in Slot, LookupFails(s) PROVE SlotInv'
  BY <1>9, <1>act, <1>wire DEF LookupFails, FindActive
<1>10. CASE SelectFresh
  BY <1>10, <1>id, <1>act, <1>wire DEF SelectFresh, Prepare, UnusedIds
<1>11. CASE Send
  BY <1>11, <1>act, <1>wire DEF Send, Submitting, Unconfirmed
<1>12. CASE Acknowledged
  BY <1>12, <1>act, <1>wire
  DEF Acknowledged, BackToBatch, Submitting, Unconfirmed, RecordedState, AckStatus, OrderStatus
<1>13. CASE MalformedAck
  BY <1>13, <1>act, <1>wire DEF MalformedAck, StopBatch, Submitting, Unconfirmed
<1>14. CASE Rejected
  BY <1>14, <1>act, <1>wire DEF Rejected, BackToBatch, Submitting, Unconfirmed
<1>15. CASE OutcomeUnknown
  BY <1>15, <1>act, <1>wire DEF OutcomeUnknown, Submitting, Unconfirmed
<1>16. CASE RequeryFound
  BY <1>16, <1>act, <1>rec, <1>wire DEF RequeryFound, Record, BackToBatch, Submitting
<1>17. CASE RequeryFails
  BY <1>17 DEF RequeryFails, StopBatch
<1>18. CASE EndBatch
  BY <1>18 DEF EndBatch
<1>19. ASSUME NEW i \in Id, ObserveOpen(i) \/ ObserveEmpty(i) \/ ObserveFilled(i) PROVE SlotInv'
  <2>1. CASE ObserveOpen(i)
    BY <2>1, <1>act, <1>rec, <1>wire DEF ObserveOpen, Record
  <2>2. CASE ObserveEmpty(i)
    <3>1. /\ order[i] = "CANCELED" /\ ~Live(i) /\ ~(wire[i] > 0)
          /\ journal' = [journal EXCEPT ![i] = "CANCELED"]
          /\ tracked' = tracked \ {i} /\ pc = "watch"
          /\ UNCHANGED <<slotOf, exchangeVars, pc, cur>>
      BY <2>2, <1>act, <1>rec, <1>wire DEF ObserveEmpty, Record
    <3>2. "CANCELED" \notin BuyActive /\ "CANCELED" # "none"
      BY <1>act
    <3>3. RowsActive'
      BY <3>1, <3>2, <1>act
    <3>4. OneActivePerSlot'
      <4>1. /\ \A j \in Id : journal'[j] # "none" => journal[j] # "none"
            /\ \A j \in Id : journal'[j] \in BuyActive => journal[j] \in BuyActive
        BY <3>1, <3>2, <1>wire
      <4> QED
        BY <3>1, <4>1
    <3> QED
      BY <3>3, <3>4
  <2>3. CASE ObserveFilled(i)
    BY <2>3, <1>act, <1>rec, <1>wire DEF ObserveFilled, Record
  <2> QED
    BY <1>19, <2>1, <2>2, <2>3
<1>20. ASSUME NEW i \in Id, Accept(i) PROVE SlotInv'
  BY <1>20, <1>act, <1>wire DEF Accept, Unconfirmed
<1>21. ASSUME NEW i \in Id, Refuse(i) \/ Lose(i) PROVE SlotInv'
  BY <1>21, <1>act, <1>wire DEF Refuse, Lose, Unconfirmed
<1>22. ASSUME NEW i \in Id, Advance(i) PROVE SlotInv'
  BY <1>22, <1>act DEF Advance, Later
<1>23. CASE Exit \/ Crash
  BY <1>23 DEF Exit, Crash, GoDown
<1>24. CASE HaltElsewhere \/ OperatorReset
  BY <1>24 DEF HaltElsewhere, OperatorReset
<1>25. CASE UNCHANGED vars
  BY <1>25 DEF vars
<1> QED
  BY <1>1, <1>2, <1>3, <1>4, <1>5, <1>6, <1>7, <1>8, <1>9, <1>10, <1>11, <1>12, <1>13,
     <1>14, <1>15, <1>16, <1>17, <1>18, <1>19, <1>20, <1>21, <1>22, <1>23, <1>24, <1>25
  DEF Next, Startup, Submission, Watching, Exchange

(* SlotInv holds in every state, if no POST outlives the query that denies it.        *)
LEMMA SlotInductive == PostsSettle => (Spec => []SlotInv)
<1> SUFFICES ASSUME PostsSettle PROVE Spec => []SlotInv
  OBVIOUS
<1>1. Init => SlotInv
  BY DEF Init, SlotInv, RowsActive, OneActivePerSlot, LiveIsActive, Live, OpenStatus,
     FilledStatus, BuyActive
<1>2. TypeOK /\ CurKnown /\ TransportInv /\ SlotInv /\ [Next]_vars => SlotInv'
  BY SlotStep
<1>3. QED
  BY <1>1, <1>2, TypeInductive, TransportInductive, PTL DEF Spec

(* Restart only reconciles active rows; this shows that nothing else needs it: every *)
(* order that lives and every POST that may still arrive has an active row.          *)
THEOREM LiveIsActiveHolds == PostsSettle => (Spec => []LiveIsActive)
<1> SUFFICES ASSUME PostsSettle PROVE Spec => []LiveIsActive
  OBVIOUS
<1>1. SlotInv => LiveIsActive
  BY DEF SlotInv, RowsActive
<1>2. QED
  BY <1>1, SlotInductive, PTL

(* find_active suffices, without the open-price filter: two BUYs of one slot never   *)
(* live together, whatever crashes, losses and resets came between them.             *)
THEOREM OneHolderHolds == PostsSettle => (Spec => []OneHolderPerSlot)
<1> SUFFICES ASSUME PostsSettle PROVE Spec => []OneHolderPerSlot
  OBVIOUS
<1>1. SlotInv => OneHolderPerSlot
  BY DEF SlotInv, RowsActive, OneActivePerSlot, LiveIsActive, OneHolderPerSlot
<1>2. QED
  BY <1>1, SlotInductive, PTL

(* WatchInv (a running worker watches its live orders) is kept by every step.         *)
LEMMA WatchStep ==
    ASSUME PostsSettle, TypeOK, CurKnown, TransportInv, SlotInv, WatchInv, [Next]_vars
    PROVE  WatchInv'
<1> USE SubmissionAssumption DEF SubmissionAssumption, TypeOK, CurKnown, WatchInv, Live,
      journalVars, exchangeVars, workerVars
<1>act. /\ OpenStatus = {"NEW", "PARTIALLY_FILLED"}
        /\ FilledStatus = {"FILLED", "CANCELED_PARTIAL"}
  BY DEF OpenStatus, FilledStatus
<1>rec. \A i \in Id : order[i] # "absent" =>
          IF order[i] = "CANCELED" THEN RecordedState(order[i]) = "CANCELED"
          ELSE RecordedState(order[i]) \in BuyActive
  BY RecordedIsActive
<1>wire. /\ \A i \in Id : wire[i] > 0 => order[i] = "absent"
         /\ Submitting /\ Quiet /\ LiveIsActive /\ RowsActive
  BY DEF TransportInv, WireOrOrder, SlotInv, RowsActive
<1>1. CASE Boot
  BY <1>1 DEF Boot
<1>2. ASSUME NEW i \in Id, ReconcileAnswered(i) PROVE WatchInv'
  BY <1>2 DEF ReconcileAnswered, GoDown
<1>3. ASSUME NEW i \in Id, RecoverAnswered(i) PROVE WatchInv'
  BY <1>3, <1>act, <1>rec DEF RecoverAnswered, Record, GoDown, Tracks
<1>4. ASSUME NEW i \in Id, StartupReadFails(i) PROVE WatchInv'
  BY <1>4 DEF StartupReadFails, GoDown
<1>5. CASE StartRecovery
  BY <1>5, <1>wire DEF StartRecovery, LiveIsActive
<1>6. CASE StartBatch
  BY <1>6 DEF StartBatch
<1>7. ASSUME NEW s \in Slot, SelectNew(s) PROVE WatchInv'
  BY <1>7, <1>act, <1>wire DEF SelectNew, Prepare, TransportInv, UnusedIds
<1>8. ASSUME NEW s \in Slot, LookupAnswered(s) PROVE WatchInv'
  BY <1>8, <1>act, <1>rec DEF LookupAnswered, FindActive, ActiveIn, Record, BuyActive
<1>9. ASSUME NEW s \in Slot, LookupFails(s) PROVE WatchInv'
  BY <1>9, <1>act DEF LookupFails, FindActive, ActiveIn, BuyActive
<1>10. CASE SelectFresh
  BY <1>10, <1>act DEF SelectFresh, Prepare, TransportInv, UnusedIds
<1>11. CASE Send
  BY <1>11 DEF Send
<1>12. CASE Acknowledged
  BY <1>12, <1>act DEF Acknowledged, BackToBatch
<1>13. CASE MalformedAck
  BY <1>13 DEF MalformedAck, StopBatch
<1>14. CASE Rejected
  BY <1>14, <1>act, <1>wire DEF Rejected, BackToBatch, Submitting
<1>15. CASE OutcomeUnknown
  BY <1>15, <1>wire DEF OutcomeUnknown, Submitting, Unconfirmed
<1>16. CASE RequeryFound
  BY <1>16, <1>act, <1>rec DEF RequeryFound, Record, BackToBatch
<1>17. CASE RequeryFails
  BY <1>17 DEF RequeryFails, StopBatch
<1>18. CASE EndBatch
  BY <1>18 DEF EndBatch
<1>19. ASSUME NEW i \in Id, ObserveOpen(i) PROVE WatchInv'
  BY <1>19, <1>act, <1>rec DEF ObserveOpen, Record
<1>20. ASSUME NEW i \in Id, ObserveEmpty(i) PROVE WatchInv'
  BY <1>20, <1>act, <1>rec DEF ObserveEmpty, Record
<1>21. ASSUME NEW i \in Id, ObserveFilled(i) PROVE WatchInv'
  BY <1>21, <1>act, <1>rec DEF ObserveFilled, Record
<1>22. ASSUME NEW i \in Id, Accept(i) PROVE WatchInv'
  BY <1>22, <1>act, <1>wire DEF Accept, Quiet, NothingOnWire
<1>23. ASSUME NEW i \in Id, Refuse(i) \/ Lose(i) PROVE WatchInv'
  BY <1>23 DEF Refuse, Lose
<1>24. ASSUME NEW i \in Id, Advance(i) PROVE WatchInv'
  BY <1>24, <1>act DEF Advance, Later
<1>25. CASE Exit \/ Crash \/ HaltElsewhere \/ OperatorReset
  BY <1>25 DEF Exit, Crash, GoDown, HaltElsewhere, OperatorReset
<1>26. CASE UNCHANGED vars
  BY <1>26 DEF vars
<1> QED
  BY <1>1, <1>2, <1>3, <1>4, <1>5, <1>6, <1>7, <1>8, <1>9, <1>10, <1>11, <1>12, <1>13,
     <1>14, <1>15, <1>16, <1>17, <1>18, <1>19, <1>20, <1>21, <1>22, <1>23, <1>24, <1>25, <1>26
  DEF Next, Startup, Submission, Watching, Exchange

(* WatchInv holds in every state, if no POST outlives the query that denies it.       *)
LEMMA WatchInductive == PostsSettle => (Spec => []WatchInv)
<1> SUFFICES ASSUME PostsSettle PROVE Spec => []WatchInv
  OBVIOUS
<1>1. Init => WatchInv
  BY DEF Init, WatchInv, Live, OpenStatus, FilledStatus
<1>2. /\ TypeOK /\ CurKnown /\ TransportInv /\ SlotInv /\ WatchInv
      /\ [Next]_vars
      => WatchInv'
  BY WatchStep
<1>3. QED
  BY <1>1, <1>2, TypeInductive, TransportInductive, SlotInductive, PTL DEF Spec

(* A live BUY is in the event loop's list whenever the loop runs without HALT: no     *)
(* path from a POST, a lookup or a restart to the loop forgets one.                   *)
THEOREM LiveIsWatchedHolds == PostsSettle => (Spec => []LiveIsWatched)
<1> SUFFICES ASSUME PostsSettle PROVE Spec => []LiveIsWatched
  OBVIOUS
<1>1. WatchInv => LiveIsWatched
  BY DEF WatchInv, LiveIsWatched
<1>2. QED
  BY <1>1, WatchInductive, PTL

---------------------------------------------------------------------------
(* Refinement: every step is a step of BuyIntents or leaves it unchanged.   *)

(* An empty journal and an exchange without orders are the initial state of BuyIntents. *)
LEMMA InitRefines == Init => Intents!Init
BY DEF Init, Intents!Init, Intents!Intent, Id, PhaseOf

(* A step moves at most one intent, and moves it the way BuyIntents allows.           *)
LEMMA StepRefines ==
    ASSUME PostsSettle, TypeOK, CurKnown, TransportInv, SlotInv, [Next]_vars
    PROVE  [Intents!Next]_Intents!vars
<1> DEFINE Same(j) == PhaseOf(j)' = PhaseOf(j)
<1> USE SubmissionAssumption DEF SubmissionAssumption, TypeOK, CurKnown
<1>stutter. ASSUME slotOf' = slotOf, \A j \in Id : Same(j)
            PROVE  [Intents!Next]_Intents!vars
  BY <1>stutter DEF Intents!vars
<1>move. ASSUME NEW i \in Id, NEW from, NEW to,
                \/ from = "open" /\ to \in {"live", "void", "done"}
                \/ from = "live" /\ to = "done",
                slotOf' = slotOf, PhaseOf(i) = from, PhaseOf(i)' = to,
                \A j \in Id \ {i} : Same(j)
         PROVE  [Intents!Next]_Intents!vars
  <2>1. Intents!Move(i, from, to)
    BY <1>move DEF Intents!Move
  <2>2. i \in Intents!Intent
    BY DEF Id, Intents!Intent
  <2> QED
    BY <2>1, <2>2, <1>move DEF Intents!Next
<1>open. ASSUME NEW i \in Id, NEW s \in Slot, ActiveIn(s) = {},
                PhaseOf(i) = "free", PhaseOf(i)' = "open",
                slotOf' = [slotOf EXCEPT ![i] = s],
                \A j \in Id \ {i} : Same(j)
         PROVE  [Intents!Next]_Intents!vars
  <2>1. Intents!Holding(s) = {}
    <3>1. \A j \in Id : PhaseOf(j) \in {"open", "live"} => journal[j] \in BuyActive
      BY DEF PhaseOf, SlotInv, RowsActive, LiveIsActive
    <3> QED
      BY <1>open, <3>1 DEF Intents!Holding, Intents!Intent, Id, ActiveIn
  <2>2. Intents!Open(i, s)
    BY <1>open, <2>1 DEF Intents!Open
  <2>3. i \in Intents!Intent
    BY DEF Id, Intents!Intent
  <2> QED
    BY <2>2, <2>3 DEF Intents!Next
<1>act. /\ BuyActive = {"PREPARED", "UNKNOWN", "SUBMITTED", "PARTIALLY_FILLED", "FILLED",
                        "PROTECTION_PENDING"}
        /\ OpenStatus = {"NEW", "PARTIALLY_FILLED"}
        /\ FilledStatus = {"FILLED", "CANCELED_PARTIAL"}
  BY DEF BuyActive, OpenStatus, FilledStatus
<1>rec. \A i \in Id : order[i] # "absent" =>
          IF order[i] = "CANCELED" THEN RecordedState(order[i]) = "CANCELED"
          ELSE RecordedState(order[i]) \in BuyActive
  BY RecordedIsActive
<1>wire. \A i \in Id : wire[i] > 0 => order[i] = "absent" /\ journal[i] \in {"PREPARED", "UNKNOWN"}
  BY DEF TransportInv, WireOrOrder, Unconfirmed
<1>id. nextId <= MaxIntents => /\ nextId \in Id
                               /\ journal[nextId] = "none" /\ order[nextId] = "absent"
  BY DEF Id, TransportInv, UnusedIds
<1>inv. PendingActive /\ Submitting /\ RowsActive /\ OneActivePerSlot
  BY DEF TransportInv, SlotInv
(* A row stays active, or its order ended without a fill. *)
<1>row. ASSUME NEW i \in Id, NEW st, journal' = [journal EXCEPT ![i] = st],
               journal[i] # "none" /\ st # "none",
               \/ journal[i] \in BuyActive /\ st \in BuyActive
               \/ order[i] = "CANCELED",
               UNCHANGED <<slotOf, order>>
        PROVE  [Intents!Next]_Intents!vars
  BY <1>row, <1>stutter, <1>act DEF PhaseOf, Live
(* record_exchange_order of an active row, or of one whose order was cancelled. *)
<1>record. ASSUME NEW i \in Id, Record(i), order[i] # "absent", journal[i] # "none",
                  journal[i] \in BuyActive \/ order[i] = "CANCELED",
                  UNCHANGED <<slotOf, order>>
           PROVE  [Intents!Next]_Intents!vars
  <2>1. RecordedState(order[i]) # "none"
    BY <1>record, <1>rec, <1>act
  <2> QED
    BY <1>record, <2>1, <1>rec, <1>row DEF Record
<1>fail. ASSUME NEW i \in Id, journal' = [journal EXCEPT ![i] = "FAILED"], order[i] = "absent",
                journal[i] \in BuyActive, UNCHANGED <<slotOf, order>>
         PROVE  [Intents!Next]_Intents!vars
  <2>1. PhaseOf(i) = "open" /\ PhaseOf(i)' = "void"
    BY <1>fail, <1>act DEF PhaseOf, Live
  <2>2. \A j \in Id \ {i} : Same(j)
    BY <1>fail DEF PhaseOf, Live
  <2> QED
    BY <1>fail, <2>1, <2>2, <1>move
<1>1. CASE UNCHANGED <<slotOf, journal, order>>
  BY <1>1, <1>stutter DEF PhaseOf, Live
<1>2. CASE Boot \/ StartRecovery \/ StartBatch \/ Send \/ RequeryFails \/ EndBatch
           \/ Exit \/ Crash \/ HaltElsewhere \/ OperatorReset
  BY <1>1, <1>2 DEF Boot, StartRecovery, StartBatch, Send, RequeryFails, EndBatch, Exit, Crash,
     HaltElsewhere, OperatorReset, journalVars, exchangeVars
<1>3. ASSUME NEW i \in Id, Refuse(i) \/ Lose(i) PROVE [Intents!Next]_Intents!vars
  BY <1>1, <1>3 DEF Refuse, Lose, journalVars
<1>4. ASSUME NEW i \in Id, ReconcileAnswered(i) PROVE [Intents!Next]_Intents!vars
  BY <1>4, <1>1, <1>fail, <1>record, <1>act, <1>inv
  DEF ReconcileAnswered, PendingActive, exchangeVars
<1>5. ASSUME NEW i \in Id, RecoverAnswered(i) PROVE [Intents!Next]_Intents!vars
  BY <1>5, <1>1, <1>record, <1>act, <1>inv DEF RecoverAnswered, PendingActive, exchangeVars
<1>6. ASSUME NEW i \in Id, StartupReadFails(i) PROVE [Intents!Next]_Intents!vars
  BY <1>6, <1>1, <1>row, <1>act, <1>inv DEF StartupReadFails, PendingActive, exchangeVars
<1>7. ASSUME NEW s \in Slot, Prepare(s), ActiveIn(s) = {}, UNCHANGED order
      PROVE  [Intents!Next]_Intents!vars
  <2>1. PICK i \in Id : i = nextId
    BY <1>7, <1>id DEF Prepare
  <2>2. /\ journal[i] = "none" /\ order[i] = "absent"
        /\ journal' = [journal EXCEPT ![i] = "PREPARED"]
        /\ slotOf' = [slotOf EXCEPT ![i] = s]
    BY <1>7, <2>1, <1>id DEF Prepare
  <2>3. PhaseOf(i) = "free" /\ PhaseOf(i)' = "open"
    BY <1>7, <2>2, <1>act DEF PhaseOf, Live
  <2>4. \A j \in Id \ {i} : Same(j)
    BY <1>7, <2>2 DEF PhaseOf, Live
  <2> QED
    BY <1>7, <2>2, <2>3, <2>4, <1>open
<1>8. ASSUME NEW s \in Slot, SelectNew(s) PROVE [Intents!Next]_Intents!vars
  <2>1. ActiveIn(s) = {}
    BY <1>8, <1>inv DEF SelectNew, FindActive, ActiveIn, OneActivePerSlot, Id
  <2> QED
    BY <1>8, <1>7, <2>1 DEF SelectNew, exchangeVars
<1>9. CASE SelectFresh
  BY <1>9, <1>7, <1>inv DEF SelectFresh, OneActivePerSlot, exchangeVars
<1>10. ASSUME NEW s \in Slot, LookupAnswered(s) PROVE [Intents!Next]_Intents!vars
  BY <1>10, <1>1, <1>record, <1>act DEF LookupAnswered, FindActive, ActiveIn, exchangeVars
<1>11. ASSUME NEW s \in Slot, LookupFails(s) PROVE [Intents!Next]_Intents!vars
  BY <1>11, <1>1, <1>row, <1>act DEF LookupFails, FindActive, ActiveIn, exchangeVars
<1>12. CASE Acknowledged
  <2>1. /\ RecordedState(reply) \in BuyActive \/ order[cur] = "CANCELED"
        /\ RecordedState(reply) # "none"
    BY <1>12, <1>act, <1>inv
    DEF Acknowledged, AckStatus, OrderStatus, RecordedState, Submitting
  <2> QED
    BY <1>12, <2>1, <1>row, <1>act, <1>inv DEF Acknowledged, Submitting, Unconfirmed, exchangeVars
<1>13. CASE MalformedAck \/ OutcomeUnknown
  BY <1>13, <1>row, <1>act, <1>inv
  DEF MalformedAck, OutcomeUnknown, Submitting, Unconfirmed, exchangeVars
<1>14. CASE Rejected
  BY <1>14, <1>fail, <1>act, <1>inv DEF Rejected, Submitting, Unconfirmed, exchangeVars
<1>15. CASE RequeryFound
  BY <1>15, <1>record, <1>act, <1>inv DEF RequeryFound, Submitting, exchangeVars
<1>16. ASSUME NEW i \in Id, ObserveOpen(i) \/ ObserveEmpty(i)
       PROVE  [Intents!Next]_Intents!vars
  BY <1>16, <1>record, <1>act, <1>inv, RecordedIsActive
  DEF ObserveOpen, ObserveEmpty, RowsActive, TransportInv, WireOrOrder, exchangeVars
<1>17. ASSUME NEW i \in Id, ObserveFilled(i) PROVE [Intents!Next]_Intents!vars
  <2>1. journal[i] \in BuyActive /\ order[i] \in FilledStatus
    BY <1>17, <1>act, <1>inv DEF ObserveFilled, RowsActive
  <2>2. CASE journal' = [journal EXCEPT ![i] = "PROTECTED"]
    <3>1. PhaseOf(i) = "live" /\ PhaseOf(i)' = "done"
      BY <1>17, <2>1, <2>2, <1>act DEF ObserveFilled, PhaseOf, Live, exchangeVars
    <3>2. \A j \in Id \ {i} : Same(j)
      BY <1>17, <2>2 DEF ObserveFilled, PhaseOf, Live, exchangeVars
    <3> QED
      BY <1>17, <3>1, <3>2, <1>move DEF ObserveFilled
  <2>3. CASE Record(i)
    BY <1>17, <2>1, <2>3, <1>record, <1>act DEF ObserveFilled, exchangeVars
  <2> QED
    BY <1>17, <2>2, <2>3 DEF ObserveFilled
<1>18. ASSUME NEW i \in Id, Accept(i) PROVE [Intents!Next]_Intents!vars
  <2>1. order[i] = "absent" /\ journal[i] \in {"PREPARED", "UNKNOWN"}
    BY <1>18, <1>wire DEF Accept
  <2>2. PICK st \in AckStatus : order' = [order EXCEPT ![i] = st]
    BY <1>18, <2>1, <1>act DEF Accept
  <2>3. PhaseOf(i) = "open" /\ PhaseOf(i)' = IF st = "CANCELED" THEN "done" ELSE "live"
    BY <1>18, <2>1, <2>2, <1>act DEF Accept, PhaseOf, Live, journalVars, AckStatus, OrderStatus
  <2>4. \A j \in Id \ {i} : Same(j)
    BY <1>18, <2>2 DEF Accept, PhaseOf, Live, journalVars
  <2> QED
    BY <1>18, <2>3, <2>4, <1>move DEF Accept, journalVars
<1>19. ASSUME NEW i \in Id, Advance(i) PROVE [Intents!Next]_Intents!vars
  <2>1. /\ UNCHANGED <<slotOf, journal>>
        /\ order[i] \in OpenStatus
        /\ \E st \in FilledStatus \cup {"PARTIALLY_FILLED", "CANCELED"} :
             order' = [order EXCEPT ![i] = st]
    BY <1>19, <1>act DEF Advance, Later, journalVars
  <2>2. \A j \in Id \ {i} : Same(j)
    BY <2>1 DEF PhaseOf, Live
  <2>3. CASE order'[i] = "CANCELED" /\ Live(i) /\ journal[i] # "none"
    <3>1. PhaseOf(i) = "live" /\ PhaseOf(i)' = "done"
      BY <2>1, <2>3, <1>act DEF PhaseOf, Live
    <3> QED
      BY <2>1, <2>2, <3>1, <1>move
  <2>4. CASE ~(order'[i] = "CANCELED" /\ Live(i) /\ journal[i] # "none")
    <3>1. Same(i)
      BY <2>1, <2>4, <1>act DEF PhaseOf, Live
    <3> QED
      BY <2>1, <2>2, <3>1, <1>stutter
  <2> QED
    BY <2>3, <2>4
<1>20. CASE UNCHANGED vars
  BY <1>1, <1>20 DEF vars
<1> QED
  BY <1>2, <1>3, <1>4, <1>5, <1>6, <1>8, <1>9, <1>10, <1>11, <1>12, <1>13, <1>14, <1>15,
     <1>16, <1>17, <1>18, <1>19, <1>20
  DEF Next, Startup, Submission, Watching, Exchange

(* The submission path implements the intent lifecycle: an intent is opened for a     *)
(* slot nobody holds, and from then on only moves forward.                            *)
THEOREM Refinement == PostsSettle => (Spec => ImplementsIntents)
<1> SUFFICES ASSUME PostsSettle PROVE Spec => ImplementsIntents
  OBVIOUS
<1>1. Init => Intents!Init
  BY InitRefines
<1>2. TypeOK /\ CurKnown /\ TransportInv /\ SlotInv /\ [Next]_vars => [Intents!Next]_Intents!vars
  BY StepRefines
<1>3. QED
  BY <1>1, <1>2, TypeInductive, TransportInductive, SlotInductive, PTL
  DEF Spec, ImplementsIntents, Intents!Spec
=================================================================================
