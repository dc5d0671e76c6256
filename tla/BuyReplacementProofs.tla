--------------------------- MODULE BuyReplacementProofs ---------------------------
(***************************************************************************)
(* However many rows, prices and faults: a BUY that is moved again and      *)
(* again buys once, the journal never gives up what can still buy, and no   *)
(* worker runs beside a replacement whose outcome is open.  The argument is *)
(* that a POST only waits on the wire behind a stopped worker, and that it  *)
(* can only be executed in exchange for the order it descends from.  That   *)
(* a BUY only moves to a price, which the types need, rests on ranks: every *)
(* rank below the number of ladder prices is the rank of one of them.       *)
(***************************************************************************)
EXTENDS BuyReplacement, FiniteSums

InRequest == {"prepared", "posted", "reconcile", "record", "halt"}
Waiting == {"posted", "reconcile", "halt"}

(* Rows and orders keep their ranges, as far as the argument needs it. *)
Typed == /\ nextId \in Nat \ {0}
         /\ journal \in [Id -> BuyActive \cup {"none", "PROTECTED", "CANCELED", "FAILED"}]
         /\ replaces \in [Id -> Id \cup {NoId}]
         /\ origin \in [Id -> Id \cup {NoId}]
         /\ order \in [Id -> Status]
         /\ wire \subseteq Id /\ tracked \subseteq Id
         /\ \A move \in plan : move.id \in Id
         /\ cur \in Id \cup {NoId}

(* A row that does not exist has no order and no descent. *)
RowsInOrder == /\ \A i \in Id : origin[i] < nextId /\ replaces[i] < nextId
               /\ \A i \in Id : i >= nextId =>
                     /\ journal[i] = "none" /\ order[i] = "absent"
                     /\ i \notin wire /\ i \notin numbered
               /\ cur < nextId

(* A POST on the wire has no order yet, and shares its descent with the     *)
(* order it would replace; so does the replacement under way.               *)
Descends(i) == replaces[i] \in Id /\ origin[i] = origin[replaces[i]]
WireDescends == /\ \A i \in wire : order[i] = "absent" /\ Descends(i)
                /\ pc \in InRequest => cur \in Id /\ Descends(cur)
                /\ pc = "prepared" =>
                      /\ order[cur] = "absent" /\ cur \notin wire
                      /\ journal[cur] = "PREPARED"

(* The worker is down while a pass replaces BUYs and while the service is.  *)
WorkerAway == pc \in InRequest \cup {"replace", "down"} => worker = "down"

(* Without HALT only the request under way may still arrive. *)
WireQuiet == /\ wire # {} => worker # "up"
             /\ ~halted /\ pc # "down" => wire \subseteq {cur}
             /\ ~halted /\ pc \notin Waiting \cup {"down"} => wire = {}

(* What an answer says of both orders. *)
AnswerIsTrue == /\ pc = "posted" /\ reply = "noop" => cur \notin wire /\ order[cur] = "absent"
                /\ pc = "posted" /\ reply = "both" =>
                      cur \notin wire /\ order[replaces[cur]] = "CANCELED"
                /\ pc \notin Waiting \cup {"record"} => reply = "none"
                /\ pc = "record" => Placed(seen) /\ cur \notin wire

ReplacementInv == /\ Typed /\ RowsInOrder /\ WireDescends /\ WorkerAway /\ WireQuiet
                  /\ AnswerIsTrue /\ OncePerBuy /\ LiveIsActive

---------------------------------------------------------------------------
(* Effects *)

(* A recorded state is a state of the journal, and what can still buy or    *)
(* has bought is recorded as active.                                        *)
LEMMA RecordedRange ==
    ASSUME NEW st \in Status \ {"absent"}
    PROVE  /\ RecordedState(st) \in BuyActive \cup {"CANCELED"}
           /\ st # "CANCELED" => RecordedState(st) \in BuyActive
BY DEF RecordedState, Status, BuyActive

(* A reconciliation only touches rows that exist, and keeps a row active    *)
(* whose order can still buy or has bought.                                 *)
ReconcileSome == \E rows \in SUBSET Nonterminal : Reconcile(rows)

LEMMA ReconcileEffect ==
    ASSUME Typed, ReconcileSome
    PROVE  /\ journal' \in [Id -> BuyActive \cup {"none", "PROTECTED", "CANCELED", "FAILED"}]
           /\ \A i \in Id : journal[i] = "none" => journal'[i] = "none"
           /\ \A i \in Id : /\ order[i] \notin {"absent", "CANCELED"}
                           /\ journal[i] \in BuyActive \cup {"PROTECTED"}
                          => journal'[i] \in BuyActive \cup {"PROTECTED"}
           /\ \A i \in numbered' : i \in numbered \/ (i \in Id /\ journal[i] # "none")
           /\ UNCHANGED <<nextId, level, replaces, origin, order, wire>>
<1>. PICK rows \in SUBSET Nonterminal : Reconcile(rows)
  BY DEF ReconcileSome
<1>1. /\ journal' = [i \in Id |-> IF i \in rows THEN Reconciled(i) ELSE journal[i]]
      /\ numbered' = numbered \cup {i \in rows : order[i] # "absent"}
      /\ UNCHANGED <<nextId, level, replaces, origin, order, wire>>
  BY DEF Reconcile, exchangeVars
<1>2. ASSUME NEW i \in rows
      PROVE  /\ Reconciled(i) \in BuyActive \cup {"none", "PROTECTED", "CANCELED", "FAILED"}
             /\ journal[i] # "none"
             /\ order[i] \notin {"absent", "CANCELED"} => Reconciled(i) \in BuyActive
  <2>1. i \in Id /\ journal[i] # "none"
    BY DEF Nonterminal, BuyActive
  <2>2. CASE order[i] = "absent"
    BY <2>1, <2>2 DEF Reconciled, BuyActive
  <2>3. CASE order[i] # "absent"
    <3>1. order[i] \in Status \ {"absent"}
      BY <2>1, <2>3 DEF Typed
    <3>2. Reconciled(i) = RecordedState(order[i])
      BY <2>3 DEF Reconciled
    <3>. QED BY <2>1, <2>3, <3>1, <3>2, RecordedRange
  <2>. QED BY <2>2, <2>3
<1>3. \A i \in numbered' : i \in numbered \/ (i \in Id /\ journal[i] # "none")
  BY <1>1, <1>2 DEF Nonterminal
<1>. QED BY <1>1, <1>2, <1>3 DEF Typed, Nonterminal

(* A POST that arrives opens its order in exchange for the one it replaces, *)
(* cancels that one alone, or does nothing.                                 *)
LEMMA DeliverEffect ==
    ASSUME Typed, WireDescends, NEW i \in Id, Deliver(i)
    PROVE  /\ i \in wire /\ wire' = wire \ {i}
           /\ replaces[i] \in Id
           /\ order' \in [Id -> Status]
           /\ \/ order' = order
              \/ /\ order[replaces[i]] = "NEW" /\ replaces[i] # i
                 /\ order'[replaces[i]] = "CANCELED" /\ order'[i] \in {"NEW", "absent"}
                 /\ \A j \in Id \ {i, replaces[i]} : order'[j] = order[j]
           /\ UNCHANGED <<nextId, journal, level, replaces, origin, numbered, pc, plan, cur,
                          seen, worker, tracked, halted>>
<1>1. /\ i \in wire /\ wire' = wire \ {i}
      /\ UNCHANGED <<nextId, journal, level, replaces, origin, numbered, pc, plan, cur,
                     seen, worker, tracked, halted>>
  BY DEF Deliver, journalVars, workerVars
<1>2. replaces[i] \in Id /\ order[i] = "absent"
  BY <1>1 DEF WireDescends, Descends
<1>3. CASE order[replaces[i]] # "NEW"
  <2>1. order' = order
    BY <1>3 DEF Deliver, OnlyNew, StopOnFailure
  <2>. QED BY <1>1, <1>2, <2>1 DEF Typed
<1>4. CASE order[replaces[i]] = "NEW"
  <2>. DEFINE canceled == [order EXCEPT ![replaces[i]] = "CANCELED"]
  <2>1. order' = canceled \/ order' = [canceled EXCEPT ![i] = "NEW"]
    BY <1>4 DEF Deliver, OnlyNew, StopOnFailure, Canceled
  <2>2. canceled \in [Id -> Status] /\ replaces[i] # i
    BY <1>2, <1>4 DEF Typed, Status
  <2>. QED BY <1>1, <1>2, <1>4, <2>1, <2>2 DEF Typed, Status
<1>. QED BY <1>3, <1>4

(* A trade fills an open order. *)
LEMMA TradeEffect ==
    ASSUME Typed, NEW i \in Id, Trade(i)
    PROVE  /\ order[i] \in {"NEW", "PARTIALLY_FILLED"}
           /\ order' \in [Id -> Status]
           /\ order'[i] \in {"PARTIALLY_FILLED", "FILLED"}
           /\ \A j \in Id \ {i} : order'[j] = order[j]
<1>1. PICK st \in {"PARTIALLY_FILLED", "FILLED"} : order' = [order EXCEPT ![i] = st]
  BY DEF Trade
<1>. QED BY <1>1 DEF Trade, Typed, Status

---------------------------------------------------------------------------
(* Every step keeps the types, *)
LEMMA TypedNext ==
    ASSUME Typed, WireDescends, AnswerIsTrue, RowsInOrder, [Next]_vars
    PROVE  Typed'
<1>1. CASE \/ StopWorker \/ StopUnconfirmed \/ EndPlan \/ Launch
           \/ NotAttempted \/ Replaced \/ NotUnderstood \/ Ambiguous
           \/ RefuseStart \/ Crash \/ OperatorReset \/ WorkerEnds
           \/ StopUnderHalt \/ UNCHANGED vars
  BY <1>1
  DEF Typed, StopWorker, journalVars, exchangeVars, StopUnconfirmed, Suppress,
      workerVars, EndPlan, Launch, NotAttempted, Finish, Replaced, NotUnderstood,
      Ambiguous, TripHalt, RefuseStart, passVars, Crash, OperatorReset, Settled,
      WorkerEnds, StopUnderHalt, vars
<1>2. ASSUME NEW ladder, NEW young, Plan(ladder, young)
      PROVE  Typed'
  <2>1. FirstCandidates(ladder, young) \subseteq Id
    BY DEF FirstCandidates, Candidates, Open
  <2>2. \A move \in plan' : move.id \in Id
    BY <1>2, <2>1 DEF Plan
  <2>. QED BY <1>2, <2>2 DEF Typed, Plan, journalVars, exchangeVars, workerVars
<1>3. ASSUME NEW move, NotInJournal(move)
      PROVE  Typed'
  BY <1>3
  DEF Typed, NotInJournal, IsNext, journalVars, exchangeVars, workerVars
<1>4. ASSUME NEW move, Prepare(move)
      PROVE  Typed'
  BY <1>4, RecordedRange, ReplacementAssumption
  DEF Typed, Status, BuyActive, Id, NoId, WireDescends, AnswerIsTrue, RowsInOrder,
      InRequest, Descends, Placed, ReplacementAssumption, Prepare, IsNext,
      exchangeVars, workerVars
<1>5. CASE Send
  BY <1>5, RecordedRange, ReplacementAssumption
  DEF Typed, Status, BuyActive, Id, NoId, WireDescends, AnswerIsTrue, RowsInOrder,
      InRequest, Descends, Placed, ReplacementAssumption, Send, journalVars,
      workerVars
<1>6. CASE ReconcileFinds
  BY <1>6, RecordedRange, ReplacementAssumption
  DEF Typed, Status, BuyActive, Id, NoId, WireDescends, AnswerIsTrue, RowsInOrder,
      InRequest, Descends, Placed, ReplacementAssumption, ReconcileFinds,
      BothSettled, exchangeVars, workerVars
<1>7. CASE ReconcileGivesUp
  BY <1>7, RecordedRange, ReplacementAssumption
  DEF Typed, Status, BuyActive, Id, NoId, WireDescends, AnswerIsTrue, RowsInOrder,
      InRequest, Descends, Placed, ReplacementAssumption, ReconcileGivesUp,
      GiveUpState, exchangeVars, workerVars
<1>8. CASE RecordNew
  BY <1>8, RecordedRange, ReplacementAssumption
  DEF Typed, Status, BuyActive, Id, NoId, WireDescends, AnswerIsTrue, RowsInOrder,
      InRequest, Descends, Placed, ReplacementAssumption, RecordNew, Finish,
      exchangeVars, workerVars
<1>9. CASE Gate \/ GateFails
  <2>1. ReconcileSome
    BY <1>9 DEF Gate, GateFails, ReconcileSome, ReconcileAll
  <2>. QED BY <1>9, <2>1, ReconcileEffect
    DEF Typed, Id, Gate, GateFails, Settled, passVars, workerVars
<1>10. CASE StartWorker
  <2>1. ReconcileSome
    BY <1>10 DEF StartWorker, ReconcileSome, ReconcileAll
  <2>2. tracked' \subseteq Id
    BY <1>10 DEF StartWorker
  <2>. QED BY <1>10, <2>1, <2>2, ReconcileEffect
    DEF Typed, StartWorker, passVars
<1>11. ASSUME NEW i \in Id, ReadFails(i)
      PROVE  Typed'
  BY <1>11, RecordedRange, ReplacementAssumption
  DEF Typed, Status, BuyActive, Id, NoId, WireDescends, AnswerIsTrue, RowsInOrder,
      InRequest, Descends, Placed, ReplacementAssumption, ReadFails, Nonterminal,
      exchangeVars, passVars
<1>12. ASSUME NEW l, PlaceBuy(l)
      PROVE  Typed'
  BY <1>12, RecordedRange, ReplacementAssumption
  DEF Typed, Status, BuyActive, Id, NoId, WireDescends, AnswerIsTrue, RowsInOrder,
      InRequest, Descends, Placed, ReplacementAssumption, PlaceBuy, passVars
<1>13. ASSUME NEW i \in Id, Observe(i)
      PROVE  Typed'
  <2>1. order[i] \in Status \ {"absent"}
    BY <1>13 DEF Observe, Typed
  <2>2. \E st \in BuyActive \cup {"CANCELED", "PROTECTED"} :
           journal' = [journal EXCEPT ![i] = st]
    BY <1>13, <2>1, RecordedRange DEF Observe
  <2>3. tracked' \subseteq Id
    BY <1>13 DEF Observe, Typed
  <2>. QED BY <1>13, <2>2, <2>3 DEF Typed, Observe, exchangeVars, passVars
<1>14. ASSUME NEW i \in Id, Deliver(i)
      PROVE  Typed'
  BY <1>14, DeliverEffect
  DEF Typed, WireDescends
<1>15. ASSUME NEW i \in Id, Lose(i)
      PROVE  Typed'
  BY <1>15
  DEF Typed, Lose, journalVars, passVars, workerVars
<1>16. ASSUME NEW i \in Id, Trade(i)
      PROVE  Typed'
  BY <1>16, TradeEffect
  DEF Typed, Status, Trade, journalVars, passVars, workerVars
<1>17. ASSUME NEW i \in Id, Cancel(i)
      PROVE  Typed'
  BY <1>17, RecordedRange, ReplacementAssumption
  DEF Typed, Status, BuyActive, Id, NoId, WireDescends, AnswerIsTrue, RowsInOrder,
      InRequest, Descends, Placed, ReplacementAssumption, Cancel, Canceled, Open,
      journalVars, passVars, workerVars
<1>. QED
  BY <1>1, <1>2, <1>3, <1>4, <1>5, <1>6, <1>7, <1>8, <1>9, <1>10, <1>11, <1>12,
     <1>13, <1>14, <1>15, <1>16, <1>17
  DEF Next, Pass, Work, Exchange

(* the order of the rows, *)
LEMMA RowsInOrderNext ==
    ASSUME Typed, WireDescends, AnswerIsTrue, RowsInOrder, [Next]_vars
    PROVE  RowsInOrder'
<1>1. CASE \/ StopWorker \/ StopUnconfirmed \/ EndPlan \/ Launch
           \/ NotUnderstood \/ RefuseStart \/ OperatorReset \/ WorkerEnds
           \/ StopUnderHalt \/ UNCHANGED vars
  BY <1>1
  DEF RowsInOrder, StopWorker, journalVars, exchangeVars, StopUnconfirmed,
      Suppress, workerVars, EndPlan, Launch, NotUnderstood, RefuseStart, passVars,
      OperatorReset, Settled, WorkerEnds, StopUnderHalt, vars
<1>2. ASSUME NEW ladder, NEW young, Plan(ladder, young)
      PROVE  RowsInOrder'
  BY <1>2
  DEF RowsInOrder, Plan, FirstCandidates, Candidates, Open, journalVars,
      exchangeVars, workerVars
<1>3. ASSUME NEW move, NotInJournal(move)
      PROVE  RowsInOrder'
  BY <1>3
  DEF RowsInOrder, NotInJournal, IsNext, journalVars, exchangeVars, workerVars
<1>4. ASSUME NEW move, Prepare(move)
      PROVE  RowsInOrder'
  BY <1>4
  DEF RowsInOrder, Typed, BuyActive, Id, NoId, WireDescends, InRequest, Descends,
      Prepare, IsNext, exchangeVars, workerVars
<1>5. CASE Send
  BY <1>5
  DEF RowsInOrder, Typed, BuyActive, Id, NoId, WireDescends, InRequest, Descends,
      Send, journalVars, workerVars
<1>6. CASE NotAttempted
  BY <1>6
  DEF RowsInOrder, Typed, BuyActive, Id, NoId, WireDescends, InRequest, Descends,
      NotAttempted, Finish, exchangeVars, workerVars
<1>7. CASE Replaced
  BY <1>7
  DEF RowsInOrder, Typed, BuyActive, Id, NoId, WireDescends, InRequest, Descends,
      Replaced, exchangeVars, workerVars
<1>8. CASE ReconcileFinds
  BY <1>8
  DEF RowsInOrder, Typed, BuyActive, Id, NoId, WireDescends, InRequest, Descends,
      ReconcileFinds, BothSettled, Placed, exchangeVars, workerVars
<1>9. CASE ReconcileGivesUp
  BY <1>9
  DEF RowsInOrder, Typed, BuyActive, Id, NoId, WireDescends, InRequest, Descends,
      ReconcileGivesUp, GiveUpState, exchangeVars, workerVars
<1>10. CASE Ambiguous
  BY <1>10
  DEF RowsInOrder, Typed, BuyActive, Id, NoId, WireDescends, InRequest, Descends,
      Ambiguous, Finish, TripHalt, journalVars, exchangeVars, workerVars
<1>11. CASE RecordNew
  BY <1>11
  DEF RowsInOrder, Typed, BuyActive, Id, NoId, WireDescends, InRequest, Descends,
      RecordNew, Finish, exchangeVars, workerVars
<1>12. CASE Gate \/ GateFails
  <2>1. ReconcileSome
    BY <1>12 DEF Gate, GateFails, ReconcileSome, ReconcileAll
  <2>. QED BY <1>12, <2>1, ReconcileEffect
    DEF RowsInOrder, Typed, Gate, GateFails, Settled, passVars, workerVars
<1>13. CASE StartWorker
  <2>1. ReconcileSome
    BY <1>13 DEF StartWorker, ReconcileSome, ReconcileAll
  <2>. QED BY <1>13, <2>1, ReconcileEffect
    DEF RowsInOrder, Typed, StartWorker, passVars
<1>14. ASSUME NEW i \in Id, ReadFails(i)
      PROVE  RowsInOrder'
  BY <1>14
  DEF RowsInOrder, Typed, BuyActive, Id, NoId, WireDescends, InRequest, Descends,
      ReadFails, Nonterminal, exchangeVars, passVars
<1>15. CASE Crash
  BY <1>15
  DEF RowsInOrder, Typed, BuyActive, Id, NoId, WireDescends, InRequest, Descends,
      Crash, journalVars, exchangeVars
<1>16. ASSUME NEW l, PlaceBuy(l)
      PROVE  RowsInOrder'
  BY <1>16
  DEF RowsInOrder, Typed, BuyActive, Id, NoId, WireDescends, InRequest, Descends,
      PlaceBuy, passVars
<1>17. ASSUME NEW i \in Id, Observe(i)
      PROVE  RowsInOrder'
  BY <1>17
  DEF RowsInOrder, Typed, BuyActive, Id, NoId, WireDescends, InRequest, Descends,
      Observe, exchangeVars, passVars
<1>18. ASSUME NEW i \in Id, Deliver(i)
      PROVE  RowsInOrder'
  <2>1. /\ i \in wire /\ wire' = wire \ {i}
        /\ UNCHANGED <<nextId, journal, replaces, origin, numbered, cur>>
        /\ \A j \in Id : order[j] = "absent" /\ j # i => order'[j] = "absent"
    BY <1>18, DeliverEffect
  <2>. QED BY <2>1 DEF RowsInOrder
<1>19. ASSUME NEW i \in Id, Lose(i)
      PROVE  RowsInOrder'
  BY <1>19
  DEF RowsInOrder, Lose, journalVars, passVars, workerVars
<1>20. ASSUME NEW i \in Id, Trade(i)
      PROVE  RowsInOrder'
  BY <1>20
  DEF RowsInOrder, Typed, BuyActive, Id, NoId, WireDescends, InRequest, Descends,
      Trade, journalVars, passVars, workerVars
<1>21. ASSUME NEW i \in Id, Cancel(i)
      PROVE  RowsInOrder'
  BY <1>21
  DEF RowsInOrder, Cancel, Canceled, Open, journalVars, passVars, workerVars
<1>. QED
  BY <1>1, <1>2, <1>3, <1>4, <1>5, <1>6, <1>7, <1>8, <1>9, <1>10, <1>11, <1>12,
     <1>13, <1>14, <1>15, <1>16, <1>17, <1>18, <1>19, <1>20, <1>21
  DEF Next, Pass, Work, Exchange

(* the descent of what is on the wire, *)
LEMMA WireDescendsNext ==
    ASSUME Typed, WireDescends, AnswerIsTrue, RowsInOrder, WorkerAway, [Next]_vars
    PROVE  WireDescends'
<1>1. CASE \/ StopWorker \/ StopUnconfirmed \/ EndPlan \/ Launch \/ Send
           \/ NotAttempted \/ Replaced \/ NotUnderstood \/ ReconcileFinds
           \/ ReconcileGivesUp \/ Ambiguous \/ RecordNew \/ RefuseStart
           \/ Crash \/ OperatorReset \/ WorkerEnds \/ StopUnderHalt \/ UNCHANGED vars
  BY <1>1
  DEF WireDescends, Descends, InRequest, StopWorker, journalVars, exchangeVars,
      StopUnconfirmed, Suppress, workerVars, EndPlan, Launch, Send, NotAttempted,
      Finish, Replaced, NotUnderstood, ReconcileFinds, BothSettled, Placed,
      ReconcileGivesUp, GiveUpState, Ambiguous, TripHalt, RecordNew, RefuseStart,
      passVars, Crash, OperatorReset, Settled, WorkerEnds, StopUnderHalt, vars
<1>2. ASSUME NEW ladder, NEW young, Plan(ladder, young)
      PROVE  WireDescends'
  BY <1>2
  DEF WireDescends, Descends, InRequest, Plan, FirstCandidates, Candidates, Open,
      journalVars, exchangeVars, workerVars
<1>3. ASSUME NEW move, NotInJournal(move)
      PROVE  WireDescends'
  BY <1>3
  DEF WireDescends, Descends, InRequest, NotInJournal, IsNext, journalVars,
      exchangeVars, workerVars
<1>4. ASSUME NEW move, Prepare(move)
      PROVE  WireDescends'
  BY <1>4
  DEF WireDescends, Descends, InRequest, WorkerAway, Typed, Id, NoId, Status,
      RowsInOrder, Prepare, IsNext, exchangeVars, workerVars
<1>5. CASE Gate \/ GateFails
  <2>1. ReconcileSome
    BY <1>5 DEF Gate, GateFails, ReconcileSome, ReconcileAll
  <2>. QED BY <1>5, <2>1, ReconcileEffect
    DEF WireDescends, WorkerAway, Descends, InRequest, Gate, GateFails, Settled, passVars, workerVars
<1>6. CASE StartWorker
  <2>1. ReconcileSome
    BY <1>6 DEF StartWorker, ReconcileSome, ReconcileAll
  <2>. QED BY <1>6, <2>1, ReconcileEffect
    DEF WireDescends, WorkerAway, Descends, InRequest, StartWorker, passVars
<1>7. ASSUME NEW i \in Id, ReadFails(i)
      PROVE  WireDescends'
  BY <1>7
  DEF WireDescends, Descends, InRequest, WorkerAway, Typed, Id, NoId, Status,
      RowsInOrder, ReadFails, Nonterminal, exchangeVars, passVars
<1>8. ASSUME NEW l, PlaceBuy(l)
      PROVE  WireDescends'
  BY <1>8
  DEF WireDescends, Descends, InRequest, WorkerAway, Typed, Id, NoId, Status,
      RowsInOrder, PlaceBuy, passVars
<1>9. ASSUME NEW i \in Id, Observe(i)
      PROVE  WireDescends'
  BY <1>9
  DEF WireDescends, Descends, InRequest, WorkerAway, Typed, Id, NoId, Status,
      RowsInOrder, Observe, exchangeVars, passVars
<1>10. ASSUME NEW i \in Id, Deliver(i)
      PROVE  WireDescends'
  BY <1>10, DeliverEffect
  DEF WireDescends, Descends, InRequest, Typed
<1>11. ASSUME NEW i \in Id, Lose(i)
      PROVE  WireDescends'
  BY <1>11
  DEF WireDescends, Descends, InRequest, Lose, journalVars, passVars, workerVars
<1>12. ASSUME NEW i \in Id, Trade(i)
      PROVE  WireDescends'
  BY <1>12
  DEF WireDescends, Descends, InRequest, WorkerAway, Typed, Id, NoId, Status,
      RowsInOrder, Trade, journalVars, passVars, workerVars
<1>13. ASSUME NEW i \in Id, Cancel(i)
      PROVE  WireDescends'
  BY <1>13
  DEF WireDescends, Descends, InRequest, Cancel, Canceled, Open, journalVars,
      passVars, workerVars
<1>. QED
  BY <1>1, <1>2, <1>3, <1>4, <1>5, <1>6, <1>7, <1>8, <1>9, <1>10, <1>11, <1>12,
     <1>13
  DEF Next, Pass, Work, Exchange

(* the worker's absence, *)
LEMMA WorkerAwayNext ==
    ASSUME WorkerAway, [Next]_vars
    PROVE  WorkerAway'
<1>1. CASE \/ StopWorker \/ StopUnconfirmed \/ EndPlan \/ Launch \/ Send
           \/ NotAttempted \/ Replaced \/ NotUnderstood \/ ReconcileFinds
           \/ ReconcileGivesUp \/ Ambiguous \/ RecordNew \/ Gate \/ GateFails
           \/ StartWorker \/ RefuseStart \/ Crash \/ OperatorReset
           \/ WorkerEnds \/ StopUnderHalt \/ UNCHANGED vars
  BY <1>1
  DEF WorkerAway, InRequest, StopWorker, journalVars, exchangeVars,
      StopUnconfirmed, Suppress, workerVars, EndPlan, Launch, Send, NotAttempted,
      Finish, Replaced, NotUnderstood, ReconcileFinds, BothSettled, Placed,
      ReconcileGivesUp, GiveUpState, Ambiguous, TripHalt, RecordNew, Gate, GateFails,
      Reconcile, ReconcileAll, Reconciled, Nonterminal, Settled, StartWorker, passVars,
      RefuseStart, Crash, OperatorReset, WorkerEnds, StopUnderHalt, vars
<1>2. ASSUME NEW ladder, NEW young, Plan(ladder, young)
      PROVE  WorkerAway'
  BY <1>2
  DEF WorkerAway, InRequest, Plan, FirstCandidates, Candidates, Open, journalVars,
      exchangeVars, workerVars
<1>3. ASSUME NEW move, NotInJournal(move)
      PROVE  WorkerAway'
  BY <1>3
  DEF WorkerAway, InRequest, NotInJournal, IsNext, journalVars, exchangeVars,
      workerVars
<1>4. ASSUME NEW move, Prepare(move)
      PROVE  WorkerAway'
  BY <1>4
  DEF WorkerAway, InRequest, Prepare, IsNext, exchangeVars, workerVars
<1>5. ASSUME NEW i \in Id, ReadFails(i)
      PROVE  WorkerAway'
  BY <1>5
  DEF WorkerAway, InRequest, ReadFails, Nonterminal, exchangeVars, passVars
<1>6. ASSUME NEW l, PlaceBuy(l)
      PROVE  WorkerAway'
  BY <1>6
  DEF WorkerAway, InRequest, PlaceBuy, passVars
<1>7. ASSUME NEW i \in Id, Observe(i)
      PROVE  WorkerAway'
  BY <1>7
  DEF WorkerAway, InRequest, Observe, exchangeVars, passVars
<1>8. ASSUME NEW i \in Id, Deliver(i)
      PROVE  WorkerAway'
  BY <1>8
  DEF WorkerAway, InRequest, Deliver, StopOnFailure, OnlyNew, Canceled, Answer,
      journalVars, workerVars
<1>9. ASSUME NEW i \in Id, Lose(i)
      PROVE  WorkerAway'
  BY <1>9
  DEF WorkerAway, InRequest, Lose, journalVars, passVars, workerVars
<1>10. ASSUME NEW i \in Id, Trade(i)
      PROVE  WorkerAway'
  BY <1>10
  DEF WorkerAway, InRequest, Trade, journalVars, passVars, workerVars
<1>11. ASSUME NEW i \in Id, Cancel(i)
      PROVE  WorkerAway'
  BY <1>11
  DEF WorkerAway, InRequest, Cancel, Canceled, Open, journalVars, passVars,
      workerVars
<1>. QED
  BY <1>1, <1>2, <1>3, <1>4, <1>5, <1>6, <1>7, <1>8, <1>9, <1>10, <1>11
  DEF Next, Pass, Work, Exchange

(* the quiet of the wire, *)
LEMMA WireQuietNext ==
    ASSUME Typed, WireQuiet, WireDescends, WorkerAway, AnswerIsTrue, [Next]_vars
    PROVE  WireQuiet'
<1>1. CASE \/ StopWorker \/ StopUnconfirmed \/ EndPlan \/ Launch
           \/ NotUnderstood \/ ReconcileGivesUp \/ Ambiguous \/ RecordNew
           \/ RefuseStart \/ Crash \/ OperatorReset \/ WorkerEnds
           \/ StopUnderHalt \/ UNCHANGED vars
  BY <1>1
  DEF WireQuiet, Waiting, StopWorker, journalVars, exchangeVars, StopUnconfirmed,
      Suppress, workerVars, EndPlan, Launch, NotUnderstood, ReconcileGivesUp,
      GiveUpState, Ambiguous, Finish, TripHalt, RecordNew, RefuseStart, passVars,
      Crash, OperatorReset, Settled, WorkerEnds, StopUnderHalt, vars
<1>2. ASSUME NEW ladder, NEW young, Plan(ladder, young)
      PROVE  WireQuiet'
  BY <1>2
  DEF WireQuiet, Waiting, Plan, FirstCandidates, Candidates, Open, journalVars,
      exchangeVars, workerVars
<1>3. ASSUME NEW move, NotInJournal(move)
      PROVE  WireQuiet'
  BY <1>3
  DEF WireQuiet, Waiting, NotInJournal, IsNext, journalVars, exchangeVars,
      workerVars
<1>4. ASSUME NEW move, Prepare(move)
      PROVE  WireQuiet'
  BY <1>4
  DEF WireQuiet, Waiting, Prepare, IsNext, exchangeVars, workerVars
<1>5. CASE Send
  BY <1>5
  DEF WireQuiet, Waiting, InRequest, WorkerAway, AnswerIsTrue, WireDescends,
      Descends, Typed, Send, journalVars, workerVars
<1>6. CASE NotAttempted
  BY <1>6
  DEF WireQuiet, Waiting, InRequest, WorkerAway, AnswerIsTrue, WireDescends,
      Descends, Typed, NotAttempted, Finish, exchangeVars, workerVars
<1>7. CASE Replaced
  BY <1>7
  DEF WireQuiet, Waiting, InRequest, WorkerAway, AnswerIsTrue, WireDescends,
      Descends, Typed, Replaced, exchangeVars, workerVars
<1>8. CASE ReconcileFinds
  BY <1>8
  DEF WireQuiet, Waiting, InRequest, WorkerAway, AnswerIsTrue, WireDescends,
      Descends, Typed, ReconcileFinds, BothSettled, Placed, exchangeVars, workerVars
<1>9. CASE Gate \/ GateFails
  <2>1. ReconcileSome
    BY <1>9 DEF Gate, GateFails, ReconcileSome, ReconcileAll
  <2>. QED BY <1>9, <2>1, ReconcileEffect
    DEF WireQuiet, Waiting, WorkerAway, InRequest, Gate, GateFails, Settled, passVars, workerVars
<1>10. CASE StartWorker
  <2>1. ReconcileSome
    BY <1>10 DEF StartWorker, ReconcileSome, ReconcileAll
  <2>. QED BY <1>10, <2>1, ReconcileEffect
    DEF WireQuiet, Waiting, WorkerAway, InRequest, StartWorker, passVars
<1>11. ASSUME NEW i \in Id, ReadFails(i)
      PROVE  WireQuiet'
  BY <1>11
  DEF WireQuiet, Waiting, ReadFails, Nonterminal, exchangeVars, passVars
<1>12. ASSUME NEW l, PlaceBuy(l)
      PROVE  WireQuiet'
  BY <1>12
  DEF WireQuiet, Waiting, PlaceBuy, passVars
<1>13. ASSUME NEW i \in Id, Observe(i)
      PROVE  WireQuiet'
  BY <1>13
  DEF WireQuiet, Waiting, Observe, exchangeVars, passVars
<1>14. ASSUME NEW i \in Id, Deliver(i)
      PROVE  WireQuiet'
  BY <1>14
  DEF WireQuiet, Waiting, Deliver, StopOnFailure, OnlyNew, Canceled, Answer,
      journalVars, workerVars
<1>15. ASSUME NEW i \in Id, Lose(i)
      PROVE  WireQuiet'
  BY <1>15
  DEF WireQuiet, Waiting, Lose, journalVars, passVars, workerVars
<1>16. ASSUME NEW i \in Id, Trade(i)
      PROVE  WireQuiet'
  BY <1>16
  DEF WireQuiet, Waiting, Trade, journalVars, passVars, workerVars
<1>17. ASSUME NEW i \in Id, Cancel(i)
      PROVE  WireQuiet'
  BY <1>17
  DEF WireQuiet, Waiting, Cancel, Canceled, Open, journalVars, passVars, workerVars
<1>. QED
  BY <1>1, <1>2, <1>3, <1>4, <1>5, <1>6, <1>7, <1>8, <1>9, <1>10, <1>11, <1>12,
     <1>13, <1>14, <1>15, <1>16, <1>17
  DEF Next, Pass, Work, Exchange

(* and the truth of the answers. *)
LEMMA AnswerIsTrueNext ==
    ASSUME Typed, WireQuiet, WireDescends, WorkerAway, AnswerIsTrue, RowsInOrder,
           [Next]_vars
    PROVE  AnswerIsTrue'
<1>1. CASE \/ StopWorker \/ StopUnconfirmed \/ EndPlan \/ Launch \/ Send
           \/ NotAttempted \/ NotUnderstood \/ ReconcileGivesUp \/ Ambiguous
           \/ RecordNew \/ Gate \/ GateFails \/ RefuseStart \/ Crash \/ OperatorReset
           \/ WorkerEnds \/ StopUnderHalt \/ UNCHANGED vars
  BY <1>1
  DEF AnswerIsTrue, Waiting, StopWorker, journalVars, exchangeVars,
      StopUnconfirmed, Suppress, workerVars, EndPlan, Launch, Send, NotAttempted,
      Finish, NotUnderstood, ReconcileGivesUp, GiveUpState, Ambiguous, TripHalt,
      RecordNew, Gate, GateFails, Reconcile, ReconcileAll, Reconciled, Nonterminal, Settled, RefuseStart,
      passVars, Crash, OperatorReset, WorkerEnds, StopUnderHalt, vars
<1>2. ASSUME NEW ladder, NEW young, Plan(ladder, young)
      PROVE  AnswerIsTrue'
  BY <1>2
  DEF AnswerIsTrue, Waiting, Plan, FirstCandidates, Candidates, Open, journalVars,
      exchangeVars, workerVars
<1>3. ASSUME NEW move, NotInJournal(move)
      PROVE  AnswerIsTrue'
  BY <1>3
  DEF AnswerIsTrue, Waiting, NotInJournal, IsNext, journalVars, exchangeVars,
      workerVars
<1>4. ASSUME NEW move, Prepare(move)
      PROVE  AnswerIsTrue'
  BY <1>4
  DEF AnswerIsTrue, Waiting, Prepare, IsNext, exchangeVars, workerVars
<1>5. CASE Replaced
  BY <1>5
  DEF AnswerIsTrue, Waiting, InRequest, WorkerAway, WireDescends, Descends,
      RowsInOrder, Typed, Placed, Id, NoId, Status, Replaced, exchangeVars,
      workerVars
<1>6. CASE ReconcileFinds
  BY <1>6
  DEF AnswerIsTrue, Waiting, InRequest, WorkerAway, WireDescends, Descends,
      RowsInOrder, Typed, Placed, Id, NoId, Status, ReconcileFinds, BothSettled,
      exchangeVars, workerVars
<1>7. CASE StartWorker
  BY <1>7
  DEF AnswerIsTrue, Waiting, InRequest, WorkerAway, WireDescends, Descends,
      RowsInOrder, Typed, Placed, Id, NoId, Status, StartWorker, Reconcile, ReconcileAll,
      Reconciled, Nonterminal, passVars
<1>8. ASSUME NEW i \in Id, ReadFails(i)
      PROVE  AnswerIsTrue'
  BY <1>8
  DEF AnswerIsTrue, Waiting, ReadFails, Nonterminal, exchangeVars, passVars
<1>9. ASSUME NEW l, PlaceBuy(l)
      PROVE  AnswerIsTrue'
  BY <1>9
  DEF AnswerIsTrue, Waiting, InRequest, WorkerAway, WireDescends, Descends,
      RowsInOrder, Typed, Placed, Id, NoId, Status, PlaceBuy, passVars
<1>10. ASSUME NEW i \in Id, Observe(i)
      PROVE  AnswerIsTrue'
  BY <1>10
  DEF AnswerIsTrue, Waiting, Observe, exchangeVars, passVars
<1>11. ASSUME NEW i \in Id, Deliver(i)
      PROVE  AnswerIsTrue'
  <2>1. /\ i \in wire /\ wire' = wire \ {i} /\ order[i] = "absent"
        /\ UNCHANGED <<replaces, pc, cur, seen>>
        /\ \A j \in Id \ {i} : order[j] \in {"absent", "CANCELED"} => order'[j] = order[j]
    BY <1>11, DeliverEffect DEF WireDescends
  <2>2. pc = "posted" => cur \in Id /\ replaces[cur] \in Id
    BY DEF WireDescends, InRequest, Descends
  <2>3. CASE pc = "posted" /\ cur = i
    <3>1. replaces[i] \in Id /\ order[i] = "absent"
      BY <1>11, <2>1, DeliverEffect
    <3>2. reply' = "noop" => order' = order
      BY <1>11, <2>3 DEF Deliver, Answer
    <3>3. reply' = "both" => order'[replaces[i]] = "CANCELED"
      <4>. DEFINE canceled == [order EXCEPT ![replaces[i]] = "CANCELED"]
      <4>1. reply' = "both" => order[replaces[i]] = "NEW" /\ order' = [canceled EXCEPT ![i] = "NEW"]
        BY <1>11, <2>3 DEF Deliver, Answer, StopOnFailure, OnlyNew, Canceled
      <4>2. canceled \in [Id -> Status] /\ canceled[replaces[i]] = "CANCELED"
        BY <3>1 DEF Typed, Status
      <4>3. order[replaces[i]] = "NEW" => replaces[i] # i
        BY <3>1
      <4>. QED BY <3>1, <4>1, <4>2, <4>3
    <3>. QED BY <2>1, <2>3, <3>2, <3>3 DEF AnswerIsTrue, Waiting
  <2>4. CASE ~(pc = "posted" /\ cur = i)
    <3>1. reply' = reply
      BY <1>11, <2>4 DEF Deliver, Answer
    <3>. QED BY <2>1, <2>2, <2>4, <3>1 DEF AnswerIsTrue, Placed
  <2>. QED BY <2>3, <2>4
<1>12. ASSUME NEW i \in Id, Lose(i)
      PROVE  AnswerIsTrue'
  BY <1>12
  DEF AnswerIsTrue, Waiting, Lose, journalVars, passVars, workerVars
<1>13. ASSUME NEW i \in Id, Trade(i)
      PROVE  AnswerIsTrue'
  BY <1>13
  DEF AnswerIsTrue, Waiting, InRequest, WorkerAway, WireDescends, Descends,
      RowsInOrder, Typed, Placed, Id, NoId, Status, Trade, journalVars, passVars,
      workerVars
<1>14. ASSUME NEW i \in Id, Cancel(i)
      PROVE  AnswerIsTrue'
  BY <1>14
  DEF AnswerIsTrue, Waiting, Cancel, Canceled, Open, journalVars, passVars,
      workerVars
<1>. QED
  BY <1>1, <1>2, <1>3, <1>4, <1>5, <1>6, <1>7, <1>8, <1>9, <1>10, <1>11, <1>12,
     <1>13, <1>14
  DEF Next, Pass, Work, Exchange

(* So one order of a BUY buys, *)
LEMMA OncePerBuyNext ==
    ASSUME Typed, WireDescends, AnswerIsTrue, RowsInOrder, OncePerBuy, [Next]_vars
    PROVE  OncePerBuy'
<1>1. CASE \/ StopWorker \/ StopUnconfirmed \/ EndPlan \/ Launch \/ Send
           \/ NotAttempted \/ Replaced \/ NotUnderstood \/ ReconcileFinds
           \/ ReconcileGivesUp \/ Ambiguous \/ RecordNew \/ RefuseStart
           \/ Crash \/ OperatorReset \/ WorkerEnds \/ StopUnderHalt \/ UNCHANGED vars
  BY <1>1
  DEF OncePerBuy, Open, Bought, StopWorker, journalVars, exchangeVars,
      StopUnconfirmed, Suppress, workerVars, EndPlan, Launch, Send, NotAttempted,
      Finish, Replaced, NotUnderstood, ReconcileFinds, BothSettled, Placed,
      ReconcileGivesUp, GiveUpState, Ambiguous, TripHalt, RecordNew, RefuseStart,
      passVars, Crash, OperatorReset, Settled, WorkerEnds, StopUnderHalt, vars
<1>2. ASSUME NEW ladder, NEW young, Plan(ladder, young)
      PROVE  OncePerBuy'
  BY <1>2
  DEF OncePerBuy, Open, Bought, Plan, FirstCandidates, Candidates, journalVars,
      exchangeVars, workerVars
<1>3. ASSUME NEW move, NotInJournal(move)
      PROVE  OncePerBuy'
  BY <1>3
  DEF OncePerBuy, Open, Bought, NotInJournal, IsNext, journalVars, exchangeVars,
      workerVars
<1>4. ASSUME NEW move, Prepare(move)
      PROVE  OncePerBuy'
  BY <1>4
  DEF OncePerBuy, Open, Bought, WireDescends, Descends, RowsInOrder, Typed, Id,
      NoId, Status, Prepare, IsNext, exchangeVars, workerVars
<1>5. CASE Gate \/ GateFails
  <2>1. ReconcileSome
    BY <1>5 DEF Gate, GateFails, ReconcileSome, ReconcileAll
  <2>. QED BY <1>5, <2>1, ReconcileEffect
    DEF OncePerBuy, Open, Bought, Gate, GateFails, Settled, passVars, workerVars
<1>6. CASE StartWorker
  <2>1. ReconcileSome
    BY <1>6 DEF StartWorker, ReconcileSome, ReconcileAll
  <2>. QED BY <1>6, <2>1, ReconcileEffect
    DEF OncePerBuy, Open, Bought, StartWorker, passVars
<1>7. ASSUME NEW i \in Id, ReadFails(i)
      PROVE  OncePerBuy'
  BY <1>7
  DEF OncePerBuy, Open, Bought, ReadFails, Nonterminal, exchangeVars, passVars
<1>8. ASSUME NEW l, PlaceBuy(l)
      PROVE  OncePerBuy'
  BY <1>8
  DEF OncePerBuy, Open, Bought, WireDescends, Descends, RowsInOrder, Typed, Id,
      NoId, Status, PlaceBuy, passVars
<1>9. ASSUME NEW i \in Id, Observe(i)
      PROVE  OncePerBuy'
  BY <1>9
  DEF OncePerBuy, Open, Bought, Observe, exchangeVars, passVars
<1>10. ASSUME NEW i \in Id, Deliver(i)
      PROVE  OncePerBuy'
  BY <1>10, DeliverEffect
  DEF OncePerBuy, Open, Bought, WireDescends, Descends
<1>11. ASSUME NEW i \in Id, Lose(i)
      PROVE  OncePerBuy'
  BY <1>11
  DEF OncePerBuy, Open, Bought, Lose, journalVars, passVars, workerVars
<1>12. ASSUME NEW i \in Id, Trade(i)
      PROVE  OncePerBuy'
  BY <1>12, TradeEffect
  DEF OncePerBuy, Open, Bought, Trade, journalVars, passVars, workerVars
<1>13. ASSUME NEW i \in Id, Cancel(i)
      PROVE  OncePerBuy'
  BY <1>13
  DEF OncePerBuy, Open, Bought, Cancel, Canceled, journalVars, passVars, workerVars
<1>. QED
  BY <1>1, <1>2, <1>3, <1>4, <1>5, <1>6, <1>7, <1>8, <1>9, <1>10, <1>11, <1>12,
     <1>13
  DEF Next, Pass, Work, Exchange

(* and what is live stays active. *)
LEMMA LiveIsActiveNext ==
    ASSUME Typed, WireDescends, AnswerIsTrue, RowsInOrder, WireQuiet, WorkerAway,
           LiveIsActive, [Next]_vars
    PROVE  LiveIsActive'
<1>1. CASE \/ StopWorker \/ StopUnconfirmed \/ EndPlan \/ Launch
           \/ NotUnderstood \/ Ambiguous \/ RefuseStart \/ Crash
           \/ OperatorReset \/ WorkerEnds \/ StopUnderHalt \/ UNCHANGED vars
  BY <1>1
  DEF LiveIsActive, Open, Bought, StopWorker, journalVars, exchangeVars,
      StopUnconfirmed, Suppress, workerVars, EndPlan, Launch, NotUnderstood,
      Ambiguous, Finish, TripHalt, RefuseStart, passVars, Crash, OperatorReset,
      Settled, WorkerEnds, StopUnderHalt, vars
<1>2. ASSUME NEW ladder, NEW young, Plan(ladder, young)
      PROVE  LiveIsActive'
  BY <1>2
  DEF LiveIsActive, Open, Bought, Plan, FirstCandidates, Candidates, journalVars,
      exchangeVars, workerVars
<1>3. ASSUME NEW move, NotInJournal(move)
      PROVE  LiveIsActive'
  BY <1>3
  DEF LiveIsActive, Open, Bought, NotInJournal, IsNext, journalVars, exchangeVars,
      workerVars
<1>4. ASSUME NEW move, Prepare(move)
      PROVE  LiveIsActive'
  BY <1>4, RecordedRange
  DEF LiveIsActive, Open, Bought, WireDescends, WireQuiet, WorkerAway, Waiting,
      AnswerIsTrue, InRequest, Descends, RowsInOrder, Typed, Id, NoId, Status,
      BuyActive, Placed, Prepare, IsNext, exchangeVars, workerVars
<1>5. CASE Send
  BY <1>5, RecordedRange
  DEF LiveIsActive, Open, Bought, WireDescends, WireQuiet, WorkerAway, Waiting,
      AnswerIsTrue, InRequest, Descends, RowsInOrder, Typed, Id, NoId, Status,
      BuyActive, Placed, Send, journalVars, workerVars
<1>6. CASE NotAttempted
  BY <1>6, RecordedRange
  DEF LiveIsActive, Open, Bought, WireDescends, WireQuiet, WorkerAway, Waiting,
      AnswerIsTrue, InRequest, Descends, RowsInOrder, Typed, Id, NoId, Status,
      BuyActive, Placed, NotAttempted, Finish, exchangeVars, workerVars
<1>7. CASE Replaced
  BY <1>7, RecordedRange
  DEF LiveIsActive, Open, Bought, WireDescends, WireQuiet, WorkerAway, Waiting,
      AnswerIsTrue, InRequest, Descends, RowsInOrder, Typed, Id, NoId, Status,
      BuyActive, Placed, Replaced, exchangeVars, workerVars
<1>8. CASE ReconcileFinds
  BY <1>8, RecordedRange
  DEF LiveIsActive, Open, Bought, WireDescends, WireQuiet, WorkerAway, Waiting,
      AnswerIsTrue, InRequest, Descends, RowsInOrder, Typed, Id, NoId, Status,
      BuyActive, Placed, ReconcileFinds, BothSettled, exchangeVars, workerVars
<1>9. CASE ReconcileGivesUp
  BY <1>9, RecordedRange
  DEF LiveIsActive, Open, Bought, WireDescends, WireQuiet, WorkerAway, Waiting,
      AnswerIsTrue, InRequest, Descends, RowsInOrder, Typed, Id, NoId, Status,
      BuyActive, Placed, ReconcileGivesUp, GiveUpState, exchangeVars, workerVars
<1>10. CASE RecordNew
  BY <1>10, RecordedRange
  DEF LiveIsActive, Open, Bought, WireDescends, WireQuiet, WorkerAway, Waiting,
      AnswerIsTrue, InRequest, Descends, RowsInOrder, Typed, Id, NoId, Status,
      BuyActive, Placed, RecordNew, Finish, exchangeVars, workerVars
<1>11. CASE Gate \/ GateFails
  <2>1. ReconcileSome
    BY <1>11 DEF Gate, GateFails, ReconcileSome, ReconcileAll
  <2>. QED BY <1>11, <2>1, ReconcileEffect
    DEF LiveIsActive, Open, Bought, WireQuiet, WorkerAway, InRequest, Waiting,
        Gate, GateFails, Settled, passVars, workerVars
<1>12. CASE StartWorker
  <2>1. ReconcileSome
    BY <1>12 DEF StartWorker, ReconcileSome, ReconcileAll
  <2>. QED BY <1>12, <2>1, ReconcileEffect
    DEF LiveIsActive, Open, Bought, WireQuiet, WorkerAway, InRequest, Waiting,
        StartWorker, passVars
<1>13. ASSUME NEW i \in Id, ReadFails(i)
      PROVE  LiveIsActive'
  BY <1>13, RecordedRange
  DEF LiveIsActive, Open, Bought, WireDescends, WireQuiet, WorkerAway, Waiting,
      AnswerIsTrue, InRequest, Descends, RowsInOrder, Typed, Id, NoId, Status,
      BuyActive, Placed, ReadFails, Nonterminal, exchangeVars, passVars
<1>14. ASSUME NEW l, PlaceBuy(l)
      PROVE  LiveIsActive'
  BY <1>14, RecordedRange
  DEF LiveIsActive, Open, Bought, WireDescends, WireQuiet, WorkerAway, Waiting,
      AnswerIsTrue, InRequest, Descends, RowsInOrder, Typed, Id, NoId, Status,
      BuyActive, Placed, PlaceBuy, passVars
<1>15. ASSUME NEW i \in Id, Observe(i)
      PROVE  LiveIsActive'
  <2>1. order[i] \in Status \ {"absent"}
    BY <1>15 DEF Observe, Typed
  <2>2. \E st \in BuyActive \cup {"CANCELED", "PROTECTED"} :
           /\ journal' = [journal EXCEPT ![i] = st]
           /\ order[i] # "CANCELED" => st # "CANCELED"
    BY <1>15, <2>1, RecordedRange DEF Observe, BuyActive
  <2>. QED BY <1>15, <2>1, <2>2
    DEF LiveIsActive, Observe, exchangeVars, Open, Bought, WireDescends, Typed
<1>16. ASSUME NEW i \in Id, Deliver(i)
      PROVE  LiveIsActive'
  BY <1>16, DeliverEffect
  DEF LiveIsActive, Open, Bought
<1>17. ASSUME NEW i \in Id, Lose(i)
      PROVE  LiveIsActive'
  BY <1>17
  DEF LiveIsActive, Open, Bought, Lose, journalVars, passVars, workerVars
<1>18. ASSUME NEW i \in Id, Trade(i)
      PROVE  LiveIsActive'
  BY <1>18, TradeEffect
  DEF LiveIsActive, Open, Bought, Trade, journalVars, passVars, workerVars
<1>19. ASSUME NEW i \in Id, Cancel(i)
      PROVE  LiveIsActive'
  BY <1>19
  DEF LiveIsActive, Open, Bought, Cancel, Canceled, journalVars, passVars,
      workerVars
<1>. QED
  BY <1>1, <1>2, <1>3, <1>4, <1>5, <1>6, <1>7, <1>8, <1>9, <1>10, <1>11, <1>12,
     <1>13, <1>14, <1>15, <1>16, <1>17, <1>18, <1>19
  DEF Next, Pass, Work, Exchange

---------------------------------------------------------------------------
(* The invariant holds of an empty journal, *)
LEMMA ReplacementInit == Init => ReplacementInv
BY ReplacementAssumption
DEF Init, ReplacementInv, Typed, RowsInOrder, WireDescends, WorkerAway, WireQuiet,
    AnswerIsTrue, OncePerBuy, LiveIsActive, Open, Bought, Status, Id, NoId, InRequest,
    Waiting, ReplacementAssumption

(* every step keeps it, *)
LEMMA ReplacementNext == ReplacementInv /\ [Next]_vars => ReplacementInv'
BY TypedNext, RowsInOrderNext, WireDescendsNext, WorkerAwayNext, WireQuietNext,
   AnswerIsTrueNext, OncePerBuyNext, LiveIsActiveNext
DEF ReplacementInv

(* so it always holds. *)
THEOREM ReplacementInvariant == Spec => []ReplacementInv
BY ReplacementInit, ReplacementNext, PTL DEF Spec

---------------------------------------------------------------------------
(* What follows from it *)

(* However often a BUY is moved, and whatever is lost, late or repeated on  *)
(* the way: only one of its orders can ever buy or has bought.              *)
THEOREM OneOrderBuys == Spec => []OncePerBuy
<1>1. ReplacementInv => OncePerBuy
  BY DEF ReplacementInv
<1>. QED BY <1>1, ReplacementInvariant, PTL

(* The journal never gives up an order that can buy or holds an unprotected *)
(* fill, nor a replacement whose POST may still be executed.                *)
THEOREM LiveStaysActive == Spec => []LiveIsActive
<1>1. ReplacementInv => LiveIsActive
  BY DEF ReplacementInv
<1>. QED BY <1>1, ReplacementInvariant, PTL

(* No worker runs beside a replacement whose outcome is open.               *)
THEOREM OpenOutcomeStopsWorker == Spec => []OpenOutcomeIsQuiet
<1>1. ReplacementInv => OpenOutcomeIsQuiet
  BY DEF ReplacementInv, WireQuiet, OpenOutcomeIsQuiet
<1>. QED BY <1>1, ReplacementInvariant, PTL

---------------------------------------------------------------------------
(* Types *)

(* The members of a set above one of them. *)
Above(S, d) == {e \in S : e > d}

(* A finite set has a member with the fewest above it, *)
LEMMA FewestAbove ==
    ASSUME NEW S, IsFiniteSet(S), S # {}
    PROVE  \E x \in S : \A y \in S :
              Above(S, y) \subseteq Above(S, x) => Above(S, y) = Above(S, x)
<1>. DEFINE B == {Above(S, x) : x \in S}
<1>1. B \subseteq SUBSET S
  BY DEF Above
<1>2. B # {}
  OBVIOUS
<1>3. \E T \in B : \A U \in B : U \subseteq T => U = T
  <2>. HIDE DEF B
  <2>. QED BY <1>1, <1>2, SmallestSubset
<1>. QED BY <1>3

(* and of numbers that is the largest. *)
LEMMA LargestNumber ==
    ASSUME NEW S, S \subseteq Nat, IsFiniteSet(S), S # {}
    PROVE  \E m \in S : Above(S, m) = {}
<1>1. PICK x \in S : \A y \in S :
           Above(S, y) \subseteq Above(S, x) => Above(S, y) = Above(S, x)
  BY FewestAbove
<1>2. ASSUME NEW y \in Above(S, x) PROVE FALSE
  <2>1. y \in S /\ y > x /\ y \in Nat /\ x \in Nat
    BY DEF Above
  <2>2. Above(S, y) \subseteq Above(S, x)
    <3>1. \A e \in S : e \in Nat /\ (e > y => e > x)
      BY <2>1
    <3>. QED BY <3>1 DEF Above
  <2>3. Above(S, y) = Above(S, x)
    BY <1>1, <2>1, <2>2
  <2>4. y \notin Above(S, y)
    BY <2>1 DEF Above
  <2>. QED BY <2>3, <2>4
<1>. QED BY <1>2

(* Every rank below the size of a set is the rank of a member. *)
LEMMA RankIsTaken ==
    ASSUME NEW S, S \subseteq Nat, IsFiniteSet(S), NEW k \in Nat, k < Cardinality(S)
    PROVE  \E d \in S : Cardinality(Above(S, d)) = k
<1>. DEFINE Free(n) == n < Cardinality(S) /\ \A d \in S : Cardinality(Above(S, d)) # n
            Bad == {n \in Nat : Free(n)}
<1>. SUFFICES ASSUME Bad # {} PROVE FALSE
  OBVIOUS
<1>1. PICK n \in Bad : \A m \in Bad : n <= m
  <2>1. Bad \subseteq Nat
    OBVIOUS
  <2>. HIDE DEF Bad
  <2>. QED BY <2>1, SmallestNumber
<1>2. n \in Nat /\ n < Cardinality(S) /\ Cardinality(S) \in Nat
  BY FS_CardinalityType
<1>3. S # {}
  BY <1>2, FS_EmptySet
<1>4. CASE n = 0
  <2>1. PICK m \in S : Above(S, m) = {}
    BY <1>3, LargestNumber
  <2>. QED BY <1>4, <2>1, FS_EmptySet
<1>5. CASE n # 0
  <2>1. n - 1 \in Nat /\ n - 1 < Cardinality(S) /\ ~(n <= n - 1)
    BY <1>2, <1>5
  <2>2. n - 1 \notin Bad
    <3>. HIDE DEF Bad
    <3>. QED BY <1>1, <2>1
  <2>3. PICK d \in S : Cardinality(Above(S, d)) = n - 1
    BY <2>1, <2>2
  <2>. DEFINE T == {e \in S : e < d}
              A == Above(S, d) \cup {d}
  <2>4. d \in Nat /\ d \notin Above(S, d) /\ Above(S, d) \in SUBSET S
    BY DEF Above
  <2>5. IsFiniteSet(Above(S, d))
    BY <2>4, FS_Subset
  <2>6. Cardinality(A) = n
    <3>1. Cardinality(A) = Cardinality(Above(S, d)) + 1
      BY <2>4, <2>5, FS_AddElement
    <3>. QED BY <1>2, <2>3, <3>1
  <2>7. S = A \cup T
    <3>1. \A e \in S : e > d \/ e = d \/ e < d
      BY <2>4
    <3>. QED BY <3>1 DEF Above
  <2>8. T # {}
    <3>1. T = {} => S = A
      BY <2>7
    <3>. QED BY <1>2, <2>6, <3>1
  <2>9. T \subseteq Nat /\ T \in SUBSET S /\ IsFiniteSet(T)
    <3>1. T \subseteq Nat /\ T \in SUBSET S
      OBVIOUS
    <3>. QED BY <3>1, FS_Subset
  <2>10. PICK m \in T : Above(T, m) = {}
    <3>. HIDE DEF T
    <3>. QED BY <2>8, <2>9, LargestNumber
  <2>11. Above(S, m) = A
    <3>1. m \in S /\ m < d /\ m \in Nat
      BY <2>10
    <3>2. \A e \in S : e > m <=> e > d \/ e = d
      BY <2>4, <2>10, <3>1 DEF Above
    <3>. QED BY <2>4, <3>2 DEF Above
  <2>. QED BY <2>6, <2>10, <2>11
<1>. QED BY <1>4, <1>5

(* What the proofs above leave open: bounds, prices, the pass and the worker. *)
FieldsOK == /\ nextId <= MaxOrders + 1
            /\ level \in [Id -> Level \cup {0}]
            /\ \A i \in Id : i < nextId => level[i] \in Level
            /\ numbered \subseteq Id
            /\ pc \in {"down", "idle", "stop", "replace", "prepared", "posted",
                       "reconcile", "record", "halt", "launch"}
            /\ plan \subseteq [id : Id, to : Level]
            /\ reply \in {"none", "noop", "half", "both"}
            /\ seen \in Status
            /\ worker \in {"down", "starting", "up"}
            /\ halted \in BOOLEAN
            /\ faults \in 0..MaxFaults

(* A BUY is moved to a price between its own and one of the ladder. *)
LEMMA TargetIsLevel ==
    ASSUME ReplacementInv, FieldsOK, NEW ladder \in SUBSET Level, NEW young,
           NEW i \in Candidates(ladder, young)
    PROVE  i \in Id /\ TargetOf(i, ladder) \in Level
<1>1. /\ i \in Open /\ i \in Id
      /\ Rank(i) < Cardinality(ladder) /\ TargetOf(i, ladder) > level[i]
  BY DEF Candidates, Open
<1>2. level[i] \in Level /\ level[i] \in Nat
  <2>1. order[i] # "absent" /\ i < nextId
    <3>1. nextId \in Nat /\ i \in Nat /\ order[i] # "absent"
      BY <1>1 DEF Open, ReplacementInv, Typed, Id
    <3>. QED BY <1>1, <3>1 DEF ReplacementInv, RowsInOrder
  <2>. QED BY <1>1, <2>1, ReplacementAssumption DEF FieldsOK, ReplacementAssumption
<1>3. Rank(i) \in Nat
  <2>. DEFINE R == {j \in Open : level[j] > level[i] \/ (level[j] = level[i] /\ j < i)}
  <2>1. IsFiniteSet(Id)
    BY ReplacementAssumption, FS_Interval DEF Id, ReplacementAssumption
  <2>2. R \in SUBSET Id
    BY DEF Open
  <2>3. IsFiniteSet(R)
    BY <2>1, <2>2, FS_Subset
  <2>. QED BY <2>3, FS_CardinalityType DEF Rank
<1>4. ladder \subseteq Nat /\ IsFiniteSet(ladder)
  BY ReplacementAssumption, FS_Subset DEF ReplacementAssumption
<1>5. \E d \in ladder : Cardinality({e \in ladder : e > d}) = Rank(i)
  BY <1>1, <1>3, <1>4, RankIsTaken DEF Above
<1>6. DesiredAt(ladder, Rank(i)) \in ladder
  BY <1>5 DEF DesiredAt
<1>7. PICK d \in Level : d = DesiredAt(ladder, Rank(i))
  BY <1>6
<1>8. d \in Nat /\ Step \in Nat
  BY ReplacementAssumption DEF ReplacementAssumption
<1>9. TargetOf(i, ladder) = Lower(d, level[i] + Step)
  BY <1>7 DEF TargetOf
<1>10. TargetOf(i, ladder) \in level[i]..d
  BY <1>1, <1>2, <1>8, <1>9 DEF Lower
<1>. QED BY <1>1, <1>2, <1>10, ReplacementAssumption DEF ReplacementAssumption

(* Every step keeps the fields. *)
LEMMA FieldsNext ==
    ASSUME ReplacementInv, FieldsOK, [Next]_vars
    PROVE  FieldsOK'
<1>1. CASE StopWorker
  BY <1>1 DEF FieldsOK, StopWorker, journalVars, exchangeVars
<1>2. CASE StopUnconfirmed
  BY <1>2, ReplacementAssumption
  DEF FieldsOK, StopUnconfirmed, Suppress, Disturb, journalVars, exchangeVars,
      workerVars, ReplacementAssumption
<1>3. CASE Send
  BY <1>3 DEF FieldsOK, Send, journalVars, workerVars
<1>4. CASE NotAttempted
  BY <1>4 DEF FieldsOK, NotAttempted, Finish, exchangeVars, workerVars, Status
<1>5. CASE Replaced
  BY <1>5 DEF FieldsOK, Replaced, Status, exchangeVars, workerVars
<1>6. CASE NotUnderstood
  BY <1>6 DEF FieldsOK, NotUnderstood, journalVars, exchangeVars, workerVars
<1>7. CASE ReconcileFinds
  BY <1>7
  DEF FieldsOK, ReconcileFinds, BothSettled, ReplacementInv, WireDescends, Typed,
      InRequest, exchangeVars, workerVars
<1>8. CASE ReconcileGivesUp
  BY <1>8, ReplacementAssumption
  DEF FieldsOK, ReconcileGivesUp, Disturb, exchangeVars, workerVars,
      ReplacementAssumption
<1>9. CASE Ambiguous
  BY <1>9
  DEF FieldsOK, Ambiguous, TripHalt, Finish, Status, journalVars, exchangeVars,
      workerVars
<1>10. CASE RecordNew
  BY <1>10
  DEF FieldsOK, RecordNew, Finish, Status, ReplacementInv, WireDescends, InRequest,
      exchangeVars, workerVars
<1>11. CASE EndPlan
  BY <1>11 DEF FieldsOK, EndPlan, journalVars, exchangeVars, workerVars
<1>12. CASE Launch
  BY <1>12 DEF FieldsOK, Launch, journalVars, exchangeVars
<1>13. CASE Gate \/ GateFails
  <2>1. ReconcileSome /\ faults' = faults /\ halted' = halted
    BY <1>13 DEF Gate, GateFails, ReconcileSome, ReconcileAll
  <2>2. faults' \in 0..MaxFaults
    BY <2>1 DEF FieldsOK
  <2>3. numbered' \subseteq Id
    BY <2>1 DEF FieldsOK, ReconcileSome, Reconcile, Nonterminal
  <2>. QED BY <1>13, <2>1, <2>2, <2>3
    DEF FieldsOK, Gate, GateFails, ReconcileSome, Reconcile, exchangeVars, passVars, workerVars
<1>14. CASE StartWorker
  BY <1>14 DEF FieldsOK, StartWorker, Reconcile, ReconcileAll, Nonterminal, passVars
<1>15. CASE RefuseStart
  BY <1>15 DEF FieldsOK, RefuseStart, journalVars, exchangeVars, passVars
<1>16. CASE WorkerEnds
  BY <1>16 DEF FieldsOK, WorkerEnds, journalVars, exchangeVars, passVars
<1>17. CASE StopUnderHalt
  BY <1>17 DEF FieldsOK, StopUnderHalt, journalVars, exchangeVars, passVars
<1>18. CASE Crash
  BY <1>18, ReplacementAssumption
  DEF FieldsOK, Crash, Disturb, Status, journalVars, exchangeVars,
      ReplacementAssumption
<1>19. CASE OperatorReset
  BY <1>19
  DEF FieldsOK, OperatorReset, Settled, journalVars, exchangeVars, passVars,
      workerVars
<1>20. CASE UNCHANGED vars
  BY <1>20 DEF FieldsOK, vars, journalVars, exchangeVars, passVars, workerVars
<1>21. ASSUME NEW ladder \in SUBSET Level, NEW young, Plan(ladder, young)
      PROVE  FieldsOK'
  <2>1. plan' = {[id |-> i, to |-> TargetOf(i, ladder)] : i \in FirstCandidates(ladder, young)}
    BY <1>21 DEF Plan
  <2>2. \A i \in FirstCandidates(ladder, young) : i \in Id /\ TargetOf(i, ladder) \in Level
    BY TargetIsLevel DEF FirstCandidates
  <2>3. plan' \subseteq [id : Id, to : Level]
    BY <2>1, <2>2
  <2>. QED BY <1>21, <2>3 DEF Plan, FieldsOK, journalVars, exchangeVars, workerVars
<1>22. ASSUME NEW move, NotInJournal(move)
      PROVE  FieldsOK'
  BY <1>22 DEF FieldsOK, NotInJournal, IsNext, journalVars, exchangeVars, workerVars
<1>23. ASSUME NEW move \in plan, Prepare(move)
      PROVE  FieldsOK'
  <2>1. /\ nextId \in Id /\ nextId' = nextId + 1 /\ nextId' <= MaxOrders + 1
        /\ level' = [level EXCEPT ![nextId] = move.to] /\ move.to \in Level
    BY <1>23, ReplacementAssumption
    DEF Prepare, FieldsOK, ReplacementInv, Typed, Id,
                                        ReplacementAssumption
  <2>2. level' \in [Id -> Level \cup {0}]
    BY <2>1 DEF FieldsOK
  <2>3. \A i \in Id : i < nextId' => level'[i] \in Level
    BY <2>1 DEF FieldsOK, Id
  <2>4. plan' \subseteq plan /\ pc' = "prepared"
    BY <1>23 DEF Prepare
  <2>5. UNCHANGED <<numbered, reply, seen, worker, halted, faults>>
    BY <1>23 DEF Prepare, workerVars
  <2>. QED BY <2>1, <2>2, <2>3, <2>4, <2>5 DEF FieldsOK
<1>24. ASSUME NEW l \in Level, PlaceBuy(l)
      PROVE  FieldsOK'
  <2>1. /\ nextId \in Id /\ nextId' = nextId + 1 /\ nextId' <= MaxOrders + 1
        /\ level' = [level EXCEPT ![nextId] = l] /\ numbered' = numbered \cup {nextId}
    BY <1>24, ReplacementAssumption
    DEF PlaceBuy, FieldsOK, ReplacementInv, Typed, Id,
                                        ReplacementAssumption
  <2>2. level' \in [Id -> Level \cup {0}]
    BY <2>1 DEF FieldsOK
  <2>3. \A i \in Id : i < nextId' => level'[i] \in Level
    BY <2>1 DEF FieldsOK, Id
  <2>4. UNCHANGED <<passVars, worker, halted, faults>>
    BY <1>24 DEF PlaceBuy
  <2>. QED BY <2>1, <2>2, <2>3, <2>4 DEF FieldsOK, passVars
<1>25. ASSUME NEW i \in Id, Observe(i)
      PROVE  FieldsOK'
  <2>1. UNCHANGED <<nextId, level, numbered, pc, plan, reply, seen, worker>>
    BY <1>25 DEF Observe, passVars
  <2>2. halted' \in BOOLEAN /\ (faults' = faults \/ Disturb)
    BY <1>25 DEF Observe, FieldsOK
  <2>3. faults' \in 0..MaxFaults
    BY <2>2, ReplacementAssumption DEF FieldsOK, Disturb, ReplacementAssumption
  <2>. QED BY <2>1, <2>2, <2>3 DEF FieldsOK
<1>26. ASSUME NEW i \in Id, ReadFails(i)
      PROVE  FieldsOK'
  BY <1>26, ReplacementAssumption
  DEF FieldsOK, ReadFails, Disturb, exchangeVars, passVars,
              ReplacementAssumption
<1>27. ASSUME NEW i \in Id, Deliver(i)
      PROVE  FieldsOK'
  <2>1. /\ reply' \in {"none", "noop", "half", "both"}
        /\ UNCHANGED <<journalVars, pc, plan, seen, workerVars, halted, faults>>
    BY <1>27 DEF FieldsOK, Deliver, Answer
  <2>. QED BY <2>1 DEF FieldsOK, journalVars, workerVars
<1>28. ASSUME NEW i \in Id, Lose(i)
      PROVE  FieldsOK'
  BY <1>28 DEF FieldsOK, Lose, journalVars, passVars, workerVars
<1>29. ASSUME NEW i \in Id, Trade(i)
      PROVE  FieldsOK'
  BY <1>29 DEF FieldsOK, Trade, journalVars, passVars, workerVars
<1>30. ASSUME NEW i \in Id, Cancel(i)
      PROVE  FieldsOK'
  BY <1>30 DEF FieldsOK, Cancel, journalVars, passVars, workerVars
<1>. QED
  BY <1>1, <1>2, <1>3, <1>4, <1>5, <1>6, <1>7, <1>8, <1>9, <1>10, <1>11, <1>12,
     <1>13, <1>14, <1>15, <1>16, <1>17, <1>18, <1>19, <1>20, <1>21, <1>22,
     <1>23, <1>24, <1>25, <1>26, <1>27, <1>28, <1>29, <1>30
  DEF Next, Pass, Work, Exchange

(* Rows, orders and the pass keep their ranges, for any number of rows, prices and  *)
(* faults: in particular a BUY is only ever moved to a price.                       *)
THEOREM ReplacementTypeCorrect == Spec => []TypeOK
<1>1. Init => FieldsOK
  <2>. SUFFICES ASSUME Init PROVE FieldsOK
    OBVIOUS
  <2>1. nextId <= MaxOrders + 1 /\ faults \in 0..MaxFaults
    BY ReplacementAssumption DEF Init, ReplacementAssumption
  <2>2. \A i \in Id : ~(i < nextId)
    BY DEF Init, Id
  <2>. QED BY <2>1, <2>2 DEF Init, FieldsOK, Status
<1>2. ReplacementInv /\ FieldsOK /\ [Next]_vars => FieldsOK'
  BY FieldsNext
<1>3. ReplacementInv /\ FieldsOK => TypeOK
  <2>. SUFFICES ASSUME ReplacementInv, FieldsOK PROVE TypeOK
    OBVIOUS
  <2>1. nextId \in 1..(MaxOrders + 1)
    BY ReplacementAssumption
    DEF ReplacementInv, Typed, FieldsOK, ReplacementAssumption
  <2>. QED BY <2>1 DEF ReplacementInv, Typed, FieldsOK, TypeOK
<1>. QED BY <1>1, <1>2, <1>3, ReplacementInvariant, PTL DEF Spec
===================================================================================
