# Ladder-Dragon: a TLA+ model of order execution

Ladder-Dragon is a spot trading program for Binance. A supervisor plans ladders
of LIMIT BUY orders, starts one executor worker per symbol, and stops everything
when its risk manager trips the persistent HALT marker. A worker submits BUYs,
polls them, and attaches an OCO (take profit / stop loss) to every fill. Order
intents live in a SQLite journal that outlives workers; the exchange is the
authority on what really happened.

This directory models the part of the program in which money is at stake and
which tests reach least: what happens to an order intent, and to the inventory
it buys, when answers are lost or late, reads fail, processes die between two
writes, and the exchange moves in between; and who may run, and who must stop,
while that is being sorted out. Paths below are relative to
`src/ladder_dragon/`.

## 1. Inventory of the system

| Component | State | Operations | Talks to | What makes it correct |
|---|---|---|---|---|
| LIMIT/OCO/MARKET submission (`execution/orders/`) | none of its own | `place_limit_order`, `place_oco_sell`, `place_market_order`, `place_otoco_entry` | journal, transport, HALT | one intent becomes at most one order; an unknown outcome is reconciled before anything else is sent |
| Order journal (`execution/order_recovery.py`, `execution/journal/`) | SQLite: intents, legs, partial exits, closures | `prepare`, `record_*`, `mark_*`, `find_active`, `unresolved_buys`, `nonterminal_orders` | every worker and the supervisor | states say what the exchange confirmed; each transaction is all or nothing |
| Startup recovery (`execution/executor_recovery.py`) | none | `reconcile_nonterminal_orders`, `recover_pending_buy_order_ids`, `recover_existing_protection` | journal, transport, HALT | nothing that may be live is forgotten or declared dead |
| Filled BUY protection (`execution/protection/`) | poll list of the worker | `protect_filled_buys`, emergency flatten, gap watchdog, breakeven replacement | submission, recovery, HALT | every fill ends protected, sold or under HALT; exactly the lot is committed, never legacy inventory |
| Worker batch and event loop (`execution/worker/`) | `placed_ids`, stream mailbox, panic state | `run_worker`, `place_buys`, `run_event_loop`, `apply_time_stop`, `on_fill` | all of the above, stream, stats database | the batch stops at an unknown outcome; a live BUY is polled |
| Atomic cancel-replace (`execution/cancel_replace.py`) | none | `atomic_cancel_replace_buy` | journal, transport | both halves accounted for |
| Signed transport (`execution/binance_transport.py`, `auth_resilience.py`, `time_safety.py`) | clock offset, rate-limit window, auth state file | `signed_request`, resync, backoff | everybody | a mutation is never repeated unless it was definitely refused |
| User stream (`execution/user_stream*.py`) | mailbox, soak epochs | subscribe, wake up, `reconciliation_due` | event loop | it only wakes the worker, never decides |
| Lots and accounting (`execution/inventory_lots.py`, `trade_accounting.py`) | FIFO lots | `sync_exchange_fill` | stats database | a fill is consumed once |
| Risk manager (`risk/`) | HALT marker, risk state file, cooldown | `evaluate`, `create_manual_halt`, `reset`, inventory caps | supervisor, workers | HALT persists until an operator resets it |
| Supervisor (`supervision/`) | child processes, restart history, phase | plan, spawn, stop, recovery gate, protection snapshot, order cleanup | workers (as processes), journal | no worker runs on an unprotected position |
| Strategy, prediction, AI (`strategy/`, `ai/`) | plans, experiments, champion registry | planning | supervisor | numeric; they never submit an order |
| Dashboard, market data, persistence, observability, verification, deployment | databases, caches | reads, reports, migrations | files | outside the order protocol |

What is hard in this system: unknown outcomes of POSTs (no answer, a malformed
one, "duplicate client id"); reads that fail or are stale when used (a list and
its legs are two requests); one request that cancels an order and places
another; exits that execute while they are being canceled; a crash between any
two of journal, exchange and journal again; HALT, which is two files that several
processes write; workers that do not die when told to; and intents of several
lots that resemble each other.
`PROJECT.json` lists the hazards line by line, with the property that covers
each or the reason why none does yet.

## 2. Modules

| Module | What it is |
|---|---|
| `BuyIntents` | abstract: phases of a BUY intent, one holder per slot |
| `OrderSubmission` | startup reconciliation, BUY batch, submission, observation |
| `FilledBuyProtection` | from a fill to OCO, MARKET flatten or HALT |
| `BuyReplacement` | resting BUYs moved by cancelReplace, around a worker's restart |
| `ExitManagement` | safety cancels, gap watchdog, time stop, breakeven move, recovery gate |
| `HaltLatch` | abstract: a latch that a reset alone clears |
| `RiskControl` | the HALT marker, the risk state file, their lock and all writers |
| `Supervisor` | startup, risk checks, blocks, stops, restarts, worker processes, symbol lock |
| `OrderSubmissionProofs`, `FilledBuyProtectionProofs`, `BuyReplacementProofs`, `ExitManagementProofs`, `RiskControlProofs`, `SupervisorProofs` | TLAPS proofs about the module of the name |
| `FilledBuyUnitsProofs` | TLAPS proofs about types and quantities of `FilledBuyProtection` |
| `FiniteSums` | laws of sums over finite sets, for the proofs that count units |
| `MC*` | sizes and symmetry for TLC |

The modules cut one system at its seams.

* A filled BUY is one outcome of `ObserveFilled` in `OrderSubmission`, and the
  start of `FilledBuyProtection`, which does not say how the BUY came to rest on
  the book.
* `BuyReplacement` moves BUYs that rest; submission, startup and protection,
  which have modules of their own, are single steps in it.
* `ExitManagement` is the rest of the worker's tick around the protection sweep,
  which is reduced there to its outcomes.
* `Supervisor` decides when workers run. The recovery gate and HALT are one step
  and one Boolean in it; `RiskControl` opens HALT up into files and writers, and
  `BuyReplacement` and `ExitManagement` show what the gate reads.

### OrderSubmission

One worker and one symbol; `SymbolLock` keeps a second worker out. Ids are
numbers in the order of their creation.

* `journal`, `slotOf`, `nextId` are the rows of `order_intents`. `slotOf` is the
  pair (price, quantity) that `find_active` compares.
* `order`, `accepted`, `wire` are the exchange: status by client id, how many
  orders an id has become, and POSTs that are on their way.
* `reply`, `pc`, `cur`, `pending`, `todo`, `tracked` are the worker's memory and
  vanish in `GoDown`; `tracked` is `placed_ids`.
* `halted` is the existence of the HALT marker.

`Boot`, `ReconcileAnswered`, `StartupReadFails` are `run_worker` and
`reconcile_nonterminal_orders`; `StartRecovery`, `RecoverAnswered` are
`recover_pending_buy_order_ids`; `StartBatch` to `EndBatch` are `place_buys` with
`place_limit_order`, one action for each exit of its `try`; `Observe*` is one
poll of the event loop; `Accept`, `Refuse`, `Lose`, `Advance` are Binance and the
network; `HaltElsewhere` is any other process that trips HALT.

Abstractions: which of the candidate slots are tried is free, since caps,
balances, filters and market gates decide it; CANCELED stands for every terminal
status without a fill; settling a partly filled BUY (cancel, read again) is an
exchange step followed by an observation. An absent active intent that is sent
again under its own id (`LookupAnswered`) is kept because the code has it; after
a clean startup it does not happen.

### FilledBuyProtection

A lot is a BUY with the net quantity its settlement establishes (`Size`). A sell
is one SELL intent with the exchange's list or order of the same id.

* `parent`, `intent`, `child`, `legs`, `listed`, `exits` are the journal: states,
  immutable columns, `order_intent_legs`, `exchange_order_list_id`,
  `order_partial_protection_exits`.
* `bought`, `status`, `sold`, `wire` are the exchange; `Free` is the free base
  balance, `Legacy` the part of it the program never bought.
* `pc`, `cur`, `sell`, `seen`, `reply`, `tracked` are the worker. `seen` is the
  `listStatusType` of the list as it was read, before its legs are.
* `abandoned` is a history variable that no guard reads: the OCO intents a pass
  went on from without knowing them over. A lookup that gave up puts an intent
  there (`LookupGivesUp`), and a list that ended between its two reads
  (`LegsEndedMeanwhile`).

`Poll` enters `protect_filled_buys`; `Recover*`, `ReadList`, `Legs*` are
`recover_existing_protection`; `PlanOco` to `MarkProtected` and `Reuse*` are
`place_oco_sell`; `PlanMarket` to `HaltFlattened` are the emergency flatten and
`place_market_order`, where a crash may fall between the closure of the parent
(`CloseFlattened`) and the HALT; `OnFill` is the fill callback of `poll_trades`; `StepFails`
is the `except Exception` at the end of the pass, which any request or
transaction of it can reach.

Each transaction is one step, and each request that can fail or be overtaken is
another. Some pairs of transactions are one step, because no reader can tell the
state between them from the state before or after: `mark_failed` followed by
`mark_protection_pending`, and `prepare` followed by `mark_protection_pending`
(a FILLED parent is treated like a PROTECTION_PENDING one everywhere). Startup is
one step (`Boot`); its interleavings are the subject of `OrderSubmission`.

The modelled configuration is the LIVE one: `--attach-oco-on-fill`, no OTOCO
entry, no single-TP fallback (LIVE flattens instead).

### BuyReplacement

One symbol in reanchor mode APPLY with atomic replacement. Rows are numbers in
the order of their creation.

* `nextId`, `journal`, `level`, `replaces`, `numbered` are the rows: state, price,
  the metadata that names the replaced order, and whether an exchange id is known.
  `origin` is a history variable: the ladder BUY a row descends from.
* `order` and `wire` are the exchange and the cancelReplace POSTs on their way.
* `pc`, `plan`, `cur`, `reply`, `seen` are the supervisor's pass over the symbol;
  `worker` and `tracked` the symbol's worker and what it polls.

`Plan` is `plan_buy_reanchors`, with its step limit and its number of moves per
cycle. `StopWorker` and its failure come before any mutation. From
`NotInJournal` to `RecordNew` the actions are `atomic_cancel_replace_buy`, one per
exit: the row is missing, the preparation, the POST, "not attempted", replaced, an
answer that is not understood, the bounded reads that reconcile it, and the
ambiguous end that trips HALT. `Launch`, `Gate`, `StartWorker` restart the
worker. A query of the gate that fails leaves no trace (`GateFails`); one of the
starting worker marks its row UNKNOWN and trips HALT (`ReadFails`). `Deliver` executes a POST in full, by half (canceled, not placed) or not
at all; `Lose`, `Trade`, `Cancel` are the network and the exchange.

### ExitManagement

One symbol, one worker, a tick of its event loop in the code's order: safety
cancel of open BUYs, gap watchdog, protection sweep, time stop, breakeven.

* `buy`, `bought`, `lists`, `flat` are the exchange: BUYs, OCO lists, quantity
  sold by MARKET. A lot has at most a first list and a raised one.
* `prot`, `anchors`, `halted` are durable: the journal's protection state, the
  breakeven state file, HALT.
* `tracked`, `todo`, `cur`, `target`, `snap`, `expected`, `total0` are local to
  the tick and vanish when the worker does. `snap` is what breakeven read before
  it canceled; `expected` and `total0` are the watchdog's quantity and its first
  balance.
* `resold` and `missed` are history variables that no guard reads; see below.

BUYs and lists execute between any two steps, and the watchdog may find any of the
resting lists breached (`GapRead`), since each has a stop price of its own. A cancel
is a request, an effect at the exchange that may come later (`CancelTakesEffect`),
and the reads that verify it.

The controls measure and then act, so an execution in between makes them sell or
leave too much. The model lets it happen and counts it:

* `resold` counts the units that execute between a control's read and its use of it:
  of a list, after breakeven read its remainder and before it placed that remainder
  again (`execution/protection/breakeven.py:236`), or after the watchdog added it up and
  before it took the balance (`execution/protection/runtime.py:219`, `:266`); of a BUY,
  while the watchdog measures, because a BUY hides a sale from the balance.
* `missed` counts what lists other than the breached ones sell while the watchdog
  measures: it takes any fall of the balance for theirs.

Both start at zero, and are reset when HALT ends the claims made with them; `missed`
also when the gate, which looks at the lists themselves, opens.

`Gate` is what a restarted worker must pass: every unit in a list the journal knows or
in a BUY that will be polled. Its reads are taken to happen after canceled lists have
settled.

Three things of the code the model shows and no property forbids: under HALT, a
partly flattened BUY that stays in the poll list can be time-stopped again, so
`ExitsWithinBuys` speaks of a worker without HALT; after a breakeven move the
journal still names the old list, so that the next gate ends in HALT
(`RestartIsAttended` holds because of it); and a refused time-stop MARKET order
raises without HALT and ends the worker, whose restart the gate then refuses.

### RiskControl

`marker` is `circuit_halt.json`, `file` is `risk_state.json`, `lock` the holder
of the flock beside it. `pc`, `work`, `why`, `at` are the memory of each process:
the state the holder of the lock will save, the reason it reports, and the time
`create_manual_halt` reads before it waits for the lock. `verdict` is the last
decision returned; `opening` and `torn` are history variables.

`Evaluate`, `Trip`, `AlertFails`, `Save` are `evaluate` in the order of its
writes; `StartCooldown`; `Report`, `ReportAgain`, `Mark`, `Mirror` are
`create_manual_halt` and its `_once` form; `Reset`, `Clear` are `reset`; `Guard`,
`Activate` the champion activation that runs under `confirmed_execution_halt`.
`Crash` and `Damage` (a marker that cannot be parsed counts as HALT) are bounded.
The limits that block without a HALT are one free choice; the three equity limits
are computed. `ImplementsLatch` is a refinement: `latched` is "the marker exists
or the state says so", `resetting` an operator between the two writes of a reset.

### Supervisor

* `pc`; `goal`, `todo`, `stopped` (a stop under way and what it is for); `plan`.
* `blocked`, `fresh`, `failures`, `nextCheck` are the loop's risk variables,
  `allowed` the champions that may execute, `wait` and `fails` the restart
  backoff.
* `halt`, `cool`, `auth` are saved; everything above is lost in a crash.
* `child`, `manual` are processes, `own` and `lost` the holders of the lock on
  the file at the lock's path and on a file that was unlinked.
* `buys`, `seen` are symbols with open BUYs, and the last snapshot of them.

`Boot`, `Preflight`, `Gate` start the supervisor; `Snapshot`, `Decide`,
`OperationFails`, `ConfigurationBlocks` are the risk check; `Terminate`, `Kill`,
`Confirm`, `StopUnconfirmed` the stop of each worker, with SIGTERM, SIGKILL and
the case in which neither is confirmed; `Cancel` the withdrawal of BUYs under a
block; `PlanOnly`, `Revoke`, `KeepChild`, `Reap`, `Start`, `StartFails` the plan
of one symbol; `Shutdown` is SIGTERM to the supervisor at any point, in the middle
of a start included. `Admit`, `PlaceBuy`, `ReportHalt`, `CloseLock`, `Leave`, `Die`
are the worker. Time is counted in ticks and passes where the loop sleeps.

## 3. Runs

| Run | Expected | Question |
|---|---|---|
| `submission` | pass | one intent one order, one POST in flight, one holder per slot, live BUYs recorded and watched; implements `BuyIntents`; unknown outcomes resolve |
| `submission_under_halt` | violation | does no POST leave under HALT? |
| `protection_sound` | pass | with unknown outcomes and lists that end between two reads: is the lot committed in full, does only an abandoned intent commit more, and is CLOSED sold? |
| `protection_two_lots` | pass | with two BUYs that share the prefix of their ids: is PROTECTED backed by an own list, is no fill forgotten, is no lot oversold? |
| `protection_live` | pass | does every fill end protected, closed or under HALT? |
| `flatten_adopted` | violation | is CLOSED sold when two lots have the same size? |
| `risk_control` | pass | is HALT a latch, is a loss remembered, is the pause kept, is a champion exchanged under HALT only? |
| `supervisor` | pass | is a block quiet, and lifted; does HALT end workers; do BUYs go and workers return? |
| `supervisor_lock` | violation | does the symbol lock admit one worker? |
| `buy_replacement` | pass | does a BUY that is moved buy once; is no worker beside an open outcome; do rows settle? |
| `exit_management` | pass | are units bought left alone without HALT, or offered beyond what was bought, only by as much as executed behind a control's back? |
| `gap_flatten_crossed` | violation | is the watchdog's success a sale? |

### Bounds

* `submission`: two slots and two intents, so that a slot gets a second BUY or
  two slots one each; three crashes let a restart be interrupted twice. The safety
  part is proved for every number.
* `protection_*`: quantity 2 is the least that can be partly sold, quantity 3
  (`protection_sound`) the least that can be partly sold twice. Three sells allow
  an OCO, its replacement and a flatten. Two lots of equal size are the least in
  which intents can be mistaken for one another, and two prices let a plan miss the
  intent of an earlier one. `Legacy` is as much as a lot, so that a second sell of it
  is accepted when the first is not over. Liveness is checked for one lot
  with two sells and two crashes: a worker handles one lot at a time, and each pass takes
  its lot off the list or trips HALT. When the journal's bound is reached the
  worker prepares no new intent; everything else goes on.
* `risk_control`: one supervisor, one worker, one operator who resets and one who
  activates; equities 99, 100 and 102 lie on both sides of the limits (3 units,
  3 % of the first, 2 % of the highest); days of two ticks and a clock of four
  give a change of day under a running cooldown; one crash or damaged marker.
* `supervisor`: two symbols, one of them also started by hand; two failed checks
  reach the threshold; cooldown and backoffs of two ticks are longer than the
  check interval of one. `MaxFaults` (2) bounds failed calls, deaths, limits
  reached and operator actions together. 126,600 states.
* `buy_replacement`: three rows are a BUY, its replacement, and the replacement of
  that or a second BUY; two prices make a move and its way back. 220,083 states.
* `exit_management`: two lots of two units and one legacy unit; two faults.
  753,910 states.

Symmetry is used in `protection_two_lots` (lots and prices), which checks invariants
only; the model treats them alike and no property names one. Deadlock is not checked where the system may stop (the clock
at its bound, HALT that no operator lifts, a bound journal).

### Assumptions that are constants, not facts

* `PostsSettle`: when Binance answers that an order does not exist, no POST of it
  can arrive any more. The code relies on `recvWindow` for it. It is TRUE in every
  run, built into `Absent` of `FilledBuyProtection`, and the hypothesis of the
  theorems that name it.
* `SharedPurpose`: whether the 12-character prefix of BUY ids is the same for all
  BUYs of a worker, which it is whenever `BOT_AI_DECISION_ID` is set
  (`execution/order_identity.py:26-29`, `execution/orders/runtime.py:630`). It is TRUE
  in every run, and the theorems hold for either value.
* `Level`: prices are ticks, and every tick between two prices is a price; the code
  rounds a replacement's target to a tick (`strategy/reanchor.py:125-136`).
* HALT is reset while no worker runs, as the supervisor stops workers first.

### What the properties allow

Five properties name an exception, because the code has one. Each is as narrow as the
code allows, and is a history variable or a state, never a restriction of what the
exchange may do.

* `LegacyUntouched` leaves out the sells in `abandoned`. `place_oco_sell` returns
  `None` for an unknown outcome and the caller flattens
  (`execution/protection/runtime.py:719`); recovery reports no protection when a list
  ends between its two reads (`execution/executor_recovery.py:540`). Either way the lot
  may be sold twice, by the abandoned intent and by its successor. The property says
  that there is no third way, and that the successors alone stay within the lot.
* `ProtectedIsBacked` admits a row that is UNKNOWN: the pass of another BUY with the same
  prefix may look the row up, fail, and mark it.
* `NothingUnattended` and `UnattendedResolves` allow `missed` units, and
  `ExitsWithinBuys` allows `resold` units.

### Fairness

* `OrderSubmission`: a worker that can start or take its next step does (the
  supervisor restarts workers, every request has a timeout), each tracked BUY is
  polled, a POST is answered or lost, and the startup query of an intent, asked
  again and again, is some time answered; this last one is strong fairness because
  failed reads end the worker.
* `FilledBuyProtection`: the pass and the restart go on.
* `Supervisor`: the loop goes on (`Progress`); a worker that was spawned reaches
  its lock, one that was told to leave does, and one that was sent SIGKILL dies;
  systemd removes the group of a dead supervisor. Failures are not excluded by
  fairness, only by their bound.
* `BuyReplacement`: the pass goes on; the gate, which systemd repeats, some time reads
  all it asks for; a POST is delivered or lost; the
  start of the worker and the observation of a BUY, which a new pass interrupts
  again and again, are strongly fair.
* `ExitManagement`: the tick and the gate go on; an accepted cancel takes effect.

Nothing is assumed of fills, of operators, of prices, or of answers to POSTs.

### Disagreements between code and documents

| Run | The document | The code |
|---|---|---|
| `submission_under_halt` | `docs/RUNTIME_SAFETY_AND_REPORTING.md:121` HALT blocks trading mutations | the marker is read at worker start only (`execution/worker/lifecycle.py:102`) |
| `flatten_adopted` | same, `:32` closed when its quantity was executed | another lot's MARKET intent counts (`execution/orders/runtime.py:438`) |
| `supervisor_lock` | comment at `execution/worker/lifecycle.py:82`: a duplicate worker exits | the lock is given back before its file is unlinked (`execution/worker/runtime.py:403`) |
| `gap_flatten_crossed` | `CHANGELOG.md:5375` success only after a complete MARKET fill | any fall of the balance counts as the breached lists' (`execution/protection/runtime.py:324`) |

Others, met while modelling, have no run of their own:

* three transactions (`execution/orders/runtime.py:863`) where the document says
  one (`RUNTIME_SAFETY_AND_REPORTING.md:87`);
* `place_oco_sell` returns `None` for an unknown outcome too, and the caller
  flattens (`execution/protection/runtime.py:719`; same document, `:31`);
* an exit between two reads of recovery is not recorded
  (`execution/executor_recovery.py:540`);
* 12 characters do not identify a BUY when a decision id is set
  (`execution/orders/runtime.py:630`, comment at `:634`), so that the plan of one BUY
  finds, and on a failed lookup marks UNKNOWN, the list of another;
* a lot whose recorded exits sold it in full stays PROTECTION_PENDING
  (`execution/protection/runtime.py:507`), which `FillsResolve` accepts;
* the remainder breakeven replaces is read before the cancel
  (`execution/protection/breakeven.py:236`), which `resold` counts;
* `smart_rolling` lists the orders before it stops the worker
  (`supervision/runtime.py:1413`), so a BUY placed meanwhile may rest at the price
  another one is moved to (`docs/IMPLEMENTATION_STATUS.md:64`); and it goes on with
  the next candidate after an ambiguous replacement (`CHANGELOG.md:5468`);
* rows of moved BUYs have their own purpose, so `find_active` of the ladder does
  not find them.

All of them need a rare coincidence. They are recorded as differences between
what is written and what is done.

## 4. Proofs

Each theorem holds for every value of the constants that the module's ASSUME
admits, hence for any number of slots, lots, rows, symbols, processes and faults.

### OrderSubmissionProofs

Proved for every set of slots, number of intents and
number of crashes:

* `TypeCorrect`: `Spec => []TypeOK`, with no hypothesis;
* `AtMostOnceHolds`, `OnePostHolds`, `LiveIsActiveHolds`, `OneHolderHolds`,
  `LiveIsWatchedHolds`, `Refinement`: the safety properties of the runs and the
  implementation of `BuyIntents`, all from `PostsSettle`.

The argument. None of the properties is inductive. `TransportInv` says where an
unresolved POST may be: never while the worker reconciles, selects or prepares;
only at the current intent while it waits; and, once the batch was stopped, only
under HALT. A restart therefore meets an absent, unconfirmed row only when the
exchange has settled it, which is where `PostsSettle` is used. From it follow at
most one order per id (`WireOrOrder` counts POSTs and orders together) and one
POST in flight. `SlotInv` adds that an order that lives has an active row, and
that a slot has at most one such row: the search of `find_active` covers
every row that could hold the slot. `WatchInv` adds that what lives is in the
startup list, then in the poll list. The step lemmas have one case per action;
the refinement uses the same invariants to map each action to a step of
`BuyIntents` or to a stutter.

### FilledBuyProtectionProofs

* `NoFillIsForgotten`: `NoFillForgotten`, with no hypothesis;
* `ProtectedHasList`: `ProtectedIsBacked`, with no hypothesis.

`FillInv` is `Typed` (the part of the types the argument needs), `RowsInv` (rows
not yet created are empty; a recorded exit is of a canceled list), `PassInv` (a
pass works on a lot that is polled, and claims nothing of it yet) and `PollInv` (a
lot leaves the poll list only protected, closed or with nothing left to sell). The
crux is `Remaining`, which is computed from recorded exits: `KeepsRemaining` says
that no step changes what remains of a lot but the record of an exit, which is of
the lot at hand. `BackedInv` adds `ListInv`: a child that is PROTECTED,
or about to be, has reached the exchange with the residual quantity, and its legs
and list id are stored before the parent is. A pass that takes up the list of another
lot is stopped by `VerifyQuantities`, which compares the BUY; the most it does to that
lot is to mark its list UNKNOWN.

### FilledBuyUnitsProofs

* `ProtectionTypeCorrect`: `TypeOK`, with no hypothesis;
* `ClosedUnlessAdopted`: `ClosedIsSold`, unless a step adopts the MARKET order of
  another lot (`[][OwnFlatten]_vars`). That is the one way in which it fails: the run
  `flatten_adopted` shows it;
* `ChainInvariant`, `LegacyUntouchedHolds` (`LegacyUntouched`) and
  `ProtectionIsCompleteHolds` (`ProtectionIsComplete`), with no hypothesis: with unknown
  outcomes, lists that move between two reads, shared prefixes and any number of lots.

Every quantity is one of a sell. `UnitInv` says of each row that it has sold no more
than its quantity, and `ClosesNext` that a lot is closed by an exact exit, or by a
MARKET order that sold what the recorded exits left (`RemainingIs`); as what a sell has
sold never shrinks (`SoldGrows`), a closed lot stays sold. A MARKET order of another
lot need not be of that quantity for this lot, which is why its adoption is excluded.

For the other two, `ChainInv` says that the sells of a lot follow each other. A pass
plans a sell only when every earlier sell of the lot is settled or abandoned
(`PlanInv`, `ReuseInv`): nothing of it is on the wire or at work, and what it sold is
recorded. So of the sells that were not abandoned only the newest may be unsettled
(`OlderInv`), and it sells exactly what remains (`RestInv`). What the exits record of
them is no more than the lot bought (`FloorInv`), and what remains of a lot only
shrinks, so that every sell covers it (`CoverInv`). Hence the sells not abandoned
commit at most what the lot bought, which is `LegacyUntouched`. `ProtectionIsComplete`
needs no exception: while the list of a lot is on the book, what it has sold and still
offers, and what the exits record, add up to the lot at least.

### BuyReplacementProofs

`ReplacementInvariant` is the inductive invariant; from it follow `OneOrderBuys`
(`OncePerBuy`), `LiveStaysActive` (`LiveIsActive`) and `OpenOutcomeStopsWorker`
(`OpenOutcomeIsQuiet`). Its parts: `RowsInOrder` (rows not
yet created have no order and no POST), `WireDescends` (a POST on the wire has no
order yet, and the origin of the one it would replace), `WorkerAway` (the worker
is down during a request), `WireQuiet` (a POST waits behind a stopped worker or
under HALT), `AnswerIsTrue` (an answer says what the exchange did with both
orders), and the first two of the safety properties themselves. The worker's start
and the send of the next request are the steps that need most of them.

`ReplacementTypeCorrect` is `TypeOK`, with no hypothesis but the assumption on `Level`
that prices are ticks. Its hard part is the price of a replacement. A BUY gets
the ladder price of its own rank, chosen by `CHOOSE`; `RankIsTaken` shows by a counting
argument that a finite set of numbers has a member of every rank below its size, so
that the price exists, and `TargetIsLevel` that a move limited by `Step` ends between
the old price and that one, and so on a tick.

### FiniteSums

The balances are sums over lots and lists, which the community modules define by
a recursion over the set. A law of such a sum needs induction over finite sets, and
the library's induction theorems take an operator the provers cannot instantiate.
The way around it is a smallest counterexample: strict inclusion is well founded on
the finite subsets of a set (`SmallestSubset`), so if a law failed for some subset it
would fail for a smallest one, from which one member can be taken away. The same
argument shows that the recursion has a solution at all (`IterateExists`), which its
definition by CHOOSE leaves open. On it rest `SumTake` (any member may be taken
first), `SumChange` (one member changes), `SumSplit`, `SumMonotone`, `SumImage` and
the other laws the proofs cite.

### ExitManagementProofs

* `ExitTypeCorrect`: `TypeOK`, with no hypothesis; it includes `Free >= 0`;
* `RestartHolds`: `RestartIsAttended`, with no hypothesis;
* `NothingUnattendedHolds`: `NothingUnattended`, and `ExitsWithinBuysHolds`:
  `ExitsWithinBuys`, with no hypothesis;
* `SuccessLeavesMissed`: when the watchdog leaves its polls without HALT and without a
  sale, the breached lists have no more left to sell than `missed`. The run
  `gap_flatten_crossed` shows that they may have something left; this says how much.

`SafeShape` is what each step of a control finds: the ranges, `ListsInv` (a list
rests while something of it is left, and sells no more than it has), `LotsInv` (the
order in which a BUY, its journal entry and its two lists come into being),
`SnapInv` and `StageInv` (what a control has in hand at which step), and `Free >= 0`.
Its step lemmas first sort all actions into a few kinds of change (`ListsChange`,
`BuyChange`, `SnapChange`, `AccountChange`), so that each part of the invariant is
then shown for the kinds and not for 45 actions.

`BalanceInv` is the account of a session: without HALT, what it holds is at most
what the lists in hand have left to sell plus what the polled BUYs executed plus
`missed` (while a worker runs), and together with `resold` at least that (a BUY that a
time stop just sold does not count). A list is in hand when it rests, or when the
watchdog or breakeven took it off and has not yet replaced or sold it. `Overhang` is
what breakeven read of the lists beyond what they still have: it will be offered again
when the list is replaced, and the balance already carries it.

No control keeps this by itself. A replacement keeps it because the quantity read is at
least what the list has left (`SnapUpper`) and the excess is in `Overhang`. A flatten
keeps it because of `DriftInv`: `Drift` is what the watchdog will sell, as far as it
knows, beyond what the breached lists have left, and the balance holds with it added
and exceeds `-missed`; `GapInv` says that the sum it read was not too small. A cancel
keeps it because what was accepted for cancellation stays in hand (`ClosingInv`), and a
BUY that may still execute is polled (`PolledInv`). At the gate it comes from what the
journal says of its lists (`GateInv`, `GateAttends`). Away from the steps between two
exits, a list in hand rests or is sold out (`OpenInv`): there the balance is
`NothingUnattended`.

### RiskControlProofs

`ControlInductive` proves `ControlInv`: `Typed`, `LockHeld` (who is between two
writes holds the lock), `WorkIsHalted` (the state `evaluate` is about to save is as
halted as the files are) and `OperatorSees` (between its writes a reset has removed the
marker, an activation has not). From it follow `ActivationHolds`
(`ActivationUnderHalt`), `DecisionHolds` (`DecisionSeesHalt`) and
`LatchRefinement` (`ImplementsLatch`): every write is a step of `HaltLatch` or a
stutter.

Two invariants rest on it. `PauseKept` compares the pause of a readable marker with
that of the state, except between the two writes of whoever makes a marker, and
says that the state about to be saved keeps the pause of the file it replaces;
`PauseHolds` (`ResetWaits`) follows. `BaseKept` says that the baselines of the file,
and of a reset's copy of it, are the first and the highest equity decided on that
day, and that what `evaluate` will save adds its snapshot to them and is halted when
it breaches; `LossHolds` (`LossIsHalted`) follows. Neither needs arithmetic beyond
that an equity does not breach a limit against itself (`NoLossAtBase`).

`ControlTypeCorrect` is `Spec => []TypeOK`; it is inductive by itself and adds to
`Typed` that every loaded, measured or mirrored payload is complete
(`PayloadsTyped`) and that the day of a clock reading is in range (`DayInRange`).

### SupervisorProofs

`SupervisorTypeCorrect` (`TypeOK`), `BlockLeavesNoWorker` (`BlockedIsQuiet`),
`OpenOnVerified` (`OpenIsVerified`) and `BackoffSilences` (`BackoffIsSilent`).
`SupervisorInv` adds to `TypeOK` `StopIsThorough` (a worker the stop has dealt with
is gone, or the stop is not confirmed), `QuietInv` (there is no worker before the
loop and in a blocked one), `VerifiedInv` (where the loop stands agrees with its
flags) and `SilentInv` (the next check is not due before the saved retry time).

### Only model-checked

Liveness, which is out of the provers' reach: `OutcomesResolve`, `FillsResolve`,
`HaltStopsWorkers`, `BlockIsLifted`, `BuysAreWithdrawn`, `WorkerReturns`, `RowsSettle`
and `UnattendedResolves`. Every invariant and every action property of the passing
runs is a theorem; those of `OrderSubmission` but its types rest on
`PostsSettle`, and `ClosedIsSold` on `OwnFlatten`.

## 5. Not modelled, and the plan

`PROJECT.json` lists every component with its status. What is left out, and why:

* Signed transport and clock: the modules use its contract (an answer, a
  definitive refusal, or an unknown outcome). Its retries, clock resync and
  rate-limit window are not shown to keep it.
* User stream: a mailbox that only wakes the event loop. Polling alone decides,
  and polling is modelled.
* Lots and accounting: the models take the result (remainder and age of a lot)
  as input. Inventory caps: whether a slot is excluded is a free choice.
* OTOCO entries, the single STOP or TP order, protection of one BUY by several
  lists, retirement of canceled OCO siblings: off by default in LIVE, or journal
  upkeep after the fact.
* VWAP refresh, telemetry and the numeric plan of a symbol; strategy, prediction
  and AI: numeric, without protocol state of the order path. Of the experiment
  lifecycle only the activation under HALT is modelled.
* Dashboard, market data, persistence, observability, verification, deployment:
  views, inputs, plumbing and tools. A SQLite transaction is one step.

Next, in order of importance:

1. `SignedTransport`: retries, clock resync, rate limits, unknown outcomes; shown
   to implement the contract the other modules assume.
2. `StreamMailbox`: wakeups lost and merged, periodic reconciliation.
3. OTOCO and single-order protection, retirement of protections.
4. The experiment lifecycle; and pure algorithms against reference definitions:
   `classify_oco_legs`, `verify_quantities`, FIFO lots.
