--------------------------------- MODULE Supervisor --------------------------------
(***************************************************************************)
(* The supervisor of a LIVE bot and the worker processes it starts: startup *)
(* (authentication backoff and recovery gate), the risk check that blocks   *)
(* or admits execution, the stop of the workers, the withdrawal of open     *)
(* BUYs, the per-symbol plan with its execution permission, restarts with   *)
(* backoff, SIGTERM, crashes, and the lock file that keeps a second worker  *)
(* off a symbol.  systemd owns the process group: a new supervisor starts   *)
(* only when the old one and all its workers are gone.                      *)
(*                                                                         *)
(* Timers count down in ticks: time passes where the supervisor sleeps.     *)
(* Disturbances (failed calls, dying processes, limits reached, operator    *)
(* actions) are bounded together by MaxFaults.                              *)
(***************************************************************************)
EXTENDS Integers, FiniteSets

CONSTANTS
    Symbol,
    Champion,    \* symbols with an execution permission at startup
    ManualSymbol,\* symbols for which an operator may start a worker by hand
    Threshold,   \* RISK_API_FAILURE_THRESHOLD
    Cooldown,    \* RISK_COOLDOWN_SEC, in ticks
    MaxBackoff,  \* largest authentication backoff, in ticks
    MaxDelay,    \* BOT_CHILD_RESTART_MAX_SEC, in ticks
    MaxFaults

ASSUME SupervisorAssumption ==
    /\ Champion \subseteq Symbol /\ ManualSymbol \subseteq Symbol
    /\ Threshold \in Nat \ {0} /\ Cooldown \in Nat \ {0}
    /\ MaxBackoff \in Nat \ {0} /\ MaxDelay \in Nat \ {0}
    /\ MaxFaults \in Nat

VARIABLES
    pc,        \* what the supervisor is doing
    goal,      \* why it stops the workers
    todo,      \* workers the stop has still to deal with
    stopped,   \* every stop so far was confirmed
    plan,      \* symbols the pass has still to plan
    blocked,   \* risk_buy_blocked
    fresh,     \* risk_snapshot_available
    failures,  \* consecutive_api_failures, counted up to Threshold
    nextCheck, \* ticks until next_risk_check
    allowed,   \* _ACTIVE_CHAMPIONS
    wait,      \* ticks until _CHILD_RESTART_AFTER
    fails,     \* _CHILD_FAILURES
    halt,      \* the persistent HALT
    cool,      \* ticks of cooldown left in the risk state
    auth,      \* the saved authentication state
    child,     \* the process of each registered worker
    manual,    \* the process of a worker started by hand
    own,       \* who holds the lock on the file found at the lock's path
    lost,      \* who holds the lock on a file that was unlinked
    buys,      \* symbols with an open BUY
    seen,      \* the open BUYs of the last snapshot
    faults

stopVars == <<goal, todo, stopped>>
riskVars == <<blocked, fresh, failures, nextCheck>>
backoffVars == <<wait, fails>>
savedVars == <<halt, cool, auth>>
lockVars == <<own, lost>>
buyVars == <<buys, seen>>
vars == <<pc, stopVars, plan, riskVars, allowed, backoffVars, savedVars, child,
          manual, lockVars, buyVars, faults>>

---------------------------------------------------------------------------
(* Timers *)

Interval == 1   \* the risk check interval, in ticks
SmallerOf(a, b) == IF a <= b THEN a ELSE b
LargerOf(a, b) == IF a >= b THEN a ELSE b

(* Mutant: an elapsed timer keeps counting. *)
Elapsed(t) == t - 1

Sooner(t) == IF t > 0 THEN t - 1 ELSE 0

(* base * 2 ^ (n - 1), bounded in its exponent and its value, with a base of *)
(* one tick: of worker restarts and of rejected logins                       *)
Exponential(n, top, max) == SmallerOf(max, LargerOf(1, 2 ^ SmallerOf(n - 1, top)))

NoRejection == [attempt |-> 0, retry |-> 0]
Rejected == LET attempt == SmallerOf(1000, auth.attempt + 1)
            IN [attempt |-> attempt, retry |-> Exponential(attempt, 16, MaxBackoff)]

Disturb == /\ faults < MaxFaults
           /\ faults' = faults + 1

---------------------------------------------------------------------------
(* Processes *)

Alive == {"starting", "live", "stopping", "closing"}
Running(s) == child[s] \in Alive
Registered == {s \in Symbol : child[s] # "none"}

Holds(p, s) == own[s] = p \/ p \in lost[s]

(* The process closes its lock file, or dies: flock is given back. *)
Unlock(p, s) == /\ own' = [own EXCEPT ![s] = IF @ = p THEN "none" ELSE @]
                /\ lost' = [lost EXCEPT ![s] = @ \ {p}]

(* SymbolLock.release unlinks the path after it has closed the file: who    *)
(* locked the same file in between keeps a lock nobody can find.            *)
Unlink(s) == /\ own' = [own EXCEPT ![s] = "none"]
             /\ lost' = [lost EXCEPT ![s] = @ \cup ({own[s]} \ {"none"})]

---------------------------------------------------------------------------
Init == /\ pc = "down"
        /\ goal = "none" /\ todo = {} /\ stopped = TRUE /\ plan = {}
        /\ blocked = TRUE /\ fresh = FALSE /\ failures = 0 /\ nextCheck = 0
        /\ allowed = Champion
        /\ wait = [s \in Symbol |-> 0] /\ fails = [s \in Symbol |-> 0]
        /\ halt \in BOOLEAN /\ cool = 0 /\ auth = NoRejection
        /\ child = [s \in Symbol |-> "none"] /\ manual = [s \in Symbol |-> "none"]
        /\ own = [s \in Symbol |-> "none"] /\ lost = [s \in Symbol |-> {}]
        /\ buys = {} /\ seen = {}
        /\ faults = 0

(* The memory of a process that has just started. *)
FreshMemory == /\ goal' = "none" /\ todo' = {} /\ stopped' = TRUE /\ plan' = {}
               /\ blocked' = TRUE /\ fresh' = FALSE
               /\ failures' = 0 /\ nextCheck' = 0
               /\ allowed' = Champion
               /\ wait' = [s \in Symbol |-> 0] /\ fails' = [s \in Symbol |-> 0]
               /\ seen' = {}

---------------------------------------------------------------------------
(* Startup *)

(* The singleton lock is taken and no maintenance is marked; in maintenance *)
(* the process sleeps here. *)
Boot == /\ pc = "down" /\ Registered = {}
        /\ pc' = "preflight"
        /\ UNCHANGED <<stopVars, plan, riskVars, allowed, backoffVars, savedVars,
                       child, manual, lockVars, buyVars, faults>>

(* Authenticated reads succeed once a saved retry time has passed.          *)
(* Transient failures and a changed address wait and try again.             *)
Preflight == /\ pc = "preflight" /\ auth.retry = 0
             /\ auth' = NoRejection
             /\ pc' = "gate"
             /\ UNCHANGED <<stopVars, plan, riskVars, allowed, backoffVars, halt, cool,
                            child, manual, lockVars, buyVars, faults>>

PreflightRejected == /\ pc = "preflight" /\ auth.retry = 0
                     /\ Disturb
                     /\ auth' = Rejected
                     /\ UNCHANGED <<pc, stopVars, plan, riskVars, allowed, backoffVars,
                                    halt, cool, child, manual, lockVars, buyVars>>

(* The recovery gate: nonterminal intents reconciled, fills protected, the  *)
(* journal's protection found at the exchange.                              *)
Gate == /\ pc = "gate"
        /\ pc' = "top"
        /\ UNCHANGED <<stopVars, plan, riskVars, allowed, backoffVars, savedVars,
                       child, manual, lockVars, buyVars, faults>>

(* It fails on a read, or trips HALT; preflight starts again. *)
GateFails == /\ pc = "gate"
             /\ Disturb
             /\ halt' \in {halt, TRUE}
             /\ pc' = "preflight"
             /\ UNCHANGED <<stopVars, plan, riskVars, allowed, backoffVars, cool, auth,
                            child, manual, lockVars, buyVars>>

---------------------------------------------------------------------------
(* Risk check *)

NoStop == goal' = "none" /\ todo' = {} /\ stopped' = TRUE

StopAll(why) == /\ pc' = "stop"
                /\ goal' = why
                /\ todo' = Registered
                /\ stopped' = TRUE

(* Mutant: every blocked decision starts a new cooldown. *)
EveryBlock(b, halted, config) == b /\ ~halted /\ ~config

NewBlock(b, halted, config) == b /\ ~halted /\ ~blocked /\ ~config

(* What the loop does with a decision; c is the cooldown evaluated so far. *)
Settle(b, halted, config, c) ==
    /\ blocked' = b
    /\ cool' = IF NewBlock(b, halted, config) THEN Cooldown ELSE c
    /\ IF b THEN StopAll("block") /\ UNCHANGED <<plan, nextCheck, seen>>
       ELSE /\ pc' = "launch" /\ plan' = Symbol /\ nextCheck' = Interval
            /\ seen' = {} /\ UNCHANGED stopVars

CheckDue == pc = "top" /\ nextCheck = 0

(* The authenticated snapshot succeeds: a rejection is over. *)
Snapshot == /\ CheckDue
            /\ fresh' = TRUE /\ failures' = 0
            /\ auth' = NoRejection
            /\ seen' = buys
            /\ pc' = "decide"
            /\ UNCHANGED <<stopVars, plan, blocked, nextCheck, allowed, backoffVars,
                           halt, cool, child, manual, lockVars, buys, faults>>

(* Mutant: the check only looks at the limits. *)
LimitsOnly(h, c, limit) == c > 0 \/ limit

BuyBlocked(h, c, limit) == h \/ c > 0 \/ limit

(* evaluate and the gates after it.  A price shock starts a cooldown, a     *)
(* loss or a champion's failed probation trips HALT; limits, unresolved     *)
(* fills and a budget too small for an order block.                         *)
Decide(event) ==
    LET h == halt \/ event = "loss"
        c == IF event \in {"shock", "loss"} THEN Cooldown ELSE cool
    IN /\ pc = "decide"
       /\ IF event = "none" THEN UNCHANGED faults ELSE Disturb
       /\ halt' = h
       /\ Settle(BuyBlocked(h, c, event = "limit"), h, FALSE, c)
       /\ UNCHANGED <<fresh, failures, allowed, backoffVars, auth, child, manual,
                      lockVars, buys>>

(* Mutant: a single failure does not block. *)
AtThreshold == failures + 1 >= Threshold

FailureBlocks == TRUE

(* Telemetry or the evaluation fails: BUYs are blocked, and from the        *)
(* threshold on a cooldown starts.                                          *)
OperationFails(rejected) ==
    /\ CheckDue \/ (pc = "decide" /\ ~rejected)
    /\ Disturb
    /\ fresh' = FALSE
    /\ failures' = SmallerOf(Threshold, failures + 1)
    /\ auth' = IF rejected THEN Rejected ELSE auth
    /\ Settle(FailureBlocks, FALSE, FALSE, IF failures + 1 >= Threshold THEN Cooldown ELSE cool)
    /\ UNCHANGED <<allowed, backoffVars, halt, child, manual, lockVars, buys>>

(* A configuration error blocks without a cooldown and is not counted. *)
ConfigurationBlocks ==
    /\ CheckDue
    /\ Disturb
    /\ fresh' = FALSE
    /\ Settle(TRUE, FALSE, TRUE, cool)
    /\ UNCHANGED <<failures, allowed, backoffVars, halt, auth, child, manual,
                   lockVars, buys>>

---------------------------------------------------------------------------
(* Stop of the workers *)

Terminate(s) == /\ pc = "stop" /\ s \in todo
                /\ child[s] \in {"starting", "live"}
                /\ child' = [child EXCEPT ![s] = "stopping"]
                /\ UNCHANGED <<pc, stopVars, plan, riskVars, allowed, backoffVars,
                               savedVars, manual, lockVars, buyVars, faults>>

(* The worker has not ended in time. *)
Kill(s) == /\ pc = "stop" /\ s \in todo
           /\ child[s] \in {"stopping", "closing"}
           /\ child' = [child EXCEPT ![s] = "failed"]
           /\ Unlock("child", s)
           /\ UNCHANGED <<pc, stopVars, plan, riskVars, allowed, backoffVars,
                          savedVars, manual, buyVars, faults>>

(* The exit is confirmed: the worker and its restart schedule are forgotten. *)
Confirm(s) == /\ pc = "stop" /\ s \in todo
              /\ child[s] \in {"ok", "failed"}
              /\ child' = [child EXCEPT ![s] = "none"]
              /\ wait' = [wait EXCEPT ![s] = 0]
              /\ fails' = [fails EXCEPT ![s] = 0]
              /\ todo' = todo \ {s}
              /\ UNCHANGED <<pc, goal, stopped, plan, riskVars, allowed, savedVars,
                             manual, lockVars, buyVars, faults>>

(* Neither signal ends it, or the wait fails: it stays registered. *)
StopUnconfirmed(s) == /\ pc = "stop" /\ s \in todo
                      /\ Running(s)
                      /\ Disturb
                      /\ todo' = todo \ {s}
                      /\ stopped' = FALSE
                      /\ UNCHANGED <<pc, goal, plan, riskVars, allowed, backoffVars,
                                     savedVars, child, manual, lockVars, buyVars>>

(* Mutant: a block goes on when a stop was not confirmed. *)
BlockAnyway == TRUE

BlockConfirmed == stopped

StopBlocked == /\ pc = "stop" /\ todo = {} /\ goal = "block"
               /\ IF BlockConfirmed THEN pc' = "cancel" /\ NoStop /\ UNCHANGED halt
                  ELSE /\ halt' = TRUE
                       /\ StopAll("exit")
               /\ UNCHANGED <<plan, riskVars, allowed, backoffVars, cool, auth,
                              child, manual, lockVars, buyVars, faults>>

(* The lifecycle of the champion changed: the result is not looked at. *)
StopRevoked == /\ pc = "stop" /\ todo = {} /\ goal = "revoke"
               /\ pc' = IF plan = {} THEN "sleep" ELSE "launch"
               /\ NoStop
               /\ UNCHANGED <<plan, riskVars, allowed, backoffVars, savedVars,
                              child, manual, lockVars, buyVars, faults>>

StopDisabled == /\ pc = "stop" /\ todo = {} /\ goal = "disable"
                /\ IF stopped THEN pc' = "top" /\ NoStop
                   ELSE StopAll("exit")
                /\ UNCHANGED <<plan, riskVars, allowed, backoffVars, savedVars,
                               child, manual, lockVars, buyVars, faults>>

(* Shutdown: the result is not looked at, the singleton lock is released. *)
StopExiting == /\ pc = "stop" /\ todo = {} /\ goal = "exit"
               /\ pc' = "down"
               /\ FreshMemory
               /\ UNCHANGED <<savedVars, child, manual, lockVars, buys, faults>>

---------------------------------------------------------------------------
(* Withdrawal of open BUYs *)

(* Mutant: cancellation does not wait for the authentication backoff. *)
CancelAlways == TRUE

(* Mutant: open BUYs are withdrawn only when the block is new. *)
CancelOnce == auth.retry = 0 /\ cool = Cooldown

CancelNow == auth.retry = 0

Withdrawn == IF fresh THEN buys \ seen ELSE {}

Cancel == /\ pc = "cancel"
          /\ nextCheck' = LargerOf(Interval, auth.retry)
          /\ pc' = "sleep"
          /\ seen' = {}
          /\ \/ ~CancelNow /\ UNCHANGED <<buys, faults>>
             \/ CancelNow /\ buys' = Withdrawn /\ UNCHANGED faults
             \/ CancelNow /\ Disturb /\ UNCHANGED buys
          /\ UNCHANGED <<stopVars, plan, blocked, fresh, failures, allowed,
                         backoffVars, savedVars, child, manual, lockVars>>

---------------------------------------------------------------------------
(* The plan of one symbol *)

NextSymbol(s) == /\ plan' = plan \ {s}
                 /\ pc' = IF plan = {s} THEN "sleep" ELSE "launch"

(* Observation only, or the plan raised before it reached run_child. *)
PlanOnly(s) == /\ pc = "launch" /\ s \in plan
               /\ IF s \in allowed THEN Disturb ELSE UNCHANGED faults
               /\ NextSymbol(s)
               /\ UNCHANGED <<stopVars, riskVars, allowed, backoffVars, savedVars,
                              child, manual, lockVars, buyVars>>

(* verify_active_champion_lifecycle fails. *)
Revoke(s) == /\ pc = "launch" /\ s \in plan /\ s \in allowed
             /\ Disturb
             /\ allowed' = allowed \ {s}
             /\ plan' = plan \ {s}
             /\ StopAll("revoke")
             /\ UNCHANGED <<riskVars, backoffVars, savedVars, child, manual,
                            lockVars, buyVars>>

Planning(s) == pc = "launch" /\ s \in plan /\ s \in allowed

(* run_child: a live worker keeps its plan. *)
KeepChild(s) == /\ Planning(s)
                /\ Running(s) \/ (child[s] = "none" /\ wait[s] > 0)
                /\ NextSymbol(s)
                /\ UNCHANGED <<stopVars, riskVars, allowed, backoffVars, savedVars,
                               child, manual, lockVars, buyVars, faults>>

Delay(s) == Exponential(fails[s] + 1, 10, MaxDelay)

(* A dead worker is reaped.  A failure that came too soon, or once too often *)
(* in the window, delays the restart; any other exit restarts it at once.   *)
Reap(s) == /\ Planning(s)
           /\ child[s] \in {"ok", "failed"}
           /\ \/ /\ child[s] = "failed"
                 /\ fails' = [fails EXCEPT ![s] = @ + 1]
                 /\ wait' = [wait EXCEPT ![s] = Delay(s)]
                 /\ child' = [child EXCEPT ![s] = "none"]
              \/ /\ fails' = [fails EXCEPT ![s] = 0]
                 /\ wait' = [wait EXCEPT ![s] = 0]
                 /\ child' = [child EXCEPT ![s] = "starting"]
           /\ NextSymbol(s)
           /\ UNCHANGED <<stopVars, riskVars, allowed, savedVars, manual, lockVars,
                          buyVars, faults>>

(* Mutant: a symbol with failures is not started again. *)
NeverFailed(s) == Planning(s) /\ child[s] = "none" /\ fails[s] = 0

Startable(s) == Planning(s) /\ child[s] = "none" /\ wait[s] = 0

Start(s) == /\ Startable(s)
            /\ child' = [child EXCEPT ![s] = "starting"]
            /\ NextSymbol(s)
            /\ UNCHANGED <<stopVars, riskVars, allowed, backoffVars, savedVars, manual,
                           lockVars, buyVars, faults>>

StartFails(s) == /\ Startable(s)
                 /\ Disturb
                 /\ fails' = [fails EXCEPT ![s] = @ + 1]
                 /\ wait' = [wait EXCEPT ![s] = Delay(s)]
                 /\ NextSymbol(s)
                 /\ UNCHANGED <<stopVars, riskVars, allowed, savedVars, child, manual,
                                lockVars, buyVars>>

---------------------------------------------------------------------------
(* The loop *)

ToLaunch == /\ pc = "top" /\ nextCheck > 0 /\ ~blocked
            /\ pc' = "launch" /\ plan' = Symbol
            /\ UNCHANGED <<stopVars, riskVars, allowed, backoffVars, savedVars, child,
                           manual, lockVars, buyVars, faults>>

ToSleep == /\ pc = "top" /\ nextCheck > 0 /\ blocked
           /\ pc' = "sleep"
           /\ UNCHANGED <<stopVars, plan, riskVars, allowed, backoffVars, savedVars,
                          child, manual, lockVars, buyVars, faults>>

Pass == /\ nextCheck' = Sooner(nextCheck)
        /\ wait' = [s \in Symbol |-> Sooner(wait[s])]
        /\ cool' = Sooner(cool)
        /\ auth' = [auth EXCEPT !.retry = Sooner(@)]

Sleep == /\ pc = "sleep" \/ (pc = "preflight" /\ auth.retry > 0)
         /\ pc' = IF pc = "sleep" THEN "top" ELSE pc
         /\ Pass
         /\ UNCHANGED <<stopVars, plan, blocked, fresh, failures, allowed, fails, halt,
                        child, manual, lockVars, buyVars, faults>>

(* The pass took less than a tick; such passes are bounded like the faults. *)
ShortSleep == /\ pc = "sleep"
              /\ Disturb
              /\ pc' = "top"
              /\ UNCHANGED <<stopVars, plan, riskVars, allowed, backoffVars, savedVars,
                             child, manual, lockVars, buyVars>>

(* The operator disables AI: workers may carry its parameters. *)
DisableAi == /\ pc = "top"
             /\ Disturb
             /\ StopAll("disable")
             /\ UNCHANGED <<plan, riskVars, allowed, backoffVars, savedVars, child,
                            manual, lockVars, buyVars>>

InLoop == pc \in {"top", "decide", "stop", "cancel", "launch", "sleep"}

(* The first SIGTERM raises KeyboardInterrupt; later ones are ignored. *)
Shutdown == /\ InLoop /\ goal # "exit"
            /\ Disturb
            /\ StopAll("exit") /\ plan' = {} /\ seen' = {}
            /\ UNCHANGED <<riskVars, allowed, backoffVars, savedVars, child,
                           manual, lockVars, buys>>

(* It arrives after Popen and before the process is registered. *)
ShutdownInStart(s) == /\ Startable(s)
                      /\ Disturb
                      /\ child' = [child EXCEPT ![s] = "starting"]
                      /\ StopAll("exit") /\ plan' = {}
                      /\ UNCHANGED <<riskVars, allowed, backoffVars, savedVars,
                                     manual, lockVars, buyVars>>

(* The supervisor is killed, or raises before its signal handler exists. *)
Crash == /\ pc # "down"
         /\ Disturb
         /\ pc' = "down"
         /\ FreshMemory
         /\ UNCHANGED <<savedVars, child, manual, lockVars, buys>>

---------------------------------------------------------------------------
(* Workers *)

(* A duplicate leaves with code 0; under HALT the start is refused. *)
Admit(s) == /\ child[s] = "starting"
            /\ IF own[s] # "none" THEN /\ child' = [child EXCEPT ![s] = "ok"]
                                       /\ UNCHANGED own
               ELSE IF halt THEN /\ child' = [child EXCEPT ![s] = "failed"]
                                 /\ UNCHANGED own
               ELSE /\ child' = [child EXCEPT ![s] = "live"]
                    /\ own' = [own EXCEPT ![s] = "child"]
            /\ UNCHANGED <<pc, stopVars, plan, riskVars, allowed, backoffVars,
                           savedVars, manual, lost, buyVars, faults>>

(* A BUY is placed; the slot under way when SIGTERM arrives is finished. *)
PlaceBuy(s) == /\ child[s] \in {"live", "stopping"} /\ Holds("child", s)
               /\ s \notin buys
               /\ buys' = buys \cup {s}
               /\ UNCHANGED <<pc, stopVars, plan, riskVars, allowed, backoffVars,
                              savedVars, child, manual, lockVars, seen, faults>>

BuyEnds(s) == /\ s \in buys
              /\ buys' = buys \ {s}
              /\ UNCHANGED <<pc, stopVars, plan, riskVars, allowed, backoffVars,
                             savedVars, child, manual, lockVars, seen, faults>>

ReportHalt(s) == /\ child[s] = "live" /\ ~halt
                 /\ Disturb
                 /\ halt' = TRUE
                 /\ cool' = Cooldown
                 /\ UNCHANGED <<pc, stopVars, plan, riskVars, allowed, backoffVars, auth,
                                child, manual, lockVars, buyVars>>

CloseLock(s) == /\ child[s] \in {"live", "stopping"}
                /\ child' = [child EXCEPT ![s] = "closing"]
                /\ Unlock("child", s)
                /\ UNCHANGED <<pc, stopVars, plan, riskVars, allowed, backoffVars,
                               savedVars, manual, buyVars, faults>>

Leave(s) == /\ child[s] = "closing"
            /\ child' = [child EXCEPT ![s] = "ok"]
            /\ Unlink(s)
            /\ UNCHANGED <<pc, stopVars, plan, riskVars, allowed, backoffVars,
                           savedVars, manual, buyVars, faults>>

Die(s) == /\ Running(s)
          /\ Disturb
          /\ child' = [child EXCEPT ![s] = "failed"]
          /\ Unlock("child", s)
          /\ UNCHANGED <<pc, stopVars, plan, riskVars, allowed, backoffVars,
                         savedVars, manual, buyVars>>

(* systemd ends what is left of the process group. *)
GroupKill(s) == /\ pc = "down" /\ child[s] # "none"
                /\ child' = [child EXCEPT ![s] = "none"]
                /\ Unlock("child", s)
                /\ UNCHANGED <<pc, stopVars, plan, riskVars, allowed, backoffVars,
                               savedVars, manual, buyVars, faults>>

---------------------------------------------------------------------------
(* Operator *)

ResetHalt == /\ halt
             /\ halt' = FALSE /\ cool' = 0
             /\ UNCHANGED <<pc, stopVars, plan, riskVars, allowed, backoffVars, auth,
                            child, manual, lockVars, buyVars, faults>>

ManualStart(s) == /\ s \in ManualSymbol /\ manual[s] = "none"
                  /\ own[s] = "none" /\ ~halt
                  /\ Disturb
                  /\ manual' = [manual EXCEPT ![s] = "live"]
                  /\ own' = [own EXCEPT ![s] = "manual"]
                  /\ UNCHANGED <<pc, stopVars, plan, riskVars, allowed, backoffVars,
                                 savedVars, child, lost, buyVars>>

ManualClose(s) == /\ manual[s] = "live"
                  /\ manual' = [manual EXCEPT ![s] = "closing"]
                  /\ Unlock("manual", s)
                  /\ UNCHANGED <<pc, stopVars, plan, riskVars, allowed, backoffVars,
                                 savedVars, child, buyVars, faults>>

ManualLeave(s) == /\ manual[s] = "closing"
                  /\ manual' = [manual EXCEPT ![s] = "none"]
                  /\ Unlink(s)
                  /\ UNCHANGED <<pc, stopVars, plan, riskVars, allowed, backoffVars,
                                 savedVars, child, buyVars, faults>>

---------------------------------------------------------------------------
StopStep == \/ \E s \in Symbol : Terminate(s) \/ Kill(s) \/ Confirm(s)
            \/ StopBlocked \/ StopRevoked \/ StopDisabled \/ StopExiting

(* The steps the supervisor's own code takes when nothing disturbs it. *)
Progress == \/ Preflight \/ Gate \/ Snapshot \/ Decide("none")
            \/ StopStep \/ Cancel
            \/ \E s \in Symbol : \/ KeepChild(s) \/ Reap(s) \/ Start(s)
                                 \/ s \notin allowed /\ PlanOnly(s)
            \/ ToLaunch \/ ToSleep \/ Sleep

Disturbance == \/ PreflightRejected \/ GateFails
               \/ \E event \in {"limit", "shock", "loss"} : Decide(event)
               \/ \E rejected \in BOOLEAN : OperationFails(rejected)
               \/ ConfigurationBlocks
               \/ \E s \in Symbol : \/ StopUnconfirmed(s) \/ StartFails(s)
                                    \/ Revoke(s) \/ ShutdownInStart(s)
                                    \/ s \in allowed /\ PlanOnly(s)
               \/ ShortSleep \/ DisableAi \/ Shutdown \/ Crash

WorkerStep(s) == \/ Admit(s) \/ PlaceBuy(s) \/ BuyEnds(s) \/ ReportHalt(s)
                 \/ CloseLock(s) \/ Leave(s) \/ Die(s) \/ GroupKill(s)

OperatorStep == \/ Boot \/ ResetHalt
                \/ \E s \in Symbol : ManualStart(s) \/ ManualClose(s) \/ ManualLeave(s)

Next == \/ Progress \/ Disturbance
        \/ \E s \in Symbol : WorkerStep(s)
        \/ OperatorStep

Spec == Init /\ [][Next]_vars

(* The supervisor keeps running, a worker's start takes its course, a worker *)
(* that was told to stop ends some time, and systemd clears the group.      *)
FairSpec == /\ Spec
            /\ WF_vars(Progress)
            /\ \A s \in Symbol : /\ WF_vars(Admit(s)) /\ WF_vars(Leave(s))
                                 /\ WF_vars(child[s] = "stopping" /\ CloseLock(s))
                                 /\ WF_vars(GroupKill(s))

---------------------------------------------------------------------------
(* Properties *)

ProcessState == {"none", "ok", "failed"} \cup Alive

(* Processes, locks and timers stay in range; a lock file has one holder. *)
TypeOK == /\ pc \in {"down", "preflight", "gate", "top", "decide", "stop", "cancel",
                     "launch", "sleep"}
          /\ goal \in {"none", "block", "revoke", "disable", "exit"}
          /\ todo \subseteq Symbol /\ plan \subseteq Symbol /\ allowed \subseteq Champion
          /\ stopped \in BOOLEAN /\ blocked \in BOOLEAN /\ fresh \in BOOLEAN
          /\ failures \in 0..Threshold
          /\ nextCheck \in 0..LargerOf(Interval, MaxBackoff)
          /\ wait \in [Symbol -> 0..MaxDelay] /\ fails \in [Symbol -> Nat]
          /\ halt \in BOOLEAN /\ cool \in 0..Cooldown
          /\ auth \in [attempt : Nat, retry : 0..MaxBackoff]
          /\ child \in [Symbol -> ProcessState]
          /\ manual \in [Symbol -> {"none", "live", "closing"}]
          /\ own \in [Symbol -> {"none", "child", "manual"}]
          /\ lost \in [Symbol -> SUBSET {"child", "manual"}]
          /\ buys \subseteq Symbol /\ seen \subseteq Symbol
          /\ faults \in 0..MaxFaults

(* While the loop waits in a risk block no worker process exists: a block   *)
(* is only settled by confirmed exits, and nothing starts a worker until a  *)
(* later check lifts it.                                                    *)
BlockedIsQuiet == blocked /\ pc \in {"cancel", "sleep"} => Registered = {}

(* Execution is open only after an authenticated snapshot of this process,  *)
(* with no failed check and no rejected login since.                        *)
OpenIsVerified == ~blocked /\ pc # "decide" => fresh /\ auth.attempt = 0

(* No signed request leaves while a rejected login is backed off, before or *)
(* after a restart.                                                         *)
BackoffIsSilent ==
    [][/\ (pc \in {"preflight", "top"} /\ pc' \in {"gate", "decide"}
           => auth.retry = 0)
       /\ (pc = "cancel" /\ pc' = "sleep" /\ buys' # buys => auth.retry = 0)]_vars

(* HALT ends every worker, whoever tripped it. *)
HaltStopsWorkers == halt ~> (~halt \/ \A s \in Symbol : ~Running(s))

(* A block does not feed itself: when nothing else goes wrong it is lifted. *)
BlockIsLifted == (blocked /\ InLoop) ~> (~blocked \/ halt \/ ~InLoop)

(* BUYs that were open, or were placed while the workers were being         *)
(* stopped, are withdrawn while the block lasts.                            *)
BuysAreWithdrawn == (blocked /\ pc = "sleep") ~> (buys = {} \/ ~blocked \/ ~InLoop)

(* A worker that died comes back: backoff delays it and never loses it. *)
WorkerReturns ==
    \A s \in Symbol :
        (InLoop /\ ~blocked /\ s \in allowed /\ manual[s] = "none")
            ~> \/ child[s] = "live" \/ blocked \/ s \notin allowed \/ halt
               \/ ~InLoop \/ manual[s] # "none"

(* Two workers never hold the lock of one symbol. *)
OneWorkerPerSymbol == \A s \in Symbol : ~(Holds("child", s) /\ Holds("manual", s))
====================================================================================
