----------------------------- MODULE SupervisorProofs ------------------------------
(***************************************************************************)
(* For any set of symbols, any thresholds and any number of faults: the     *)
(* supervisor's state stays in range, a settled block leaves no worker,     *)
(* execution is open only on a verified snapshot, and no signed request     *)
(* leaves while a rejected login is backed off.                             *)
(***************************************************************************)
EXTENDS Supervisor, TLAPS

(* A stop whose confirmations all came leaves workers only where it has     *)
(* still to go.  (SIGTERM may come between a start and its registration.)   *)
StopIsThorough ==
    pc = "stop" /\ stopped /\ goal # "exit"
        => \A s \in Symbol \ todo : child[s] = "none"

(* Before the loop, and in a loop that is blocked, there is no worker. *)
QuietInv ==
    pc \in {"preflight", "gate"} \/ (blocked /\ pc \in {"top", "decide", "cancel", "sleep"})
        => \A s \in Symbol : child[s] = "none"

(* The flags the loop acts on belong to its position. *)
VerifiedInv ==
    /\ pc \in {"down", "preflight", "gate"} => blocked
    /\ pc = "launch" \/ (pc = "stop" /\ goal = "revoke") => ~blocked
    /\ ~blocked \/ pc = "decide" => fresh /\ auth.attempt = 0

(* The next check is not due before the saved retry time. *)
SilentInv ==
    /\ auth.attempt = 0 => auth.retry = 0
    /\ pc = "gate" => auth.retry = 0
    /\ pc \in {"top", "sleep"} \/ (pc = "stop" /\ goal = "disable")
        => auth.retry <= nextCheck

SupervisorInv == TypeOK /\ StopIsThorough /\ QuietInv /\ VerifiedInv /\ SilentInv

---------------------------------------------------------------------------
(* Arithmetic *)

(* A backoff is at least one tick and at most its bound. *)
LEMMA ExponentialRange ==
    ASSUME NEW n \in Nat \ {0}, NEW top \in Nat, NEW max \in Nat \ {0}
    PROVE  Exponential(n, top, max) \in 1..max
<1>1. SmallerOf(n - 1, top) \in Nat
  BY DEF SmallerOf
<1>2. 2 ^ SmallerOf(n - 1, top) \in Int
  BY <1>1
<1>. QED BY <1>2 DEF Exponential, SmallerOf, LargerOf

(* A rejected login counts, and sets a retry time. *)
LEMMA RejectedRange ==
    ASSUME TypeOK
    PROVE  /\ Rejected \in [attempt : Nat, retry : 0..MaxBackoff]
           /\ Rejected.attempt # 0
<1>. DEFINE attempt == SmallerOf(1000, auth.attempt + 1)
<1>1. attempt \in Nat \ {0}
  BY DEF TypeOK, SmallerOf
<1>2. Exponential(attempt, 16, MaxBackoff) \in 1..MaxBackoff
  <2>. HIDE DEF attempt
  <2>. QED BY <1>1, ExponentialRange, SupervisorAssumption DEF SupervisorAssumption
<1>. QED BY <1>1, <1>2 DEF Rejected

(* A failed worker is delayed within the bound. *)
LEMMA DelayRange ==
    ASSUME TypeOK, NEW s \in Symbol
    PROVE  Delay(s) \in 0..MaxDelay
<1>1. fails[s] + 1 \in Nat \ {0}
  BY DEF TypeOK
<1>2. Exponential(fails[s] + 1, 10, MaxDelay) \in 1..MaxDelay
  BY <1>1, ExponentialRange, SupervisorAssumption DEF SupervisorAssumption
<1>. QED BY <1>2 DEF Delay

---------------------------------------------------------------------------
(* Types *)

(* The memory of a new process is in range. *)
LEMMA FreshTypes ==
    ASSUME FreshMemory
    PROVE  /\ goal' \in {"none", "block", "revoke", "disable", "exit"}
           /\ todo' \subseteq Symbol /\ plan' \subseteq Symbol /\ seen' \subseteq Symbol
           /\ allowed' \subseteq Champion
           /\ stopped' \in BOOLEAN /\ blocked' \in BOOLEAN /\ fresh' \in BOOLEAN
           /\ failures' \in 0..Threshold
           /\ nextCheck' \in 0..LargerOf(Interval, MaxBackoff)
           /\ wait' \in [Symbol -> 0..MaxDelay] /\ fails' \in [Symbol -> Nat]
<1>1. stopped' \in BOOLEAN /\ blocked' \in BOOLEAN /\ fresh' \in BOOLEAN
  BY DEF FreshMemory
<1>. QED BY <1>1, SupervisorAssumption
  DEF FreshMemory, SupervisorAssumption, LargerOf, Interval

(* A settled decision is in range. *)
LEMMA SettleTypes ==
    ASSUME TypeOK, NEW b \in BOOLEAN, NEW halted, NEW config, NEW c \in 0..Cooldown,
           Settle(b, halted, config, c)
    PROVE  /\ pc' \in {"stop", "launch"}
           /\ goal' \in {"none", "block", "revoke", "disable", "exit"}
           /\ todo' \subseteq Symbol /\ plan' \subseteq Symbol /\ seen' \subseteq Symbol
           /\ stopped' \in BOOLEAN /\ blocked' \in BOOLEAN
           /\ nextCheck' \in 0..LargerOf(Interval, MaxBackoff)
           /\ cool' \in 0..Cooldown
<1>1. blocked' \in BOOLEAN
  BY DEF Settle
<1>2. stopped' \in BOOLEAN
  BY DEF Settle, StopAll, stopVars, TypeOK
<1>3. cool' \in 0..Cooldown
  BY SupervisorAssumption DEF Settle, SupervisorAssumption
<1>4. CASE b
  BY <1>1, <1>2, <1>3, <1>4 DEF Settle, StopAll, Registered, TypeOK
<1>5. CASE ~b
  BY <1>1, <1>2, <1>3, <1>5, SupervisorAssumption
  DEF Settle, stopVars, TypeOK, LargerOf, Interval, SupervisorAssumption
<1>. QED BY <1>4, <1>5

(* The actions of a start. *)
LEMMA TypeStartup ==
    ASSUME TypeOK,
           Boot \/ PreflightRejected \/ Preflight \/ Gate \/ GateFails
    PROVE  TypeOK'
<1>1. CASE Boot
  BY <1>1
  DEF TypeOK, Boot, backoffVars, buyVars, lockVars, riskVars, savedVars, stopVars
<1>2. CASE PreflightRejected
  BY RejectedRange, SupervisorAssumption, <1>2
  DEF TypeOK, PreflightRejected, Disturb, SupervisorAssumption, backoffVars,
      buyVars, lockVars, riskVars, stopVars
<1>3. CASE Preflight
  BY <1>3
  DEF TypeOK, Preflight, NoRejection, backoffVars, buyVars, lockVars, riskVars,
      stopVars
<1>4. CASE Gate
  BY <1>4
  DEF TypeOK, Gate, backoffVars, buyVars, lockVars, riskVars, savedVars, stopVars
<1>5. CASE GateFails
  <2>1. halt' \in BOOLEAN
    BY <1>5 DEF GateFails, TypeOK
  <2>2. faults' \in 0..MaxFaults
    BY SupervisorAssumption, <1>5 DEF GateFails, Disturb, TypeOK, SupervisorAssumption
  <2>. QED BY <1>5, <2>1, <2>2
    DEF TypeOK, GateFails, backoffVars, buyVars, lockVars, riskVars, stopVars
<1>. QED BY <1>1, <1>2, <1>3, <1>4, <1>5

(* The risk check. *)
LEMMA TypeRiskCheck ==
    ASSUME TypeOK,
           \/ Snapshot \/ ConfigurationBlocks
           \/ \E event \in {"none", "limit", "shock", "loss"} : Decide(event)
           \/ \E rejected \in BOOLEAN : OperationFails(rejected)
    PROVE  TypeOK'
<1>1. CASE Snapshot
  <2>1. fresh' \in BOOLEAN
    BY <1>1 DEF Snapshot
  <2>. QED BY <1>1, <2>1, SupervisorAssumption
    DEF TypeOK, Snapshot, NoRejection, SupervisorAssumption, backoffVars, lockVars, stopVars
<1>2. CASE ConfigurationBlocks
  <2>1. fresh' \in BOOLEAN /\ Settle(TRUE, FALSE, TRUE, cool)
    BY <1>2 DEF ConfigurationBlocks
  <2>2. cool \in 0..Cooldown
    BY DEF TypeOK
  <2>3. faults' \in 0..MaxFaults
    BY <1>2, SupervisorAssumption
    DEF ConfigurationBlocks, Disturb, TypeOK, SupervisorAssumption
  <2>. QED BY <1>2, <2>1, <2>2, <2>3, SettleTypes
    DEF TypeOK, ConfigurationBlocks, backoffVars, lockVars
<1>3. ASSUME NEW event, Decide(event)
      PROVE  TypeOK'
  <2>. DEFINE h == halt \/ event = "loss"
              c == IF event \in {"shock", "loss"} THEN Cooldown ELSE cool
              b == BuyBlocked(h, c, event = "limit")
  <2>1. Settle(b, h, FALSE, c)
    BY <1>3 DEF Decide
  <2>2. b \in BOOLEAN /\ halt' \in BOOLEAN
    BY <1>3 DEF BuyBlocked, Decide
  <2>3. c \in 0..Cooldown
    BY SupervisorAssumption DEF TypeOK, SupervisorAssumption
  <2>4. faults' \in 0..MaxFaults
    BY <1>3, SupervisorAssumption DEF Decide, Disturb, TypeOK, SupervisorAssumption
  <2>5. UNCHANGED <<fresh, failures, allowed, backoffVars, auth, child, manual, lockVars,
                    buys>>
    BY <1>3 DEF Decide
  <2>. HIDE DEF h, c, b
  <2>. QED BY <2>1, <2>2, <2>3, <2>4, <2>5, SettleTypes
    DEF TypeOK, backoffVars, lockVars
<1>4. ASSUME NEW rejected, OperationFails(rejected)
      PROVE  TypeOK'
  <2>. DEFINE c == IF failures + 1 >= Threshold THEN Cooldown ELSE cool
  <2>1. Settle(TRUE, FALSE, FALSE, c)
    BY <1>4 DEF OperationFails, FailureBlocks
  <2>2. fresh' \in BOOLEAN
    BY <1>4 DEF OperationFails
  <2>3. c \in 0..Cooldown
    BY SupervisorAssumption DEF TypeOK, SupervisorAssumption
  <2>4. faults' \in 0..MaxFaults
    BY <1>4, SupervisorAssumption DEF OperationFails, Disturb, TypeOK, SupervisorAssumption
  <2>5. failures' \in 0..Threshold
    BY <1>4, SupervisorAssumption
    DEF OperationFails, SmallerOf, TypeOK, SupervisorAssumption
  <2>6. auth' \in [attempt : Nat, retry : 0..MaxBackoff]
    BY <1>4, RejectedRange DEF OperationFails, TypeOK
  <2>7. UNCHANGED <<allowed, backoffVars, halt, child, manual, lockVars, buys>>
    BY <1>4 DEF OperationFails
  <2>. HIDE DEF c
  <2>. QED BY <2>1, <2>2, <2>3, <2>4, <2>5, <2>6, <2>7, SettleTypes
    DEF TypeOK, backoffVars, lockVars
<1>. QED BY <1>1, <1>2, <1>3, <1>4

(* The stop of the workers, and the withdrawal. *)
LEMMA TypeStop ==
    ASSUME TypeOK,
           \/ StopBlocked \/ StopRevoked \/ StopDisabled \/ StopExiting
           \/ Cancel
    PROVE  TypeOK'
<1>1. CASE StopBlocked
  BY <1>1
  DEF TypeOK, ProcessState, Alive, StopBlocked, BlockConfirmed, NoStop, StopAll,
      Registered, backoffVars, buyVars, lockVars, riskVars
<1>2. CASE StopRevoked
  BY <1>2
  DEF TypeOK, ProcessState, Alive, StopRevoked, NoStop, backoffVars, buyVars,
      lockVars, riskVars, savedVars
<1>3. CASE StopDisabled
  BY <1>3
  DEF TypeOK, ProcessState, Alive, StopDisabled, NoStop, StopAll, Registered,
      backoffVars, buyVars, lockVars, riskVars, savedVars
<1>4. CASE StopExiting
  BY FreshTypes, SupervisorAssumption, <1>4
  DEF TypeOK, ProcessState, Alive, StopExiting, SupervisorAssumption, lockVars,
      savedVars
<1>5. CASE Cancel
  BY SupervisorAssumption, <1>5
  DEF TypeOK, ProcessState, Alive, Cancel, CancelNow, Withdrawn, Disturb, LargerOf,
      Interval, SupervisorAssumption, backoffVars, lockVars, savedVars, stopVars
<1>. QED BY <1>1, <1>2, <1>3, <1>4, <1>5

(* The stop of one worker. *)
LEMMA TypeStopOne ==
    ASSUME TypeOK,
           NEW s \in Symbol,
           Terminate(s) \/ Kill(s) \/ Confirm(s) \/ StopUnconfirmed(s)
    PROVE  TypeOK'
<1>1. CASE Terminate(s)
  BY <1>1
  DEF TypeOK, ProcessState, Alive, Terminate, backoffVars, buyVars, lockVars,
      riskVars, savedVars, stopVars
<1>2. CASE Kill(s)
  BY <1>2
  DEF TypeOK, ProcessState, Alive, Kill, Unlock, backoffVars, buyVars, riskVars,
      savedVars, stopVars
<1>3. CASE Confirm(s)
  BY SupervisorAssumption, <1>3
  DEF TypeOK, ProcessState, Alive, Confirm, SupervisorAssumption, buyVars,
      lockVars, riskVars, savedVars
<1>4. CASE StopUnconfirmed(s)
  <2>1. stopped' \in BOOLEAN
    BY <1>4 DEF StopUnconfirmed, TypeOK
  <2>2. faults' \in 0..MaxFaults
    BY SupervisorAssumption, <1>4 DEF StopUnconfirmed, Disturb, TypeOK, SupervisorAssumption
  <2>. QED BY <1>4, <2>1, <2>2
    DEF TypeOK, ProcessState, Alive, StopUnconfirmed, Running, backoffVars,
        buyVars, lockVars, riskVars, savedVars
<1>. QED BY <1>1, <1>2, <1>3, <1>4

(* The plan of one symbol. *)
LEMMA TypePlan ==
    ASSUME TypeOK,
           NEW s \in Symbol,
           \/ PlanOnly(s) \/ Revoke(s) \/ KeepChild(s) \/ Reap(s)
           \/ Start(s) \/ StartFails(s) \/ ShutdownInStart(s)
    PROVE  TypeOK'
<1>1. CASE PlanOnly(s)
  BY SupervisorAssumption, <1>1
  DEF TypeOK, ProcessState, Alive, PlanOnly, NextSymbol, Disturb,
      SupervisorAssumption, backoffVars, buyVars, lockVars, riskVars, savedVars,
      stopVars
<1>2. CASE Revoke(s)
  BY SupervisorAssumption, <1>2
  DEF TypeOK, ProcessState, Alive, Revoke, Disturb, StopAll, Registered,
      SupervisorAssumption, backoffVars, buyVars, lockVars, riskVars, savedVars
<1>3. CASE KeepChild(s)
  BY <1>3
  DEF TypeOK, ProcessState, Alive, KeepChild, Planning, NextSymbol, Running,
      backoffVars, buyVars, lockVars, riskVars, savedVars, stopVars
<1>4. CASE Reap(s)
  BY DelayRange, SupervisorAssumption, <1>4
  DEF TypeOK, ProcessState, Alive, Reap, Planning, NextSymbol,
      SupervisorAssumption, buyVars, lockVars, riskVars, savedVars, stopVars
<1>5. CASE Start(s)
  BY <1>5
  DEF TypeOK, ProcessState, Alive, Start, Startable, Planning, NextSymbol,
      backoffVars, buyVars, lockVars, riskVars, savedVars, stopVars
<1>6. CASE StartFails(s)
  BY DelayRange, SupervisorAssumption, <1>6
  DEF TypeOK, ProcessState, Alive, StartFails, Startable, Planning, Disturb,
      NextSymbol, SupervisorAssumption, buyVars, lockVars, riskVars, savedVars,
      stopVars
<1>7. CASE ShutdownInStart(s)
  BY SupervisorAssumption, <1>7
  DEF TypeOK, ProcessState, Alive, ShutdownInStart, Startable, Planning, Disturb,
      StopAll, Registered, SupervisorAssumption, backoffVars, buyVars, lockVars,
      riskVars, savedVars
<1>. QED BY <1>1, <1>2, <1>3, <1>4, <1>5, <1>6, <1>7

(* The rest of the loop. *)
LEMMA TypeLoop ==
    ASSUME TypeOK,
           \/ ToLaunch \/ ToSleep \/ Sleep \/ ShortSleep \/ DisableAi
           \/ Shutdown \/ Crash \/ ResetHalt
    PROVE  TypeOK'
<1>1. CASE ToLaunch
  BY <1>1
  DEF TypeOK, ProcessState, Alive, ToLaunch, backoffVars, buyVars, lockVars,
      riskVars, savedVars, stopVars
<1>2. CASE ToSleep
  BY <1>2
  DEF TypeOK, ProcessState, Alive, ToSleep, backoffVars, buyVars, lockVars,
      riskVars, savedVars, stopVars
<1>3. CASE Sleep
  BY SupervisorAssumption, <1>3
  DEF TypeOK, ProcessState, Alive, Sleep, Pass, Sooner, SupervisorAssumption,
      LargerOf, Interval, buyVars, lockVars, stopVars
<1>4. CASE ShortSleep
  BY SupervisorAssumption, <1>4
  DEF TypeOK, ProcessState, Alive, ShortSleep, Disturb, SupervisorAssumption,
      backoffVars, buyVars, lockVars, riskVars, savedVars, stopVars
<1>5. CASE DisableAi
  BY SupervisorAssumption, <1>5
  DEF TypeOK, ProcessState, Alive, DisableAi, Disturb, StopAll, Registered,
      SupervisorAssumption, backoffVars, buyVars, lockVars, riskVars, savedVars
<1>6. CASE Shutdown
  BY SupervisorAssumption, <1>6
  DEF TypeOK, ProcessState, Alive, Shutdown, InLoop, Disturb, StopAll, Registered,
      SupervisorAssumption, backoffVars, lockVars, riskVars, savedVars
<1>7. CASE Crash
  BY FreshTypes, SupervisorAssumption, <1>7
  DEF TypeOK, ProcessState, Alive, Crash, Disturb, SupervisorAssumption, lockVars,
      savedVars
<1>8. CASE ResetHalt
  <2>1. halt' \in BOOLEAN
    BY <1>8 DEF ResetHalt
  <2>2. cool' \in 0..Cooldown
    BY SupervisorAssumption, <1>8 DEF ResetHalt, SupervisorAssumption
  <2>. QED BY <1>8, <2>1, <2>2
    DEF TypeOK, ProcessState, Alive, ResetHalt, backoffVars, buyVars, lockVars,
        riskVars, stopVars
<1>. QED BY <1>1, <1>2, <1>3, <1>4, <1>5, <1>6, <1>7, <1>8

(* Workers, and what an operator started by hand. *)
LEMMA TypeProcess ==
    ASSUME TypeOK,
           NEW s \in Symbol,
           \/ Admit(s) \/ PlaceBuy(s) \/ BuyEnds(s) \/ ReportHalt(s)
           \/ CloseLock(s) \/ Leave(s) \/ Die(s) \/ GroupKill(s)
           \/ ManualStart(s) \/ ManualClose(s) \/ ManualLeave(s)
    PROVE  TypeOK'
<1>1. CASE Admit(s)
  BY <1>1
  DEF TypeOK, ProcessState, Alive, Admit, backoffVars, buyVars, riskVars,
      savedVars, stopVars
<1>2. CASE PlaceBuy(s)
  BY <1>2
  DEF TypeOK, ProcessState, Alive, PlaceBuy, backoffVars, lockVars, riskVars,
      savedVars, stopVars
<1>3. CASE BuyEnds(s)
  BY <1>3
  DEF TypeOK, ProcessState, Alive, BuyEnds, backoffVars, lockVars, riskVars,
      savedVars, stopVars
<1>4. CASE ReportHalt(s)
  BY SupervisorAssumption, <1>4
  DEF TypeOK, ProcessState, Alive, ReportHalt, Disturb, SupervisorAssumption,
      backoffVars, buyVars, lockVars, riskVars, stopVars
<1>5. CASE CloseLock(s)
  BY <1>5
  DEF TypeOK, ProcessState, Alive, CloseLock, Unlock, backoffVars, buyVars,
      riskVars, savedVars, stopVars
<1>6. CASE Leave(s)
  BY <1>6
  DEF TypeOK, ProcessState, Alive, Leave, Unlink, backoffVars, buyVars, riskVars,
      savedVars, stopVars
<1>7. CASE Die(s)
  BY SupervisorAssumption, <1>7
  DEF TypeOK, ProcessState, Alive, Die, Unlock, Running, Alive, Disturb,
      SupervisorAssumption, backoffVars, buyVars, riskVars, savedVars, stopVars
<1>8. CASE GroupKill(s)
  BY <1>8
  DEF TypeOK, ProcessState, Alive, GroupKill, Unlock, backoffVars, buyVars,
      riskVars, savedVars, stopVars
<1>9. CASE ManualStart(s)
  BY SupervisorAssumption, <1>9
  DEF TypeOK, ProcessState, Alive, ManualStart, Disturb, SupervisorAssumption,
      backoffVars, buyVars, riskVars, savedVars, stopVars
<1>10. CASE ManualClose(s)
  BY <1>10
  DEF TypeOK, ProcessState, Alive, ManualClose, Unlock, backoffVars, buyVars,
      riskVars, savedVars, stopVars
<1>11. CASE ManualLeave(s)
  BY <1>11
  DEF TypeOK, ProcessState, Alive, ManualLeave, Unlink, backoffVars, buyVars,
      riskVars, savedVars, stopVars
<1>. QED BY <1>1, <1>2, <1>3, <1>4, <1>5, <1>6, <1>7, <1>8, <1>9, <1>10, <1>11

---------------------------------------------------------------------------
(* The steps keep StopIsThorough and QuietInv *)

(* The actions of a start. *)
LEMMA QuietStartup ==
    ASSUME TypeOK, VerifiedInv, StopIsThorough, QuietInv,
           Boot \/ PreflightRejected \/ Preflight \/ Gate \/ GateFails
    PROVE  StopIsThorough' /\ QuietInv'
<1>1. CASE Boot
  BY <1>1
  DEF TypeOK, VerifiedInv, StopIsThorough, QuietInv, Boot, Registered, backoffVars,
      buyVars, lockVars, riskVars, savedVars, stopVars
<1>2. CASE PreflightRejected
  BY <1>2
  DEF TypeOK, VerifiedInv, StopIsThorough, QuietInv, PreflightRejected, Disturb,
      backoffVars, buyVars, lockVars, riskVars, stopVars
<1>3. CASE Preflight
  BY <1>3
  DEF TypeOK, VerifiedInv, StopIsThorough, QuietInv, Preflight, NoRejection,
      backoffVars, buyVars, lockVars, riskVars, stopVars
<1>4. CASE Gate
  BY <1>4
  DEF TypeOK, VerifiedInv, StopIsThorough, QuietInv, Gate, backoffVars, buyVars,
      lockVars, riskVars, savedVars, stopVars
<1>5. CASE GateFails
  BY <1>5
  DEF TypeOK, VerifiedInv, StopIsThorough, QuietInv, GateFails, Disturb,
      backoffVars, buyVars, lockVars, riskVars, stopVars
<1>. QED BY <1>1, <1>2, <1>3, <1>4, <1>5

(* The risk check. *)
LEMMA QuietRiskCheck ==
    ASSUME TypeOK, VerifiedInv, StopIsThorough, QuietInv,
           Snapshot \/ ConfigurationBlocks
    PROVE  StopIsThorough' /\ QuietInv'
<1>1. CASE Snapshot
  BY <1>1
  DEF TypeOK, VerifiedInv, StopIsThorough, QuietInv, Snapshot, CheckDue,
      NoRejection, backoffVars, lockVars, stopVars
<1>2. CASE ConfigurationBlocks
  BY <1>2
  DEF TypeOK, VerifiedInv, StopIsThorough, QuietInv, ConfigurationBlocks, CheckDue,
      Disturb, Settle, NewBlock, StopAll, Registered, backoffVars, lockVars,
      stopVars
<1>. QED BY <1>1, <1>2

(* A decision on the snapshot. *)
LEMMA QuietDecide ==
    ASSUME TypeOK, VerifiedInv, StopIsThorough, QuietInv, NEW event, Decide(event)
    PROVE  StopIsThorough' /\ QuietInv'
<1>. QED BY DEF TypeOK, VerifiedInv, StopIsThorough, QuietInv, Decide, Disturb, Settle,
      NewBlock, BuyBlocked, StopAll, Registered, Interval, backoffVars, lockVars,
      stopVars

(* A failed check. *)
LEMMA QuietFailure ==
    ASSUME TypeOK, VerifiedInv, StopIsThorough, QuietInv,
           NEW rejected, OperationFails(rejected)
    PROVE  StopIsThorough' /\ QuietInv'
<1>. QED BY DEF TypeOK, VerifiedInv, StopIsThorough, QuietInv, OperationFails, CheckDue,
      Disturb, Settle, NewBlock, FailureBlocks, StopAll, Registered, SmallerOf,
      backoffVars, lockVars, stopVars

(* The stop of the workers, and the withdrawal. *)
LEMMA QuietStop ==
    ASSUME TypeOK, VerifiedInv, StopIsThorough, QuietInv,
           \/ StopBlocked \/ StopRevoked \/ StopDisabled \/ StopExiting
           \/ Cancel
    PROVE  StopIsThorough' /\ QuietInv'
<1>1. CASE StopBlocked
  BY <1>1
  DEF TypeOK, VerifiedInv, StopIsThorough, QuietInv, StopBlocked, BlockConfirmed,
      NoStop, StopAll, Registered, backoffVars, buyVars, lockVars, riskVars
<1>2. CASE StopRevoked
  BY <1>2
  DEF TypeOK, VerifiedInv, StopIsThorough, QuietInv, StopRevoked, NoStop,
      backoffVars, buyVars, lockVars, riskVars, savedVars
<1>3. CASE StopDisabled
  BY <1>3
  DEF TypeOK, VerifiedInv, StopIsThorough, QuietInv, StopDisabled, NoStop, StopAll,
      Registered, backoffVars, buyVars, lockVars, riskVars, savedVars
<1>4. CASE StopExiting
  BY <1>4
  DEF TypeOK, VerifiedInv, StopIsThorough, QuietInv, StopExiting, FreshMemory,
      lockVars, savedVars
<1>5. CASE Cancel
  BY <1>5
  DEF TypeOK, VerifiedInv, StopIsThorough, QuietInv, Cancel, CancelNow, Withdrawn,
      Disturb, LargerOf, Interval, backoffVars, lockVars, savedVars, stopVars
<1>. QED BY <1>1, <1>2, <1>3, <1>4, <1>5

(* The stop of one worker. *)
LEMMA QuietStopOne ==
    ASSUME TypeOK, VerifiedInv, StopIsThorough, QuietInv,
           NEW s \in Symbol,
           Terminate(s) \/ Kill(s) \/ Confirm(s) \/ StopUnconfirmed(s)
    PROVE  StopIsThorough' /\ QuietInv'
<1>1. CASE Terminate(s)
  BY <1>1
  DEF TypeOK, VerifiedInv, StopIsThorough, QuietInv, Terminate, backoffVars,
      buyVars, lockVars, riskVars, savedVars, stopVars
<1>2. CASE Kill(s)
  BY <1>2
  DEF TypeOK, VerifiedInv, StopIsThorough, QuietInv, Kill, Unlock, backoffVars,
      buyVars, riskVars, savedVars, stopVars
<1>3. CASE Confirm(s)
  BY <1>3
  DEF TypeOK, VerifiedInv, StopIsThorough, QuietInv, Confirm, buyVars, lockVars,
      riskVars, savedVars
<1>4. CASE StopUnconfirmed(s)
  BY <1>4
  DEF TypeOK, VerifiedInv, StopIsThorough, QuietInv, StopUnconfirmed, Running,
      Disturb, backoffVars, buyVars, lockVars, riskVars, savedVars
<1>. QED BY <1>1, <1>2, <1>3, <1>4

(* The plan of one symbol. *)
LEMMA QuietPlan ==
    ASSUME TypeOK, VerifiedInv, StopIsThorough, QuietInv,
           NEW s \in Symbol,
           \/ PlanOnly(s) \/ Revoke(s) \/ KeepChild(s) \/ Reap(s)
           \/ Start(s) \/ StartFails(s) \/ ShutdownInStart(s)
    PROVE  StopIsThorough' /\ QuietInv'
<1>1. CASE PlanOnly(s)
  BY <1>1
  DEF TypeOK, VerifiedInv, StopIsThorough, QuietInv, PlanOnly, NextSymbol, Disturb,
      backoffVars, buyVars, lockVars, riskVars, savedVars, stopVars
<1>2. CASE Revoke(s)
  BY <1>2
  DEF TypeOK, VerifiedInv, StopIsThorough, QuietInv, Revoke, Disturb, StopAll,
      Registered, backoffVars, buyVars, lockVars, riskVars, savedVars
<1>3. CASE KeepChild(s)
  BY <1>3
  DEF TypeOK, VerifiedInv, StopIsThorough, QuietInv, KeepChild, Planning,
      NextSymbol, Running, backoffVars, buyVars, lockVars, riskVars, savedVars,
      stopVars
<1>4. CASE Reap(s)
  BY <1>4
  DEF TypeOK, VerifiedInv, StopIsThorough, QuietInv, Reap, Planning, NextSymbol,
      buyVars, lockVars, riskVars, savedVars, stopVars
<1>5. CASE Start(s)
  BY <1>5
  DEF TypeOK, VerifiedInv, StopIsThorough, QuietInv, Start, Startable, Planning,
      NextSymbol, backoffVars, buyVars, lockVars, riskVars, savedVars, stopVars
<1>6. CASE StartFails(s)
  BY <1>6
  DEF TypeOK, VerifiedInv, StopIsThorough, QuietInv, StartFails, Startable,
      Planning, Disturb, NextSymbol, buyVars, lockVars, riskVars, savedVars,
      stopVars
<1>7. CASE ShutdownInStart(s)
  BY <1>7
  DEF TypeOK, VerifiedInv, StopIsThorough, QuietInv, ShutdownInStart, Startable,
      Planning, Disturb, StopAll, Registered, backoffVars, buyVars, lockVars,
      riskVars, savedVars
<1>. QED BY <1>1, <1>2, <1>3, <1>4, <1>5, <1>6, <1>7

(* The rest of the loop. *)
LEMMA QuietLoop ==
    ASSUME TypeOK, VerifiedInv, StopIsThorough, QuietInv,
           \/ ToLaunch \/ ToSleep \/ Sleep \/ ShortSleep \/ DisableAi
           \/ Shutdown \/ Crash \/ ResetHalt
    PROVE  StopIsThorough' /\ QuietInv'
<1>1. CASE ToLaunch
  BY <1>1
  DEF TypeOK, VerifiedInv, StopIsThorough, QuietInv, ToLaunch, backoffVars,
      buyVars, lockVars, riskVars, savedVars, stopVars
<1>2. CASE ToSleep
  BY <1>2
  DEF TypeOK, VerifiedInv, StopIsThorough, QuietInv, ToSleep, backoffVars, buyVars,
      lockVars, riskVars, savedVars, stopVars
<1>3. CASE Sleep
  BY <1>3
  DEF TypeOK, VerifiedInv, StopIsThorough, QuietInv, Sleep, Pass, Sooner, buyVars,
      lockVars, stopVars
<1>4. CASE ShortSleep
  BY <1>4
  DEF TypeOK, VerifiedInv, StopIsThorough, QuietInv, ShortSleep, Disturb,
      backoffVars, buyVars, lockVars, riskVars, savedVars, stopVars
<1>5. CASE DisableAi
  BY <1>5
  DEF TypeOK, VerifiedInv, StopIsThorough, QuietInv, DisableAi, Disturb, StopAll,
      Registered, backoffVars, buyVars, lockVars, riskVars, savedVars
<1>6. CASE Shutdown
  BY <1>6
  DEF TypeOK, VerifiedInv, StopIsThorough, QuietInv, Shutdown, InLoop, Disturb,
      StopAll, Registered, backoffVars, lockVars, riskVars, savedVars
<1>7. CASE Crash
  BY <1>7
  DEF TypeOK, VerifiedInv, StopIsThorough, QuietInv, Crash, Disturb, FreshMemory,
      lockVars, savedVars
<1>8. CASE ResetHalt
  BY <1>8
  DEF TypeOK, VerifiedInv, StopIsThorough, QuietInv, ResetHalt, backoffVars,
      buyVars, lockVars, riskVars, stopVars
<1>. QED BY <1>1, <1>2, <1>3, <1>4, <1>5, <1>6, <1>7, <1>8

(* Workers, and what an operator started by hand. *)
LEMMA QuietProcess ==
    ASSUME TypeOK, VerifiedInv, StopIsThorough, QuietInv,
           NEW s \in Symbol,
           \/ Admit(s) \/ PlaceBuy(s) \/ BuyEnds(s) \/ ReportHalt(s)
           \/ CloseLock(s) \/ Leave(s) \/ Die(s) \/ GroupKill(s)
           \/ ManualStart(s) \/ ManualClose(s) \/ ManualLeave(s)
    PROVE  StopIsThorough' /\ QuietInv'
<1>1. CASE Admit(s)
  BY <1>1
  DEF TypeOK, VerifiedInv, StopIsThorough, QuietInv, Admit, backoffVars, buyVars,
      riskVars, savedVars, stopVars
<1>2. CASE PlaceBuy(s)
  BY <1>2
  DEF TypeOK, VerifiedInv, StopIsThorough, QuietInv, PlaceBuy, backoffVars,
      lockVars, riskVars, savedVars, stopVars
<1>3. CASE BuyEnds(s)
  BY <1>3
  DEF TypeOK, VerifiedInv, StopIsThorough, QuietInv, BuyEnds, backoffVars,
      lockVars, riskVars, savedVars, stopVars
<1>4. CASE ReportHalt(s)
  BY <1>4
  DEF TypeOK, VerifiedInv, StopIsThorough, QuietInv, ReportHalt, Disturb,
      backoffVars, buyVars, lockVars, riskVars, stopVars
<1>5. CASE CloseLock(s)
  BY <1>5
  DEF TypeOK, VerifiedInv, StopIsThorough, QuietInv, CloseLock, Unlock,
      backoffVars, buyVars, riskVars, savedVars, stopVars
<1>6. CASE Leave(s)
  BY <1>6
  DEF TypeOK, VerifiedInv, StopIsThorough, QuietInv, Leave, Unlink, backoffVars,
      buyVars, riskVars, savedVars, stopVars
<1>7. CASE Die(s)
  BY <1>7
  DEF TypeOK, VerifiedInv, StopIsThorough, QuietInv, Die, Unlock, Running, Alive,
      Disturb, backoffVars, buyVars, riskVars, savedVars, stopVars
<1>8. CASE GroupKill(s)
  BY <1>8
  DEF TypeOK, VerifiedInv, StopIsThorough, QuietInv, GroupKill, Unlock,
      backoffVars, buyVars, riskVars, savedVars, stopVars
<1>9. CASE ManualStart(s)
  BY <1>9
  DEF TypeOK, VerifiedInv, StopIsThorough, QuietInv, ManualStart, Disturb,
      backoffVars, buyVars, riskVars, savedVars, stopVars
<1>10. CASE ManualClose(s)
  BY <1>10
  DEF TypeOK, VerifiedInv, StopIsThorough, QuietInv, ManualClose, Unlock,
      backoffVars, buyVars, riskVars, savedVars, stopVars
<1>11. CASE ManualLeave(s)
  BY <1>11
  DEF TypeOK, VerifiedInv, StopIsThorough, QuietInv, ManualLeave, Unlink,
      backoffVars, buyVars, riskVars, savedVars, stopVars
<1>. QED BY <1>1, <1>2, <1>3, <1>4, <1>5, <1>6, <1>7, <1>8, <1>9, <1>10, <1>11

---------------------------------------------------------------------------
(* They keep VerifiedInv *)

(* The actions of a start. *)
LEMMA VerifiedStartup ==
    ASSUME TypeOK, VerifiedInv,
           Boot \/ PreflightRejected \/ Preflight \/ Gate \/ GateFails
    PROVE  VerifiedInv'
BY DEF TypeOK, VerifiedInv, Boot, Registered, backoffVars, buyVars, lockVars,
      riskVars, savedVars, stopVars, PreflightRejected, Disturb, Preflight,
      NoRejection, Gate, GateFails

(* The risk check. *)
LEMMA VerifiedRiskCheck ==
    ASSUME TypeOK, VerifiedInv,
           Snapshot \/ ConfigurationBlocks
    PROVE  VerifiedInv'
BY DEF TypeOK, VerifiedInv, Snapshot, CheckDue, NoRejection, backoffVars, lockVars,
      stopVars, ConfigurationBlocks, Disturb, Settle, NewBlock, StopAll, Registered

(* A decision on the snapshot. *)
LEMMA VerifiedDecide ==
    ASSUME TypeOK, VerifiedInv, NEW event, Decide(event)
    PROVE  VerifiedInv'
<1>. QED BY DEF TypeOK, VerifiedInv, Decide, Disturb, Settle, NewBlock, BuyBlocked, StopAll,
      Registered, Interval, backoffVars, lockVars, stopVars

(* A failed check. *)
LEMMA VerifiedFailure ==
    ASSUME TypeOK, VerifiedInv, NEW rejected, OperationFails(rejected)
    PROVE  VerifiedInv'
<1>. QED BY DEF TypeOK, VerifiedInv, OperationFails, CheckDue, Disturb, Settle, NewBlock,
      FailureBlocks, StopAll, Registered, SmallerOf, backoffVars, lockVars, stopVars

(* The stop of the workers, and the withdrawal. *)
LEMMA VerifiedStop ==
    ASSUME TypeOK, VerifiedInv,
           \/ StopBlocked \/ StopRevoked \/ StopDisabled \/ StopExiting
           \/ Cancel
    PROVE  VerifiedInv'
BY DEF TypeOK, VerifiedInv, StopBlocked, BlockConfirmed, NoStop, StopAll,
      Registered, backoffVars, buyVars, lockVars, riskVars, StopRevoked, savedVars,
      StopDisabled, StopExiting, FreshMemory, Cancel, CancelNow, Withdrawn,
      Disturb, LargerOf, Interval, stopVars

(* The stop of one worker. *)
LEMMA VerifiedStopOne ==
    ASSUME TypeOK, VerifiedInv,
           NEW s \in Symbol,
           Terminate(s) \/ Kill(s) \/ Confirm(s) \/ StopUnconfirmed(s)
    PROVE  VerifiedInv'
BY DEF TypeOK, VerifiedInv, Terminate, backoffVars, buyVars, lockVars, riskVars,
      savedVars, stopVars, Kill, Unlock, Confirm, StopUnconfirmed, Running, Disturb

(* The plan of one symbol. *)
LEMMA VerifiedPlan ==
    ASSUME TypeOK, VerifiedInv,
           NEW s \in Symbol,
           \/ PlanOnly(s) \/ Revoke(s) \/ KeepChild(s) \/ Reap(s)
           \/ Start(s) \/ StartFails(s) \/ ShutdownInStart(s)
    PROVE  VerifiedInv'
BY DEF TypeOK, VerifiedInv, PlanOnly, NextSymbol, Disturb, backoffVars, buyVars,
      lockVars, riskVars, savedVars, stopVars, Revoke, StopAll, Registered,
      KeepChild, Planning, Running, Reap, Start, Startable, StartFails,
      ShutdownInStart

(* The rest of the loop. *)
LEMMA VerifiedLoop ==
    ASSUME TypeOK, VerifiedInv,
           \/ ToLaunch \/ ToSleep \/ Sleep \/ ShortSleep \/ DisableAi
           \/ Shutdown \/ Crash \/ ResetHalt
    PROVE  VerifiedInv'
BY DEF TypeOK, VerifiedInv, ToLaunch, backoffVars, buyVars, lockVars, riskVars,
      savedVars, stopVars, ToSleep, Sleep, Pass, Sooner, ShortSleep, Disturb,
      DisableAi, StopAll, Registered, Shutdown, InLoop, Crash, FreshMemory,
      ResetHalt

(* Workers, and what an operator started by hand. *)
LEMMA VerifiedProcess ==
    ASSUME TypeOK, VerifiedInv,
           NEW s \in Symbol,
           \/ Admit(s) \/ PlaceBuy(s) \/ BuyEnds(s) \/ ReportHalt(s)
           \/ CloseLock(s) \/ Leave(s) \/ Die(s) \/ GroupKill(s)
           \/ ManualStart(s) \/ ManualClose(s) \/ ManualLeave(s)
    PROVE  VerifiedInv'
BY DEF TypeOK, VerifiedInv, Admit, backoffVars, buyVars, riskVars, savedVars,
      stopVars, PlaceBuy, lockVars, BuyEnds, ReportHalt, Disturb, CloseLock,
      Unlock, Leave, Unlink, Die, Running, Alive, GroupKill, ManualStart,
      ManualClose, ManualLeave

---------------------------------------------------------------------------
(* They keep SilentInv *)

(* The actions of a start. *)
LEMMA SilentStartup ==
    ASSUME TypeOK, TypeOK', VerifiedInv, SilentInv,
           Boot \/ PreflightRejected \/ Preflight \/ Gate \/ GateFails
    PROVE  SilentInv'
<1>1. CASE Boot
  BY <1>1
  DEF TypeOK, VerifiedInv, SilentInv, Boot, Registered, backoffVars, buyVars,
      lockVars, riskVars, savedVars, stopVars
<1>2. CASE PreflightRejected
  BY RejectedRange, <1>2
  DEF TypeOK, VerifiedInv, SilentInv, PreflightRejected, Disturb, backoffVars,
      buyVars, lockVars, riskVars, stopVars
<1>3. CASE Preflight
  BY <1>3
  DEF TypeOK, VerifiedInv, SilentInv, Preflight, NoRejection, backoffVars, buyVars,
      lockVars, riskVars, stopVars
<1>4. CASE Gate
  BY <1>4
  DEF TypeOK, VerifiedInv, SilentInv, Gate, backoffVars, buyVars, lockVars,
      riskVars, savedVars, stopVars
<1>5. CASE GateFails
  BY <1>5
  DEF TypeOK, VerifiedInv, SilentInv, GateFails, Disturb, backoffVars, buyVars,
      lockVars, riskVars, stopVars
<1>. QED BY <1>1, <1>2, <1>3, <1>4, <1>5

(* The risk check. *)
LEMMA SilentRiskCheck ==
    ASSUME TypeOK, TypeOK', VerifiedInv, SilentInv,
           Snapshot \/ ConfigurationBlocks
    PROVE  SilentInv'
BY DEF TypeOK, VerifiedInv, SilentInv, Snapshot, CheckDue, NoRejection, backoffVars,
      lockVars, stopVars, ConfigurationBlocks, Disturb, Settle, NewBlock, StopAll,
      Registered

(* A decision on the snapshot. *)
LEMMA SilentDecide ==
    ASSUME TypeOK, TypeOK', VerifiedInv, SilentInv, NEW event, Decide(event)
    PROVE  SilentInv'
<1>. QED BY DEF TypeOK, VerifiedInv, SilentInv, Decide, Disturb, Settle, NewBlock,
      BuyBlocked, StopAll, Registered, Interval, backoffVars, lockVars, stopVars

(* A failed check. *)
LEMMA SilentFailure ==
    ASSUME TypeOK, TypeOK', VerifiedInv, SilentInv, NEW rejected, OperationFails(rejected)
    PROVE  SilentInv'
<1>. QED BY RejectedRange
  DEF TypeOK, VerifiedInv, SilentInv, OperationFails, CheckDue, Disturb, Settle,
      NewBlock, FailureBlocks, StopAll, Registered, SmallerOf, backoffVars,
      lockVars, stopVars

(* The stop of the workers, and the withdrawal. *)
LEMMA SilentStop ==
    ASSUME TypeOK, TypeOK', VerifiedInv, SilentInv,
           \/ StopBlocked \/ StopRevoked \/ StopDisabled \/ StopExiting
           \/ Cancel
    PROVE  SilentInv'
BY DEF TypeOK, VerifiedInv, SilentInv, StopBlocked, BlockConfirmed, NoStop, StopAll,
      Registered, backoffVars, buyVars, lockVars, riskVars, StopRevoked, savedVars,
      StopDisabled, StopExiting, FreshMemory, Cancel, CancelNow, Withdrawn,
      Disturb, LargerOf, Interval, stopVars

(* The stop of one worker. *)
LEMMA SilentStopOne ==
    ASSUME TypeOK, TypeOK', VerifiedInv, SilentInv,
           NEW s \in Symbol,
           Terminate(s) \/ Kill(s) \/ Confirm(s) \/ StopUnconfirmed(s)
    PROVE  SilentInv'
BY DEF TypeOK, VerifiedInv, SilentInv, Terminate, backoffVars, buyVars, lockVars,
      riskVars, savedVars, stopVars, Kill, Unlock, Confirm, StopUnconfirmed,
      Running, Disturb

(* The plan of one symbol. *)
LEMMA SilentPlan ==
    ASSUME TypeOK, TypeOK', VerifiedInv, SilentInv,
           NEW s \in Symbol,
           \/ PlanOnly(s) \/ Revoke(s) \/ KeepChild(s) \/ Reap(s)
           \/ Start(s) \/ StartFails(s) \/ ShutdownInStart(s)
    PROVE  SilentInv'
BY DEF TypeOK, VerifiedInv, SilentInv, PlanOnly, NextSymbol, Disturb, backoffVars,
      buyVars, lockVars, riskVars, savedVars, stopVars, Revoke, StopAll,
      Registered, KeepChild, Planning, Running, Reap, Start, Startable, StartFails,
      ShutdownInStart

(* The rest of the loop. *)
LEMMA SilentLoop ==
    ASSUME TypeOK, TypeOK', VerifiedInv, SilentInv,
           \/ ToLaunch \/ ToSleep \/ Sleep \/ ShortSleep \/ DisableAi
           \/ Shutdown \/ Crash \/ ResetHalt
    PROVE  SilentInv'
BY DEF TypeOK, VerifiedInv, SilentInv, ToLaunch, backoffVars, buyVars, lockVars,
      riskVars, savedVars, stopVars, ToSleep, Sleep, Pass, Sooner, ShortSleep,
      Disturb, DisableAi, StopAll, Registered, Shutdown, InLoop, Crash,
      FreshMemory, ResetHalt

(* Workers, and what an operator started by hand. *)
LEMMA SilentProcess ==
    ASSUME TypeOK, TypeOK', VerifiedInv, SilentInv,
           NEW s \in Symbol,
           \/ Admit(s) \/ PlaceBuy(s) \/ BuyEnds(s) \/ ReportHalt(s)
           \/ CloseLock(s) \/ Leave(s) \/ Die(s) \/ GroupKill(s)
           \/ ManualStart(s) \/ ManualClose(s) \/ ManualLeave(s)
    PROVE  SilentInv'
BY DEF TypeOK, VerifiedInv, SilentInv, Admit, backoffVars, buyVars, riskVars,
      savedVars, stopVars, PlaceBuy, lockVars, BuyEnds, ReportHalt, Disturb,
      CloseLock, Unlock, Leave, Unlink, Die, Running, Alive, GroupKill,
      ManualStart, ManualClose, ManualLeave

---------------------------------------------------------------------------
(* The invariant *)

(* It holds when the system is installed, *)
LEMMA InvInit == Init => SupervisorInv
<1>. SUFFICES ASSUME Init PROVE SupervisorInv
  OBVIOUS
<1>1. stopped \in BOOLEAN /\ blocked \in BOOLEAN /\ fresh \in BOOLEAN /\ halt \in BOOLEAN
  BY DEF Init
<1>2. TypeOK
  BY <1>1, SupervisorAssumption
  DEF Init, TypeOK, ProcessState, NoRejection, SupervisorAssumption, LargerOf, Interval
<1>. QED BY <1>2
  DEF Init, NoRejection, SupervisorInv, StopIsThorough, QuietInv, VerifiedInv, SilentInv

(* every step keeps it, *)
LEMMA InvNext == SupervisorInv /\ [Next]_vars => SupervisorInv'
<1>. SUFFICES ASSUME SupervisorInv, [Next]_vars PROVE SupervisorInv'
  OBVIOUS
<1>. USE DEF SupervisorInv
<1>1. CASE Boot \/ Preflight \/ PreflightRejected \/ Gate \/ GateFails
  <2>1. TypeOK'
    BY <1>1, TypeStartup
  <2>. QED BY <1>1, <2>1, QuietStartup, VerifiedStartup, SilentStartup
<1>2. CASE Snapshot \/ ConfigurationBlocks
  <2>1. TypeOK'
    BY <1>2, TypeRiskCheck
  <2>. QED BY <1>2, <2>1, QuietRiskCheck, VerifiedRiskCheck, SilentRiskCheck
<1>3. ASSUME NEW event \in {"none", "limit", "shock", "loss"}, Decide(event)
      PROVE  SupervisorInv'
  <2>1. TypeOK'
    BY <1>3, TypeRiskCheck
  <2>. QED BY <1>3, <2>1, QuietDecide, VerifiedDecide, SilentDecide
<1>4. ASSUME NEW rejected \in BOOLEAN, OperationFails(rejected)
      PROVE  SupervisorInv'
  <2>1. TypeOK'
    BY <1>4, TypeRiskCheck
  <2>. QED BY <1>4, <2>1, QuietFailure, VerifiedFailure, SilentFailure
<1>5. CASE StopBlocked \/ StopRevoked \/ StopDisabled \/ StopExiting \/ Cancel
  <2>1. TypeOK'
    BY <1>5, TypeStop
  <2>. QED BY <1>5, <2>1, QuietStop, VerifiedStop, SilentStop
<1>6. ASSUME NEW s \in Symbol,
             Terminate(s) \/ Kill(s) \/ Confirm(s) \/ StopUnconfirmed(s)
      PROVE  SupervisorInv'
  <2>1. TypeOK'
    BY <1>6, TypeStopOne
  <2>. QED BY <1>6, <2>1, QuietStopOne, VerifiedStopOne, SilentStopOne
<1>7. ASSUME NEW s \in Symbol,
             \/ PlanOnly(s) \/ Revoke(s) \/ KeepChild(s) \/ Reap(s) \/ Start(s)
             \/ StartFails(s) \/ ShutdownInStart(s)
      PROVE  SupervisorInv'
  <2>1. TypeOK'
    BY <1>7, TypePlan
  <2>. QED BY <1>7, <2>1, QuietPlan, VerifiedPlan, SilentPlan
<1>8. CASE \/ ToLaunch \/ ToSleep \/ Sleep \/ ShortSleep \/ DisableAi \/ Shutdown
           \/ Crash \/ ResetHalt
  <2>1. TypeOK'
    BY <1>8, TypeLoop
  <2>. QED BY <1>8, <2>1, QuietLoop, VerifiedLoop, SilentLoop
<1>9. ASSUME NEW s \in Symbol,
             \/ WorkerStep(s) \/ ManualStart(s) \/ ManualClose(s) \/ ManualLeave(s)
      PROVE  SupervisorInv'
  <2>1. TypeOK'
    BY <1>9, TypeProcess DEF WorkerStep
  <2>. QED BY <1>9, <2>1, QuietProcess, VerifiedProcess, SilentProcess DEF WorkerStep
<1>10. CASE UNCHANGED vars
  BY <1>10 DEF vars, stopVars, riskVars, backoffVars, savedVars, lockVars, buyVars, TypeOK,
               StopIsThorough, QuietInv, VerifiedInv, SilentInv
<1>. QED BY <1>1, <1>2, <1>3, <1>4, <1>5, <1>6, <1>7, <1>8, <1>9, <1>10
  DEF Next, Progress, Disturbance, StopStep, OperatorStep

(* so it always holds. *)
THEOREM InvAlways == Spec => []SupervisorInv
BY InvInit, InvNext, PTL DEF Spec

---------------------------------------------------------------------------
(* What follows from it *)

(* Processes, locks, timers and the saved authentication state stay in      *)
(* range, whatever fails.                                                   *)
THEOREM SupervisorTypeCorrect == Spec => []TypeOK
<1>1. SupervisorInv => TypeOK
  BY DEF SupervisorInv
<1>. QED BY <1>1, InvAlways, PTL

(* A settled risk block leaves no worker process of any symbol.             *)
THEOREM BlockLeavesNoWorker == Spec => []BlockedIsQuiet
<1>1. SupervisorInv => BlockedIsQuiet
  BY DEF SupervisorInv, QuietInv, BlockedIsQuiet, Registered
<1>. QED BY <1>1, InvAlways, PTL

(* Execution is never open on an unverified or rejected account.            *)
THEOREM OpenOnVerified == Spec => []OpenIsVerified
<1>1. SupervisorInv => OpenIsVerified
  BY DEF SupervisorInv, VerifiedInv, OpenIsVerified
<1>. QED BY <1>1, InvAlways, PTL

(* A rejected login silences every signed request until its retry time, in  *)
(* the loop and across restarts.                                            *)
SilentStep == /\ (pc \in {"preflight", "top"} /\ pc' \in {"gate", "decide"}
                   => auth.retry = 0)
              /\ (pc = "cancel" /\ pc' = "sleep" /\ buys' # buys => auth.retry = 0)

(* Every step is silent: each way to a signed request asks for the retry time. *)
LEMMA SilentNext == SupervisorInv /\ [Next]_vars => SilentStep
<1>. SUFFICES ASSUME SupervisorInv, [Next]_vars PROVE SilentStep
  OBVIOUS
<1>1. auth.retry \in Nat /\ nextCheck \in Nat
  BY SupervisorAssumption
  DEF SupervisorInv, TypeOK, SupervisorAssumption, LargerOf, Interval
<1>2. CASE Snapshot
  BY <1>1, <1>2 DEF SupervisorInv, SilentInv, Snapshot, CheckDue, SilentStep
<1>3. CASE Preflight \/ Cancel
  BY <1>3 DEF Preflight, Cancel, CancelNow, SilentStep
<1>4. CASE \/ Boot \/ PreflightRejected \/ Gate \/ GateFails \/ ConfigurationBlocks
           \/ StopBlocked \/ StopRevoked \/ StopDisabled \/ StopExiting
           \/ ToLaunch \/ ToSleep \/ Sleep \/ ShortSleep \/ DisableAi \/ Shutdown
           \/ Crash \/ ResetHalt \/ UNCHANGED vars
  BY <1>4 DEF Boot, PreflightRejected, Gate, GateFails, ConfigurationBlocks, Settle,
              StopAll, StopBlocked, StopRevoked, StopDisabled, StopExiting, NoStop,
              ToLaunch, ToSleep, Sleep, ShortSleep, DisableAi, Shutdown, Crash,
              ResetHalt, vars, buyVars, SilentStep
<1>5. ASSUME NEW event, Decide(event) \/ OperationFails(event)
      PROVE  SilentStep
  BY <1>5 DEF Decide, OperationFails, CheckDue, Settle, StopAll, SilentStep
<1>6. ASSUME NEW s \in Symbol,
             \/ Terminate(s) \/ Kill(s) \/ Confirm(s) \/ StopUnconfirmed(s)
             \/ PlanOnly(s) \/ Revoke(s) \/ KeepChild(s) \/ Reap(s) \/ Start(s)
             \/ StartFails(s) \/ ShutdownInStart(s)
             \/ WorkerStep(s) \/ ManualStart(s) \/ ManualClose(s) \/ ManualLeave(s)
      PROVE  SilentStep
  BY <1>6 DEF Terminate, Kill, Confirm, StopUnconfirmed, PlanOnly, Revoke, KeepChild,
              Reap, Start, StartFails, ShutdownInStart, Startable, Planning, NextSymbol,
              StopAll, WorkerStep, Admit, PlaceBuy, BuyEnds, ReportHalt, CloseLock,
              Leave, Die, GroupKill, ManualStart, ManualClose, ManualLeave, SilentStep
<1>. QED BY <1>2, <1>3, <1>4, <1>5, <1>6
  DEF Next, Progress, Disturbance, StopStep, OperatorStep

(* So it is along every behaviour. *)
THEOREM BackoffSilences == Spec => BackoffIsSilent
<1>1. SupervisorInv /\ [Next]_vars => [SilentStep]_vars
  BY SilentNext
<1>. QED BY <1>1, InvAlways, PTL DEF Spec, BackoffIsSilent, SilentStep
====================================================================================
