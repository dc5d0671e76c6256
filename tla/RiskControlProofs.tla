----------------------------- MODULE RiskControlProofs -----------------------------
(***************************************************************************)
(* The control files implement the latch of HaltLatch, an activation only   *)
(* happens under HALT, every decision sees the HALT in force, an unforced   *)
(* reset waits for the pause, and losses are not forgotten: for any number  *)
(* of workers and operators, any limits, clock and number of faults.        *)
(* Only the lock's holder is between two writes, so nobody else changes the *)
(* files meanwhile, and the state in its memory is at least as halted as    *)
(* the files it will be written over: ControlInv.  On it rest PauseKept (a  *)
(* mirrored marker never outlasts the state's pause) and BaseKept (the      *)
(* baselines are the first and the highest equity decided on that day).     *)
(***************************************************************************)
EXTENDS RiskControl, Integers, TLAPS

Evaluating == {"trip", "alert", "save"}
Holding == Evaluating \cup {"mirror", "clear", "guarded"}
Label == Holding \cup {"idle", "halt", "sync"}

(* Only the lock's holder is between two writes, at a label of its role. *)
LockHeld == /\ pc \in [Process -> Label]
            /\ \A p \in Process : pc[p] \in Holding => lock = p
            /\ lock # NoOne => lock \in Process /\ pc[lock] \in Holding
            /\ \A p \in Process : pc[p] \in {"clear", "guarded"} => p \in Operator
            /\ \A p \in Process : pc[p] \in Evaluating => p = Supervisor

(* What evaluate will write is as halted as what it read. *)
WorkIsHalted == pc[Supervisor] \in Evaluating =>
                   /\ marker.kind # "none" \/ file.halted => work.halted
                   /\ pc[Supervisor] \in {"trip", "alert"} => work.halted

(* Between its writes a reset has removed the marker, an activation has not. *)
OperatorSees == \A o \in Operator :
                   /\ pc[o] = "clear" => marker.kind = "none" /\ work.halted = FALSE
                   /\ pc[o] = "guarded" => marker.kind # "none"

RState == [kind : {"state", "missing"}, day : Int, start : Int, peak : Int,
           last : Int, halted : BOOLEAN, until : Int]

(* The payloads have their fields, and a missing state is not halted. *)
Typed == /\ file \in RState /\ work \in RState
         /\ file.kind = "missing" => ~file.halted
         /\ work.kind = "missing" => ~work.halted
         /\ marker \in [kind : {"none", "valid", "corrupt"},
                        reasons : SUBSET (Reason \cup {LossReason}), until : Int]
         /\ now \in Int /\ at \in [Process -> Int]
         /\ why \in [Process -> Reason \cup {LossReason}]

ControlInv == Typed /\ LockHeld /\ WorkIsHalted /\ OperatorSees

---------------------------------------------------------------------------
(* Loading and mirroring build a state, and never lose a HALT.              *)
LEMMA LoadKeepsHalt ==
    ASSUME Typed, NEW e \in Equity
    PROVE /\ Measured(e) \in RState
          /\ Latched => Measured(e).halted
          /\ Measured(e).kind = "state"
<1>1. Equity \subseteq Int /\ DayLength \in Nat \ {0} /\ e \in Int
  BY ControlAssumption DEF ControlAssumption
<1>2. Day(now) \in Int
  BY <1>1 DEF Day, Typed
<1>3. Fresh(e) \in RState /\ Fresh(e).kind = "state"
  BY <1>1, <1>2 DEF Fresh, RState
<1>4. /\ Read(e) \in RState /\ Read(e).kind = "state"
      /\ file.halted => Read(e).halted
  BY <1>3 DEF Read, Typed, RState
<1>5. /\ Load(e) \in RState /\ Load(e).kind = "state"
      /\ Latched => Load(e).halted
  BY <1>1, <1>2, <1>4 DEF Load, UnderMarker, RState, Latched, Typed
<1> DEFINE st == Load(e)
           start == IF st.start = 0 THEN e ELSE st.start
           peak == Larger(IF st.start = 0 THEN e ELSE st.peak, e)
<1>6. start \in Int /\ peak \in Int
  BY <1>1, <1>5 DEF Larger, RState
<1>7. Measured(e) = [st EXCEPT !.start = start, !.peak = peak, !.last = e]
  BY DEF Measured
<1> HIDE DEF st, start, peak
<1> QED
  BY <1>1, <1>5, <1>6, <1>7 DEF RState, st

(* Loading the state without an equity, and mirroring the marker into it,  *)
(* give complete states; the mirrored one is halted, the loaded one when latched. *)
LEMMA QuietLoad ==
    ASSUME Typed
    PROVE /\ LoadQuiet \in RState /\ LoadQuiet.kind = "state"
          /\ Latched => LoadQuiet.halted
          /\ Mirrored(marker) \in RState /\ Mirrored(marker).kind = "state"
          /\ Mirrored(marker).halted
<1>1. DayLength \in Nat \ {0}
  BY ControlAssumption DEF ControlAssumption
<1>2. Day(now) \in Int
  BY <1>1 DEF Day, Typed
<1>3. Fresh(0) \in RState /\ Fresh(0).kind = "state"
  BY <1>2 DEF Fresh, RState
<1>4. /\ Read(0) \in RState /\ Read(0).kind = "state"
      /\ file.halted => Read(0).halted
  BY <1>3 DEF Read, Typed, RState
<1>5. marker.until \in Int
  BY DEF Typed
<1> QED
  BY <1>4, <1>5 DEF LoadQuiet, UnderMarker, Mirrored, RState, Latched, Typed

---------------------------------------------------------------------------
(* The control invariant holds before any process has started.              *)
LEMMA ControlInit == Init => ControlInv
<1> SUFFICES ASSUME Init PROVE ControlInv
  OBVIOUS
<1>1. Supervisor \in Process /\ NoOne \notin Process /\ Operator \subseteq Process
  BY ControlAssumption DEF ControlAssumption, Process
<1>2. Cooldown \in Int
  BY ControlAssumption DEF ControlAssumption
<1>3. Typed
  BY <1>2 DEF Init, Typed, RState, Missing, NoMarker, Marker
<1>4. LockHeld /\ WorkIsHalted /\ OperatorSees
  BY <1>1 DEF Init, LockHeld, WorkIsHalted, OperatorSees, Label, Holding, Evaluating
<1> QED
  BY <1>3, <1>4 DEF ControlInv

(* Every step of a lock's holder, and every step that waits for the lock,   *)
(* keeps the invariant.                                                     *)
LEMMA ControlStep == ControlInv /\ [Next]_vars => ControlInv'
<1> SUFFICES ASSUME ControlInv, [Next]_vars PROVE ControlInv'
  OBVIOUS
<1>1. /\ Supervisor \in Process /\ NoOne \notin Process
      /\ Operator \subseteq Process /\ Worker \subseteq Process
      /\ Supervisor \notin Operator /\ Worker \cap Operator = {}
      /\ Cooldown \in Int /\ LossReason \notin Reason
  BY ControlAssumption DEF ControlAssumption, Process
<1>2. Missing \in RState /\ Missing.kind = "missing" /\ ~Missing.halted
  BY DEF Missing, RState
<1> USE DEF ControlInv
<1>3. ASSUME NEW e \in Equity, Evaluate(e) PROVE ControlInv'
  <2>1. /\ Measured(e) \in RState /\ (Latched => Measured(e).halted)
        /\ Measured(e).kind = "state"
    BY LoadKeepsHalt
  <2>2. now + Cooldown \in Int /\ Extended(Measured(e).until, now) \in Int
    BY <1>1, <2>1 DEF Extended, Larger, Typed, RState
  <2> DEFINE st == Measured(e)
  <2>3. /\ work' \in RState /\ work'.kind = "state"
        /\ (Latched => work'.halted) /\ (pc'[Supervisor] = "trip" => work'.halted)
    <3> HIDE DEF st
    <3> QED BY <1>1, <1>3, <2>1, <2>2 DEF Evaluate, st, RState, Take, LockHeld
  <2>4. Typed'
    BY <1>3, <2>3 DEF Evaluate, Typed, fileVars, reportVars
  <2>5. LockHeld' /\ pc'[Supervisor] \in {"trip", "save"}
    BY <1>1, <1>3 DEF Evaluate, LockHeld, LockFree, Idle, Take, Label, Holding, Evaluating
  <2>6. WorkIsHalted'
    BY <1>3, <2>3, <2>5 DEF Evaluate, WorkIsHalted, Latched, fileVars, Evaluating
  <2>7. OperatorSees'
    BY <1>1, <1>3 DEF Evaluate, OperatorSees, LockHeld, LockFree, Take, Holding, Evaluating, fileVars
  <2> QED BY <2>4, <2>5, <2>6, <2>7
<1>4. CASE Trip
  <2>1. Typed'
    BY <1>4 DEF Trip, Typed, Marker, RState, reportVars
  <2>2. LockHeld'
    BY <1>1, <1>4 DEF Trip, LockHeld, Continue, Label, Holding, Evaluating
  <2>3. WorkIsHalted'
    BY <1>1, <1>4 DEF Trip, WorkIsHalted, LockHeld, Continue, Evaluating
  <2>4. OperatorSees'
    BY <1>1, <1>4 DEF Trip, OperatorSees, LockHeld, Continue, Holding, Evaluating
  <2> QED BY <2>1, <2>2, <2>3, <2>4
<1>5. CASE AlertFails
  <2>1. Typed'
    BY <1>1, <1>2, <1>5 DEF AlertFails, Typed, Release, Forget, fileVars
  <2>2. LockHeld'
    BY <1>1, <1>5 DEF AlertFails, LockHeld, Release, Forget, Label, Holding, Evaluating
  <2>3. WorkIsHalted' /\ OperatorSees'
    BY <1>1, <1>5 DEF AlertFails, WorkIsHalted, OperatorSees, LockHeld, Release, Forget, Evaluating, Holding, fileVars
  <2> QED BY <2>1, <2>2, <2>3
<1>6. CASE Save
  <2>1. Typed'
    BY <1>1, <1>2, <1>6 DEF Save, Typed, Release, Forget, RState
  <2>2. LockHeld'
    BY <1>1, <1>6 DEF Save, LockHeld, Release, Forget, Label, Holding, Evaluating
  <2>3. WorkIsHalted' /\ OperatorSees'
    BY <1>1, <1>6 DEF Save, WorkIsHalted, OperatorSees, LockHeld, Release, Forget, Evaluating, Holding
  <2> QED BY <2>1, <2>2, <2>3
<1>7. CASE StartCooldown
  <2>1. LoadQuiet \in RState /\ LoadQuiet.kind = "state"
    BY QuietLoad
  <2>2. Extended(LoadQuiet.until, now) \in Int
    BY <1>1, <2>1 DEF Extended, Larger, Typed, RState
  <2>3. Typed'
    BY <1>7, <2>1, <2>2 DEF StartCooldown, Typed, RState, reportVars
  <2>4. LockHeld'
    BY <1>7 DEF StartCooldown, LockHeld
  <2>5. WorkIsHalted' /\ OperatorSees'
    BY <1>1, <1>7 DEF StartCooldown, WorkIsHalted, OperatorSees, LockHeld, LockFree, Idle, Evaluating
  <2> QED BY <2>3, <2>4, <2>5
<1>8. ASSUME NEW p \in Worker \cup {Supervisor}, NEW r \in Reason, Report(p, r) PROVE ControlInv'
  <2>1. Typed'
    BY <1>1, <1>8 DEF Report, Typed, fileVars
  <2>2. LockHeld'
    BY <1>1, <1>8 DEF Report, LockHeld, Continue, Idle, Label, Holding, Evaluating
  <2>3. WorkIsHalted' /\ OperatorSees'
    BY <1>1, <1>8 DEF Report, WorkIsHalted, OperatorSees, LockHeld, Continue, Idle, Evaluating, fileVars
  <2> QED BY <2>1, <2>2, <2>3
<1>9. ASSUME NEW r \in Reason, ReportAgain(r) PROVE ControlInv'
  <2>1. Typed'
    BY <1>1, <1>9 DEF ReportAgain, Typed, fileVars
  <2>2. LockHeld'
    BY <1>1, <1>9 DEF ReportAgain, LockHeld, Continue, Idle, Label, Holding, Evaluating
  <2>3. WorkIsHalted' /\ OperatorSees'
    BY <1>1, <1>9 DEF ReportAgain, WorkIsHalted, OperatorSees, LockHeld, Continue, Idle, Evaluating, fileVars
  <2> QED BY <2>1, <2>2, <2>3
<1>10. ASSUME NEW p \in Worker \cup {Supervisor}, Mark(p) PROVE ControlInv'
  <2>1. Typed'
    BY <1>1, <1>10 DEF Mark, Typed, Marker, reportVars
  <2>2. LockHeld'
    BY <1>1, <1>10 DEF Mark, LockHeld, LockFree, Take, Label, Holding, Evaluating
  <2>3. WorkIsHalted' /\ OperatorSees'
    BY <1>1, <1>10 DEF Mark, WorkIsHalted, OperatorSees, LockHeld, LockFree, Take, Holding, Evaluating
  <2> QED BY <2>1, <2>2, <2>3
<1>11. ASSUME NEW p \in Worker \cup {Supervisor}, Mirror(p) PROVE ControlInv'
  <2>1. /\ Mirrored(marker) \in RState /\ Mirrored(marker).kind = "state"
    BY QuietLoad
  <2>2. Typed'
    BY <1>1, <1>2, <1>11, <2>1 DEF Mirror, Typed, Release, Forget
  <2>3. LockHeld'
    BY <1>1, <1>11 DEF Mirror, LockHeld, LockFree, Release, Forget, Label, Holding, Evaluating
  <2>4. pc[Supervisor] \notin Evaluating /\ \A o \in Operator : pc[o] \notin {"clear", "guarded"}
    BY <1>1, <1>11 DEF Mirror, LockHeld, LockFree, Holding, Evaluating
  <2>5. WorkIsHalted' /\ OperatorSees'
    BY <1>1, <1>11, <2>4 DEF Mirror, WorkIsHalted, OperatorSees, LockHeld, Release, Forget, Evaluating
  <2> QED BY <2>2, <2>3, <2>5
<1>12. ASSUME NEW o \in Operator, NEW force \in BOOLEAN, Reset(o, force) PROVE ControlInv'
  <2>1. LoadQuiet \in RState /\ LoadQuiet.kind = "state"
    BY QuietLoad
  <2>2. work' \in RState /\ work'.halted = FALSE
    <3>1. work' = [LoadQuiet EXCEPT !.halted = FALSE, !.until = 0]
      BY <1>12 DEF Reset
    <3>2. ASSUME NEW st \in RState
          PROVE [st EXCEPT !.halted = FALSE, !.until = 0] \in RState
      <4> DEFINE cleared == [st EXCEPT !.halted = FALSE]
      <4>1. cleared \in RState
        BY DEF RState
      <4>2. [cleared EXCEPT !.until = 0] \in RState
        <5> HIDE DEF cleared
        <5> QED BY <4>1 DEF RState
      <4> QED BY <4>2
    <3>3. work' \in RState
      BY <2>1, <3>1, <3>2
    <3>4. work'.halted = FALSE
      BY <2>1, <3>1 DEF RState
    <3> QED BY <3>3, <3>4
  <2>3. Typed'
    BY <1>12, <2>2 DEF Reset, Typed, NoMarker, reportVars
  <2>4. LockHeld'
    BY <1>1, <1>12 DEF Reset, LockHeld, LockFree, Take, Label, Holding, Evaluating
  <2>5. WorkIsHalted' /\ OperatorSees'
    BY <1>1, <1>12, <2>2 DEF Reset, WorkIsHalted, OperatorSees, LockHeld, LockFree, Take, Holding, Evaluating, NoMarker
  <2> QED BY <2>3, <2>4, <2>5
<1>13. ASSUME NEW o \in Operator, Clear(o) PROVE ControlInv'
  <2>1. Typed'
    BY <1>1, <1>2, <1>13 DEF Clear, Typed, OperatorSees, Release, Forget
  <2>2. LockHeld'
    BY <1>1, <1>13 DEF Clear, LockHeld, Release, Forget, Label, Holding, Evaluating
  <2>3. WorkIsHalted' /\ OperatorSees'
    BY <1>1, <1>13 DEF Clear, WorkIsHalted, OperatorSees, LockHeld, Release, Forget, Evaluating, Holding
  <2> QED BY <2>1, <2>2, <2>3
<1>14. ASSUME NEW o \in Operator, Guard(o) PROVE ControlInv'
  <2>1. /\ Mirrored(marker) \in RState /\ Mirrored(marker).kind = "state"
    BY QuietLoad
  <2>2. Typed'
    BY <1>14, <2>1 DEF Guard, Typed, reportVars
  <2>3. LockHeld'
    BY <1>1, <1>14 DEF Guard, LockHeld, LockFree, Take, Label, Holding, Evaluating
  <2>4. WorkIsHalted' /\ OperatorSees'
    BY <1>1, <1>14 DEF Guard, WorkIsHalted, OperatorSees, LockHeld, LockFree, Take, Holding, Evaluating, Confirmed
  <2> QED BY <2>2, <2>3, <2>4
<1>15. ASSUME NEW o \in Operator, Activate(o) PROVE ControlInv'
  <2>1. Typed'
    BY <1>1, <1>2, <1>15 DEF Activate, Typed, Release, Forget, fileVars
  <2>2. LockHeld'
    BY <1>1, <1>15 DEF Activate, LockHeld, Release, Forget, Label, Holding, Evaluating
  <2>3. WorkIsHalted' /\ OperatorSees'
    BY <1>1, <1>15 DEF Activate, WorkIsHalted, OperatorSees, LockHeld, Release, Forget, Evaluating, Holding, fileVars
  <2> QED BY <2>1, <2>2, <2>3
<1>16. ASSUME NEW p \in Process, Crash(p) PROVE ControlInv'
  <2>1. Typed'
    BY <1>1, <1>2, <1>16 DEF Crash, Typed, Forget, fileVars
  <2>2. LockHeld'
    BY <1>1, <1>16 DEF Crash, LockHeld, Forget, Idle, Label, Holding, Evaluating
  <2>3. WorkIsHalted' /\ OperatorSees'
    BY <1>1, <1>16 DEF Crash, WorkIsHalted, OperatorSees, LockHeld, Forget, Evaluating, Holding, fileVars
  <2> QED BY <2>1, <2>2, <2>3
<1>17. CASE Damage
  <2>1. Typed'
    BY <1>17 DEF Damage, Typed, NoMarker, reportVars
  <2>2. LockHeld'
    BY <1>17 DEF Damage, LockHeld
  <2>3. WorkIsHalted' /\ OperatorSees'
    BY <1>17 DEF Damage, WorkIsHalted, OperatorSees, NoMarker
  <2> QED BY <2>1, <2>2, <2>3
<1>18. CASE Tick
  BY <1>18 DEF Tick, Typed, LockHeld, WorkIsHalted, OperatorSees, fileVars, reportVars
<1>19. CASE UNCHANGED vars
  BY <1>19 DEF vars, Typed, LockHeld, WorkIsHalted, OperatorSees
<1> QED
  BY <1>3, <1>4, <1>5, <1>6, <1>7, <1>8, <1>9, <1>10, <1>11, <1>12, <1>13, <1>14, <1>15,
     <1>16, <1>17, <1>18, <1>19
  DEF Next, SupervisorStep, ReportStep, OperatorStep

(* The control invariant holds in every reachable state.                    *)
THEOREM ControlInductive == Spec => []ControlInv
<1>1. Init => ControlInv
  BY ControlInit
<1>2. ControlInv /\ [Next]_vars => ControlInv'
  BY ControlStep
<1> QED
  BY <1>1, <1>2, PTL DEF Spec

(* An activation is written while the marker exists: the lock it holds      *)
(* keeps every reset out.                                                   *)
THEOREM ActivationHolds == Spec => []ActivationUnderHalt
<1>1. ControlInv => ActivationUnderHalt
  BY DEF ControlInv, OperatorSees, ActivationUnderHalt
<1> QED
  BY <1>1, ControlInductive, PTL

(* A decision that is not a HALT was taken with no HALT in force.           *)
THEOREM DecisionHolds == Spec => DecisionSeesHalt
<1>1. ControlInv /\ [Next]_vars =>
        [verdict' # verdict /\ ~verdict'.halted => ~Latched']_vars
  <2> SUFFICES ASSUME ControlInv, Next, verdict' # verdict, ~verdict'.halted PROVE ~Latched'
    BY DEF vars
  <2>1. Save
    BY DEF Next, SupervisorStep, ReportStep, OperatorStep, Evaluate, Trip, AlertFails,
       StartCooldown, ReportAgain, Report, Mark, Mirror, Reset, Clear, Guard, Activate,
       Crash, Damage, Tick
  <2>2. ~work.halted
    <3>1. PICK limited \in BOOLEAN :
             verdict' = [day |-> work.day, equity |-> work.last, halted |-> work.halted,
                         blocked |-> work.halted \/ limited \/ work.until > now]
      BY <2>1 DEF Save
    <3> QED BY <3>1
  <2>3. marker.kind = "none"
    BY <2>1, <2>2 DEF ControlInv, WorkIsHalted, Save, Evaluating
  <2> QED
    BY <2>1, <2>2, <2>3 DEF Save, Latched
<1> QED
  BY <1>1, ControlInductive, PTL DEF Spec, DecisionSeesHalt

(* Every step of the control files is a step of the latch, or none.         *)
LEMMA LatchStep == ControlInv /\ [Next]_vars => [Latch!Next]_Latch!vars
<1> SUFFICES ASSUME ControlInv, [Next]_vars PROVE [Latch!Next]_Latch!vars
  OBVIOUS
<1> USE DEF ControlInv
<1>1. /\ Supervisor \in Process /\ NoOne \notin Process
      /\ Operator \subseteq Process /\ Worker \subseteq Process
      /\ Supervisor \notin Operator /\ Worker \cap Operator = {}
  BY ControlAssumption DEF ControlAssumption, Process
<1>stutter. ASSUME Latched' = Latched, Resetting' = Resetting PROVE [Latch!Next]_Latch!vars
  BY <1>stutter DEF Latch!vars
<1>latch. ASSUME Latched', ~Resetting, ~Resetting' PROVE [Latch!Next]_Latch!vars
  <2>1. Latched' = TRUE /\ Resetting = FALSE /\ Resetting' = FALSE
    BY <1>latch DEF Latched, Resetting
  <2> QED BY <2>1 DEF Latch!Next, Latch!Latch
<1>same. ASSUME Latched' <=> Latched, Resetting' <=> Resetting PROVE [Latch!Next]_Latch!vars
  <2>1. Latched' = Latched /\ Resetting' = Resetting
    BY <1>same DEF Latched, Resetting
  <2> QED BY <2>1, <1>stutter
<1>busy. \A p \in Process \ Operator : lock = p => ~Resetting
  BY <1>1 DEF LockHeld, Resetting, Holding
<1>free. lock = NoOne => ~Resetting
  BY <1>1 DEF LockHeld, Resetting, Holding
<1>3. ASSUME NEW e \in Equity, Evaluate(e) PROVE [Latch!Next]_Latch!vars
  BY <1>1, <1>3, <1>stutter DEF Evaluate, Take, Latched, Resetting, fileVars, LockHeld
<1>4. CASE Trip
  <2>1. ~Resetting /\ ~Resetting'
    BY <1>1, <1>4, <1>busy DEF Trip, Continue, Resetting, LockHeld, Holding, Evaluating
  <2>2. Latched'
    BY <1>4 DEF Trip, Marker, Latched
  <2> QED BY <2>1, <2>2, <1>latch
<1>5. CASE AlertFails
  BY <1>1, <1>5, <1>stutter DEF AlertFails, Release, Forget, Latched, Resetting, fileVars, LockHeld
<1>6. CASE Save
  <2>1. ~Resetting /\ ~Resetting'
    BY <1>1, <1>6, <1>busy DEF Save, Release, Forget, Resetting, LockHeld, Holding, Evaluating
  <2>2. Latched => Latched'
    BY <1>6 DEF Save, Latched, WorkIsHalted, Evaluating
  <2>4. CASE Latched'
    BY <2>1, <2>4, <1>latch
  <2>5. CASE ~Latched'
    BY <2>1, <2>2, <2>5, <1>same
  <2> QED BY <2>4, <2>5
<1>7. CASE StartCooldown
  <2>1. Latched' = Latched
    <3>1. Latched => LoadQuiet.halted
      BY QuietLoad
    <3>2. ~Latched => ~LoadQuiet.halted
      BY DEF Latched, LoadQuiet, UnderMarker, Read, Fresh, Typed, RState
    <3>3. file'.halted = LoadQuiet.halted /\ LoadQuiet.halted \in BOOLEAN
      BY <1>7, QuietLoad DEF StartCooldown, RState
    <3>4. Latched' <=> Latched
      BY <1>7, <3>1, <3>2, <3>3 DEF StartCooldown, Latched
    <3> QED BY <3>4 DEF Latched
  <2>2. Resetting' = Resetting
    BY <1>7 DEF StartCooldown, Resetting
  <2> QED BY <2>1, <2>2, <1>stutter
<1>8. ASSUME NEW p \in Worker \cup {Supervisor}, NEW r \in Reason, Report(p, r)
      PROVE [Latch!Next]_Latch!vars
  BY <1>1, <1>8, <1>stutter DEF Report, Continue, Latched, Resetting, fileVars, LockHeld
<1>9. ASSUME NEW r \in Reason, ReportAgain(r) PROVE [Latch!Next]_Latch!vars
  BY <1>1, <1>9, <1>stutter DEF ReportAgain, Continue, Latched, Resetting, fileVars, LockHeld
<1>10. ASSUME NEW p \in Worker \cup {Supervisor}, Mark(p) PROVE [Latch!Next]_Latch!vars
  <2>1. ~Resetting /\ ~Resetting'
    BY <1>1, <1>10, <1>free DEF Mark, LockFree, Take, Resetting, LockHeld
  <2>2. Latched'
    BY <1>10 DEF Mark, Marker, Latched
  <2> QED BY <2>1, <2>2, <1>latch
<1>11. ASSUME NEW p \in Worker \cup {Supervisor}, Mirror(p) PROVE [Latch!Next]_Latch!vars
  <2>1. ~Resetting /\ ~Resetting'
    BY <1>1, <1>11, <1>free, <1>busy
    DEF Mirror, LockFree, Release, Forget, Resetting, LockHeld, Holding
  <2>2. CASE marker.kind = "valid"
    BY <2>1, <2>2, <1>11, <1>latch DEF Mirror, Latched
  <2>3. CASE marker.kind # "valid"
    <3>1. Latched' <=> Latched
      BY <2>3, <1>11 DEF Mirror, Latched
    <3> QED BY <2>1, <3>1, <1>same
  <2> QED BY <2>2, <2>3
<1>12. ASSUME NEW o \in Operator, NEW force \in BOOLEAN, Reset(o, force)
       PROVE [Latch!Next]_Latch!vars
  <2>1. ~Resetting /\ Resetting'
    BY <1>1, <1>12, <1>free DEF Reset, LockFree, Take, Resetting, LockHeld
  <2>2. Latched' <=> file.halted
    BY <1>12 DEF Reset, Latched, NoMarker
  <2>3. Latched' \in {Latched, FALSE} /\ Resetting' = TRUE
    BY <2>1, <2>2 DEF Latched, Resetting, Typed, RState
  <2> QED BY <2>1, <2>3 DEF Latch!Next, Latch!BeginReset
<1>13. ASSUME NEW o \in Operator, Clear(o) PROVE [Latch!Next]_Latch!vars
  <2>1. Resetting /\ ~Resetting'
    BY <1>1, <1>13 DEF Clear, Release, Forget, Resetting, LockHeld, Holding
  <2>2. ~Latched'
    BY <1>13 DEF Clear, Latched, OperatorSees
  <2>3. Latched' = FALSE /\ Resetting' = FALSE
    BY <2>1, <2>2 DEF Latched, Resetting
  <2> QED BY <2>1, <2>3 DEF Latch!Next, Latch!EndReset
<1>14. ASSUME NEW o \in Operator, Guard(o) PROVE [Latch!Next]_Latch!vars
  <2>1. ~Resetting /\ ~Resetting'
    BY <1>1, <1>14, <1>free DEF Guard, LockFree, Take, Resetting, LockHeld
  <2>2. Latched'
    BY <1>14 DEF Guard, Confirmed, Latched
  <2> QED BY <2>1, <2>2, <1>latch
<1>15. ASSUME NEW o \in Operator, Activate(o) PROVE [Latch!Next]_Latch!vars
  <2>1. \A q \in Operator : pc[q] = "clear" <=> pc'[q] = "clear"
    BY <1>1, <1>15 DEF Activate, Release, Forget, LockHeld
  <2>2. Resetting' = Resetting /\ Latched' = Latched
    BY <1>15, <2>1 DEF Activate, fileVars, Resetting, Latched
  <2> QED BY <2>2, <1>stutter
<1>16. ASSUME NEW p \in Process, Crash(p) PROVE [Latch!Next]_Latch!vars
  <2>1. Latched' = Latched
    BY <1>16 DEF Crash, fileVars, Latched
  <2>2. CASE p \in Operator /\ pc[p] = "clear"
    <3>1. Resetting /\ ~Resetting'
      BY <1>1, <1>16, <2>2 DEF Crash, Forget, Resetting, LockHeld, Holding
    <3>2. Resetting' = FALSE
      BY <3>1 DEF Resetting
    <3> QED BY <2>1, <3>1, <3>2 DEF Latch!Next, Latch!AbandonReset
  <2>3. CASE ~(p \in Operator /\ pc[p] = "clear")
    <3>1. \A q \in Operator : pc[q] = "clear" <=> pc'[q] = "clear"
      BY <1>1, <1>16, <2>3 DEF Crash, Forget, LockHeld
    <3>2. Resetting' = Resetting
      BY <3>1 DEF Resetting
    <3> QED BY <2>1, <3>2, <1>stutter
  <2> QED BY <2>2, <2>3
<1>17. CASE Damage
  <2>1. Latched /\ Latched'
    BY <1>17 DEF Damage, NoMarker, Latched
  <2>2. Latched' = Latched /\ Resetting' = Resetting
    BY <1>17, <2>1 DEF Damage, Latched, Resetting
  <2> QED BY <2>2, <1>stutter
<1>18. CASE Tick
  BY <1>18, <1>stutter DEF Tick, Latched, Resetting, fileVars
<1>19. CASE UNCHANGED vars
  BY <1>19, <1>stutter DEF vars, Latched, Resetting
<1> QED
  BY <1>3, <1>4, <1>5, <1>6, <1>7, <1>8, <1>9, <1>10, <1>11, <1>12, <1>13, <1>14, <1>15,
     <1>16, <1>17, <1>18, <1>19
  DEF Next, SupervisorStep, ReportStep, OperatorStep

(* The control files and all their writers implement the latch.             *)
THEOREM LatchRefinement == Spec => ImplementsLatch
<1>1. Init => Latch!Init
  <2> SUFFICES ASSUME Init PROVE Latch!Init
    OBVIOUS
  <2>1. Operator \subseteq Process
    BY DEF Process
  <2>2. ~Resetting
    BY <2>1 DEF Init, Resetting
  <2>3. Latched \in BOOLEAN /\ Resetting = FALSE
    BY <2>2 DEF Latched, Resetting
  <2> QED BY <2>3 DEF Latch!Init
<1>2. ControlInv /\ [Next]_vars => [Latch!Next]_Latch!vars
  BY LatchStep
<1> QED
  BY <1>1, <1>2, ControlInductive, PTL DEF Spec, ImplementsLatch, Latch!Spec

---------------------------------------------------------------------------
(* The pause after a HALT, and the losses of the day *)

(* A readable marker that was mirrored never outlasts the pause of the      *)
(* state; what is about to be saved keeps that pause.                       *)
Unmirrored == {"alert", "mirror"}
PauseKept == /\ file.kind = "missing" => file.until = 0
             /\ \A p \in Process : pc[p] \in Evaluating \cup {"clear"} => work.kind = "state"
             /\ pc[Supervisor] = "save" => file.until <= work.until
             /\ pc[Supervisor] = "alert" /\ marker.kind = "valid" => marker.until <= work.until
             /\ marker.kind = "valid" /\ ~torn /\ (\A p \in Process : pc[p] \notin Unmirrored)
                    => marker.until <= file.until

(* The baselines of a state are the first and the highest equity decided on *)
(* that day, or none was decided on yet.                                    *)
SameBase(st) == /\ st.kind = "state" /\ st.day = opening.day
                /\ st.start = opening.first /\ st.peak = opening.peak
Based(st) == IF opening.first > 0 THEN SameBase(st) ELSE st.start = 0

(* The state evaluate will save adds its snapshot to them, and is halted    *)
(* when the snapshot breaches a limit.                                      *)
Grown(st) == IF opening.first > 0 /\ opening.day = st.day
             THEN st.start = opening.first /\ st.peak = Larger(opening.peak, st.last)
             ELSE st.start = st.last /\ st.peak = st.last
Judged(st) == /\ st.last \in Nat
              /\ Breach(st.start, st.peak, st.last) => st.halted
BaseKept == /\ opening \in [day : Int, first : Int, peak : Int]
            /\ Based(file)
            /\ \A o \in Operator : pc[o] = "clear" => Based(work)
            /\ pc[Supervisor] \in Evaluating => Grown(work) /\ Judged(work)

(* What the loaded states take from the file. *)
LEMMA LoadedFields ==
    ASSUME Typed, NEW e \in Int
    PROVE /\ Read(e) \in RState /\ Load(e) \in RState
          /\ Load(e).until = Read(e).until /\ Load(e).kind = Read(e).kind
          /\ Load(e).day = Day(now)
          /\ Read(e).day = Day(now) => /\ Load(e).start = Read(e).start
                                      /\ Load(e).peak = Read(e).peak
          /\ Read(e).day # Day(now) => Load(e).start = e /\ Load(e).peak = e
<1>1. Day(now) \in Int
  BY ControlAssumption DEF Day, Typed, ControlAssumption
<1>2. Fresh(e) \in RState
  BY <1>1 DEF Fresh, RState
<1>3. Read(e) \in RState
  BY <1>2 DEF Read, Typed
<1> DEFINE rolled == [Read(e) EXCEPT !.day = Day(now), !.start = e, !.peak = e, !.last = e]
<1>4. /\ rolled \in RState /\ rolled.until = Read(e).until /\ rolled.kind = Read(e).kind
      /\ rolled.day = Day(now) /\ rolled.start = e /\ rolled.peak = e
  <2>1. ASSUME NEW st \in RState, NEW d \in Int
        PROVE LET r == [st EXCEPT !.day = d, !.start = e, !.peak = e, !.last = e]
              IN /\ r \in RState /\ r.until = st.until /\ r.kind = st.kind
                 /\ r.day = d /\ r.start = e /\ r.peak = e
    BY DEF RState
  <2> QED BY <1>1, <1>3, <2>1
<1>5. ASSUME NEW st \in RState
      PROVE /\ UnderMarker(st) \in RState /\ UnderMarker(st).until = st.until
            /\ UnderMarker(st).kind = st.kind /\ UnderMarker(st).day = st.day
            /\ UnderMarker(st).start = st.start /\ UnderMarker(st).peak = st.peak
  BY DEF UnderMarker, RState
<1>6. Load(e) = UnderMarker(IF Read(e).day = Day(now) THEN Read(e) ELSE rolled)
  BY DEF Load
<1> HIDE DEF rolled
<1> QED BY <1>3, <1>4, <1>5, <1>6

(* A measured state adds its snapshot to the baselines, or starts them.     *)
LEMMA MeasuredFields ==
    ASSUME Typed, NEW e \in Equity
    PROVE /\ Measured(e) \in RState
          /\ Measured(e).until = Read(e).until /\ Measured(e).last = e
          /\ Measured(e).day = Day(now)
          /\ Load(e).start = 0 => Measured(e).start = e /\ Measured(e).peak = e
          /\ Load(e).start # 0 => /\ Measured(e).start = Load(e).start
                                  /\ Measured(e).peak = Larger(Load(e).peak, e)
<1>1. e \in Int
  BY ControlAssumption DEF ControlAssumption
<1> DEFINE st == Load(e)
           start == IF st.start = 0 THEN e ELSE st.start
           peak == Larger(IF st.start = 0 THEN e ELSE st.peak, e)
<1>2. st \in RState /\ st.until = Read(e).until /\ st.day = Day(now)
  BY <1>1, LoadedFields
<1>3. Measured(e) = [st EXCEPT !.start = start, !.peak = peak, !.last = e]
  BY DEF Measured
<1>4. start \in Int /\ peak \in Int
  BY <1>1, <1>2 DEF Larger, RState
<1> HIDE DEF st, start, peak
<1>5. /\ Measured(e) \in RState /\ Measured(e).until = st.until
      /\ Measured(e).last = e /\ Measured(e).day = st.day
      /\ Measured(e).start = start /\ Measured(e).peak = peak
  BY <1>1, <1>2, <1>3, <1>4 DEF RState
<1> QED
  BY <1>1, <1>2, <1>5 DEF Larger, st, start, peak

(* Loading a state keeps its pause. *)
LEMMA LoadKeepsPause ==
    ASSUME Typed, file.kind = "missing" => file.until = 0
    PROVE /\ LoadQuiet.until \in Int /\ file.until <= LoadQuiet.until
          /\ \A e \in Equity : file.until <= Measured(e).until
<1>1. ASSUME NEW e \in Int
      PROVE Read(e) \in RState /\ file.until <= Read(e).until
  <2>1. Read(e) \in RState
    BY <1>1, LoadedFields
  <2>2. Fresh(e).until = 0
    BY DEF Fresh
  <2>3. Read(e).until = file.until
    BY <2>2 DEF Read
  <2> QED BY <2>1, <2>3 DEF Typed, RState
<1>2. LoadQuiet.until = Read(0).until
  BY <1>1 DEF LoadQuiet, UnderMarker, RState
<1>3. ASSUME NEW e \in Equity
      PROVE file.until <= Measured(e).until
  <2>1. e \in Int
    BY ControlAssumption DEF ControlAssumption
  <2> QED BY <1>1, <2>1, MeasuredFields
<1>4. LoadQuiet.until \in Int /\ file.until <= LoadQuiet.until
  BY <1>1, <1>2 DEF RState
<1> QED
  BY <1>3, <1>4

(* A marker found at the start was not mirrored by these processes. *)
LEMMA PauseInit == Init => PauseKept
<1> SUFFICES ASSUME Init PROVE PauseKept
  OBVIOUS
<1>1. Supervisor \in Process
  BY DEF Process
<1>2. marker.kind = "valid" => torn
  <2>1. marker.kind = "valid" => marker # NoMarker
    BY DEF NoMarker
  <2>2. torn = (marker # NoMarker)
    BY DEF Init
  <2> QED BY <2>1, <2>2
<1> QED
  BY <1>1, <1>2 DEF Init, PauseKept, Missing, Evaluating

(* Whoever marks or mirrors, waits, saves or dies: the pause is kept. *)
LEMMA PauseStep == ControlInv /\ PauseKept /\ [Next]_vars => PauseKept'
<1> SUFFICES ASSUME ControlInv, PauseKept, [Next]_vars PROVE PauseKept'
  OBVIOUS
<1>1. /\ Supervisor \in Process /\ NoOne \notin Process
      /\ Operator \subseteq Process /\ Worker \subseteq Process
      /\ Supervisor \notin Operator /\ Worker \cap Operator = {}
      /\ Cooldown \in Nat
  BY ControlAssumption DEF ControlAssumption, Process
<1>2. /\ pc \in [Process -> Label] /\ Typed
      /\ file.until \in Int /\ work.until \in Int /\ marker.until \in Int
  BY DEF ControlInv, LockHeld, Typed, RState
<1>3. /\ LoadQuiet \in RState /\ LoadQuiet.kind = "state" /\ file.until <= LoadQuiet.until
      /\ Mirrored(marker) \in RState /\ Mirrored(marker).kind = "state"
  BY <1>2, QuietLoad, LoadKeepsPause DEF PauseKept
<1>free. ASSUME lock = NoOne
         PROVE \A p \in Process : pc[p] \notin Holding
  BY <1>1, <1>free DEF ControlInv, LockHeld
<1>4. ASSUME NEW e \in Equity, Evaluate(e) PROVE PauseKept'
  <2> DEFINE st == Measured(e)
  <2>1. st \in RState /\ st.kind = "state" /\ file.until <= st.until
    BY <1>2, LoadKeepsHalt, LoadKeepsPause DEF PauseKept
  <2>2. st.until <= Extended(st.until, now) /\ Extended(st.until, now) \in Int
    BY <1>1, <1>2, <2>1 DEF Extended, Larger, Typed, RState
  <2> HIDE DEF st
  <2>3. work'.kind = "state" /\ file.until <= work'.until
    <3>1. CASE work' = st
      BY <2>1, <3>1
    <3>2. CASE work' = [st EXCEPT !.halted = TRUE, !.until = Extended(@, now)]
      BY <1>2, <2>1, <2>2, <3>2 DEF RState
    <3> QED BY <1>4, <3>1, <3>2 DEF Evaluate, st
  <2>4. \A p \in Process : pc[p] \notin Holding
    BY <1>4, <1>free DEF Evaluate, LockFree
  <2>5. \A p \in Process : p # Supervisor => pc'[p] = pc[p]
    BY <1>2, <1>4 DEF Evaluate, Take
  <2>6. pc'[Supervisor] \in {"trip", "save"}
    BY <1>1, <1>2, <1>4 DEF Evaluate, Take
  <2>7. UNCHANGED <<file, marker, torn>>
    BY <1>4 DEF Evaluate, fileVars, historyVars
  <2> QED
    BY <2>3, <2>4, <2>5, <2>6, <2>7 DEF PauseKept, Holding, Evaluating, Unmirrored
<1>5. CASE Trip
  <2>1. pc' = [pc EXCEPT ![Supervisor] = "alert"] /\ UNCHANGED <<file, work, torn>>
    BY <1>5 DEF Trip, Continue, historyVars
  <2>2. marker'.until = work.until
    BY <1>5 DEF Trip, Marker
  <2> QED
    BY <1>1, <1>2, <1>5, <2>1, <2>2 DEF PauseKept, Evaluating, Unmirrored, Trip
<1>6. CASE AlertFails
  <2>1. pc' = [pc EXCEPT ![Supervisor] = "idle"] /\ UNCHANGED <<file, marker>> /\ torn' = TRUE
    BY <1>6 DEF AlertFails, Release, Forget, fileVars
  <2>2. \A p \in Process : pc'[p] \notin Holding
    BY <1>1, <1>2, <1>6, <2>1 DEF AlertFails, ControlInv, LockHeld, Holding, Evaluating
  <2> QED
    BY <1>1, <2>1, <2>2 DEF PauseKept, Holding, Evaluating
<1>7. CASE Save
  <2>1. /\ pc' = [pc EXCEPT ![Supervisor] = "idle"] /\ file' = work
        /\ UNCHANGED <<marker, torn>>
    BY <1>7 DEF Save, Release, Forget
  <2>2. \A p \in Process : p # Supervisor => pc[p] \notin Holding
    BY <1>1, <1>2, <1>7 DEF Save, ControlInv, LockHeld, Holding, Evaluating
  <2>3. \A p \in Process : pc'[p] \notin Holding
    BY <1>1, <1>2, <2>1, <2>2 DEF Holding, Evaluating
  <2>4. work.kind = "state"
    BY <1>1, <1>7 DEF Save, PauseKept, Evaluating
  <2>5. CASE pc[Supervisor] = "alert"
    BY <1>1, <2>1, <2>3, <2>4, <2>5 DEF PauseKept, Holding, Evaluating
  <2>6. CASE pc[Supervisor] = "save"
    <3>1. \A p \in Process : pc[p] \notin Unmirrored
      BY <2>2, <2>6 DEF Holding, Unmirrored, Evaluating
    <3>2. file.until <= work.until
      BY <2>6 DEF PauseKept
    <3>3. marker.kind = "valid" /\ ~torn => marker.until <= work.until
      BY <1>2, <3>1, <3>2 DEF PauseKept
    <3> QED
      BY <1>1, <2>1, <2>3, <2>4, <3>3 DEF PauseKept, Holding, Evaluating
  <2> QED
    BY <1>7, <2>5, <2>6 DEF Save
<1>8. CASE StartCooldown
  <2>1. UNCHANGED <<marker, pc, work, torn>> /\ lock = NoOne
    BY <1>8 DEF StartCooldown, LockFree, historyVars
  <2>2. \A p \in Process : pc[p] \notin Holding
    BY <2>1, <1>free
  <2>3. file'.kind = "state" /\ file'.until \in Int /\ file.until <= file'.until
    BY <1>1, <1>2, <1>3, <1>8 DEF StartCooldown, Extended, Larger, RState, Typed
  <2> QED
    BY <1>1, <1>2, <2>1, <2>2, <2>3 DEF PauseKept, Holding, Evaluating, Unmirrored
<1>same. ASSUME UNCHANGED <<file, work, marker, torn>>,
                \A p \in Process : pc'[p] = pc[p] \/ (pc[p] \notin Unmirrored
                                                      /\ pc'[p] \notin Evaluating \cup {"clear"})
         PROVE PauseKept'
  BY <1>1, <1>same DEF PauseKept, Evaluating, Unmirrored
<1>9. ASSUME NEW p \in Worker \cup {Supervisor}, NEW r \in Reason, Report(p, r) PROVE PauseKept'
  BY <1>1, <1>2, <1>9, <1>same
  DEF Report, Continue, Idle, fileVars, historyVars, Unmirrored, Evaluating
<1>10. ASSUME NEW r \in Reason, ReportAgain(r) PROVE PauseKept'
  BY <1>1, <1>2, <1>10, <1>same
  DEF ReportAgain, Continue, Idle, fileVars, historyVars, Unmirrored, Evaluating
<1>11. ASSUME NEW p \in Worker \cup {Supervisor}, Mark(p) PROVE PauseKept'
  <2>1. /\ pc' = [pc EXCEPT ![p] = "mirror"] /\ lock = NoOne /\ UNCHANGED <<file, work>>
    BY <1>11 DEF Mark, Take, LockFree
  <2>2. p \in Process /\ \A q \in Process : pc[q] \notin Holding
    BY <1>1, <2>1, <1>free
  <2>3. pc'[p] = "mirror" /\ \A q \in Process : q # p => pc'[q] = pc[q]
    BY <1>2, <2>1, <2>2
  <2> QED
    BY <1>1, <2>1, <2>2, <2>3 DEF PauseKept, Holding, Evaluating, Unmirrored
<1>12. ASSUME NEW p \in Worker \cup {Supervisor}, Mirror(p) PROVE PauseKept'
  <2>1. p \in Process /\ \A q \in Process : q # p => pc[q] \notin Holding
    BY <1>1, <1>12, <1>free DEF Mirror, LockFree, ControlInv, LockHeld, Holding
  <2>2. pc' = [pc EXCEPT ![p] = "idle"] /\ UNCHANGED marker
    BY <1>12 DEF Mirror, Release, Forget
  <2>3. \A q \in Process : pc'[q] \notin Holding
    BY <1>2, <2>1, <2>2 DEF Holding, Evaluating
  <2>4. CASE marker.kind = "valid"
    <3>1. file'.kind = "state" /\ file'.until = marker.until
      BY <1>2, <1>3, <1>12, <2>4 DEF Mirror, Mirrored, RState
    <3> QED
      BY <1>1, <1>2, <2>2, <2>3, <3>1 DEF PauseKept, Holding, Evaluating
  <2>5. CASE marker.kind # "valid"
    BY <1>1, <1>12, <2>2, <2>3, <2>5 DEF PauseKept, Holding, Evaluating, Mirror
  <2> QED BY <2>4, <2>5
<1>13. ASSUME NEW o \in Operator, NEW force \in BOOLEAN, Reset(o, force) PROVE PauseKept'
  <2>1. /\ pc' = [pc EXCEPT ![o] = "clear"] /\ lock = NoOne /\ UNCHANGED file
        /\ marker'.kind = "none" /\ work' = [LoadQuiet EXCEPT !.halted = FALSE, !.until = 0]
    BY <1>13 DEF Reset, Take, LockFree, NoMarker
  <2>2. \A q \in Process : pc[q] \notin Holding
    BY <2>1, <1>free
  <2>3. pc'[Supervisor] = pc[Supervisor]
    BY <1>1, <1>2, <2>1
  <2>4. work'.kind = "state"
    BY <1>3, <2>1 DEF RState
  <2> QED
    BY <1>1, <2>1, <2>2, <2>3, <2>4 DEF PauseKept, Holding, Evaluating
<1>14. ASSUME NEW o \in Operator, Clear(o) PROVE PauseKept'
  <2>1. pc' = [pc EXCEPT ![o] = "idle"] /\ file' = work /\ UNCHANGED marker
    BY <1>14 DEF Clear, Release, Forget
  <2>2. o \in Process /\ \A q \in Process : q # o => pc[q] \notin Holding
    BY <1>1, <1>14 DEF Clear, ControlInv, LockHeld, Holding
  <2>3. \A q \in Process : pc'[q] \notin Holding
    BY <1>2, <2>1, <2>2 DEF Holding, Evaluating
  <2>4. work.kind = "state" /\ marker.kind = "none"
    BY <1>14, <2>2 DEF Clear, PauseKept, ControlInv, OperatorSees
  <2> QED
    BY <1>1, <2>1, <2>3, <2>4 DEF PauseKept, Holding, Evaluating
<1>15. ASSUME NEW o \in Operator, Guard(o) PROVE PauseKept'
  <2>1. /\ pc' = [pc EXCEPT ![o] = "guarded"] /\ lock = NoOne /\ UNCHANGED <<marker, work>>
        /\ marker.kind = "valid" /\ file' = Mirrored(marker)
    BY <1>15 DEF Guard, Take, LockFree, Confirmed
  <2>2. \A q \in Process : pc[q] \notin Holding
    BY <2>1, <1>free
  <2>3. \A q \in Process : pc'[q] \notin Evaluating \cup {"clear"}
    BY <1>2, <2>1, <2>2 DEF Holding, Evaluating
  <2>4. file'.kind = "state" /\ file'.until = marker.until
    BY <1>2, <1>3, <2>1 DEF Mirrored, RState
  <2> QED
    BY <1>1, <1>2, <2>1, <2>3, <2>4 DEF PauseKept, Evaluating
<1>16. ASSUME NEW o \in Operator, Activate(o) PROVE PauseKept'
  <2>1. /\ pc' = [pc EXCEPT ![o] = "idle"] /\ UNCHANGED <<file, marker, torn>>
    BY <1>16 DEF Activate, Release, Forget, fileVars, historyVars
  <2>2. o \in Process /\ \A q \in Process : q # o => pc[q] \notin Holding
    BY <1>1, <1>16 DEF Activate, ControlInv, LockHeld, Holding
  <2>3. \A q \in Process : pc'[q] \notin Holding
    BY <1>2, <2>1, <2>2 DEF Holding, Evaluating
  <2>4. \A q \in Process : pc[q] \notin Unmirrored
    BY <1>16, <2>2 DEF Activate, Holding, Evaluating, Unmirrored
  <2> QED
    BY <1>1, <2>1, <2>3, <2>4 DEF PauseKept, Holding, Evaluating
<1>17. ASSUME NEW p \in Process, Crash(p) PROVE PauseKept'
  <2>1. /\ pc' = [pc EXCEPT ![p] = "idle"] /\ UNCHANGED <<file, marker>>
        /\ torn' = (torn \/ pc[p] \in Unmirrored)
    BY <1>17 DEF Crash, Forget, fileVars, Unmirrored
  <2>2. \A q \in Process : q # p => pc'[q] = pc[q]
    BY <1>2, <2>1
  <2>3. pc'[p] = "idle"
    BY <1>2, <2>1
  <2>4. (\A q \in Process : pc'[q] \notin Unmirrored) /\ ~torn'
            => ~torn /\ \A q \in Process : pc[q] \notin Unmirrored
    BY <2>1, <2>2
  <2>5. CASE lock = p
    <3>1. \A q \in Process : pc'[q] \notin Holding
      BY <1>1, <2>2, <2>3, <2>5 DEF ControlInv, LockHeld, Holding, Evaluating
    <3> QED
      BY <1>1, <2>1, <2>4, <3>1 DEF PauseKept, Holding, Evaluating
  <2>6. CASE lock # p
    <3>1. UNCHANGED work
      BY <1>17, <2>6 DEF Crash
    <3> QED
      BY <1>1, <2>1, <2>2, <2>3, <2>4, <3>1 DEF PauseKept, Evaluating, Unmirrored
  <2> QED BY <2>5, <2>6
<1>18. CASE Damage
  <2>1. UNCHANGED <<file, pc, work>> /\ marker'.kind = "corrupt"
    BY <1>18 DEF Damage, NoMarker
  <2> QED BY <2>1 DEF PauseKept
<1>19. CASE Tick
  BY <1>19, <1>same DEF Tick, fileVars, historyVars
<1>20. CASE UNCHANGED vars
  BY <1>20, <1>same DEF vars, fileVars, historyVars
<1> QED
  BY <1>4, <1>5, <1>6, <1>7, <1>8, <1>9, <1>10, <1>11, <1>12, <1>13, <1>14, <1>15,
     <1>16, <1>17, <1>18, <1>19, <1>20
  DEF Next, SupervisorStep, ReportStep, OperatorStep

(* An unforced reset finds the pause of every marker that was mirrored.     *)
THEOREM PauseHolds == Spec => ResetWaits
<1>1. Init => ControlInv /\ PauseKept
  BY ControlInit, PauseInit
<1>2. ControlInv /\ PauseKept /\ [Next]_vars => (ControlInv /\ PauseKept)'
  BY ControlStep, PauseStep
<1>3. ASSUME ControlInv, PauseKept, NEW o \in Operator, Reset(o, FALSE), ~torn,
             marker.kind = "valid"
      PROVE marker.until <= now
  <2>1. lock = NoOne /\ LoadQuiet.until <= now
    BY <1>3 DEF Reset, LockFree, CooldownOver
  <2>2. \A p \in Process : pc[p] \notin Unmirrored
    BY <1>3, <2>1, ControlAssumption
    DEF ControlInv, LockHeld, Unmirrored, Holding, Evaluating, ControlAssumption
  <2>3. marker.until <= file.until
    BY <1>3, <2>2 DEF PauseKept
  <2>4. LoadQuiet.until \in Int /\ file.until <= LoadQuiet.until
    BY <1>3, LoadKeepsPause DEF ControlInv, PauseKept
  <2> QED
    BY <1>3, <2>1, <2>3, <2>4 DEF ControlInv, Typed, RState
<1>4. ControlInv /\ PauseKept =>
        [\A o \in Operator : /\ Reset(o, FALSE) /\ ~torn /\ marker.kind = "valid"
                             => marker.until <= now]_vars
  BY <1>3
<1> QED
  BY <1>1, <1>2, <1>4, PTL DEF Spec, ResetWaits

---------------------------------------------------------------------------
(* An equity does not breach a limit against itself. *)
LEMMA NoLossAtBase ==
    ASSUME NEW l \in Nat
    PROVE ~Breach(l, l, l)
<1>1. /\ MaxLoss \in Nat /\ MaxLoss > 0
      /\ StartPct \in Nat /\ StartPct > 0 /\ PeakPct \in Nat /\ PeakPct > 0
  BY ControlAssumption DEF ControlAssumption
<1>2. Loss(l, l) = 0
  BY DEF Loss
<1>3. ASSUME NEW c \in Nat, c > 0, l > 0
      PROVE c * l > 0
  BY <1>3
<1>4. Loss(l, l) * 100 = 0
  BY <1>2
<1>5. l > 0 => ~(Loss(l, l) * 100 >= StartPct * l) /\ ~(Loss(l, l) * 100 >= PeakPct * l)
  <2>1. l > 0 => StartPct * l > 0 /\ PeakPct * l > 0
    BY <1>1, <1>3
  <2>2. StartPct * l \in Int /\ PeakPct * l \in Int
    BY <1>1
  <2> QED BY <1>4, <2>1, <2>2
<1>6. ~(Loss(l, l) >= MaxLoss)
  BY <1>1, <1>2
<1> QED
  BY <1>5, <1>6 DEF Breach

(* Loading and mirroring keep the baselines; measuring grows them. *)
LEMMA LoadKeepsBase ==
    ASSUME Typed, BaseKept
    PROVE /\ Based(LoadQuiet) /\ Based(Mirrored(marker))
          /\ \A e \in Equity : Grown(Measured(e)) /\ Measured(e).last = e
<1>1. /\ Equity \subseteq Nat
      /\ opening.first \in Int /\ opening.peak \in Int /\ opening.day \in Int
  BY ControlAssumption DEF ControlAssumption, BaseKept
<1>2. Read(0) \in RState /\ Based(Read(0))
  <2>1. Read(0) \in RState
    BY LoadedFields
  <2>2. CASE file.kind = "missing"
    <3>1. Fresh(0).start = 0 /\ ~(opening.first > 0)
      BY <2>2 DEF Fresh, BaseKept, Based, SameBase
    <3> QED BY <2>1, <2>2, <3>1 DEF Read, Based
  <2>3. CASE file.kind # "missing"
    BY <2>1, <2>3 DEF Read, BaseKept
  <2> QED BY <2>2, <2>3
<1>3. ASSUME NEW st \in RState, NEW st2 \in RState, Based(st),
             st2.kind = st.kind, st2.day = st.day, st2.start = st.start, st2.peak = st.peak
      PROVE Based(st2)
  BY <1>3 DEF Based, SameBase
<1>4. Based(LoadQuiet)
  <2>1. /\ LoadQuiet.kind = Read(0).kind /\ LoadQuiet.day = Read(0).day
        /\ LoadQuiet.start = Read(0).start /\ LoadQuiet.peak = Read(0).peak
    BY <1>2 DEF LoadQuiet, UnderMarker, RState
  <2> QED BY <1>2, <1>3, <2>1, QuietLoad
<1>5. Based(Mirrored(marker))
  <2>1. /\ Mirrored(marker).kind = Read(0).kind /\ Mirrored(marker).day = Read(0).day
        /\ Mirrored(marker).start = Read(0).start /\ Mirrored(marker).peak = Read(0).peak
    BY <1>2 DEF Mirrored, RState
  <2> QED BY <1>2, <1>3, <2>1, QuietLoad
<1>6. ASSUME NEW e \in Equity PROVE Grown(Measured(e)) /\ Measured(e).last = e
  <2>1. e \in Nat
    BY <1>1
  <2> DEFINE m == Measured(e)
  <2>2. /\ m.last = e /\ m.day = Day(now)
        /\ Load(e).start = 0 => m.start = e /\ m.peak = e
        /\ Load(e).start # 0 => m.start = Load(e).start /\ m.peak = Larger(Load(e).peak, e)
    BY MeasuredFields
  <2>3. /\ Read(e).day = Day(now) => /\ Load(e).start = Read(e).start
                                      /\ Load(e).peak = Read(e).peak
        /\ Read(e).day # Day(now) => Load(e).start = e /\ Load(e).peak = e
    BY <2>1, LoadedFields
  <2>4. Load(e).start = e /\ Load(e).peak = e => m.start = e /\ m.peak = e
    BY <2>1, <2>2 DEF Larger
  <2> HIDE DEF m
  <2>5. CASE opening.first > 0 /\ opening.day = Day(now)
    <3>1. Read(e) = file /\ SameBase(file)
      BY <2>5 DEF Read, BaseKept, Based, SameBase
    <3>2. Load(e).start = opening.first /\ Load(e).peak = opening.peak
      BY <2>3, <2>5, <3>1 DEF SameBase
    <3> QED
      BY <1>1, <2>2, <2>5, <3>2 DEF Grown, m
  <2>6. CASE ~(opening.first > 0 /\ opening.day = Day(now))
    <3>1. CASE opening.first > 0
      <4>1. Read(e).day # Day(now)
        BY <2>6, <3>1 DEF Read, BaseKept, Based, SameBase
      <4> QED BY <2>2, <2>3, <2>4, <2>6, <4>1 DEF Grown, m
    <3>2. CASE ~(opening.first > 0)
      <4>1. CASE file.kind = "missing"
        <5>1. Load(e).start = e /\ Load(e).peak = e
          BY <2>3, <4>1 DEF Read, Fresh
        <5> QED BY <2>2, <2>4, <2>6, <5>1 DEF Grown, m
      <4>2. CASE file.kind # "missing"
        <5>1. Read(e).start = 0
          BY <3>2, <4>2 DEF Read, BaseKept, Based
        <5> QED BY <2>2, <2>3, <2>4, <2>6, <5>1 DEF Grown, m
      <4> QED BY <4>1, <4>2
    <3> QED BY <3>1, <3>2
  <2> QED BY <2>2, <2>5, <2>6 DEF m
<1> QED
  BY <1>4, <1>5, <1>6

(* Every write of the state keeps the baselines of the day. *)
LEMMA BaseStep == ControlInv /\ PauseKept /\ BaseKept /\ [Next]_vars => BaseKept'
<1> SUFFICES ASSUME ControlInv, PauseKept, BaseKept, [Next]_vars PROVE BaseKept'
  OBVIOUS
<1>1. /\ Supervisor \in Process /\ NoOne \notin Process
      /\ Operator \subseteq Process /\ Worker \subseteq Process
      /\ Supervisor \notin Operator /\ Worker \cap Operator = {}
      /\ Equity \subseteq Nat
  BY ControlAssumption DEF ControlAssumption, Process
<1>2. pc \in [Process -> Label] /\ Typed
  BY DEF ControlInv, LockHeld
<1>3. /\ LoadQuiet \in RState /\ Mirrored(marker) \in RState
      /\ Based(LoadQuiet) /\ Based(Mirrored(marker))
  BY <1>2, QuietLoad, LoadKeepsBase
<1>free. ASSUME lock = NoOne
         PROVE \A p \in Process : pc[p] \notin Holding
  BY <1>1, <1>free DEF ControlInv, LockHeld
<1>file. ASSUME Based(file)', UNCHANGED opening,
                \A p \in Process : pc'[p] \notin Evaluating \cup {"clear"}
         PROVE BaseKept'
  BY <1>1, <1>file DEF BaseKept
<1>same. ASSUME UNCHANGED <<file, work, opening>>,
                \A p \in Process : pc'[p] = pc[p] \/ pc'[p] \notin Evaluating \cup {"clear"}
         PROVE BaseKept'
  BY <1>1, <1>same DEF BaseKept, Based, SameBase, Grown, Judged, Breach, Loss
<1>4. ASSUME NEW e \in Equity, Evaluate(e) PROVE BaseKept'
  <2> DEFINE st == Measured(e)
  <2>1. st \in RState /\ Grown(st) /\ st.last = e
    BY <1>2, LoadKeepsHalt, LoadKeepsBase
  <2> HIDE DEF st
  <2>2. /\ UNCHANGED <<file, opening>> /\ lock = NoOne
        /\ \/ work' = [st EXCEPT !.halted = TRUE, !.until = Extended(@, now)]
           \/ work' = st /\ (Breach(st.start, st.peak, e) => st.halted)
    BY <1>4 DEF Evaluate, st, fileVars, historyVars, LockFree
  <2>3. work'.day = st.day /\ work'.start = st.start /\ work'.peak = st.peak /\ work'.last = e
    BY <2>1, <2>2 DEF RState
  <2>4. Breach(work'.start, work'.peak, work'.last) => work'.halted
    <3>1. CASE work' = [st EXCEPT !.halted = TRUE, !.until = Extended(@, now)]
      BY <2>1, <3>1 DEF RState
    <3>2. CASE work' = st /\ (Breach(st.start, st.peak, e) => st.halted)
      BY <2>1, <3>2
    <3> QED BY <2>2, <3>1, <3>2
  <2>5. Grown(work)'
    BY <2>1, <2>2, <2>3 DEF Grown
  <2>6. Judged(work)'
    BY <1>1, <2>3, <2>4 DEF Judged, Breach, Loss
  <2>7. \A o \in Operator : pc'[o] # "clear"
    BY <1>1, <1>2, <1>4, <1>free, <2>2 DEF Evaluate, Take, Holding
  <2>8. Based(file)'
    BY <2>2 DEF BaseKept, Based, SameBase
  <2> QED
    BY <2>2, <2>5, <2>6, <2>7, <2>8 DEF BaseKept
<1>5. CASE Trip
  <2>1. UNCHANGED <<file, work, opening>> /\ pc' = [pc EXCEPT ![Supervisor] = "alert"]
    BY <1>5 DEF Trip, Continue, historyVars
  <2>2. pc[Supervisor] \in Evaluating /\ \A o \in Operator : pc'[o] = pc[o]
    BY <1>1, <1>2, <1>5, <2>1 DEF Trip, Evaluating
  <2> QED
    BY <1>1, <2>1, <2>2 DEF BaseKept, Based, SameBase, Grown, Judged, Breach, Loss
<1>6. CASE AlertFails
  <2>1. UNCHANGED <<file, opening>> /\ pc' = [pc EXCEPT ![Supervisor] = "idle"]
    BY <1>6 DEF AlertFails, Release, Forget, fileVars
  <2>2. \A p \in Process : pc'[p] \notin Evaluating \cup {"clear"}
    BY <1>1, <1>2, <1>6, <2>1 DEF AlertFails, ControlInv, LockHeld, Holding, Evaluating
  <2>3. Based(file)'
    BY <2>1 DEF BaseKept, Based, SameBase
  <2> QED BY <1>file, <2>1, <2>2, <2>3
<1>7. CASE Save
  <2>1. /\ pc' = [pc EXCEPT ![Supervisor] = "idle"] /\ file' = work
        /\ pc[Supervisor] \in Evaluating
        /\ opening' = IF opening.day = work.day /\ opening.first > 0
                      THEN [opening EXCEPT !.peak = Larger(@, work.last)]
                      ELSE [day |-> work.day, first |-> work.last, peak |-> work.last]
    BY <1>7 DEF Save, Release, Forget, Evaluating
  <2>2. \A p \in Process : pc'[p] \notin Evaluating \cup {"clear"}
    BY <1>1, <1>2, <1>7, <2>1 DEF Save, ControlInv, LockHeld, Holding, Evaluating
  <2>3. work \in RState /\ work.kind = "state" /\ Grown(work) /\ Judged(work)
        /\ work.last \in Nat /\ work.day \in Int
    BY <1>1, <1>2, <2>1 DEF PauseKept, BaseKept, Judged, Typed, RState
  <2>4. opening \in [day : Int, first : Int, peak : Int]
    BY DEF BaseKept
  <2>5. CASE opening.day = work.day /\ opening.first > 0
    <3>1. /\ opening'.day = opening.day /\ opening'.first = opening.first
          /\ opening'.peak = Larger(opening.peak, work.last)
          /\ opening' \in [day : Int, first : Int, peak : Int]
      BY <2>1, <2>3, <2>4, <2>5 DEF Larger
    <3>2. Based(file)'
      BY <2>1, <2>3, <2>5, <3>1 DEF Based, SameBase, Grown
    <3> QED BY <1>1, <2>2, <3>1, <3>2 DEF BaseKept
  <2>6. CASE ~(opening.day = work.day /\ opening.first > 0)
    <3>1. opening' = [day |-> work.day, first |-> work.last, peak |-> work.last]
      BY <2>1, <2>6
    <3>2. work.start = work.last /\ work.peak = work.last
      BY <2>3, <2>6 DEF Grown
    <3>3. Based(file)'
      BY <2>1, <2>3, <3>1, <3>2 DEF Based, SameBase
    <3>4. opening' \in [day : Int, first : Int, peak : Int]
      BY <2>3, <3>1
    <3> QED BY <1>1, <2>2, <3>3, <3>4 DEF BaseKept
  <2> QED BY <2>5, <2>6
<1>8. CASE StartCooldown
  <2>1. UNCHANGED <<pc, opening>> /\ lock = NoOne
        /\ file' = [LoadQuiet EXCEPT !.until = Extended(@, now)]
    BY <1>8 DEF StartCooldown, LockFree, historyVars
  <2>2. /\ file'.kind = LoadQuiet.kind /\ file'.day = LoadQuiet.day
        /\ file'.start = LoadQuiet.start /\ file'.peak = LoadQuiet.peak
    BY <1>3, <2>1 DEF RState
  <2>3. Based(file)'
    BY <1>3, <2>1, <2>2 DEF Based, SameBase
  <2> QED BY <1>file, <1>free, <2>1, <2>3 DEF Holding
<1>9. ASSUME NEW p \in Worker \cup {Supervisor}, NEW r \in Reason, Report(p, r) PROVE BaseKept'
  BY <1>1, <1>2, <1>9, <1>same DEF Report, Continue, fileVars, historyVars, Evaluating
<1>10. ASSUME NEW r \in Reason, ReportAgain(r) PROVE BaseKept'
  BY <1>1, <1>2, <1>10, <1>same DEF ReportAgain, Continue, fileVars, historyVars, Evaluating
<1>11. ASSUME NEW p \in Worker \cup {Supervisor}, Mark(p) PROVE BaseKept'
  BY <1>1, <1>2, <1>11, <1>same DEF Mark, Take, historyVars, Evaluating
<1>12. ASSUME NEW p \in Worker \cup {Supervisor}, Mirror(p) PROVE BaseKept'
  <2>1. p \in Process /\ \A q \in Process : q # p => pc[q] \notin Holding
    BY <1>1, <1>12, <1>free DEF Mirror, LockFree, ControlInv, LockHeld, Holding
  <2>2. /\ pc' = [pc EXCEPT ![p] = "idle"] /\ UNCHANGED opening
        /\ file' = Mirrored(marker) \/ file' = file
    BY <1>12 DEF Mirror, Release, Forget
  <2>3. \A q \in Process : pc'[q] \notin Evaluating \cup {"clear"}
    BY <1>2, <2>1, <2>2 DEF Holding, Evaluating
  <2>4. Based(file)'
    BY <1>3, <2>2 DEF BaseKept, Based, SameBase
  <2> QED BY <1>file, <2>2, <2>3, <2>4
<1>13. ASSUME NEW o \in Operator, NEW force \in BOOLEAN, Reset(o, force) PROVE BaseKept'
  <2>1. /\ pc' = [pc EXCEPT ![o] = "clear"] /\ lock = NoOne /\ UNCHANGED <<file, opening>>
        /\ work' = [LoadQuiet EXCEPT !.halted = FALSE, !.until = 0]
    BY <1>13 DEF Reset, Take, LockFree
  <2>2. pc'[Supervisor] \notin Evaluating
    BY <1>1, <1>2, <1>free, <2>1 DEF Holding
  <2>3. /\ work'.kind = LoadQuiet.kind /\ work'.day = LoadQuiet.day
        /\ work'.start = LoadQuiet.start /\ work'.peak = LoadQuiet.peak
    BY <1>3, <2>1 DEF RState
  <2>4. Based(work)' /\ Based(file)'
    BY <1>3, <2>1, <2>3 DEF BaseKept, Based, SameBase
  <2> QED BY <2>1, <2>2, <2>4 DEF BaseKept
<1>14. ASSUME NEW o \in Operator, Clear(o) PROVE BaseKept'
  <2>1. pc' = [pc EXCEPT ![o] = "idle"] /\ file' = work /\ UNCHANGED opening
    BY <1>14 DEF Clear, Release, Forget, historyVars
  <2>2. o \in Process /\ \A q \in Process : q # o => pc[q] \notin Holding
    BY <1>1, <1>14 DEF Clear, ControlInv, LockHeld, Holding
  <2>3. \A q \in Process : pc'[q] \notin Evaluating \cup {"clear"}
    BY <1>2, <2>1, <2>2 DEF Holding, Evaluating
  <2>4. Based(file)'
    BY <1>14, <2>1 DEF Clear, BaseKept, Based, SameBase
  <2> QED BY <1>file, <2>1, <2>3, <2>4
<1>15. ASSUME NEW o \in Operator, Guard(o) PROVE BaseKept'
  <2>1. /\ pc' = [pc EXCEPT ![o] = "guarded"] /\ lock = NoOne /\ UNCHANGED opening
        /\ file' = Mirrored(marker)
    BY <1>15 DEF Guard, Take, LockFree
  <2>2. \A q \in Process : pc'[q] \notin Evaluating \cup {"clear"}
    BY <1>2, <1>free, <2>1 DEF Holding, Evaluating
  <2>3. Based(file)'
    BY <1>3, <2>1 DEF Based, SameBase
  <2> QED BY <1>file, <2>1, <2>2, <2>3
<1>16. ASSUME NEW o \in Operator, Activate(o) PROVE BaseKept'
  <2>1. /\ pc' = [pc EXCEPT ![o] = "idle"] /\ UNCHANGED <<file, opening>>
    BY <1>16 DEF Activate, Release, Forget, fileVars, historyVars
  <2>2. o \in Process /\ \A q \in Process : q # o => pc[q] \notin Holding
    BY <1>1, <1>16 DEF Activate, ControlInv, LockHeld, Holding
  <2>3. \A q \in Process : pc'[q] \notin Evaluating \cup {"clear"}
    BY <1>2, <2>1, <2>2 DEF Holding, Evaluating
  <2>4. Based(file)'
    BY <2>1 DEF BaseKept, Based, SameBase
  <2> QED BY <1>file, <2>1, <2>3, <2>4
<1>17. ASSUME NEW p \in Process, Crash(p) PROVE BaseKept'
  <2>1. /\ pc' = [pc EXCEPT ![p] = "idle"] /\ UNCHANGED <<file, opening>>
    BY <1>17 DEF Crash, Forget, fileVars
  <2>2. \A q \in Process : q # p => pc'[q] = pc[q]
    BY <1>2, <2>1
  <2>3. pc'[p] = "idle"
    BY <1>2, <2>1
  <2>4. CASE lock = p
    <3>1. \A q \in Process : pc'[q] \notin Evaluating \cup {"clear"}
      BY <1>1, <2>2, <2>3, <2>4 DEF ControlInv, LockHeld, Holding, Evaluating
    <3>2. Based(file)'
      BY <2>1 DEF BaseKept, Based, SameBase
    <3> QED BY <1>file, <2>1, <3>1, <3>2
  <2>5. CASE lock # p
    <3>1. UNCHANGED work
      BY <1>17, <2>5 DEF Crash
    <3> QED BY <1>same, <2>1, <2>2, <2>3, <3>1 DEF Evaluating
  <2> QED BY <2>4, <2>5
<1>18. CASE Damage
  BY <1>18, <1>same DEF Damage, historyVars
<1>19. CASE Tick
  BY <1>19, <1>same DEF Tick, fileVars, historyVars
<1>20. CASE UNCHANGED vars
  BY <1>20, <1>same DEF vars, fileVars, historyVars
<1> QED
  BY <1>4, <1>5, <1>6, <1>7, <1>8, <1>9, <1>10, <1>11, <1>12, <1>13, <1>14, <1>15,
     <1>16, <1>17, <1>18, <1>19, <1>20
  DEF Next, SupervisorStep, ReportStep, OperatorStep

(* A decision on a breaching equity is a HALT, whatever came in between.    *)
THEOREM LossHolds == Spec => []LossIsHalted
<1>1. Init => ControlInv /\ PauseKept /\ BaseKept /\ LossIsHalted
  <2> SUFFICES ASSUME Init PROVE BaseKept /\ LossIsHalted
    BY ControlInit, PauseInit
  <2>1. Supervisor \in Process /\ Operator \subseteq Process
    BY DEF Process
  <2>2. opening = [day |-> 0, first |-> 0, peak |-> 0] /\ verdict.equity = 0
    BY DEF Init
  <2>3. BaseKept
    BY <2>1, <2>2 DEF Init, BaseKept, Based, Missing, Evaluating
  <2>4. ~Breach(opening.first, opening.peak, verdict.equity)
    BY <2>2, NoLossAtBase
  <2> QED BY <2>3, <2>4 DEF LossIsHalted
<1>2. ControlInv /\ PauseKept /\ BaseKept /\ LossIsHalted /\ [Next]_vars
        => (ControlInv /\ PauseKept /\ BaseKept /\ LossIsHalted)'
  <2> SUFFICES ASSUME ControlInv, PauseKept, BaseKept, LossIsHalted, [Next]_vars
               PROVE LossIsHalted'
    BY ControlStep, PauseStep, BaseStep
  <2>1. CASE UNCHANGED <<verdict, opening>>
    BY <2>1 DEF LossIsHalted, Breach, Loss
  <2>2. CASE Save
    <3>1. PICK limited \in BOOLEAN :
             verdict' = [day |-> work.day, equity |-> work.last, halted |-> work.halted,
                         blocked |-> work.halted \/ limited \/ work.until > now]
      BY <2>2 DEF Save
    <3>2. verdict'.equity = work.last /\ verdict'.halted = work.halted
      BY <3>1
    <3>3. opening' = IF opening.day = work.day /\ opening.first > 0
                     THEN [opening EXCEPT !.peak = Larger(@, work.last)]
                     ELSE [day |-> work.day, first |-> work.last, peak |-> work.last]
      BY <2>2 DEF Save
    <3>4. Grown(work) /\ Judged(work) /\ opening \in [day : Int, first : Int, peak : Int]
      BY <2>2 DEF Save, BaseKept, Evaluating
    <3>5. CASE opening.day = work.day /\ opening.first > 0
      <4>1. opening'.first = work.start /\ opening'.peak = work.peak
        BY <3>3, <3>4, <3>5 DEF Grown
      <4>2. Breach(opening'.first, opening'.peak, verdict'.equity) => verdict'.halted
        BY <3>2, <3>4, <4>1 DEF Judged
      <4> QED BY <4>2 DEF LossIsHalted, Breach, Loss
    <3>6. CASE ~(opening.day = work.day /\ opening.first > 0)
      <4>1. opening'.first = work.last /\ opening'.peak = work.last
        BY <3>3, <3>6
      <4>2. ~Breach(opening'.first, opening'.peak, verdict'.equity)
        BY <3>2, <3>4, <4>1, NoLossAtBase DEF Judged
      <4> QED BY <4>2 DEF LossIsHalted, Breach, Loss
    <3> QED BY <3>5, <3>6
  <2>3. Save \/ UNCHANGED <<verdict, opening>>
    BY DEF Next, SupervisorStep, ReportStep, OperatorStep, Evaluate, Trip, AlertFails,
       StartCooldown, ReportAgain, Report, Mark, Mirror, Reset, Clear, Guard, Activate,
       Crash, Damage, Tick, historyVars, vars
  <2> QED BY <2>1, <2>2, <2>3
<1> QED
  BY <1>1, <1>2, PTL DEF Spec

---------------------------------------------------------------------------
(* Types *)

(* The day of a clock reading stays within the bound on time.             *)
LEMMA DayInRange ==
    ASSUME now \in 0..MaxTime
    PROVE Day(now) \in 0..MaxTime
<1>1. MaxTime \in Nat /\ DayLength \in Nat /\ DayLength > 0 /\ now \in Nat /\ now <= MaxTime
  BY ControlAssumption DEF ControlAssumption
<1>2. ASSUME NEW d \in Nat, d > 0, NEW t \in Nat
      PROVE t \div d \in Nat /\ t \div d <= t
  <2>1. t \div d \in Int /\ d * (t \div d) <= t /\ t < d * (t \div d) + d
    BY <1>2
  <2> DEFINE q == t \div d
  <2> HIDE DEF q
  <2>2. q \in Int /\ d * q <= t /\ t < d * q + d
    BY <2>1 DEF q
  <2>3. q >= 0
    <3>1. CASE q <= -1
      <4>1. d * q <= -d
        BY <1>2, <2>2, <3>1
      <4> QED BY <1>2, <2>2, <4>1
    <3> QED BY <2>2, <3>1
  <2>4. q <= d * q
    BY <1>2, <2>2, <2>3
  <2> QED BY <1>2, <2>2, <2>3, <2>4 DEF q
<1> QED BY <1>1, <1>2 DEF Day

(* Loading, measuring and mirroring build complete payloads. *)
LEMMA PayloadsTyped ==
    ASSUME TypeOK
    PROVE /\ LoadQuiet \in StateOf
          /\ \A e \in Equity : Measured(e) \in StateOf
          /\ marker.kind = "valid" => Mirrored(marker) \in StateOf
<1>1. Day(now) \in 0..MaxTime
  BY DayInRange DEF TypeOK
<1>2. Equity \subseteq Nat /\ MaxTime \in Nat /\ Cooldown \in Nat
  BY ControlAssumption DEF ControlAssumption
<1>3. ASSUME NEW e \in Nat PROVE Read(e) \in StateOf
  <2>1. Fresh(e) \in StateOf
    BY <1>1, <1>2, <1>3 DEF Fresh, StateOf, Time
  <2> QED BY <2>1 DEF Read, TypeOK
<1>4. ASSUME NEW st \in StateOf
      PROVE UnderMarker(st) \in StateOf
  BY DEF UnderMarker, StateOf
<1>5. LoadQuiet \in StateOf
  BY <1>3, <1>4 DEF LoadQuiet
<1>6. ASSUME NEW e \in Equity PROVE Measured(e) \in StateOf
  <2>1. e \in Nat /\ Read(e) \in StateOf
    BY <1>2, <1>3
  <2>2. [Read(e) EXCEPT !.day = Day(now), !.start = e, !.peak = e, !.last = e] \in StateOf
    BY <1>1, <2>1 DEF StateOf
  <2>3. Load(e) \in StateOf
    BY <1>4, <2>1, <2>2 DEF Load
  <2> DEFINE st == Load(e)
             start == IF st.start = 0 THEN e ELSE st.start
             peak == Larger(IF st.start = 0 THEN e ELSE st.peak, e)
  <2>4. start \in Nat /\ peak \in Nat
    BY <2>1, <2>3 DEF Larger, StateOf
  <2>5. Measured(e) = [st EXCEPT !.start = start, !.peak = peak, !.last = e]
    BY DEF Measured
  <2>6. st \in StateOf
    BY <2>3
  <2> HIDE DEF st, start, peak
  <2> QED BY <2>1, <2>4, <2>5, <2>6 DEF StateOf
<1>7. marker.kind = "valid" => Mirrored(marker) \in StateOf
  <2>1. marker.until \in Time
    BY DEF TypeOK
  <2>2. Read(0) \in StateOf
    BY <1>3
  <2> QED BY <2>1, <2>2 DEF Mirrored, StateOf
<1> QED BY <1>5, <1>6, <1>7

(* Every step of a process, a crash or the clock keeps the types.         *)
LEMMA TypeStep == TypeOK /\ [Next]_vars => TypeOK'
<1> SUFFICES ASSUME TypeOK, [Next]_vars PROVE TypeOK'
  OBVIOUS
<1>1. /\ Supervisor \in Process /\ NoOne \notin Process
      /\ Operator \subseteq Process /\ Worker \subseteq Process
      /\ Cooldown \in Nat /\ MaxTime \in Nat /\ MaxFaults \in Nat
      /\ Equity \subseteq Nat
  BY ControlAssumption DEF ControlAssumption, Process
<1>2. Missing \in StateOf
  BY <1>1 DEF Missing, StateOf, Time
<1>3. LoadQuiet \in StateOf /\ (marker.kind = "valid" => Mirrored(marker) \in StateOf)
  BY PayloadsTyped
<1>4. ASSUME NEW until \in Time PROVE Extended(until, now) \in Time
  BY <1>1 DEF Extended, Larger, Time, TypeOK
<1> DEFINE Payload == [kind : {"none", "valid", "corrupt"}, reasons : SUBSET ReasonAll,
                       until : Time]
<1>5. NoMarker \in Payload /\ [NoMarker EXCEPT !.kind = "corrupt"] \in Payload
  BY <1>1 DEF NoMarker, Time
<1>6. ASSUME NEW rs \in SUBSET ReasonAll, NEW u \in Time
      PROVE Marker(rs, u) \in Payload
  BY DEF Marker
<1> HIDE DEF Payload
<1>7. marker \in Payload
  BY DEF TypeOK, Payload
<1>8. ASSUME NEW e \in Equity, Evaluate(e) PROVE TypeOK'
  <2> DEFINE st == Measured(e)
  <2>1. st \in StateOf
    BY PayloadsTyped
  <2> HIDE DEF st
  <2>2. Extended(st.until, now) \in Time
    BY <1>4, <2>1 DEF StateOf
  <2>3. work' \in StateOf
    <3>1. CASE work' = st
      BY <2>1, <3>1
    <3>2. CASE work' = [st EXCEPT !.halted = TRUE, !.until = Extended(@, now)]
      BY <2>1, <2>2, <3>2 DEF StateOf
    <3> QED BY <1>8, <3>1, <3>2 DEF Evaluate, st
  <2>4. /\ pc' = [pc EXCEPT ![Supervisor] = "trip"] \/ pc' = [pc EXCEPT ![Supervisor] = "save"]
        /\ lock' = Supervisor
        /\ UNCHANGED <<now, fileVars, reportVars, verdict, historyVars, faults>>
    BY <1>8 DEF Evaluate, Take
  <2> QED BY <1>1, <2>3, <2>4 DEF TypeOK, fileVars, reportVars, historyVars
<1>9. CASE Trip
  <2>1. marker' \in Payload
    BY <1>6, <1>9 DEF Trip, TypeOK, StateOf, ReasonAll
  <2> QED
    BY <1>1, <1>9, <2>1 DEF Trip, TypeOK, Continue, reportVars, historyVars, Payload
<1>release. ASSUME NEW p \in Process, Release(p),
                   UNCHANGED <<now, faults>>, marker' \in Payload, file' \in StateOf,
                   torn' \in BOOLEAN, UNCHANGED <<verdict, opening>>
            PROVE TypeOK'
  BY <1>1, <1>2, <1>release DEF Release, Forget, TypeOK, Payload, ReasonAll
<1>10. CASE AlertFails
  <2>1. UNCHANGED file
    BY <1>10 DEF AlertFails, fileVars
  <2> QED
    BY <1>1, <1>7, <1>10, <1>release, <2>1 DEF AlertFails, fileVars, TypeOK
<1>11. CASE Save
  <2>1. PICK limited \in BOOLEAN :
           verdict' = [day |-> work.day, equity |-> work.last, halted |-> work.halted,
                       blocked |-> work.halted \/ limited \/ work.until > now]
    BY <1>11 DEF Save
  <2>2. verdict' \in [day : 0..MaxTime, equity : Nat, halted : BOOLEAN, blocked : BOOLEAN]
    BY <2>1 DEF TypeOK, StateOf
  <2>3. opening' \in [day : 0..MaxTime, first : Nat, peak : Nat]
    <3>1. CASE opening' = [opening EXCEPT !.peak = Larger(@, work.last)]
      BY <3>1 DEF TypeOK, StateOf, Larger
    <3>2. CASE opening' = [day |-> work.day, first |-> work.last, peak |-> work.last]
      BY <3>2 DEF TypeOK, StateOf
    <3> QED BY <1>11, <3>1, <3>2 DEF Save
  <2>4. Release(Supervisor) /\ file' = work /\ UNCHANGED <<now, marker, torn, faults>>
    BY <1>11 DEF Save
  <2> QED
    BY <1>1, <1>2, <2>2, <2>3, <2>4 DEF Release, Forget, TypeOK, ReasonAll
<1>12. CASE StartCooldown
  <2>1. file' \in StateOf
    BY <1>3, <1>4, <1>12 DEF StartCooldown, StateOf
  <2> QED
    BY <1>12, <2>1 DEF StartCooldown, TypeOK, reportVars, historyVars
<1>13. ASSUME NEW p \in Worker \cup {Supervisor}, NEW r \in Reason, Report(p, r) PROVE TypeOK'
  BY <1>1, <1>13 DEF Report, Continue, TypeOK, fileVars, historyVars, ReasonAll
<1>14. ASSUME NEW r \in Reason, ReportAgain(r) PROVE TypeOK'
  BY <1>1, <1>14 DEF ReportAgain, Continue, TypeOK, fileVars, historyVars, ReasonAll
<1>15. ASSUME NEW p \in Worker \cup {Supervisor}, Mark(p) PROVE TypeOK'
  <2>1. p \in Process /\ why[p] \in ReasonAll /\ at[p] \in 0..MaxTime
    BY <1>1 DEF TypeOK
  <2>2. at[p] + Cooldown \in Time
    BY <1>1, <2>1 DEF Time
  <2>3. (IF marker.kind = "valid" THEN marker.reasons ELSE {}) \cup {why[p]} \in SUBSET ReasonAll
    BY <2>1 DEF TypeOK
  <2>4. marker' \in Payload
    BY <1>6, <1>15, <2>2, <2>3 DEF Mark
  <2> QED
    BY <1>15, <2>1, <2>4 DEF Mark, Take, TypeOK, Payload, reportVars, historyVars
<1>16. ASSUME NEW p \in Worker \cup {Supervisor}, Mirror(p) PROVE TypeOK'
  <2>1. file' \in StateOf /\ torn' \in BOOLEAN
    BY <1>3, <1>16 DEF Mirror, TypeOK
  <2> QED BY <1>1, <1>7, <1>16, <1>release, <2>1 DEF Mirror
<1>17. ASSUME NEW o \in Operator, NEW force \in BOOLEAN, Reset(o, force) PROVE TypeOK'
  <2>1. work' = [LoadQuiet EXCEPT !.halted = FALSE, !.until = 0]
    BY <1>17 DEF Reset
  <2>2. 0 \in Time
    BY <1>1 DEF Time
  <2>3. work' \in StateOf
    BY <1>3, <2>1, <2>2 DEF StateOf
  <2> QED
    BY <1>1, <1>5, <1>17, <2>3 DEF Reset, Take, TypeOK, Payload, reportVars
<1>18. ASSUME NEW o \in Operator, Clear(o) PROVE TypeOK'
  <2>1. o \in Process /\ file' \in StateOf /\ UNCHANGED <<torn, opening>>
    BY <1>1, <1>18 DEF Clear, TypeOK, historyVars
  <2> QED BY <1>7, <1>18, <1>release, <2>1 DEF Clear, TypeOK
<1>19. ASSUME NEW o \in Operator, Guard(o) PROVE TypeOK'
  <2>1. file' \in StateOf
    BY <1>3, <1>19 DEF Guard, Confirmed
  <2> QED
    BY <1>1, <1>19, <2>1 DEF Guard, Take, TypeOK, reportVars
<1>20. ASSUME NEW o \in Operator, Activate(o) PROVE TypeOK'
  <2>1. o \in Process /\ UNCHANGED <<file, marker, torn, opening>>
    BY <1>1, <1>20 DEF Activate, fileVars, historyVars
  <2> QED BY <1>7, <1>20, <1>release, <2>1 DEF Activate, TypeOK
<1>21. ASSUME NEW p \in Process, Crash(p) PROVE TypeOK'
  <2>1. /\ pc' = [pc EXCEPT ![p] = "idle"] /\ why' = [why EXCEPT ![p] = LossReason]
        /\ at' = [at EXCEPT ![p] = 0] /\ faults' = faults + 1 /\ faults < MaxFaults
        /\ UNCHANGED <<now, file, marker, verdict, opening>>
    BY <1>21 DEF Crash, Forget, fileVars
  <2>2. lock' \in Process \cup {NoOne} /\ work' \in StateOf
    BY <1>2, <1>21 DEF Crash, TypeOK
  <2>3. torn' \in BOOLEAN
    BY <1>21 DEF Crash, TypeOK
  <2> QED
    BY <1>1, <2>1, <2>2, <2>3 DEF TypeOK, ReasonAll
<1>22. CASE Damage
  BY <1>1, <1>5, <1>22 DEF Damage, TypeOK, Payload, reportVars, historyVars
<1>23. CASE Tick
  BY <1>1, <1>23 DEF Tick, TypeOK, fileVars, reportVars, historyVars
<1>24. CASE UNCHANGED vars
  BY <1>24 DEF vars, TypeOK, fileVars, reportVars, historyVars
<1> QED
  BY <1>8, <1>9, <1>10, <1>11, <1>12, <1>13, <1>14, <1>15, <1>16, <1>17, <1>18, <1>19,
     <1>20, <1>21, <1>22, <1>23, <1>24
  DEF Next, SupervisorStep, ReportStep, OperatorStep

(* The files hold complete payloads with pauses in range, for any bounds.   *)
THEOREM ControlTypeCorrect == Spec => []TypeOK
<1>1. Init => TypeOK
  <2> SUFFICES ASSUME Init PROVE TypeOK
    OBVIOUS
  <2>1. Cooldown \in Nat /\ MaxTime \in Nat /\ MaxFaults \in Nat /\ Cooldown \in Time /\ 0 \in Time
    BY ControlAssumption DEF ControlAssumption, Time
  <2>2. marker \in [kind : {"none", "valid", "corrupt"}, reasons : SUBSET ReasonAll,
                    until : Time]
    BY <2>1 DEF Init, NoMarker, Marker, ReasonAll
  <2>3. torn \in BOOLEAN
    BY DEF Init
  <2>4. Missing \in StateOf
    BY <2>1 DEF Missing, StateOf
  <2> QED
    BY <2>1, <2>2, <2>3, <2>4 DEF Init, TypeOK, ReasonAll
<1> QED
  BY <1>1, TypeStep, PTL DEF Spec
====================================================================================
