-------------------------------- MODULE RiskControl --------------------------------
(***************************************************************************)
(* The risk manager's control files and everyone who writes them.  The HALT *)
(* marker and the risk state are two files; each is replaced atomically,    *)
(* and one flock serialises the read-modify-write operations: evaluate and  *)
(* start_cooldown of the supervisor, create_manual_halt of the supervisor   *)
(* and the workers, reset and the guarded champion activation of the        *)
(* operator.  A process may die, or fail to append its alert, between its   *)
(* two writes.                                                              *)
(* Time passes between operations: one that holds the lock reads the clock  *)
(* once, so a tick under the lock would be seen by nobody.                  *)
(***************************************************************************)
EXTENDS Naturals, FiniteSets

CONSTANTS
    Supervisor,   \* the supervisor process
    Worker,       \* the executor workers
    Operator,     \* processes of the operator's commands
    NoOne,
    Reason,       \* reasons the programs report
    LossReason,   \* the reason of the equity limits
    Equity,       \* equities of the snapshots
    MaxLoss, StartPct, PeakPct,   \* the three equity limits
    Cooldown,     \* RISK_COOLDOWN_SEC
    DayLength,
    MaxTime,      \* bound on the clock
    MaxFaults     \* bound: crashes and damaged markers

Process == {Supervisor} \cup Worker \cup Operator

ASSUME ControlAssumption ==
    /\ NoOne \notin Process
    /\ Supervisor \notin Worker \cup Operator
    /\ Worker \cap Operator = {}
    /\ LossReason \notin Reason
    /\ Equity \subseteq Nat
    /\ MaxLoss \in Nat \ {0} /\ StartPct \in 1..99 /\ PeakPct \in 1..99
    /\ Cooldown \in Nat
    /\ DayLength \in Nat \ {0}
    /\ MaxTime \in Nat /\ MaxFaults \in Nat

VARIABLES
    now,        \* the clock
    marker,     \* circuit_halt.json
    file,       \* risk_state.json
    lock,       \* holder of risk_state.json.lock
    pc,         \* what each process is doing
    work,       \* the RiskState in the memory of the lock's holder
    why,        \* reason of the halt a process is reporting
    at,         \* the time create_manual_halt read before it waits for the lock
    verdict,    \* the last decision evaluate returned
    opening,    \* history: first and highest equity of the day evaluate returned on
    torn,       \* history: the writer of the marker never mirrored it
    faults

fileVars == <<marker, file>>
reportVars == <<why, at>>
historyVars == <<opening, torn>>
vars == <<now, marker, file, lock, pc, work, why, at, verdict,
          opening, torn, faults>>

---------------------------------------------------------------------------
(* Limits and clock *)

Larger(a, b) == IF a >= b THEN a ELSE b
Loss(from, e) == IF from > e THEN from - e ELSE 0
Day(t) == t \div DayLength

(* daily loss, drawdown from the day's first equity, drawdown from its peak *)
Breach(start, peak, e) == \/ Loss(start, e) >= MaxLoss
                          \/ start > 0 /\ Loss(start, e) * 100 >= StartPct * start
                          \/ peak > 0 /\ Loss(peak, e) * 100 >= PeakPct * peak

(* Mutant: every pause is appended to the one before. *)
Appended(until, t) == until + Cooldown

Extended(until, t) == Larger(until, t + Cooldown)

---------------------------------------------------------------------------
(* Files *)

NoMarker == [kind |-> "none", reasons |-> {}, until |-> 0]
Marker(reasons, until) == [kind |-> "valid", reasons |-> reasons, until |-> until]

Fresh(e) == [kind |-> "state", day |-> Day(now), start |-> e, peak |-> e,
             last |-> e, halted |-> FALSE, until |-> 0]
Missing == [kind |-> "missing", day |-> 0, start |-> 0, peak |-> 0, last |-> 0,
            halted |-> FALSE, until |-> 0]

Read(e) == IF file.kind = "missing" THEN Fresh(e) ELSE file

(* Mutant: only the state says whether HALT is in force. *)
StateOnly(st) == st

(* Any marker, readable or not, means halted. *)
UnderMarker(st) == [st EXCEPT !.halted = @ \/ marker.kind # "none"]

(* Mutant: a state whose peak was passed starts a new baseline. *)
LoadAgain(e) == UnderMarker(IF Read(e).last >= e THEN [Fresh(e) EXCEPT !.until = Read(e).until,
                                                             !.halted = Read(e).halted]
                            ELSE Read(e))

(* _load with a snapshot: a new day takes new baselines and keeps HALT. *)
Load(e) == UnderMarker(IF Read(e).day = Day(now) THEN Read(e)
                       ELSE [Read(e) EXCEPT !.day = Day(now), !.start = e,
                                            !.peak = e, !.last = e])

(* _load without one, for start_cooldown and reset *)
LoadQuiet == UnderMarker(Read(0))

(* Mutant: the mirrored state keeps its own pause. *)
MirroredHalt(m) == [Read(0) EXCEPT !.halted = TRUE]

(* _sync_manual_halt_state_unlocked: the marker is copied, its pause too. *)
Mirrored(m) == [Read(0) EXCEPT !.halted = TRUE, !.until = m.until]

---------------------------------------------------------------------------
(* The lock *)

(* Mutant: no process waits for the lock. *)
NoLock(p) == TRUE

LockFree(p) == lock = NoOne

Idle(p) == pc[p] = "idle"
Take(p, label) == /\ lock' = p
                  /\ pc' = [pc EXCEPT ![p] = label]
Continue(p, label) == /\ UNCHANGED lock
                      /\ pc' = [pc EXCEPT ![p] = label]
Forget(p) == /\ pc' = [pc EXCEPT ![p] = "idle"]
             /\ why' = [why EXCEPT ![p] = LossReason]
             /\ at' = [at EXCEPT ![p] = 0]
Release(p) == /\ Forget(p)
              /\ lock' = NoOne
              /\ work' = Missing

---------------------------------------------------------------------------
Init == /\ now = 0
        /\ marker \in {NoMarker} \cup {Marker({r}, Cooldown) : r \in Reason}
        /\ file = Missing
        /\ lock = NoOne
        /\ pc = [p \in Process |-> "idle"]
        /\ work = Missing
        /\ why = [p \in Process |-> LossReason]
        /\ at = [p \in Process |-> 0]
        /\ verdict = [day |-> 0, equity |-> 0, halted |-> FALSE, blocked |-> TRUE]
        /\ opening = [day |-> 0, first |-> 0, peak |-> 0]
        /\ torn = (marker # NoMarker)
        /\ faults = 0

---------------------------------------------------------------------------
(* evaluate *)

(* Baselines of the snapshot; a state made without one has start zero. *)
Measured(e) == LET st == Load(e)
                   start == IF st.start = 0 THEN e ELSE st.start
                   peak == IF st.start = 0 THEN e ELSE st.peak
               IN [st EXCEPT !.start = start, !.peak = Larger(peak, e), !.last = e]

Evaluate(e) ==
    LET st == Measured(e) IN
    /\ Idle(Supervisor) /\ LockFree(Supervisor)
    /\ IF Breach(st.start, st.peak, e) /\ ~st.halted
       THEN /\ work' = [st EXCEPT !.halted = TRUE, !.until = Extended(@, now)]
            /\ Take(Supervisor, "trip")
       ELSE /\ work' = st
            /\ Take(Supervisor, "save")
    /\ UNCHANGED <<now, fileVars, reportVars, verdict, historyVars, faults>>

Trip == /\ pc[Supervisor] = "trip"
        /\ marker' = Marker({LossReason}, work.until)
        /\ Continue(Supervisor, "alert")
        /\ UNCHANGED <<now, file, work, reportVars, verdict, historyVars,
                       faults>>

(* The alert log cannot be appended: evaluate raises, the state is not saved. *)
AlertFails == /\ pc[Supervisor] = "alert"
              /\ Release(Supervisor)
              /\ torn' = TRUE
              /\ UNCHANGED <<now, fileVars, verdict, opening, faults>>

(* The other limits block without HALT: any of them may be reached. *)
Save == /\ pc[Supervisor] \in {"save", "alert"}
        /\ file' = work
        /\ \E limited \in BOOLEAN :
              verdict' = [day |-> work.day, equity |-> work.last, halted |-> work.halted,
                          blocked |-> work.halted \/ limited \/ work.until > now]
        /\ opening' = IF opening.day = work.day /\ opening.first > 0
                      THEN [opening EXCEPT !.peak = Larger(@, work.last)]
                      ELSE [day |-> work.day, first |-> work.last, peak |-> work.last]
        /\ Release(Supervisor)
        /\ UNCHANGED <<now, marker, torn, faults>>

---------------------------------------------------------------------------
(* start_cooldown *)

StartCooldown == /\ Idle(Supervisor) /\ LockFree(Supervisor)
                 /\ file' = [LoadQuiet EXCEPT !.until = Extended(@, now)]
                 /\ UNCHANGED <<now, marker, lock, pc, work, reportVars, verdict,
                                historyVars, faults>>

---------------------------------------------------------------------------
(* create_manual_halt and create_manual_halt_once *)

(* A worker, or the supervisor for a reason the marker does not name.  An   *)
(* unreadable marker is archived and replaced.                              *)
Report(p, r) == /\ Idle(p)
                /\ p \in Worker \cup {Supervisor}
                /\ p = Supervisor => ~(marker.kind = "valid" /\ r \in marker.reasons)
                /\ why' = [why EXCEPT ![p] = r]
                /\ at' = [at EXCEPT ![p] = now]
                /\ Continue(p, "halt")
                /\ UNCHANGED <<now, fileVars, work, verdict, historyVars,
                               faults>>

(* The supervisor finds its reason in the marker, read without the lock. *)
ReportAgain(r) == /\ Idle(Supervisor)
                  /\ marker.kind = "valid" /\ r \in marker.reasons
                  /\ why' = [why EXCEPT ![Supervisor] = r]
                  /\ Continue(Supervisor, "sync")
                  /\ UNCHANGED <<now, fileVars, work, at, verdict,
                                 historyVars, faults>>

Mark(p) == /\ pc[p] = "halt" /\ LockFree(p)
           /\ marker' = Marker((IF marker.kind = "valid" THEN marker.reasons ELSE {})
                                   \cup {why[p]},
                               at[p] + Cooldown)
           /\ Take(p, "mirror")
           /\ UNCHANGED <<now, file, work, reportVars, verdict, historyVars,
                          faults>>

(* The marker is copied, or, if it cannot be read, the call raises. *)
Mirror(p) == /\ \/ pc[p] = "mirror"
                \/ pc[p] = "sync" /\ LockFree(p)
             /\ IF marker.kind = "valid"
                THEN file' = Mirrored(marker) /\ torn' = FALSE
                ELSE UNCHANGED <<file, torn>>
             /\ Release(p)
             /\ UNCHANGED <<now, marker, verdict, opening, faults>>

---------------------------------------------------------------------------
(* The operator's commands *)

CooldownOver == LoadQuiet.until <= now

Reset(o, force) == /\ Idle(o) /\ LockFree(o)
                   /\ o \in Operator
                   /\ force \/ CooldownOver
                   /\ marker' = NoMarker
                   /\ work' = [LoadQuiet EXCEPT !.halted = FALSE, !.until = 0]
                   /\ torn' = FALSE
                   /\ Take(o, "clear")
                   /\ UNCHANGED <<now, file, reportVars, verdict, opening,
                                  faults>>

Clear(o) == /\ pc[o] = "clear"
            /\ file' = work
            /\ Release(o)
            /\ UNCHANGED <<now, marker, verdict, historyVars, faults>>

(* Mutant: the guard accepts a HALT that only the state remembers. *)
Remembered == file.halted

Confirmed == marker.kind = "valid"

(* confirmed_execution_halt: the marker is mirrored and the lock is kept    *)
(* until the activation is written.                                         *)
Guard(o) == /\ Idle(o) /\ LockFree(o)
            /\ o \in Operator
            /\ Confirmed
            /\ file' = Mirrored(marker)
            /\ torn' = FALSE
            /\ Take(o, "guarded")
            /\ UNCHANGED <<now, marker, work, reportVars, verdict, opening,
                           faults>>

(* The registry is written, and the lock given back. *)
Activate(o) == /\ pc[o] = "guarded"
               /\ Release(o)
               /\ UNCHANGED <<now, fileVars, verdict, historyVars, faults>>

---------------------------------------------------------------------------
(* Faults and time *)

(* The process dies; the kernel releases its lock. *)
Crash(p) == /\ ~Idle(p)
            /\ faults < MaxFaults
            /\ faults' = faults + 1
            /\ torn' = (torn \/ pc[p] \in {"alert", "mirror"})
            /\ Forget(p)
            /\ IF lock = p THEN lock' = NoOne /\ work' = Missing
                           ELSE UNCHANGED <<lock, work>>
            /\ UNCHANGED <<now, fileVars, verdict, opening>>

(* The marker becomes unreadable (a damaged medium, a manual edit). *)
Damage == /\ marker.kind = "valid"
          /\ faults < MaxFaults
          /\ faults' = faults + 1
          /\ marker' = [NoMarker EXCEPT !.kind = "corrupt"]
          /\ UNCHANGED <<now, file, lock, pc, work, reportVars, verdict,
                         historyVars>>

Tick == /\ lock = NoOne
        /\ now < MaxTime
        /\ now' = now + 1
        /\ UNCHANGED <<fileVars, lock, pc, work, reportVars, verdict,
                       historyVars, faults>>

---------------------------------------------------------------------------
SupervisorStep == \/ \E e \in Equity : Evaluate(e)
                  \/ Trip \/ AlertFails \/ Save \/ StartCooldown
                  \/ \E r \in Reason : ReportAgain(r)

ReportStep(p) == \/ \E r \in Reason : Report(p, r)
                 \/ Mark(p) \/ Mirror(p)

OperatorStep(o) == \/ \E force \in BOOLEAN : Reset(o, force)
                   \/ Clear(o) \/ Guard(o) \/ Activate(o)

Next == \/ SupervisorStep
        \/ \E p \in Worker \cup {Supervisor} : ReportStep(p)
        \/ \E o \in Operator : OperatorStep(o)
        \/ \E p \in Process : Crash(p)
        \/ Damage \/ Tick

Spec == Init /\ [][Next]_vars

---------------------------------------------------------------------------
(* Properties *)

Time == 0..(MaxTime + Cooldown)
StateOf == [kind : {"state", "missing"}, day : 0..MaxTime, start : Nat, peak : Nat,
            last : Nat, halted : BOOLEAN, until : Time]
ReasonAll == Reason \cup {LossReason}

(* The files hold complete payloads, no pause outlasts one cooldown from    *)
(* the clock's bound, and only the lock's holder is between two writes.     *)
TypeOK == /\ now \in 0..MaxTime
          /\ marker \in [kind : {"none", "valid", "corrupt"}, reasons : SUBSET ReasonAll,
                         until : Time]
          /\ file \in StateOf /\ work \in StateOf
          /\ lock \in Process \cup {NoOne}
          /\ pc \in [Process -> {"idle", "trip", "alert", "save", "halt", "sync",
                                 "mirror", "clear", "guarded"}]
          /\ why \in [Process -> ReasonAll]
          /\ at \in [Process -> 0..MaxTime]
          /\ verdict \in [day : 0..MaxTime, equity : Nat, halted : BOOLEAN,
                          blocked : BOOLEAN]
          /\ torn \in BOOLEAN
          /\ opening \in [day : 0..MaxTime, first : Nat, peak : Nat]
          /\ faults \in 0..MaxFaults

(* HALT as its readers see it: the marker exists, or the state says so. *)
Latched == marker.kind # "none" \/ file.halted
Resetting == \E o \in Operator : pc[o] = "clear"
Latch == INSTANCE HaltLatch WITH latched <- Latched, resetting <- Resetting

(* The two files, the lock and all their writers implement the latch: no    *)
(* crash, new day, cooldown or race clears HALT, and nobody trips it in the *)
(* middle of a reset, where the trip would be erased.                       *)
ImplementsLatch == Latch!Spec

(* A loss is never forgotten: a decision on an equity that breaches a limit *)
(* against the first or the highest equity decided on that day is a HALT,   *)
(* whatever pauses, resets, crashes and mirrored halts came in between.     *)
LossIsHalted == verdict.day = opening.day
                /\ Breach(opening.first, opening.peak, verdict.equity)
                    => verdict.halted

(* The pause after a HALT is kept: an unforced reset never removes a        *)
(* readable marker before its cooldown is over, unless the writer of the    *)
(* marker died or failed before it could mirror it.                         *)
ResetWaits ==
    [][\A o \in Operator :
          /\ Reset(o, FALSE) /\ ~torn /\ marker.kind = "valid"
          => marker.until <= now]_vars

(* A champion is only exchanged while HALT is in force: no reset can slip   *)
(* between the check and the activation.                                    *)
ActivationUnderHalt == \A o \in Operator : pc[o] = "guarded" => marker.kind # "none"

(* A decision that is not a HALT was taken with no HALT in force: the state *)
(* that evaluate saves never hides a marker written before or meanwhile.    *)
DecisionSeesHalt == [][verdict' # verdict /\ ~verdict'.halted => ~Latched']_vars
====================================================================================
