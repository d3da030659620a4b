--------------------------- MODULE SchedulerProofs ---------------------------
(***************************************************************************)
(* Theorems about Scheduler, for any set of manual processes and any kinds *)
(* of failure: types, mutual exclusion of cycles, what a restore leaves    *)
(* behind, that cycles keep coming and that a restore ends.                *)
(***************************************************************************)
EXTENDS Scheduler, TLAPS

USE DEF device

(***************************************************************************)
(* Type correctness.                                                       *)
(***************************************************************************)

\* Ending processes keeps the variables of running well typed.
LEMMA EndedType ==
  ASSUME TypeOK, NEW S, Ended(S)
  PROVE  /\ proc' \in [Procs -> Steps]
         /\ lock' \in Procs \cup {"none", "restore"}
         /\ path' \in {"normal", "recovery", "critical"}
         /\ suspend' \in BOOLEAN
  BY DEF TypeOK, Ended, Steps

\* So does starting a unit.
LEMMA StartedType ==
  ASSUME TypeOK, NEW u \in Units
  PROVE  Started(u) \in [Procs -> Steps]
  BY DEF TypeOK, Started, Steps, Procs

\* And an error of the running cycle.
LEMMA FailType ==
  ASSUME TypeOK, NEW p \in Procs, NEW s \in Steps, Fail(p, s)
  PROVE  /\ proc' \in [Procs -> Steps]
         /\ lock' \in Procs \cup {"none", "restore"}
         /\ path' \in {"normal", "recovery", "critical"}
  BY DEF TypeOK, Fail, Goto, Steps

\* Every step of a process keeps the types.
LEMMA StepType ==
  ASSUME TypeOK, NEW p \in Procs, Step(p)
  PROVE  TypeOK'
<1> USE DEF triggers, wiring, command, history
<1>1. CASE AcquireCycleLock(p)
  <2>1. CASE Free
    BY <1>1, <2>1 DEF AcquireCycleLock, TypeOK, Steps, Ended, Free
  <2>2. CASE ~Free
    BY <1>1, <2>2, EndedType DEF AcquireCycleLock, TypeOK
  <2> QED BY <2>1, <2>2
<1>2. CASE Admit(p)
  <2>1. CASE Ended({p}) /\ UNCHANGED restored
    BY <1>2, <2>1, EndedType DEF Admit, TypeOK
  <2>2. CASE ~(Ended({p}) /\ UNCHANGED restored)
    BY <1>2, <2>2 DEF Admit, TypeOK, Goto, Steps
  <2> QED BY <2>1, <2>2
<1>3. CASE Plan(p)
  BY <1>3 DEF Plan, Goto, TypeOK, Steps
<1>4. CASE StopTarget(p)
  <2>0. timer' \in [Timers -> BOOLEAN]
    BY <1>4 DEF StopTarget, TypeOK
  <2>1. CASE Ended({p})
    BY <1>4, <2>0, <2>1, EndedType DEF StopTarget, TypeOK
  <2>2. CASE Fail(p, "save")
    <3>1. "save" \in Steps BY DEF Steps
    <3>2. suspend' \in BOOLEAN BY <1>4 DEF StopTarget, Ended, TypeOK
    <3> QED BY <1>4, <2>0, <2>2, <3>1, <3>2, FailType DEF StopTarget, TypeOK
  <2>3. CASE ~Ended({p}) /\ ~Fail(p, "save")
    BY <1>4, <2>0, <2>3 DEF StopTarget, Goto, TypeOK, Steps
  <2> QED BY <2>1, <2>2, <2>3
<1>5. CASE ArmTarget(p)
  <2>1. CASE Fail(p, "save")
    <3>1. "save" \in Steps BY DEF Steps
    <3> QED BY <1>5, <2>1, <3>1, FailType DEF ArmTarget, TypeOK
  <2>2. CASE ~Fail(p, "save")
    BY <1>5, <2>2 DEF ArmTarget, Goto, TypeOK, Steps
  <2> QED BY <2>1, <2>2
<1>6. CASE SaveState(p)
  <2>0. "sleep" \in Steps BY DEF Steps
  <2>1. due' \in BOOLEAN /\ loaded' \in {"none", "current", "passed", "ahead"}
    BY <1>6 DEF SaveState, Recorded, TypeOK
  <2>2. CASE Fail(p, "sleep")
    BY <1>6, <2>0, <2>1, <2>2, FailType DEF SaveState, TypeOK
  <2>3. CASE ~Fail(p, "sleep")
    BY <1>6, <2>1, <2>3 DEF SaveState, Goto, TypeOK, Steps
  <2> QED BY <2>2, <2>3
<1>7. CASE Suspend(p)
  <2>0. "exit" \in Steps BY DEF Steps
  <2>1. CASE Fail(p, "exit") /\ UNCHANGED <<device, suspend>>
    BY <1>7, <2>0, <2>1, FailType DEF Suspend, TypeOK
  <2>2. CASE Ended({p}) /\ UNCHANGED device
    BY <1>7, <2>2, EndedType DEF Suspend, TypeOK
  <2>3. CASE Goto(p, "exit") /\ UNCHANGED <<path, suspend>>
    <3>1. dev' \in {"awake", "asleep", "off"} /\ asked' \in BOOLEAN
      BY <1>7 DEF Suspend, TypeOK
    <3> QED BY <1>7, <2>3, <3>1 DEF Suspend, Goto, TypeOK, Steps
  <2> QED BY <1>7, <2>1, <2>2, <2>3 DEF Suspend
<1>8. CASE Unlock(p) \/ Refuse(p)
  BY <1>8, EndedType DEF Unlock, Refuse, TypeOK
<1> QED BY <1>1, <1>2, <1>3, <1>4, <1>5, <1>6, <1>7, <1>8 DEF Step

\* So do the processes' killers, what starts them, and the device.
LEMMA TriggerType ==
  ASSUME TypeOK,
         \/ \E p \in Procs : Kill(p) \/ Shutdown(p)
         \/ \E m \in Manuals : RunOnce(m)
         \/ \E t \in Timers : TimerFires(t)
         \/ SafetyTimerFires \/ DeadlinePasses \/ FallAsleep \/ Resume \/ Crash \/ Boot
  PROVE  TypeOK'
<1> USE DEF triggers, wiring, command, history
<1>1. ASSUME NEW p \in Procs, Kill(p) PROVE TypeOK'
  BY <1>1, EndedType DEF Kill, TypeOK
<1>2. ASSUME NEW m \in Manuals, RunOnce(m) PROVE TypeOK'
  BY <1>2 DEF RunOnce, TypeOK, Steps
<1>3. ASSUME NEW t \in Timers, TimerFires(t) PROVE TypeOK'
  <2>1. t \in Units BY DEF Units
  <2> QED BY <1>3, <2>1, StartedType DEF TimerFires, TypeOK
<1>4. CASE SafetyTimerFires
  <2>1. "appliance" \in Units BY DEF Units
  <2> QED BY <1>4, <2>1, StartedType DEF SafetyTimerFires, TypeOK
<1>5. CASE DeadlinePasses
  BY <1>5 DEF DeadlinePasses, running, TypeOK
<1>6. CASE FallAsleep \/ Resume
  <2>1. "appliance" \in Units BY DEF Units
  <2> QED BY <1>6, <2>1, StartedType DEF FallAsleep, Resume, running, TypeOK
<1>7. CASE PowerLost
  BY <1>7, EndedType DEF PowerLost, TypeOK
<1>8. CASE Boot
  <2>1. "appliance" \in Units BY DEF Units
  <2> QED BY <1>8, <2>1, StartedType DEF Boot, TypeOK
<1> QED BY <1>1, <1>2, <1>3, <1>4, <1>5, <1>6, <1>7, <1>8 DEF Crash, Shutdown

\* So do the commands.
LEMMA CommandType ==
  ASSUME TypeOK,
         BeginRestore \/ RestoreStep \/ BeginInstall \/ InstallStep \/ CommandEnds
  PROVE  TypeOK'
<1> USE DEF running, triggers, wiring, command, history, RestoreSteps, InstallSteps,
            At, Proceed, Collects, Returns, AtInstall, Continue, Following
<1>1. CASE BeginRestore
  BY <1>1 DEF BeginRestore, TypeOK
<1>2. CASE StopSafetyTimer
  BY <1>2 DEF StopSafetyTimer, TypeOK
<1>3. CASE RemoveHook
  BY <1>3 DEF RemoveHook, TypeOK
<1>4. CASE DisableService
  <2>1. CASE Ended({"appliance"})
    BY <1>4, <2>1, EndedType DEF DisableService, TypeOK
  <2>2. CASE UNCHANGED running
    BY <1>4, <2>2 DEF DisableService, TypeOK
  <2> QED BY <1>4, <2>1, <2>2 DEF DisableService
<1>5. CASE StopProducers
  <2>1. PICK S \in SUBSET Timers : Ended(S)
    BY <1>5 DEF StopProducers
  <2> QED BY <1>5, <2>1, EndedType DEF StopProducers, TypeOK
<1>6. CASE LockForRestore
  BY <1>6 DEF LockForRestore, TypeOK
<1>7. ASSUME NEW t \in Timers, ClearTimer(t) PROVE TypeOK'
  BY <1>7 DEF ClearTimer, TypeOK, Timers
<1>8. ASSUME NEW t \in Timers, ClearService(t) PROVE TypeOK'
  <2>1. CASE Ended({t})
    BY <1>8, <2>1, EndedType DEF ClearService, TypeOK, Timers
  <2>2. CASE UNCHANGED running
    BY <1>8, <2>2 DEF ClearService, TypeOK, Timers
  <2> QED BY <1>8, <2>1, <2>2 DEF ClearService
<1>9. CASE RestoreStock
  BY <1>9 DEF RestoreStock, TypeOK
<1>10. CASE FinishRestore
  BY <1>10 DEF FinishRestore, TypeOK, Unmarks
<1>11. CASE BeginInstall
  BY <1>11 DEF BeginInstall, TypeOK
<1>12. CASE LoadState \/ WriteFiles \/ EnableService \/ EnableSafetyTimer
  BY <1>12 DEF LoadState, WriteFiles, EnableService, EnableSafetyTimer, TypeOK
<1>13. CASE RecordChoices
  BY <1>13 DEF RecordChoices, TypeOK
<1>14. CASE StartService
  <2>1. "appliance" \in Units BY DEF Units
  <2> QED BY <1>14, <2>1, StartedType DEF StartService, TypeOK
<1>15. CASE CommandEnds
  BY <1>15 DEF CommandEnds, TypeOK
<1> QED BY <1>1, <1>2, <1>3, <1>4, <1>5, <1>6, <1>7, <1>8, <1>9, <1>10, <1>11,
           <1>12, <1>13, <1>14, <1>15 DEF RestoreStep, InstallStep

LEMMA InitType == Init => TypeOK
  BY DEF Init, TypeOK, Steps

LEMMA NextType ==
  ASSUME TypeOK, [Next]_vars
  PROVE  TypeOK'
<1>1. CASE Next
  BY <1>1, StepType, TriggerType, CommandType DEF Next
<1>2. CASE UNCHANGED vars
  BY <1>2 DEF vars, running, triggers, wiring, command, history, TypeOK
<1> QED BY <1>1, <1>2

\* Every variable of the scheduler keeps its type, whatever fails and however
\* many processes users start.
THEOREM SchedulerTypeCorrect == Spec => []TypeOK
  BY InitType, NextType, PTL DEF Spec

(***************************************************************************)
(* The invariant.  Restore holds the lock from timerA to stock, so that it *)
(* does not give away another's lock; the marker stands while it runs and  *)
(* after it was aborted; no cycle is past its admission once restore had   *)
(* the lock; and a restore without an error has removed, at each of its    *)
(* calls, what could start the units it has stopped.                       *)
(***************************************************************************)

Locked == {"timerA", "serviceA", "timerB", "serviceB", "stock"}

RestoreLocks == cmd = "restore" /\ step \in Locked => lock = "restore"

Marked == (cmd = "restore" => marker) /\ (aborted => marker)

NoWork == \A p \in Procs : ~Working(p)

Drained == cmd = "restore" /\ step \in Locked \cup {"finish"} => NoWork

Quiet ==
  /\ ~safety /\ ~hook /\ ~enabled
  /\ \A t \in Timers : ~timer[t]
  /\ \A u \in Units : proc[u] = "idle"

\* What a restore without an error has removed when it is about to make a call.
Removed ==
  cmd = "restore" /\ ~failed =>
    /\ step # "safety" => ~safety
    /\ step \notin {"safety", "hook"} => ~hook
    /\ step \notin {"safety", "hook", "service"} => ~enabled /\ proc["appliance"] = "idle"
    /\ step \in {"serviceA", "timerB", "serviceB", "stock", "finish"} => ~timer["a"]
    /\ step \in {"timerB", "serviceB", "stock", "finish"} => proc["a"] = "idle"
    /\ step \in {"serviceB", "stock", "finish"} => ~timer["b"]
    /\ step \in {"stock", "finish"} => proc["b"] = "idle"

Rested == restored => Quiet /\ cmd # "install" /\ NoWork

LockInv == TypeOK /\ OneCycle /\ RestoreLocks
QuietInv == Drained /\ Removed /\ Rested

(***************************************************************************)
(* Mutual exclusion.                                                       *)
(***************************************************************************)

\* The unit that a process clears is one of the two timers', and when the process
\* is not in it, it loses nothing of its own.
LEMMA StopsOrArms ==
  ASSUME TypeOK, NEW p \in Procs, StopTarget(p)
  PROVE  \/ Ended({p})
         \/ Fail(p, "save") /\ UNCHANGED suspend
         \/ Goto(p, "arm") /\ UNCHANGED <<path, suspend>>
         \/ \E target \in Timers \ {p} :
              /\ proc' = [proc EXCEPT ![p] = "arm", ![target] = "idle"]
              /\ UNCHANGED <<lock, path, suspend>>
<1>1. \A self \in SelfUnit(p) : Target(self) \in Timers
  BY DEF Target, Timers
<1> QED BY <1>1 DEF StopTarget

\* A step of a process takes the lock only when it is free, and gives away no
\* other's.
LEMMA StepLock ==
  ASSUME LockInv, NEW p \in Procs, Step(p)
  PROVE  OneCycle' /\ RestoreLocks'
<1> USE ProcessAssumption DEF LockInv, OneCycle, Working, RestoreLocks, Locked, command
<1>0. \A q \in Procs : q # "restore" /\ q # "none"
  BY DEF Procs, Units, Timers
<1>1. CASE AcquireCycleLock(p)
  <2>1. CASE Free
    BY <1>0, <1>1, <2>1 DEF AcquireCycleLock, Ended, Free, TypeOK
  <2>2. CASE Ended({p}) /\ ~Free
    BY <1>0, <1>1, <2>2 DEF AcquireCycleLock, Ended, Free, TypeOK
  <2> QED BY <1>1, <2>1, <2>2 DEF AcquireCycleLock
<1>2. CASE Admit(p) \/ Refuse(p)
  BY <1>0, <1>2 DEF Admit, Refuse, Ended, Goto, TypeOK
<1>3. CASE Plan(p)
  BY <1>0, <1>3 DEF Plan, Goto, TypeOK
<1>4. CASE StopTarget(p)
  BY <1>0, <1>4, StopsOrArms DEF StopTarget, Fail, Goto, Ended, TypeOK
<1>5. CASE ArmTarget(p)
  BY <1>0, <1>5 DEF ArmTarget, Fail, Goto, TypeOK
<1>6. CASE SaveState(p)
  BY <1>0, <1>6 DEF SaveState, Fail, Goto, TypeOK
<1>7. CASE Suspend(p)
  BY <1>0, <1>7 DEF Suspend, Fail, Ended, Goto, TypeOK
<1>8. CASE Unlock(p)
  BY <1>0, <1>8 DEF Unlock, Ended, TypeOK
<1> QED BY <1>1, <1>2, <1>3, <1>4, <1>5, <1>6, <1>7, <1>8 DEF Step

\* What starts and ends processes, and the device, give the lock to nobody.
LEMMA TriggerLock ==
  ASSUME LockInv,
         \/ \E p \in Procs : Kill(p) \/ Shutdown(p)
         \/ \E m \in Manuals : RunOnce(m)
         \/ \E t \in Timers : TimerFires(t)
         \/ SafetyTimerFires \/ DeadlinePasses \/ FallAsleep \/ Resume \/ Crash \/ Boot
  PROVE  OneCycle' /\ RestoreLocks'
<1> USE ProcessAssumption DEF LockInv, OneCycle, Working, RestoreLocks, Locked, command, running
<1>0. \A p \in Procs : p # "restore" /\ p # "none"
  BY DEF Procs, Units, Timers
<1>1. ASSUME NEW p \in Procs, Kill(p) PROVE OneCycle' /\ RestoreLocks'
  BY <1>0, <1>1 DEF Kill, Ended, TypeOK
<1>2. ASSUME NEW m \in Manuals, RunOnce(m) PROVE OneCycle' /\ RestoreLocks'
  BY <1>2 DEF RunOnce, TypeOK
<1>3. ASSUME NEW t \in Timers, TimerFires(t) PROVE OneCycle' /\ RestoreLocks'
  BY <1>3 DEF TimerFires, Started, TypeOK
<1>4. CASE SafetyTimerFires
  BY <1>4 DEF SafetyTimerFires, Started, TypeOK
<1>5. CASE DeadlinePasses
  BY <1>5 DEF DeadlinePasses
<1>6. CASE FallAsleep \/ Resume
  BY <1>6 DEF FallAsleep, Resume, Started, TypeOK
<1>7. CASE PowerLost
  BY <1>7 DEF PowerLost, Ended
<1>8. CASE Boot
  BY <1>8 DEF Boot, Started, TypeOK
<1> QED BY <1>1, <1>2, <1>3, <1>4, <1>5, <1>6, <1>7, <1>8 DEF Crash, Shutdown

\* Restore takes the lock when it is free and gives away only its own.
LEMMA CommandLock ==
  ASSUME LockInv,
         BeginRestore \/ RestoreStep \/ BeginInstall \/ InstallStep \/ CommandEnds
  PROVE  OneCycle' /\ RestoreLocks'
<1> USE ProcessAssumption DEF LockInv, OneCycle, Working, RestoreLocks, Locked, running,
          At, Proceed, Collects, Returns, AtInstall, Continue, Following
<1>0. \A p \in Procs : p # "restore" /\ p # "none"
  BY DEF Procs, Units, Timers
<1>1. CASE BeginRestore
  BY <1>1 DEF BeginRestore
<1>2. CASE StopSafetyTimer \/ RemoveHook
  BY <1>2 DEF StopSafetyTimer, RemoveHook
<1>3. CASE DisableService
  BY <1>3 DEF DisableService, Ended
<1>4. CASE StopProducers
  BY <1>4 DEF StopProducers, Ended
<1>5. CASE LockForRestore
  BY <1>0, <1>5 DEF LockForRestore, Free
<1>6. ASSUME NEW t \in Timers, ClearTimer(t) PROVE OneCycle' /\ RestoreLocks'
  BY <1>6 DEF ClearTimer, Timers
<1>7. ASSUME NEW t \in Timers, ClearService(t) PROVE OneCycle' /\ RestoreLocks'
  BY <1>0, <1>7 DEF ClearService, Ended, Timers
<1>8. CASE RestoreStock
  BY <1>0, <1>8 DEF RestoreStock
<1>9. CASE FinishRestore
  BY <1>9 DEF FinishRestore
<1>10. CASE BeginInstall \/ LoadState \/ WriteFiles \/ RecordChoices \/ EnableService
            \/ EnableSafetyTimer
  BY <1>10 DEF BeginInstall, LoadState, WriteFiles, RecordChoices, EnableService,
               EnableSafetyTimer
<1>11. CASE StartService
  BY <1>11 DEF StartService, Started, TypeOK
<1>12. CASE CommandEnds
  BY <1>0, <1>12 DEF CommandEnds
<1> QED BY <1>1, <1>2, <1>3, <1>4, <1>5, <1>6, <1>7, <1>8, <1>9, <1>10, <1>11, <1>12
        DEF RestoreStep, InstallStep

LEMMA InitLock == Init => LockInv
  BY InitType DEF Init, LockInv, OneCycle, RestoreLocks, Working

LEMMA NextLock ==
  ASSUME LockInv, [Next]_vars
  PROVE  LockInv'
<1>1. TypeOK'
  BY NextType DEF LockInv
<1>2. CASE Next
  BY <1>1, <1>2, StepLock, TriggerLock, CommandLock DEF Next, LockInv
<1>3. CASE UNCHANGED vars
  BY <1>1, <1>3 DEF vars, running, command, LockInv, OneCycle, RestoreLocks, Working
<1> QED BY <1>2, <1>3

\* At most one cycle runs, and none while restore holds the lock.
THEOREM SchedulerOneCycle == Spec => []OneCycle
<1>1. Spec => []LockInv
  BY InitLock, NextLock, PTL DEF Spec
<1>2. LockInv => OneCycle
  BY DEF LockInv
<1> QED BY <1>1, <1>2, PTL

(***************************************************************************)
(* The marker.                                                             *)
(***************************************************************************)

LEMMA InitMarked == Init => Marked
  BY DEF Init, Marked

\* Only a restore without an error and an installation remove the marker.
LEMMA NextMarked ==
  ASSUME TypeOK, Marked, [Next]_vars
  PROVE  Marked'
<1> USE DEF Marked, command, history, running, triggers, wiring
<1>1. ASSUME NEW p \in Procs, Step(p) \/ Kill(p) PROVE Marked'
  BY <1>1 DEF Step, AcquireCycleLock, Admit, Refuse, Plan, StopTarget, ArmTarget, SaveState,
              Suspend, Unlock, Kill
<1>2. CASE PowerLost
  BY <1>2 DEF PowerLost, TypeOK
<1>3. ASSUME \/ \E m \in Manuals : RunOnce(m)
             \/ \E t \in Timers : TimerFires(t)
             \/ SafetyTimerFires \/ DeadlinePasses \/ FallAsleep \/ Resume \/ Boot
      PROVE  Marked'
  BY <1>3 DEF RunOnce, TimerFires, SafetyTimerFires, DeadlinePasses, FallAsleep, Resume, Boot
<1>4. CASE BeginRestore
  BY <1>4 DEF BeginRestore, Returns
<1>5. CASE RestoreStep
  <2> USE DEF At, Proceed, Returns
  <2>1. CASE StopSafetyTimer \/ RemoveHook \/ DisableService \/ StopProducers \/ RestoreStock
    BY <2>1 DEF StopSafetyTimer, RemoveHook, DisableService, StopProducers, RestoreStock
  <2>2. CASE LockForRestore
    <3>1. marker BY <2>2 DEF LockForRestore
    <3>2. marker' = marker BY <2>2 DEF LockForRestore
    <3> QED BY <3>1, <3>2
  <2>3. CASE \E t \in Timers : ClearTimer(t) \/ ClearService(t)
    BY <2>3 DEF ClearTimer, ClearService
  <2>4. CASE FinishRestore
    <3>1. marker /\ cmd' # "restore" BY <2>4 DEF FinishRestore
    <3>2. ~aborted' \/ marker' = marker
      BY <2>4 DEF FinishRestore, Unmarks
    <3> QED BY <3>1, <3>2
  <2> QED BY <1>5, <2>1, <2>2, <2>3, <2>4 DEF RestoreStep
<1>6. CASE BeginInstall
  BY <1>6 DEF BeginInstall
<1>7. CASE InstallStep
  <2>1. marker' = marker /\ aborted' = aborted
    BY <1>7 DEF InstallStep, LoadState, WriteFiles, RecordChoices, EnableService,
                EnableSafetyTimer, StartService, AtInstall, Continue
  <2>2. cmd' # "restore"
    BY <1>7 DEF InstallStep, LoadState, WriteFiles, RecordChoices, EnableService,
                EnableSafetyTimer, StartService, AtInstall, Continue, Returns
  <2> QED BY <2>1, <2>2
<1>8. CASE CommandEnds
  BY <1>8 DEF CommandEnds, Returns, TypeOK
<1>9. CASE UNCHANGED vars
  BY <1>9 DEF vars
<1> QED BY <1>1, <1>2, <1>3, <1>4, <1>5, <1>6, <1>7, <1>8, <1>9 DEF Next, Crash, Shutdown

\* The admission of a cycle, as against being turned away.
Admitted(p) == Admit(p) /\ ~marker

\* A process that works was admitted, and nothing else makes it work.
LEMMA OnlyAdmission ==
  ASSUME TypeOK, [Next]_vars, NEW p \in Procs, Working(p)'
  PROVE  Working(p) \/ Admitted(p)
<1> USE DEF Working
<1>1. ASSUME NEW q \in Procs, Step(q) \/ Kill(q) PROVE Working(p) \/ Admitted(p)
  <2>1. CASE AcquireCycleLock(q) \/ Admit(q) \/ Refuse(q)
    BY <1>1, <2>1 DEF AcquireCycleLock, Admitted, Admit, Blocked, Refuse, Ended, Goto, TypeOK
  <2>2. CASE Plan(q) \/ StopTarget(q)
    BY <1>1, <2>2, StopsOrArms DEF Plan, StopTarget, Fail, Ended, Goto, TypeOK
  <2>3. CASE ArmTarget(q) \/ SaveState(q)
    BY <1>1, <2>3 DEF ArmTarget, SaveState, Fail, Goto, TypeOK
  <2>4. CASE Suspend(q) \/ Unlock(q) \/ Kill(q)
    BY <1>1, <2>4 DEF Suspend, Unlock, Kill, Fail, Ended, Goto, TypeOK
  <2> QED BY <1>1, <2>1, <2>2, <2>3, <2>4 DEF Step
<1>2. CASE PowerLost
  BY <1>2 DEF PowerLost, Ended
<1>3. CASE \/ \E m \in Manuals : RunOnce(m)
           \/ \E t \in Timers : TimerFires(t)
           \/ SafetyTimerFires \/ FallAsleep \/ Resume \/ Boot \/ StartService
  BY <1>3 DEF RunOnce, TimerFires, SafetyTimerFires, FallAsleep, Resume, Boot, StartService,
              Started, running, TypeOK
<1>4. CASE \/ BeginRestore \/ BeginInstall \/ CommandEnds \/ DeadlinePasses
           \/ LoadState \/ WriteFiles \/ RecordChoices \/ EnableService \/ EnableSafetyTimer
  BY <1>4 DEF BeginRestore, BeginInstall, CommandEnds, DeadlinePasses, LoadState, WriteFiles,
              RecordChoices, EnableService, EnableSafetyTimer, running
<1>5. CASE RestoreStep
  <2>1. CASE StopSafetyTimer \/ RemoveHook \/ LockForRestore \/ RestoreStock \/ FinishRestore
    BY <2>1 DEF StopSafetyTimer, RemoveHook, LockForRestore, RestoreStock, FinishRestore, running
  <2>2. CASE DisableService \/ StopProducers
    BY <2>2 DEF DisableService, StopProducers, Ended, running
  <2>3. CASE \E t \in Timers : ClearTimer(t) \/ ClearService(t)
    BY <2>3 DEF ClearTimer, ClearService, Ended, running
  <2> QED BY <1>5, <2>1, <2>2, <2>3 DEF RestoreStep
<1>6. CASE UNCHANGED vars
  BY <1>6 DEF vars, running
<1> QED BY <1>1, <1>2, <1>3, <1>4, <1>5, <1>6 DEF Next, Crash, Shutdown, InstallStep

\* A restore that ended in an error lets no new cycle begin.
THEOREM SchedulerAbortStartsNothing == Spec => AbortStartsNothing
<1>1. TypeOK /\ Marked /\ [Next]_vars =>
        (aborted /\ aborted' => \A p \in Procs : Working(p)' => Working(p))
  BY OnlyAdmission DEF Marked, Admitted
<1>2. Spec => []TypeOK
  BY SchedulerTypeCorrect
<1>3. Spec => []Marked
  BY InitMarked, NextMarked, SchedulerTypeCorrect, PTL DEF Spec
<1> QED BY <1>1, <1>2, <1>3, PTL DEF AbortStartsNothing, Spec

(***************************************************************************)
(* Restore leaves the device quiet.                                        *)
(***************************************************************************)

\* A process starts no other and touches nothing that could; only one that
\* works arms or stops a timer.
LEMMA StepStarts ==
  ASSUME TypeOK, NEW p \in Procs, Step(p) \/ Kill(p)
  PROVE  /\ \A q \in Procs : proc[q] = "idle" => proc'[q] = "idle"
         /\ UNCHANGED <<safety, hook, enabled, cmd, step, failed>>
         /\ Working(p) \/ UNCHANGED timer
         /\ restored' => restored
<1> USE DEF TypeOK, wiring, command, triggers, history, Ended, Goto, Fail, Working
<1>1. CASE AcquireCycleLock(p)
  BY <1>1 DEF AcquireCycleLock
<1>2. CASE Admit(p) \/ Refuse(p)
  BY <1>2 DEF Admit, Refuse
<1>3. CASE Plan(p)
  BY <1>3 DEF Plan
<1>4. CASE StopTarget(p)
  BY <1>4, StopsOrArms DEF StopTarget
<1>5. CASE ArmTarget(p)
  BY <1>5 DEF ArmTarget
<1>6. CASE SaveState(p)
  BY <1>6 DEF SaveState
<1>7. CASE Suspend(p)
  BY <1>7 DEF Suspend
<1>8. CASE Unlock(p) \/ Kill(p)
  BY <1>8 DEF Unlock, Kill
<1> QED BY <1>1, <1>2, <1>3, <1>4, <1>5, <1>6, <1>7, <1>8 DEF Step

\* Where restore comes from when it is at its guarded calls.
LEMMA RestoreCameFrom ==
  ASSUME TypeOK, [Next]_vars, cmd' = "restore", step' \in Locked \cup {"finish"}
  PROVE  /\ cmd = "restore"
         /\ step \in Locked \cup {"finish"} \/ LockForRestore
<1> USE DEF Locked, command, At, Proceed, Returns, Following
<1>1. ASSUME NEW p \in Procs, Step(p) \/ Kill(p)
      PROVE  cmd = "restore" /\ step \in Locked \cup {"finish"}
  BY <1>1, StepStarts
<1>2. ~PowerLost
  BY DEF PowerLost
<1>3. CASE \/ \E m \in Manuals : RunOnce(m)
           \/ \E t \in Timers : TimerFires(t)
           \/ SafetyTimerFires \/ DeadlinePasses \/ FallAsleep \/ Resume \/ Boot
  BY <1>3 DEF RunOnce, TimerFires, SafetyTimerFires, DeadlinePasses, FallAsleep, Resume, Boot
<1>4. ~BeginRestore /\ ~BeginInstall /\ ~InstallStep /\ ~CommandEnds
  BY DEF BeginRestore, BeginInstall, InstallStep, LoadState, WriteFiles, RecordChoices,
         EnableService, EnableSafetyTimer, StartService, CommandEnds, AtInstall, Continue
<1>5. CASE RestoreStep
  BY <1>5 DEF RestoreStep, StopSafetyTimer, RemoveHook, DisableService, StopProducers,
              LockForRestore, ClearTimer, ClearService, RestoreStock, FinishRestore
<1>6. CASE UNCHANGED vars
  BY <1>6 DEF vars
<1> QED BY <1>1, <1>2, <1>3, <1>4, <1>5, <1>6 DEF Next, Crash, Shutdown

\* Once restore has the lock no cycle is past its admission.
LEMMA NextDrained ==
  ASSUME LockInv, Marked, Drained, [Next]_vars
  PROVE  Drained'
<1> SUFFICES ASSUME cmd' = "restore", step' \in Locked \cup {"finish"}
             PROVE  NoWork'
  BY DEF Drained, Locked
<1>1. TypeOK
  BY DEF LockInv
<1>2. cmd = "restore" /\ (step \in Locked \cup {"finish"} \/ LockForRestore)
  BY <1>1, RestoreCameFrom
<1>3. marker
  BY <1>2 DEF Marked
<1>4. CASE step \in Locked \cup {"finish"}
  BY <1>1, <1>2, <1>3, <1>4, OnlyAdmission DEF Drained, NoWork, Admitted
<1>5. CASE LockForRestore
  <2>1. lock = "none"
    BY <1>5 DEF LockForRestore, Free, Returns
  <2>2. \A p \in Procs : p # "none"
    BY ProcessAssumption DEF Procs, Units, Timers
  <2>3. NoWork
    BY <2>1, <2>2 DEF LockInv, OneCycle, NoWork
  <2> QED BY <1>1, <1>3, <2>3, OnlyAdmission DEF NoWork, Admitted
<1> QED BY <1>2, <1>4, <1>5

\* A restore without an error removes what starts a unit before it stops it,
\* and nothing brings either back.
LEMMA NextRemoved ==
  ASSUME LockInv, Marked, Drained, Removed, [Next]_vars
  PROVE  Removed'
<1>0. TypeOK
  BY DEF LockInv
<1> USE DEF Removed, running, wiring, triggers, command, TypeOK, Units, Timers, Procs
<1>1. ASSUME NEW p \in Procs, Step(p) \/ Kill(p) PROVE Removed'
  <2>1. /\ \A q \in Procs : proc[q] = "idle" => proc'[q] = "idle"
        /\ UNCHANGED <<safety, hook, enabled, cmd, step, failed>>
        /\ Working(p) \/ UNCHANGED timer
    BY <1>0, <1>1, StepStarts
  <2>2. CASE Working(p)
    <3>1. cmd = "restore" => step \notin Locked \cup {"finish"}
      BY <2>2 DEF Drained, NoWork
    <3> QED BY <2>1, <3>1 DEF Locked
  <2>3. CASE UNCHANGED timer
    BY <2>1, <2>3
  <2> QED BY <2>1, <2>2, <2>3
<1>2. CASE PowerLost
  BY <1>2 DEF PowerLost
<1>3. ASSUME NEW m \in Manuals, RunOnce(m) PROVE Removed'
  <2>1. m \notin Units BY ProcessAssumption
  <2> QED BY <1>0, <1>3, <2>1 DEF RunOnce
<1>4. ASSUME NEW t \in Timers, TimerFires(t) PROVE Removed'
  BY <1>0, <1>4 DEF TimerFires, Started
<1>5. CASE SafetyTimerFires \/ FallAsleep \/ Resume \/ Boot
  BY <1>0, <1>5 DEF SafetyTimerFires, FallAsleep, Resume, Boot, Started
<1>6. CASE DeadlinePasses
  BY <1>0, <1>6 DEF DeadlinePasses
<1>7. CASE BeginRestore \/ CommandEnds
  BY <1>7 DEF BeginRestore, CommandEnds, Returns
<1>8. CASE RestoreStep
  <2> USE DEF At, Proceed, Returns, Collects, Following
  <2>1. CASE StopSafetyTimer
    BY <1>0, <2>1 DEF StopSafetyTimer
  <2>2. CASE RemoveHook
    BY <1>0, <2>2 DEF RemoveHook
  <2>3. CASE DisableService
    <3>1. step' = "drain" /\ step = "service" /\ cmd = "restore"
      BY <2>3 DEF DisableService
    <3>2. CASE failed'
      BY <3>2
    <3>3. CASE ~failed'
      <4>1. ~enabled' /\ Ended({"appliance"}) /\ UNCHANGED <<safety, hook, failed>>
        BY <2>3, <3>3 DEF DisableService
      <4>2. proc'["appliance"] = "idle"
        BY <4>1 DEF Ended
      <4> QED BY <3>1, <3>3, <4>1, <4>2
    <3> QED BY <3>2, <3>3
  <2>4. CASE StopProducers
    BY <1>0, <2>4 DEF StopProducers, Ended
  <2>5. CASE LockForRestore
    BY <1>0, <2>5 DEF LockForRestore
  <2>6. ASSUME NEW t \in Timers, ClearTimer(t) PROVE Removed'
    BY <1>0, <2>6 DEF ClearTimer
  <2>7. ASSUME NEW t \in Timers, ClearService(t) PROVE Removed'
    BY <1>0, <2>7 DEF ClearService, Ended
  <2>8. CASE RestoreStock
    BY <1>0, <2>8 DEF RestoreStock
  <2>9. CASE FinishRestore
    BY <2>9 DEF FinishRestore
  <2> QED BY <1>8, <2>1, <2>2, <2>3, <2>4, <2>5, <2>6, <2>7, <2>8, <2>9 DEF RestoreStep
<1>9. CASE BeginInstall \/ InstallStep
  BY <1>9 DEF BeginInstall, InstallStep, LoadState, WriteFiles, RecordChoices,
     EnableService, EnableSafetyTimer, StartService, AtInstall, Continue, Returns
<1>10. CASE UNCHANGED vars
  BY <1>10 DEF vars
<1> QED BY <1>1, <1>2, <1>3, <1>4, <1>5, <1>6, <1>7, <1>8, <1>9, <1>10 DEF Next, Crash, Shutdown

\* What starts units finds a quiet device quiet and leaves it so.
LEMMA QuietStays ==
  ASSUME TypeOK, restored, restored', Rested, [Next]_vars
  PROVE  Quiet' /\ cmd' # "install"
<1> USE DEF Rested, Quiet, running, wiring, triggers, command, history, TypeOK, Units, Timers, Procs
<1>1. ASSUME NEW p \in Procs, Step(p) \/ Kill(p) PROVE Quiet' /\ cmd' # "install"
  <2>1. ~Working(p)
    BY DEF NoWork
  <2> QED BY <1>1, <2>1, StepStarts
<1>2. CASE PowerLost
  BY <1>2 DEF PowerLost, Ended
<1>3. ASSUME NEW m \in Manuals, RunOnce(m) PROVE Quiet' /\ cmd' # "install"
  <2>1. m \notin Units BY ProcessAssumption
  <2> QED BY <1>3, <2>1 DEF RunOnce
<1>4. CASE \/ \E t \in Timers : TimerFires(t)
           \/ SafetyTimerFires \/ FallAsleep \/ Resume \/ Boot \/ DeadlinePasses
  BY <1>4 DEF TimerFires, SafetyTimerFires, FallAsleep, Resume, Boot, DeadlinePasses
<1>5. CASE BeginRestore \/ CommandEnds
  BY <1>5 DEF BeginRestore, CommandEnds, Returns
<1>6. CASE RestoreStep
  <2> USE DEF At, Proceed, Returns
  <2>0. safety = FALSE /\ hook = FALSE /\ enabled = FALSE
    OBVIOUS
  <2>1. CASE StopSafetyTimer \/ RemoveHook
    <3>1. safety' = FALSE /\ hook' = FALSE
      BY <2>0, <2>1 DEF StopSafetyTimer, RemoveHook
    <3>2. UNCHANGED <<enabled, timer, proc>> /\ cmd' # "install"
      BY <2>1 DEF StopSafetyTimer, RemoveHook
    <3> QED BY <3>1, <3>2
  <2>2. CASE DisableService
    <3>1. enabled' = FALSE
      BY <2>0, <2>2 DEF DisableService
    <3>0. UNCHANGED <<safety, hook, timer, cmd>>
      BY <2>2 DEF DisableService
    <3>2. \A u \in Units : proc'[u] = "idle"
      BY <2>2 DEF DisableService, Ended
    <3> QED BY <3>0, <3>1, <3>2
  <2>3. CASE StopProducers
    BY <2>3 DEF StopProducers, Ended
  <2>4. ASSUME NEW t \in Timers, ClearTimer(t) \/ ClearService(t)
        PROVE  Quiet' /\ cmd' # "install"
    BY <2>4 DEF ClearTimer, ClearService, Ended
  <2>5. CASE LockForRestore
    <3>1. UNCHANGED <<wiring, timer, proc>> /\ cmd' # "install"
      BY <2>5 DEF LockForRestore
    <3> QED BY <3>1
  <2>6. CASE RestoreStock \/ FinishRestore
    <3>1. UNCHANGED <<wiring, timer, proc>> /\ cmd' # "install"
      BY <2>6 DEF RestoreStock, FinishRestore
    <3> QED BY <3>1
  <2> QED BY <1>6, <2>1, <2>2, <2>3, <2>4, <2>5, <2>6 DEF RestoreStep
<1>7. ~BeginInstall /\ ~InstallStep
  BY DEF BeginInstall, InstallStep, LoadState, WriteFiles, RecordChoices, EnableService,
         EnableSafetyTimer, StartService, AtInstall
<1>8. CASE UNCHANGED vars
  BY <1>8 DEF vars
<1> QED BY <1>1, <1>2, <1>3, <1>4, <1>5, <1>6, <1>7, <1>8 DEF Next, Crash, Shutdown

\* Nothing but the end of a restore claims that the device is restored.
LEMMA OnlyFinishRestores ==
  ASSUME TypeOK, ~restored, restored', [Next]_vars
  PROVE  FinishRestore /\ ~failed
<1> USE DEF running, command, history, wiring, triggers, TypeOK
<1>1. ASSUME NEW p \in Procs, Step(p) \/ Kill(p) PROVE FALSE
  BY <1>1, StepStarts
<1>2. ~PowerLost
  BY DEF PowerLost
<1>3. CASE \/ \E m \in Manuals : RunOnce(m)
           \/ \E t \in Timers : TimerFires(t)
           \/ SafetyTimerFires \/ DeadlinePasses \/ FallAsleep \/ Resume \/ Boot
  BY <1>3 DEF RunOnce, TimerFires, SafetyTimerFires, DeadlinePasses, FallAsleep, Resume, Boot
<1>4. ~BeginRestore /\ ~BeginInstall /\ ~InstallStep /\ ~CommandEnds
  BY DEF BeginRestore, BeginInstall, InstallStep, LoadState, WriteFiles, RecordChoices,
         EnableService, EnableSafetyTimer, StartService, CommandEnds, AtInstall, Continue
<1>5. CASE RestoreStep
  BY <1>5 DEF RestoreStep, StopSafetyTimer, RemoveHook, DisableService, StopProducers, LockForRestore,
              ClearTimer, ClearService, RestoreStock, FinishRestore, Proceed, Unmarks
<1>6. CASE UNCHANGED vars
  BY <1>6 DEF vars
<1> QED BY <1>1, <1>2, <1>3, <1>4, <1>5, <1>6 DEF Next, Crash, Shutdown

LEMMA NextRested ==
  ASSUME TypeOK, Drained, Removed, Rested, [Next]_vars
  PROVE  Rested'
<1> SUFFICES ASSUME restored'
             PROVE  Quiet' /\ cmd' # "install" /\ NoWork'
  BY DEF Rested
<1>1. CASE restored
  <2>1. ASSUME NEW p \in Procs, Working(p)' PROVE FALSE
    <3>1. Admitted(p)
      BY <1>1, <2>1, OnlyAdmission DEF Rested, NoWork
    <3>2. p \in Units
      <4>1. ~Ended({p}) /\ ~Goto(p, "refused")
        BY <2>1 DEF Ended, Goto, Working, TypeOK
      <4> QED BY <3>1, <4>1 DEF Admitted, Admit
    <3> QED BY <1>1, <3>1, <3>2 DEF Rested, Quiet, Admitted, Admit
  <2> QED BY <1>1, <2>1, QuietStays DEF NoWork
<1>2. CASE ~restored
  <2>1. FinishRestore /\ ~failed
    BY <1>2, OnlyFinishRestores
  <2>2. Quiet /\ NoWork
    BY <2>1 DEF FinishRestore, At, Removed, Drained, Quiet, Units, Timers
  <2>3. UNCHANGED <<running, triggers, wiring>> /\ cmd' = "none"
    BY <2>1 DEF FinishRestore, Returns
  <2> QED BY <2>2, <2>3 DEF running, triggers, wiring, Quiet, NoWork, Working
<1> QED BY <1>1, <1>2

LEMMA InitQuiet == Init => QuietInv
  BY DEF Init, QuietInv, Drained, Removed, Rested

\* After a restore that reported success nothing is left that starts a cycle.
THEOREM SchedulerRestoreQuiesces == Spec => []RestoreQuiesces
<1>1. Init => LockInv /\ Marked /\ QuietInv
  BY InitLock, InitMarked, InitQuiet
<1>2. LockInv /\ Marked /\ QuietInv /\ [Next]_vars => (LockInv /\ Marked /\ QuietInv)'
  <2> SUFFICES ASSUME LockInv, Marked, QuietInv, [Next]_vars
               PROVE  LockInv' /\ Marked' /\ QuietInv'
    OBVIOUS
  <2>1. LockInv' BY NextLock
  <2>2. TypeOK BY DEF LockInv
  <2>3. Marked' BY <2>2, NextMarked
  <2>4. Drained' /\ Removed' /\ Rested'
    BY <2>2, NextDrained, NextRemoved, NextRested DEF QuietInv
  <2> QED BY <2>1, <2>3, <2>4 DEF QuietInv
<1>3. QuietInv => RestoreQuiesces
  BY DEF QuietInv, Rested, Quiet, RestoreQuiesces
<1> QED BY <1>1, <1>2, <1>3, PTL DEF Spec

-----------------------------------------------------------------------------
(* Another cycle comes. *)

\* Who has the lock is a process past it or restore between its two calls; and
\* install has loaded a record when it is about to write it back.
Holder ==
  /\ lock = "restore" => cmd = "restore" /\ step \in Locked
  /\ lock \in Procs => Attempted(lock) \/ proc[lock] = "held"
  /\ cmd = "install" /\ step \in {"files", "record"} => loaded # "none"
HolderInv == LockInv /\ Marked /\ Holder

LEMMA StepHolder ==
  ASSUME LockInv, Holder, NEW p \in Procs, Step(p) \/ Kill(p)
  PROVE  Holder'
<1> USE ProcessAssumption DEF LockInv, OneCycle, Working, Attempted, Holder, Locked, command
<1>0. \A q \in Procs : q # "restore" /\ q # "none"
  BY DEF Procs, Units, Timers
<1>1. CASE AcquireCycleLock(p)
  <2>1. CASE Free
    BY <1>0, <1>1, <2>1 DEF AcquireCycleLock, Ended, Free, TypeOK
  <2>2. CASE Ended({p}) /\ ~Free
    BY <1>0, <1>1, <2>2 DEF AcquireCycleLock, Ended, Free, TypeOK
  <2> QED BY <1>1, <2>1, <2>2 DEF AcquireCycleLock
<1>2. CASE Admit(p) \/ Refuse(p)
  BY <1>0, <1>2 DEF Admit, Refuse, Ended, Goto, TypeOK
<1>3. CASE Plan(p)
  BY <1>0, <1>3 DEF Plan, Goto, TypeOK
<1>4. CASE StopTarget(p)
  <2>1. UNCHANGED <<cmd, step, loaded>> /\ lock = p
    BY <1>4 DEF StopTarget
  <2> QED BY <1>0, <1>4, <2>1, StopsOrArms DEF Fail, Goto, Ended, TypeOK
<1>5. CASE ArmTarget(p)
  BY <1>0, <1>5 DEF ArmTarget, Fail, Goto, TypeOK
<1>6. CASE SaveState(p)
  BY <1>0, <1>6 DEF SaveState, Recorded, Fail, Goto, TypeOK
<1>7. CASE Suspend(p)
  BY <1>0, <1>7 DEF Suspend, Fail, Ended, Goto, TypeOK
<1>8. CASE Unlock(p) \/ Kill(p)
  BY <1>0, <1>8 DEF Unlock, Kill, Ended, TypeOK
<1> QED BY <1>1, <1>2, <1>3, <1>4, <1>5, <1>6, <1>7, <1>8 DEF Step

LEMMA TriggerHolder ==
  ASSUME LockInv, Holder,
         \/ \E p \in Procs : Shutdown(p)
         \/ \E m \in Manuals : RunOnce(m)
         \/ \E t \in Timers : TimerFires(t)
         \/ SafetyTimerFires \/ DeadlinePasses \/ FallAsleep \/ Resume \/ Crash \/ Boot
  PROVE  Holder'
<1> USE ProcessAssumption DEF LockInv, OneCycle, Working, Attempted, Holder, Locked, command, running
<1>0. \A p \in Procs : p # "restore" /\ p # "none"
  BY DEF Procs, Units, Timers
<1>2. ASSUME NEW m \in Manuals, RunOnce(m) PROVE Holder'
  BY <1>2 DEF RunOnce, TypeOK
<1>3. ASSUME NEW t \in Timers, TimerFires(t) PROVE Holder'
  BY <1>3 DEF TimerFires, Started, TypeOK
<1>4. CASE SafetyTimerFires
  BY <1>4 DEF SafetyTimerFires, Started, TypeOK
<1>5. CASE DeadlinePasses
  BY <1>5 DEF DeadlinePasses
<1>6. CASE FallAsleep \/ Resume
  BY <1>6 DEF FallAsleep, Resume, Started, TypeOK
<1>7. CASE PowerLost
  BY <1>0, <1>7 DEF PowerLost, Ended, TypeOK
<1>8. CASE Boot
  BY <1>8 DEF Boot, Started, TypeOK
<1> QED BY <1>2, <1>3, <1>4, <1>5, <1>6, <1>7, <1>8 DEF Crash, Shutdown

LEMMA CommandHolder ==
  ASSUME LockInv, Holder,
         BeginRestore \/ RestoreStep \/ BeginInstall \/ InstallStep \/ CommandEnds
  PROVE  Holder'
<1> USE ProcessAssumption DEF LockInv, OneCycle, Working, Attempted, Holder, RestoreLocks, Locked,
          running,
          At, Proceed, Collects, Returns, AtInstall, Continue, Following
<1>0. \A p \in Procs : p # "restore" /\ p # "none"
  BY DEF Procs, Units, Timers
<1>1. CASE BeginRestore
  BY <1>1 DEF BeginRestore
<1>2. CASE StopSafetyTimer \/ RemoveHook
  BY <1>2 DEF StopSafetyTimer, RemoveHook
<1>3. CASE DisableService
  BY <1>0, <1>3 DEF DisableService, Ended, TypeOK
<1>4. CASE StopProducers
  BY <1>0, <1>4 DEF StopProducers, Ended, TypeOK
<1>5. CASE LockForRestore
  BY <1>0, <1>5 DEF LockForRestore, Free
<1>6. ASSUME NEW t \in Timers, ClearTimer(t) PROVE Holder'
  BY <1>6 DEF ClearTimer, Timers
<1>7. ASSUME NEW t \in Timers, ClearService(t) PROVE Holder'
  BY <1>0, <1>7 DEF ClearService, Ended, Timers, TypeOK
<1>8. CASE RestoreStock
  BY <1>0, <1>8 DEF RestoreStock
<1>9. CASE FinishRestore
  BY <1>9 DEF FinishRestore
<1>10. CASE BeginInstall \/ LoadState \/ WriteFiles \/ RecordChoices \/ EnableService
            \/ EnableSafetyTimer
  BY <1>10 DEF BeginInstall, LoadState, WriteFiles, RecordChoices, EnableService,
               EnableSafetyTimer
<1>11. CASE StartService
  BY <1>11 DEF StartService, Started, TypeOK
<1>12. CASE CommandEnds
  BY <1>0, <1>12 DEF CommandEnds
<1> QED BY <1>1, <1>2, <1>3, <1>4, <1>5, <1>6, <1>7, <1>8, <1>9, <1>10, <1>11, <1>12
        DEF RestoreStep, InstallStep

LEMMA HolderInvariant == Spec => []HolderInv
<1>1. Init => HolderInv
  <2> SUFFICES ASSUME Init PROVE HolderInv
    OBVIOUS
  <2>1. lock = "none" /\ cmd = "none" /\ "none" \notin Procs
    BY ProcessAssumption DEF Init, Procs, Units, Timers
  <2> QED BY <2>1, InitLock, InitMarked DEF HolderInv, Holder
<1>2. HolderInv /\ [Next]_vars => HolderInv'
  <2> SUFFICES ASSUME HolderInv, [Next]_vars PROVE HolderInv'
    OBVIOUS
  <2>1. LockInv' /\ Marked'
    BY NextLock, NextMarked DEF HolderInv, LockInv
  <2>2. CASE Next
    <3>1. LockInv /\ Holder
      BY DEF HolderInv
    <3>2. ASSUME NEW p \in Procs, Step(p) \/ Kill(p) PROVE Holder'
      BY <3>1, <3>2, StepHolder
    <3>3. CASE \/ \E p \in Procs : Shutdown(p)
               \/ \E m \in Manuals : RunOnce(m)
               \/ \E t \in Timers : TimerFires(t)
               \/ SafetyTimerFires \/ DeadlinePasses \/ FallAsleep \/ Resume \/ Crash \/ Boot
      BY <2>1, <3>1, <3>3, TriggerHolder DEF HolderInv
    <3>4. CASE BeginRestore \/ RestoreStep \/ BeginInstall \/ InstallStep \/ CommandEnds
      BY <2>1, <3>1, <3>4, CommandHolder DEF HolderInv
    <3> QED BY <2>1, <2>2, <3>2, <3>3, <3>4 DEF Next, HolderInv
  <2>3. CASE UNCHANGED vars
    <3>1. UNCHANGED <<lock, proc, cmd, step, loaded>>
      BY <2>3 DEF vars, running, command
    <3>2. Holder
      BY DEF HolderInv
    <3> QED BY <2>1, <3>1, <3>2 DEF HolderInv, Holder, Attempted, Working
  <2> QED BY <2>1, <2>2, <2>3 DEF HolderInv
<1> QED BY <1>1, <1>2, PTL DEF Spec

\* The installed device is awake, and no cycle runs or was refused.
Calm == Serving /\ \A p \in Procs : ~Attempted(p)

\* The deadline has passed, and no record that install may write back says
\* otherwise.
Due == due /\ loaded # "ahead"

HeldBy(p) == lock = p /\ proc[p] = "held"
ManualHeld == \E m \in Manuals : HeldBy(m)
AnyHeld == HeldBy("appliance") \/ HeldBy("a") \/ HeldBy("b") \/ ManualHeld

\* Without a cycle the lock is free or its holder is about to read the marker.
LEMMA CalmLock ==
  ASSUME HolderInv, Calm
  PROVE  Free \/ AnyHeld
<1>1. lock # "restore"
  BY DEF HolderInv, Holder, Marked, Calm, Serving
<1>2. lock \in Procs => HeldBy(lock)
  BY DEF HolderInv, Holder, Calm, HeldBy
<1>3. lock \in Procs \cup {"none", "restore"}
  BY DEF HolderInv, LockInv, TypeOK
<1> QED BY <1>1, <1>2, <1>3 DEF Free, AnyHeld, ManualHeld, Procs, Units, Timers

\* What a step may do that leaves the device without a cycle.
Meanwhile ==
  /\ Due => Due'
  /\ Due => \A p \in Procs : HeldBy(p) => HeldBy(p)'
  /\ Free => IF proc["appliance"] = "started"
             THEN proc'["appliance"] = "started" \/ HeldBy("appliance")'
             ELSE proc["appliance"] = "idle" => proc'["appliance"] \in {"idle", "started"}

LEMMA CalmStep ==
  ASSUME HolderInv, [Next]_vars, Calm, Calm'
  PROVE  Meanwhile
<1> USE DEF Meanwhile, Due, HeldBy, Free
<1>1. /\ TypeOK /\ Awake /\ ~marker /\ cmd # "restore" /\ ~marker' /\ dev' = "awake"
      /\ (cmd = "install" /\ step \in {"files", "record"} => loaded # "none")
      /\ \A p \in Procs : ~Working(p) /\ ~Working(p)'
      /\ \A p \in Procs : proc[p] # "refused" /\ proc'[p] # "refused"
      /\ \A p \in Procs : proc[p] = "held" => lock = p
      /\ "appliance" \in Procs /\ "none" \notin Procs
  BY ProcessAssumption DEF HolderInv, Holder, LockInv, OneCycle, Marked, Calm, Serving, Attempted, Awake,
         Procs, Units, Timers
<1>2. ASSUME NEW p \in Procs, Step(p) \/ Kill(p) PROVE Meanwhile
  <2>1. AcquireCycleLock(p) \/ Admit(p)
    BY <1>1, <1>2 DEF Step, Kill, Working, Refuse, Plan, StopTarget, ArmTarget, SaveState,
                      Suspend, Unlock
  <2>2. CASE AcquireCycleLock(p)
    BY <1>1, <2>2 DEF AcquireCycleLock, Ended, triggers, command, TypeOK
  <2>3. CASE Admit(p)
    <3>1. Ended({p}) /\ ~due
      <4>1. ~(Goto(p, "plan") \/ Goto(p, "save") \/ Goto(p, "refused"))
        BY <1>1 DEF Goto, Working, TypeOK
      <4> QED BY <1>1, <2>3, <4>1 DEF Admit, Blocked, Suppressed
    <3>2. lock = p
      BY <1>1, <2>3 DEF Admit
    <3> QED BY <1>1, <2>3, <3>1, <3>2 DEF Ended
  <2> QED BY <2>1, <2>2, <2>3
<1>3. ASSUME NEW u \in Procs, proc[u] = "idle", proc' = [proc EXCEPT ![u] = "started"],
             UNCHANGED <<lock, due, loaded>>
      PROVE  Meanwhile
  BY <1>1, <1>3 DEF TypeOK
<1>4. ASSUME UNCHANGED <<proc, lock>>, Due => Due' PROVE Meanwhile
  BY <1>1, <1>4
<1>5. ASSUME NEW m \in Manuals, RunOnce(m) PROVE Meanwhile
  BY <1>3, <1>5 DEF RunOnce, triggers, command, Procs
<1>6. ASSUME NEW u \in Units, proc' = Started(u), UNCHANGED <<lock, due>>,
             UNCHANGED loaded \/ loaded' = "none"
      PROVE  Meanwhile
  BY <1>1, <1>6 DEF Started, Procs, TypeOK
<1>7. CASE SafetyTimerFires \/ \E t \in Timers : TimerFires(t)
  BY <1>6, <1>7 DEF SafetyTimerFires, TimerFires, triggers, command, Units
<1>8. CASE DeadlinePasses
  BY <1>4, <1>8 DEF DeadlinePasses, running
<1>9. ~FallAsleep /\ ~Resume /\ ~PowerLost /\ ~Boot /\ ~BeginRestore
  BY <1>1 DEF FallAsleep, Resume, PowerLost, Boot, BeginRestore, Awake
<1>10. ~RestoreStep
  BY <1>1 DEF RestoreStep, StopSafetyTimer, RemoveHook, DisableService, StopProducers,
              LockForRestore, ClearTimer, ClearService, RestoreStock, FinishRestore, At
<1>11. CASE BeginInstall \/ LoadState \/ WriteFiles \/ RecordChoices \/ EnableService
            \/ EnableSafetyTimer
  <2>1. UNCHANGED <<proc, lock>>
    BY <1>11 DEF BeginInstall, LoadState, WriteFiles, RecordChoices, EnableService,
                 EnableSafetyTimer, running
  <2>2. Due => Due'
    BY <1>1, <1>11 DEF BeginInstall, LoadState, WriteFiles, RecordChoices, EnableService,
                 EnableSafetyTimer, triggers, AtInstall, Continue, TypeOK
  <2> QED BY <1>4, <2>1, <2>2
<1>12. CASE StartService
  BY <1>6, <1>12 DEF StartService, triggers, Returns, Units
<1>13. CASE CommandEnds
  <2>1. UNCHANGED <<proc, due>> /\ loaded' = "none" /\ (lock # "restore" => lock' = lock)
    BY <1>13 DEF CommandEnds, Returns, triggers
  <2>2. lock # "restore"
    BY <1>1 DEF HolderInv, Holder
  <2> QED BY <1>4, <2>1, <2>2
<1>14. CASE UNCHANGED vars
  BY <1>4, <1>14 DEF vars, running, triggers, command
<1> QED BY <1>2, <1>5, <1>7, <1>8, <1>9, <1>10, <1>11, <1>12, <1>13, <1>14
        DEF Next, InstallStep, Crash, Shutdown

(***************************************************************************)
(* What is fair can go on.  As in CycleProofs this is a hypothesis of the  *)
(* liveness theorems, for the provers do not reason about ENABLED; each    *)
(* part says of one fair action that its guard is all it waits for.        *)
(***************************************************************************)

UnitCanGoOn(u) ==
  Awake /\ proc[u] \in {"started", "held"} => ENABLED <<Step(u) \/ Kill(u)>>_vars
ManualCanRead ==
  Awake /\ ManualHeld => ENABLED <<\E m \in Manuals : Admit(m) \/ Refuse(m)>>_vars
SafetyCanFire ==
  Awake /\ safety /\ proc["appliance"] = "idle" => ENABLED <<SafetyTimerFires>>_vars
TimeCanPass == ~due \/ loaded = "ahead" => ENABLED <<DeadlinePasses>>_vars
RestoreCanGoOn == cmd = "restore" /\ Awake => ENABLED <<RestoreStep>>_vars

CanGoOn ==
  /\ \A u \in Units : UnitCanGoOn(u)
  /\ ManualCanRead /\ SafetyCanFire /\ TimeCanPass /\ RestoreCanGoOn

\* What CycleComes leads to.
Goal == (\E p \in Procs : Attempted(p)) \/ ~Serving

LEMMA GoalOrCalm == Goal <=> ~Calm
BY DEF Goal, Calm

\* What is fair for each unit.
LEMMA FairUnits ==
  /\ Fairness => UnitGoesOn("appliance") /\ UnitGoesOn("a") /\ UnitGoesOn("b")
  /\ CanGoOn => UnitCanGoOn("appliance") /\ UnitCanGoOn("a") /\ UnitCanGoOn("b")
<1>1. (\A u \in Units : UnitGoesOn(u)) => UnitGoesOn("appliance") /\ UnitGoesOn("a") /\ UnitGoesOn("b")
  BY DEF Units, Timers
<1>2. CanGoOn => UnitCanGoOn("appliance") /\ UnitCanGoOn("a") /\ UnitCanGoOn("b")
  BY DEF CanGoOn, Units, Timers
<1>3. Fairness => \A u \in Units : UnitGoesOn(u)
  BY PTL DEF Fairness
<1> QED BY <1>1, <1>2, <1>3, PTL

\* The deadline passes.
LEMMA DueComes == FairSpec /\ []CanGoOn => []<>Due
<1>1. ~Due => ~due \/ loaded = "ahead"
  BY DEF Due
<1>2. <<DeadlinePasses>>_vars => Due'
  BY DEF DeadlinePasses, Due
<1>3. CanGoOn => TimeCanPass
  BY DEF CanGoOn
<1> QED BY <1>1, <1>2, <1>3, PTL DEF FairSpec, Fairness, TimeCanPass

\* A process that holds the lock, reads the marker and finds the deadline
\* passed gets into a cycle.
DueHeldBy(p) == Due /\ HeldBy(p)
UnitComes(u) == FairSpec /\ []CanGoOn /\ UnitGoesOn(u) /\ []UnitCanGoOn(u) => (DueHeldBy(u) ~> Goal)

LEMMA HeldStays ==
  ASSUME HolderInv, [Next]_vars, ~Goal, ~Goal', NEW p \in Procs, DueHeldBy(p)
  PROVE  DueHeldBy(p)'
<1>1. Meanwhile
  BY CalmStep, GoalOrCalm DEF Goal, Calm
<1> QED BY <1>1 DEF Meanwhile, DueHeldBy

LEMMA AdmitIsGoal ==
  ASSUME HolderInv, ~Goal, NEW p \in Procs, DueHeldBy(p), Admit(p)
  PROVE  Goal'
<1>1. ~marker /\ due /\ TypeOK
  BY DEF Goal, Serving, DueHeldBy, Due, HolderInv, LockInv
<1>2. \E s \in {"plan", "save", "refused"} : proc' = [proc EXCEPT ![p] = s]
  BY <1>1 DEF Admit, Blocked, Suppressed, Goto
<1>3. Attempted(p)'
  BY <1>1, <1>2 DEF Attempted, Working, TypeOK
<1> QED BY <1>3 DEF Goal

LEMMA UnitGetsIn ==
  ASSUME NEW u \in Units
  PROVE  UnitComes(u)
<1>0. u \in Procs
  BY DEF Procs
<1>1. HolderInv /\ DueHeldBy(u) /\ ~Goal /\ [Next]_vars => DueHeldBy(u)' \/ Goal'
  BY <1>0, HeldStays
<1>2. HolderInv /\ DueHeldBy(u) /\ ~Goal /\ <<Step(u) \/ Kill(u)>>_vars => Goal'
  <2> SUFFICES ASSUME HolderInv, DueHeldBy(u), ~Goal, Step(u) \/ Kill(u) PROVE Goal'
    OBVIOUS
  <2>1. proc[u] = "held"
    BY DEF DueHeldBy, HeldBy
  <2>2. Admit(u)
    BY <2>1 DEF Step, Kill, Working, AcquireCycleLock, Refuse, Plan, StopTarget, ArmTarget, SaveState,
                Suspend, Unlock
  <2> QED BY <1>0, <2>2, AdmitIsGoal
<1>3. DueHeldBy(u) /\ ~Goal => Awake /\ proc[u] \in {"started", "held"}
  BY DEF DueHeldBy, HeldBy, Goal, Serving
<1> QED BY <1>1, <1>2, <1>3, HolderInvariant, PTL
        DEF UnitComes, FairSpec, Spec, UnitGoesOn, UnitCanGoOn

\* The same for the processes that users start.
DueManual == Due /\ ManualHeld

LEMMA ManualGetsIn == FairSpec /\ []CanGoOn => (DueManual ~> Goal)
<1>1. HolderInv /\ DueManual /\ ~Goal /\ [Next]_vars => DueManual' \/ Goal'
  <2> SUFFICES ASSUME HolderInv, DueManual, ~Goal, [Next]_vars, ~Goal' PROVE DueManual'
    OBVIOUS
  <2>1. PICK m \in Manuals : DueHeldBy(m)
    BY DEF DueManual, ManualHeld, DueHeldBy
  <2>2. m \in Procs
    BY DEF Procs
  <2>3. DueHeldBy(m)'
    BY <2>1, <2>2, HeldStays
  <2> QED BY <2>3 DEF DueManual, ManualHeld, DueHeldBy
<1>2. HolderInv /\ DueManual /\ ~Goal /\ <<\E m \in Manuals : Admit(m) \/ Refuse(m)>>_vars => Goal'
  <2> SUFFICES ASSUME HolderInv, DueManual, ~Goal, NEW m \in Manuals,
                        Admit(m) \/ Refuse(m)
                 PROVE  Goal'
    OBVIOUS
  <2>1. m \in Procs
    BY DEF Procs
  <2>0. Admit(m)
    BY <2>1 DEF Refuse, Goal, Attempted
  <2>2. proc[m] = "held"
    BY <2>0 DEF Admit
  <2>3. DueHeldBy(m)
    BY <2>1, <2>2 DEF HolderInv, LockInv, OneCycle, DueManual, DueHeldBy, HeldBy
  <2> QED BY <2>0, <2>1, <2>3, AdmitIsGoal
<1>3. DueManual /\ ~Goal => Awake /\ ManualHeld
  BY DEF DueManual, Goal, Serving
<1>4. CanGoOn => ManualCanRead
  BY DEF CanGoOn
<1> QED BY <1>1, <1>2, <1>3, <1>4, HolderInvariant, PTL
        DEF FairSpec, Spec, Fairness, ManualReads, ManualCanRead

\* The recovery timer starts the appliance service, and with the lock free it
\* takes it unless another process does.
AtRest == Due /\ Free /\ proc["appliance"] = "idle"
OnItsWay == Due /\ Free /\ proc["appliance"] = "started"
DueHeld == Due /\ AnyHeld

LEMMA CalmIs == HolderInv /\ Due /\ ~Goal => AtRest \/ OnItsWay \/ DueHeld
<1> SUFFICES ASSUME HolderInv, Due, ~Goal PROVE AtRest \/ OnItsWay \/ DueHeld
  OBVIOUS
<1>1. Calm
  BY GoalOrCalm
<1>2. Free \/ AnyHeld
  BY <1>1, CalmLock
<1>3. Free => proc["appliance"] \in {"idle", "started"}
  BY <1>1, ProcessAssumption DEF HolderInv, LockInv, TypeOK, Steps, OneCycle, Calm, Attempted, Working,
       Free, Procs, Units, Timers
<1> QED BY <1>2, <1>3 DEF AtRest, OnItsWay, DueHeld

\* Meanwhile, as an implication.
LEMMA CalmGoesOn == HolderInv /\ Due /\ ~Goal /\ [Next]_vars => Goal' \/ (Due' /\ Meanwhile)
<1> SUFFICES ASSUME HolderInv, Due, ~Goal, [Next]_vars, ~Goal' PROVE Due' /\ Meanwhile
  OBVIOUS
<1>1. Meanwhile
  BY CalmStep DEF Goal, Calm
<1> QED BY <1>1 DEF Meanwhile

LEMMA ApplianceRests == FairSpec /\ []CanGoOn => (AtRest ~> OnItsWay \/ DueHeld \/ Goal)
<1>1. HolderInv /\ AtRest /\ ~Goal /\ [Next]_vars => Due' \/ Goal'
  BY CalmGoesOn DEF AtRest
<1>2. HolderInv /\ AtRest /\ ~Goal /\ <<SafetyTimerFires>>_vars => OnItsWay' \/ Goal'
  <2> SUFFICES ASSUME HolderInv, AtRest, SafetyTimerFires PROVE OnItsWay'
    OBVIOUS
  <2>1. "appliance" \in Procs /\ TypeOK
    BY DEF HolderInv, LockInv, Procs, Units
  <2> QED BY <2>1 DEF AtRest, OnItsWay, SafetyTimerFires, Started, Free, Due, command, triggers,
                      TypeOK
<1>3. AtRest /\ ~Goal => Awake /\ safety /\ proc["appliance"] = "idle"
  BY DEF AtRest, Goal, Serving
<1>4. CanGoOn => SafetyCanFire
  BY DEF CanGoOn
<1> QED BY <1>1, <1>2, <1>3, <1>4, CalmIs, HolderInvariant, PTL
        DEF FairSpec, Spec, Fairness, SafetyCanFire

LEMMA ApplianceGetsIn == FairSpec /\ []CanGoOn => (OnItsWay ~> DueHeld \/ Goal)
<1>1. HolderInv /\ OnItsWay /\ ~Goal /\ [Next]_vars => Goal' \/ (Due' /\ ~AtRest')
  <2> SUFFICES ASSUME HolderInv, OnItsWay, ~Goal, [Next]_vars, ~Goal' PROVE Due' /\ ~AtRest'
    OBVIOUS
  <2>1. Due' /\ Meanwhile
    BY CalmGoesOn DEF OnItsWay
  <2> QED BY <2>1 DEF Meanwhile, OnItsWay, AtRest, HeldBy
<1>2. HolderInv /\ OnItsWay /\ ~Goal /\ <<Step("appliance") \/ Kill("appliance")>>_vars =>
        DueHeld'
  <2> SUFFICES ASSUME HolderInv, OnItsWay, Step("appliance") \/ Kill("appliance") PROVE DueHeld'
    OBVIOUS
  <2>1. AcquireCycleLock("appliance")
    BY DEF OnItsWay, Step, Kill, Working, Admit, Refuse, Plan, StopTarget, ArmTarget, SaveState,
              Suspend,
           Unlock
  <2>2. "appliance" \in Procs /\ TypeOK
    BY DEF HolderInv, LockInv, Procs, Units
  <2> QED BY <2>1, <2>2 DEF AcquireCycleLock, OnItsWay, Free, Due, DueHeld, AnyHeld, HeldBy,
                            triggers, command, TypeOK
<1>3. OnItsWay /\ ~Goal => Awake /\ proc["appliance"] \in {"started", "held"}
  BY DEF OnItsWay, Goal, Serving
<1> QED BY <1>1, <1>2, <1>3, CalmIs, FairUnits, HolderInvariant, PTL
        DEF FairSpec, Spec, UnitGoesOn, UnitCanGoOn

\* While the installed device is awake another cycle always comes, or reports
\* the error that kept it from beginning, for every set of manual processes and
\* every choice of faults: the deadline passes, and who holds the lock then, or
\* the appliance service that the recovery timer starts, gets that far.
THEOREM CyclesCome == FairSpec /\ []CanGoOn => CycleComes
<1>1. HolderInv /\ Due /\ ~Goal /\ [Next]_vars => Due' \/ Goal'
  BY CalmGoesOn
<1>2. DueHeld => DueHeldBy("appliance") \/ DueHeldBy("a") \/ DueHeldBy("b") \/ DueManual
  BY DEF DueHeld, AnyHeld, DueHeldBy, DueManual
<1>3. UnitComes("appliance") /\ UnitComes("a") /\ UnitComes("b")
  BY UnitGetsIn DEF Units, Timers
<1>4. FairSpec /\ []CanGoOn =>
        /\ DueHeldBy("appliance") ~> Goal
        /\ DueHeldBy("a") ~> Goal
        /\ DueHeldBy("b") ~> Goal
  BY <1>3, FairUnits, PTL DEF UnitComes, FairSpec
<1>5. FairSpec /\ []CanGoOn => (DueHeld ~> Goal)
  BY <1>2, <1>4, ManualGetsIn, PTL
<1>6. FairSpec /\ []CanGoOn => (Due ~> Goal)
  BY <1>5, CalmIs, ApplianceRests, ApplianceGetsIn, HolderInvariant, PTL DEF FairSpec
<1>7. FairSpec /\ []CanGoOn => []<>Goal
  BY <1>6, DueComes, PTL
<1>8. []<>Goal => CycleComes
  BY PTL DEF Goal, CycleComes
<1> QED BY <1>7, <1>8

-----------------------------------------------------------------------------
(* Restore ends. *)

Over == cmd # "restore" \/ ~Awake
InRestore(s) == cmd = "restore" /\ Awake /\ step = s
After(s) == Over \/ (s # "finish" /\ InRestore(Following(s)))

\* What restore is about to call is one of its calls.
RestoreAt == cmd = "restore" => step \in RestoreSteps

\* A step makes restore's call or none of it.
LEMMA RestoreGoesOn ==
  ASSUME RestoreAt, [Next]_vars
  PROVE  \/ UNCHANGED <<cmd, step>>
         \/ cmd' # "restore"
         \/ cmd # "restore" /\ step' \in RestoreSteps
         \/ step # "finish" /\ UNCHANGED cmd /\ step' = Following(step)
<1> DEFINE Kept == UNCHANGED <<cmd, step>>
<1>1. ASSUME NEW p \in Procs, Step(p) \/ Kill(p) PROVE Kept
  BY <1>1 DEF Step, Kill, AcquireCycleLock, Admit, Refuse, Plan, StopTarget, ArmTarget, SaveState,
              Suspend,
              Unlock, command
<1>2. CASE (\E m \in Manuals : RunOnce(m)) \/ (\E t \in Timers : TimerFires(t))
           \/ SafetyTimerFires \/ DeadlinePasses \/ FallAsleep \/ Resume \/ Boot
  BY <1>2 DEF RunOnce, TimerFires, SafetyTimerFires, DeadlinePasses, FallAsleep, Resume, Boot, command
<1>3. CASE PowerLost \/ CommandEnds \/ BeginInstall
  BY <1>3 DEF PowerLost, CommandEnds, BeginInstall, Returns
<1>4. CASE BeginRestore
  BY <1>4 DEF BeginRestore, Returns, RestoreSteps
<1>5. CASE RestoreStep
  BY <1>5 DEF RestoreStep, StopSafetyTimer, RemoveHook, DisableService, StopProducers,
              LockForRestore, ClearTimer, ClearService, RestoreStock, FinishRestore, At, Proceed,
              Returns
<1>6. CASE InstallStep
  BY <1>6 DEF InstallStep, LoadState, WriteFiles, RecordChoices, EnableService,
              EnableSafetyTimer, StartService, AtInstall, Continue, Returns
<1>7. CASE UNCHANGED vars
  BY <1>7 DEF vars, command
<1> QED BY <1>1, <1>2, <1>3, <1>4, <1>5, <1>6, <1>7 DEF Next, Crash, Shutdown

LEMMA FollowingStep == \A s \in RestoreSteps : Following(s) \in RestoreSteps
BY DEF RestoreSteps, Following

LEMMA RestoreAtInvariant == Spec => []RestoreAt
<1>1. Init => RestoreAt
  BY DEF Init, RestoreAt
<1>2. RestoreAt /\ [Next]_vars => RestoreAt'
  BY RestoreGoesOn, FollowingStep DEF RestoreAt
<1> QED BY <1>1, <1>2, PTL DEF Spec

\* From each call restore comes to the next one, or is over.
RestoreLeaves(s) == FairSpec /\ []CanGoOn => (InRestore(s) ~> After(s))

LEMMA EachCallReturns ==
  ASSUME NEW s \in RestoreSteps
  PROVE  RestoreLeaves(s)
<1>1. RestoreAt /\ InRestore(s) /\ [Next]_vars => InRestore(s)' \/ After(s)'
  BY RestoreGoesOn DEF InRestore, After, Over
<1>2. RestoreAt /\ InRestore(s) /\ <<RestoreStep>>_vars => After(s)'
  BY DEF RestoreStep, StopSafetyTimer, RemoveHook, DisableService, StopProducers,
         LockForRestore, ClearTimer, ClearService, RestoreStock, FinishRestore, At, Proceed,
         Returns, InRestore, After, Over, Awake
<1>3. InRestore(s) => cmd = "restore" /\ Awake
  BY DEF InRestore
<1>4. CanGoOn => RestoreCanGoOn
  BY DEF CanGoOn
<1> QED BY <1>1, <1>2, <1>3, <1>4, RestoreAtInvariant, PTL
        DEF RestoreLeaves, FairSpec, Spec, Fairness, RestoreCanGoOn

LEMMA CallsInOrder ==
  /\ After("safety") => Over \/ InRestore("hook")
  /\ After("hook") => Over \/ InRestore("service")
  /\ After("service") => Over \/ InRestore("drain")
  /\ After("drain") => Over \/ InRestore("lock")
  /\ After("lock") => Over \/ InRestore("timerA")
  /\ After("timerA") => Over \/ InRestore("serviceA")
  /\ After("serviceA") => Over \/ InRestore("timerB")
  /\ After("timerB") => Over \/ InRestore("serviceB")
  /\ After("serviceB") => Over \/ InRestore("stock")
  /\ After("stock") => Over \/ InRestore("finish")
  /\ After("finish") => Over
BY DEF After, Following

LEMMA RestoreIsAtACall ==
  RestoreAt => \/ Over
               \/ InRestore("safety") \/ InRestore("hook") \/ InRestore("service")
               \/ InRestore("drain") \/ InRestore("lock") \/ InRestore("timerA")
               \/ InRestore("serviceA") \/ InRestore("timerB") \/ InRestore("serviceB")
               \/ InRestore("stock") \/ InRestore("finish")
BY DEF RestoreAt, RestoreSteps, InRestore, Over

\* Restore ends, also beside a manual cycle that hangs with the lock: each of
\* its calls returns or the command is over, and none comes twice.
THEOREM RestoreComesToEnd == FairSpec /\ []CanGoOn => RestoreEnds
<1>1. /\ RestoreLeaves("safety") /\ RestoreLeaves("hook") /\ RestoreLeaves("service")
      /\ RestoreLeaves("drain") /\ RestoreLeaves("lock") /\ RestoreLeaves("timerA")
      /\ RestoreLeaves("serviceA") /\ RestoreLeaves("timerB") /\ RestoreLeaves("serviceB")
      /\ RestoreLeaves("stock") /\ RestoreLeaves("finish")
  BY EachCallReturns DEF RestoreSteps
<1>2. FairSpec /\ []CanGoOn =>
        /\ InRestore("finish") ~> Over
        /\ InRestore("stock") ~> Over \/ InRestore("finish")
        /\ InRestore("serviceB") ~> Over \/ InRestore("stock")
        /\ InRestore("timerB") ~> Over \/ InRestore("serviceB")
        /\ InRestore("serviceA") ~> Over \/ InRestore("timerB")
        /\ InRestore("timerA") ~> Over \/ InRestore("serviceA")
  BY <1>1, CallsInOrder, PTL DEF RestoreLeaves
<1>3. FairSpec /\ []CanGoOn =>
        /\ InRestore("lock") ~> Over \/ InRestore("timerA")
        /\ InRestore("drain") ~> Over \/ InRestore("lock")
        /\ InRestore("service") ~> Over \/ InRestore("drain")
        /\ InRestore("hook") ~> Over \/ InRestore("service")
        /\ InRestore("safety") ~> Over \/ InRestore("hook")
  BY <1>1, CallsInOrder, PTL DEF RestoreLeaves
<1>4. FairSpec /\ []CanGoOn => (cmd = "restore" ~> Over)
  BY <1>2, <1>3, RestoreIsAtACall, RestoreAtInvariant, PTL DEF FairSpec
<1> QED BY <1>4, PTL DEF RestoreEnds, Over

(***************************************************************************)
(* Scheduler implements ApplianceTurns.  A step admits a cycle, takes or   *)
(* gives back the lock, or moves the marker, and never two of these.       *)
(***************************************************************************)

\* Who moves the marker leaves processes and lock alone, and restore has no
\* lock when it removes it.
LEMMA MarkerMoves ==
  ASSUME HolderInv, [Next]_vars, marker' # marker
  PROVE  UNCHANGED running /\ (~marker' => lock # "restore")
<1>1. BeginRestore \/ FinishRestore \/ BeginInstall
  BY DEF Next, vars, command, Step, Kill, AcquireCycleLock, Admit, Refuse, Plan, StopTarget, ArmTarget,
         SaveState, Suspend, Unlock, RunOnce, TimerFires, SafetyTimerFires, DeadlinePasses,
         FallAsleep, Resume,
         Crash, Shutdown, PowerLost, Boot, RestoreStep, StopSafetyTimer, RemoveHook, DisableService,
         StopProducers, LockForRestore, RestoreStock, ClearTimer, ClearService, Proceed,
         InstallStep, LoadState, WriteFiles, RecordChoices, EnableService, EnableSafetyTimer,
         StartService, Continue, CommandEnds
<1>2. CASE BeginRestore
  BY <1>2 DEF BeginRestore, HolderInv, LockInv, TypeOK
<1>3. CASE FinishRestore \/ BeginInstall
  BY <1>3 DEF FinishRestore, BeginInstall, At, HolderInv, Holder, Locked
<1> QED BY <1>1, <1>2, <1>3

\* Restore takes the lock when it is free, and behind its marker.
LEMMA RestoreTakesOver ==
  ASSUME HolderInv, [Next]_vars, lock' = "restore", lock # "restore"
  PROVE  lock = "none" /\ marker
<1>0. "restore" \notin Procs
  BY ProcessAssumption DEF Procs, Units, Timers
<1>1. ASSUME NEW p \in Procs, Step(p) \/ Kill(p) PROVE FALSE
  BY <1>0, <1>1 DEF Step, Kill, AcquireCycleLock, Admit, Refuse, Plan, StopTarget, ArmTarget,
         SaveState, Suspend, Unlock, Fail, Goto, Ended
<1>2. LockForRestore
  BY <1>0, <1>1 DEF Next, vars, running, RunOnce, TimerFires, SafetyTimerFires, DeadlinePasses,
         FallAsleep, Resume, Crash, Shutdown, PowerLost, Boot, BeginRestore, RestoreStep,
         StopSafetyTimer,
         RemoveHook, DisableService, StopProducers, RestoreStock, FinishRestore, ClearTimer,
         ClearService, Ended, BeginInstall, InstallStep, LoadState, WriteFiles, RecordChoices,
         EnableService, EnableSafetyTimer, StartService, CommandEnds
<1> QED BY <1>2 DEF LockForRestore, At, Free, HolderInv, Marked

LEMMA TurnOf ==
  ASSUME HolderInv
  PROVE  /\ Turn \in Procs \cup {"none", "restore"}
         /\ \A p \in Procs : Turn = p <=> Working(p)
         /\ Turn = "restore" <=> lock = "restore"
BY ProcessAssumption DEF Turn, HolderInv, LockInv, OneCycle, TypeOK, Procs, Units, Timers

LEMMA TurnStep ==
  ASSUME HolderInv, HolderInv', [Next]_vars
  PROVE  [Turns!Next]_(Turns!vars)
<1> USE DEF Turns!Next, Turns!vars
<1>0. /\ TypeOK /\ marker \in BOOLEAN /\ marker' \in BOOLEAN
      /\ "none" \notin Procs /\ "restore" \notin Procs
  BY ProcessAssumption DEF HolderInv, LockInv, TypeOK, Procs, Units, Timers
<1>1. CASE marker' # marker
  <2>1. Turn' = Turn
    BY <1>1, MarkerMoves DEF running, Turn, Working
  <2>2. CASE marker'
    BY <2>1, <2>2 DEF Turns!Bar
  <2>3. CASE ~marker'
    <3>1. Turn # "restore"
      BY <1>1, <2>3, MarkerMoves, TurnOf
    <3> QED BY <1>0, <2>1, <2>3, <3>1 DEF Turns!Lift
  <2> QED BY <2>2, <2>3
<1>2. CASE marker' = marker
  <2>1. /\ Turn' \in Procs \cup {"none", "restore"}
        /\ \A p \in Procs : Turn' = p <=> Working(p)'
        /\ Turn' = "restore" <=> lock' = "restore"
    BY ProcessAssumption DEF Turn, HolderInv, LockInv, OneCycle, TypeOK, Procs, Units, Timers
  <2>2. ASSUME NEW p \in Procs, Turn' = p, Turn # p PROVE Turns!Begin(p)
    <3>1. Admitted(p)
      BY <1>0, <2>1, <2>2, TurnOf, OnlyAdmission
    <3>2. lock = p /\ ~Working(p) /\ ~marker
      BY <2>2, <3>1, TurnOf DEF Admitted, Admit, Blocked, HolderInv, LockInv, OneCycle
    <3>3. Turn = "none"
      BY <3>2 DEF Turn
    <3> QED BY <1>2, <2>2, <3>2, <3>3 DEF Turns!Begin
  <2>3. ASSUME Turn' = "restore", Turn # "restore" PROVE Turns!TakeOver
    <3>1. lock = "none" /\ marker
      BY <2>1, <2>3, TurnOf, RestoreTakesOver
    <3>2. Turn = "none"
      BY <1>0, <3>1 DEF Turn
    <3> QED BY <1>2, <2>3, <3>1, <3>2 DEF Turns!TakeOver
  <2>4. ASSUME Turn' = "none", Turn # "none" PROVE Turns!End \/ Turns!HandBack
    BY <1>2, <2>4, TurnOf DEF Turns!End, Turns!HandBack
  <2> QED BY <1>2, <2>1, <2>2, <2>3, <2>4
<1> QED BY <1>1, <1>2

\* The lock, the marker and the order of restore's calls give out turns as
\* ApplianceTurns says, whoever starts processes and whatever is killed.
THEOREM SchedulerTakesTurns == Spec => TakesTurns
<1>1. Init => Turns!Init
  BY ProcessAssumption DEF Init, Turns!Init, Turn, Procs, Units, Timers
<1>2. HolderInv /\ HolderInv' /\ [Next]_vars => [Turns!Next]_(Turns!vars)
  BY TurnStep
<1> QED BY <1>1, <1>2, HolderInvariant, PTL DEF Spec, TakesTurns, Turns!Spec
=============================================================================
