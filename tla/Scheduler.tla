------------------------------ MODULE Scheduler ------------------------------
(***************************************************************************)
(* Who starts a cycle, who may run it, and how install and restore get it  *)
(* out of the way: the three units that run "run-scheduled" (the appliance *)
(* service and the services of the two transient timers), manual           *)
(* "run-once" processes, the recovery timer, the resume hook, the cycle    *)
(* lock and the restore marker.  A cycle is reduced to what another        *)
(* process can notice of it: Cycle has the rest.                           *)
(*                                                                         *)
(* A process goes started, held (it has the lock), plan, [stop, arm,]      *)
(* save, sleep, exit; or it is refused: an error ends it before its cycle  *)
(* begins.  An armed timer may fire at any time, also before the deadline  *)
(* in the state file, as a stale one does.  A suspend that systemd has     *)
(* accepted puts the device to sleep at any time after; the RTC alarm and  *)
(* the power button resume it at any time.                                 *)
(***************************************************************************)
EXTENDS Naturals

CONSTANTS
  Manuals,  \* processes in which users run "run-once"
  Faults    \* the kinds of failure the environment may inject

Timers == {"a", "b"}                  \* trmnl-rm1-next-a and -b
Units  == {"appliance"} \cup Timers   \* the services that run cycles
Procs  == Units \cup Manuals

ASSUME ProcessAssumption ==
  /\ Manuals \cap (Units \cup {"none", "restore"}) = {}
  /\ Faults \subseteq {"start", "self", "kill", "reboot", "plan", "save", "suspend",
                     "restore", "command"}

VARIABLES
  (* processes that run cycles *)
  proc,        \* what each is about to do
  lock,        \* who holds cycle.lock
  path,        \* of the holder: the normal, recovery or critical path
  suspend,     \* of the holder: has it armed the RTC alarm, to suspend on it?
  (* what starts them *)
  timer,       \* is each transient timer armed?
  due,         \* does run-scheduled find no deadline in the future?
  safety,      \* is the recovery timer running?
  hook,        \* is the resume hook in place?
  enabled,     \* is the appliance service started at boot?
  (* the device *)
  dev,         \* awake, asleep or off
  asked,       \* has systemd accepted a suspend that is still to come?
  (* install-appliance and restore-stock *)
  marker,      \* restore-in-progress
  cmd, step,   \* the command that runs and the call it is about to make
  failed,      \* has restore collected an error?
  loaded,      \* the record install has loaded: still current, or replaced
               \* since, with its deadline passed or not
  (* history, for the properties only *)
  restored,    \* restore succeeded, and nothing was installed or run by hand since
  aborted      \* the last restore ended after its marker, without success

running  == <<proc, lock, path, suspend>>
triggers == <<timer, due>>
wiring   == <<safety, hook, enabled>>
device   == <<dev, asked>>
command  == <<marker, cmd, step, failed, loaded>>
history  == <<restored, aborted>>
vars == <<running, triggers, wiring, device, command, history>>

Steps ==
  {"idle", "started", "held", "plan", "stop", "arm", "save", "sleep", "exit", "refused"}
RestoreSteps ==
  {"safety", "hook", "service", "drain", "lock", "timerA", "serviceA",
   "timerB", "serviceB", "stock", "finish"}
InstallSteps == {"load", "files", "record", "enable", "timer", "start"}

TypeOK ==
  /\ proc \in [Procs -> Steps]
  /\ lock \in Procs \cup {"none", "restore"}
  /\ path \in {"normal", "recovery", "critical"}
  /\ timer \in [Timers -> BOOLEAN]
  /\ {suspend, due, asked, safety, hook, enabled, marker, failed, restored, aborted}
       \subseteq BOOLEAN
  /\ dev \in {"awake", "asleep", "off"}
  /\ cmd \in {"none", "restore", "install"}
  /\ step \in {"none"} \cup RestoreSteps \cup InstallSteps
  /\ loaded \in {"none", "current", "passed", "ahead"}

\* A stock device, or one with the appliance installed that has just booted.
Init ==
  /\ proc = [p \in Procs |-> "idle"] /\ lock = "none"
  /\ path = "normal" /\ suspend = FALSE
  /\ timer = [t \in Timers |-> FALSE] /\ due = TRUE
  /\ enabled \in BOOLEAN /\ safety = enabled /\ hook = enabled
  /\ dev = "awake" /\ asked = FALSE
  /\ marker = FALSE /\ cmd = "none" /\ step = "none" /\ failed = FALSE
  /\ loaded = "none" /\ restored = FALSE /\ aborted = FALSE

Awake == dev = "awake"

-----------------------------------------------------------------------------
(* Processes start and end. *)

\* Starting a unit that is running already is a no-op.
Started(unit) ==
  IF proc[unit] = "idle" THEN [proc EXCEPT ![unit] = "started"] ELSE proc

\* The processes in S are gone, and with them a lock that one of them held.
Ended(S) ==
  /\ proc' = [p \in Procs |-> IF p \in S THEN "idle" ELSE proc[p]]
  /\ lock' = IF lock \in S THEN "none" ELSE lock
  /\ suspend' = (suspend /\ lock \notin S)
  /\ path' = IF lock \in S THEN "normal" ELSE path

Goto(p, where) ==
  proc' = [proc EXCEPT ![p] = where] /\ UNCHANGED lock

\* flock with LOCK_EX and LOCK_NB.
AlwaysFree == TRUE
Free == lock = "none"

\* An overlapping invocation returns at once and without an effect.
AcquireCycleLock(p) ==
  /\ Awake /\ proc[p] = "started"
  /\ \/ /\ Free
        /\ lock' = p /\ proc' = [proc EXCEPT ![p] = "held"]
        /\ UNCHANGED <<path, suspend>>
     \/ ~Free /\ Ended({p})
  /\ UNCHANGED <<triggers, wiring, device, command, history>>

\* run-scheduled honours the recorded deadline, run-once does not.
SuppressedWhenDue(p) == p \in Units /\ due
Suppressed(p) == p \in Units /\ ~due

\* Both are turned away by the restore marker.
UnlessManual(p) == marker /\ p \in Units
Blocked(p) == marker

\* With the lock held: the marker, then the deadline.  The marker, the state or
\* the configuration may be unreadable, and the configuration invalid; a lock
\* file that fails to open ends a process in the same way, only earlier.  A cycle
\* that fails before it plans is on the recovery path when it does; a critical
\* battery plans nothing.
Admit(p) ==
  /\ Awake /\ proc[p] = "held"
  /\ \/ /\ Blocked(p) \/ Suppressed(p)
        /\ Ended({p})
        /\ UNCHANGED restored
     \/ /\ "start" \in Faults
        /\ Goto(p, "refused")
        /\ UNCHANGED <<path, suspend, restored>>
     \/ /\ ~Blocked(p) /\ ~Suppressed(p)
        /\ \/ Goto(p, "plan") /\ path' \in {"normal", "recovery"}
           \/ Goto(p, "save") /\ path' = "critical"
        /\ restored' = (restored /\ p \in Units)
        /\ UNCHANGED suspend
  /\ UNCHANGED <<triggers, wiring, device, command, aborted>>

\* The process reports its error, with the lock if it has it, and is gone.
Refuse(p) ==
  /\ Awake /\ proc[p] = "refused"
  /\ Ended({p})
  /\ UNCHANGED <<triggers, wiring, device, command, history>>

-----------------------------------------------------------------------------
(* The rest of a cycle, in which only the lock's holder is. *)

RecoversAs(p, next) ==
  Goto(p, IF path = "normal" THEN "recovery" ELSE next) /\ UNCHANGED path

\* An error of the normal path starts recovery, which plans again; recovery
\* and the critical path carry on.
Fail(p, next) ==
  IF path = "normal" THEN Goto(p, "plan") /\ path' = "recovery"
                     ELSE Goto(p, next) /\ UNCHANGED path

\* PlanWithDeps: the RTC alarm if the mode suspends, a transient timer if it
\* does not or the alarm cannot be armed.
Plan(p) ==
  /\ Awake /\ proc[p] = "plan"
  /\ suspend' \in BOOLEAN
  /\ Goto(p, IF suspend' THEN "save" ELSE "stop")
  /\ UNCHANGED <<path, triggers, wiring, device, command, history>>

\* ReadSelfUnit: the unit the process runs in, as far as it can tell.
SelfUnit(p) == {p} \cup (IF "self" \in Faults THEN {"unknown"} ELSE {})

\* The unit that TransientWithRunner arms: never the one it knows to be its own.
Target(self) == IF self = "a" THEN "b" ELSE "a"

\* systemctl stop of the target's timer and service, the errors of which are
\* ignored.  A process that does not know that it runs in the target stops
\* itself, or, when that fails, cannot arm the target either.
StopTarget(p) ==
  /\ Awake /\ proc[p] = "stop"
  /\ \E self \in SelfUnit(p) :
       LET target == Target(self) IN
         \/ /\ timer' = [timer EXCEPT ![target] = FALSE]
            /\ IF target = p
               THEN Ended({p})
               ELSE /\ proc' = [proc EXCEPT ![p] = "arm", ![target] = "idle"]
                    /\ UNCHANGED <<lock, path, suspend>>
         \/ /\ "plan" \in Faults
            /\ timer' \in {timer, [timer EXCEPT ![target] = FALSE]}
            /\ IF target = p
               THEN Fail(p, "save")
               ELSE Goto(p, "arm") /\ UNCHANGED path
            /\ UNCHANGED suspend
  /\ UNCHANGED <<due, wiring, device, command, history>>

\* systemd-run, which takes only a name that nothing is using.
ArmTarget(p) ==
  /\ Awake /\ proc[p] = "arm"
  /\ LET target == Target(p)
         unused == ~timer[target] /\ proc[target] = "idle"
     IN \/ /\ unused /\ timer' = [timer EXCEPT ![target] = TRUE]
           /\ Goto(p, "save") /\ UNCHANGED path
        \/ /\ "plan" \in Faults \/ ~unused
           /\ Fail(p, "save") /\ UNCHANGED timer
  /\ UNCHANGED <<suspend, due, wiring, device, command, history>>

\* A record with a deadline ahead replaces the one that install may have loaded.
Recorded ==
  /\ due' = FALSE
  /\ loaded' = IF loaded # "current" THEN loaded
               ELSE IF due THEN "passed" ELSE "ahead"

SaveState(p) ==
  /\ Awake /\ proc[p] = "save"
  /\ \/ Recorded /\ Goto(p, "sleep") /\ UNCHANGED path
     \/ /\ "save" \in Faults
        /\ Recorded \/ UNCHANGED <<due, loaded>>
        /\ Fail(p, "sleep")
  /\ UNCHANGED <<suspend, timer, wiring, device, marker, cmd, step, failed, history>>

\* systemctl suspend returns when systemd has accepted it; its fallback, a write
\* to the kernel, returns after the sleep.  The critical path asks for a poweroff,
\* which may fail.
Suspend(p) ==
  /\ Awake /\ proc[p] = "sleep"
  /\ \/ ~suspend /\ Ended({p}) /\ UNCHANGED device
     \/ /\ suspend
        /\ \/ asked' = TRUE /\ UNCHANGED dev
           \/ dev' = "asleep" /\ UNCHANGED asked
        /\ Goto(p, "exit") /\ UNCHANGED <<path, suspend>>
     \/ /\ suspend /\ "suspend" \in Faults
        /\ Fail(p, "exit") /\ UNCHANGED <<device, suspend>>
  /\ UNCHANGED <<triggers, wiring, command, history>>

Unlock(p) ==
  /\ Awake /\ proc[p] = "exit"
  /\ Ended({p})
  /\ UNCHANGED <<triggers, wiring, device, command, history>>

Step(p) ==
  \/ AcquireCycleLock(p) \/ Admit(p) \/ Refuse(p) \/ Plan(p) \/ StopTarget(p)
  \/ ArmTarget(p) \/ SaveState(p) \/ Suspend(p) \/ Unlock(p)

Working(p) == proc[p] \in {"plan", "stop", "arm", "save", "sleep", "exit"}

\* systemd's start timeout, a crash, or a user who interrupts run-once.
Kill(p) ==
  /\ "kill" \in Faults /\ Awake
  /\ Working(p)
  /\ Ended({p})
  /\ UNCHANGED <<triggers, wiring, device, command, history>>

-----------------------------------------------------------------------------
(* What starts cycles. *)

RunOnce(m) ==
  /\ Awake /\ proc[m] = "idle"
  /\ proc' = [proc EXCEPT ![m] = "started"]
  /\ UNCHANGED <<lock, path, suspend, triggers, wiring, device, command, history>>

\* OnUnitInactiveSec: whenever the appliance service has been inactive for
\* five minutes of time awake, however it ended.
SafetyTimerFires ==
  /\ Awake /\ safety /\ proc["appliance"] = "idle"
  /\ proc' = Started("appliance")
  /\ UNCHANGED <<lock, path, suspend, triggers, wiring, device, command, history>>

TimerFires(t) ==
  /\ Awake /\ timer[t]
  /\ timer' = [timer EXCEPT ![t] = FALSE]
  /\ proc' = Started(t)
  /\ UNCHANGED <<lock, path, suspend, due, wiring, device, command, history>>

DeadlinePasses ==
  /\ ~due \/ loaded = "ahead"
  /\ due' = TRUE
  /\ loaded' = IF loaded = "ahead" THEN "passed" ELSE loaded
  /\ UNCHANGED <<running, timer, wiring, device, marker, cmd, step, failed, history>>

\* The accepted suspend takes effect, whoever runs by then.
FallAsleep ==
  /\ Awake /\ asked
  /\ dev' = "asleep" /\ asked' = FALSE
  /\ UNCHANGED <<running, triggers, wiring, command, history>>

\* The hook runs after a sleep through logind, not after the fallback that
\* writes to the kernel.  Its request is lost on a service still running.
Resume ==
  /\ dev = "asleep"
  /\ dev' = "awake" /\ UNCHANGED asked
  /\ UNCHANGED proc \/ (hook /\ proc' = Started("appliance"))
  /\ UNCHANGED <<lock, path, suspend, triggers, wiring, command, history>>

\* What does not survive in files is gone.
PowerLost ==
  /\ dev' = "off" /\ asked' = FALSE
  /\ Ended(Procs \cup {"restore"})
  /\ timer' = [t \in Timers |-> FALSE]
  /\ cmd' = "none" /\ step' = "none" /\ failed' = FALSE /\ loaded' = "none"
  /\ aborted' = (aborted \/ (cmd = "restore" /\ marker))
  /\ UNCHANGED <<due, wiring, marker, restored>>

Shutdown(p) ==
  Awake /\ proc[p] = "sleep" /\ path = "critical" /\ PowerLost

Crash == "reboot" \in Faults /\ dev # "off" /\ PowerLost

\* A new boot id overrules the recorded deadline.
Boot ==
  /\ dev = "off"
  /\ dev' = "awake" /\ due' = TRUE /\ UNCHANGED asked
  /\ proc' = IF enabled THEN Started("appliance") ELSE proc
  /\ UNCHANGED <<lock, path, suspend, timer, wiring, command, history>>

-----------------------------------------------------------------------------
(* restore-stock *)

\* The call after the one at s, in Restore's order.
ServicesFirst(s) ==
  CASE s = "safety"   -> "hook"      [] s = "hook"     -> "service"
    [] s = "service"  -> "drain"     [] s = "drain"    -> "lock"
    [] s = "lock"     -> "serviceA"  [] s = "serviceA" -> "timerA"
    [] s = "timerA"   -> "serviceB"  [] s = "serviceB" -> "timerB"
    [] s = "timerB"   -> "stock"     [] OTHER          -> "finish"
Following(s) ==
  CASE s = "safety"   -> "hook"      [] s = "hook"     -> "service"
    [] s = "service"  -> "drain"     [] s = "drain"    -> "lock"
    [] s = "lock"     -> "timerA"    [] s = "timerA"   -> "serviceA"
    [] s = "serviceA" -> "timerB"    [] s = "timerB"   -> "serviceB"
    [] s = "serviceB" -> "stock"     [] OTHER          -> "finish"

At(s) == Awake /\ cmd = "restore" /\ step = s
Proceed == step' = Following(step) /\ UNCHANGED <<marker, cmd, loaded, history>>

\* An error that Restore collects before it goes on.
Collects == "restore" \in Faults /\ failed' = TRUE

Returns == cmd' = "none" /\ step' = "none" /\ failed' = FALSE /\ loaded' = "none"

\* The marker is written before anything else; a state that cannot be loaded
\* ends the command right after it.
BeginRestore ==
  /\ Awake /\ cmd = "none"
  /\ marker' = TRUE
  /\ \/ cmd' = "restore" /\ step' = "safety" /\ UNCHANGED <<failed, loaded>>
        /\ aborted' = FALSE
     \/ "restore" \in Faults /\ Returns /\ aborted' = TRUE
  /\ UNCHANGED <<running, triggers, wiring, device, restored>>

StopSafetyTimer ==
  /\ At("safety") /\ Proceed
  /\ \/ safety' = FALSE /\ UNCHANGED failed
     \/ Collects /\ safety' \in {safety, FALSE}
  /\ UNCHANGED <<running, triggers, hook, enabled, device>>

RemoveHook ==
  /\ At("hook") /\ Proceed
  /\ \/ hook' = FALSE /\ UNCHANGED failed
     \/ Collects /\ UNCHANGED hook
  /\ UNCHANGED <<running, triggers, safety, enabled, device>>

DisableService ==
  /\ At("service") /\ Proceed
  /\ \/ enabled' = FALSE /\ Ended({"appliance"}) /\ UNCHANGED failed
     \/ Collects /\ enabled' \in {enabled, FALSE} /\ UNCHANGED running
  /\ UNCHANGED <<triggers, safety, hook, device>>

\* systemctl stop returns when the processes are gone.
StopProducers ==
  /\ At("drain") /\ Proceed
  /\ \/ Ended(Timers) /\ UNCHANGED failed
     \/ Collects /\ \E S \in SUBSET Timers : Ended(S)
  /\ UNCHANGED <<triggers, wiring, device>>

\* With LOCK_NB, restore gives up instead of waiting for a manual cycle.
Waits == FALSE
GivesUp == lock # "none"
LockForRestore ==
  /\ At("lock")
  /\ \/ Free /\ lock' = "restore" /\ Proceed /\ UNCHANGED failed
     \/ GivesUp /\ Returns /\ aborted' = TRUE /\ UNCHANGED <<lock, marker, restored>>
  /\ UNCHANGED <<proc, path, suspend, triggers, wiring, device>>

ClearTimer(t) ==
  /\ At(IF t = "a" THEN "timerA" ELSE "timerB") /\ Proceed
  /\ \/ timer' = [timer EXCEPT ![t] = FALSE] /\ UNCHANGED failed
     \/ Collects /\ UNCHANGED timer
  /\ UNCHANGED <<running, due, wiring, device>>

ClearService(t) ==
  /\ At(IF t = "a" THEN "serviceA" ELSE "serviceB") /\ Proceed
  /\ \/ Ended({t}) /\ UNCHANGED failed
     \/ Collects /\ UNCHANGED running
  /\ UNCHANGED <<triggers, wiring, device>>

\* The radio and the stock services, then the deferred unlock.
RestoreStock ==
  /\ At("stock") /\ Proceed
  /\ Collects \/ UNCHANGED failed
  /\ lock' = "none"
  /\ UNCHANGED <<proc, path, suspend, triggers, wiring, device>>

\* The marker goes only with a restore in which nothing failed.
MarkerGoes == TRUE
Unmarks == ~failed
FinishRestore ==
  /\ At("finish") /\ Returns
  /\ \/ /\ Unmarks
        /\ marker' = FALSE
        /\ aborted' = failed /\ restored' = ~failed
     \/ /\ failed \/ "restore" \in Faults
        /\ aborted' = TRUE /\ UNCHANGED <<marker, restored>>
  /\ UNCHANGED <<running, triggers, wiring, device>>

RestoreStep ==
  \/ StopSafetyTimer \/ RemoveHook \/ DisableService \/ StopProducers
  \/ LockForRestore \/ RestoreStock \/ FinishRestore
  \/ \E t \in Timers : ClearTimer(t) \/ ClearService(t)

-----------------------------------------------------------------------------
(* install-appliance: what it does to the triggers.  Lifecycle has the rest. *)

AtInstall(s) == Awake /\ cmd = "install" /\ step = s

Continue(next) ==
  step' = next /\ UNCHANGED <<marker, cmd, failed, loaded, history>>

\* finishRestore: an explicit installation lifts the marker.
BeginInstall ==
  /\ Awake /\ cmd = "none"
  /\ marker' = FALSE /\ cmd' = "install" /\ step' = "load"
  /\ restored' = FALSE /\ aborted' = FALSE
  /\ UNCHANGED <<running, triggers, wiring, device, failed, loaded>>

LoadState ==
  /\ AtInstall("load")
  /\ loaded' = "current" /\ step' = "files"
  /\ UNCHANGED <<running, triggers, wiring, device, marker, cmd, failed, history>>

\* The units and, last, the hook.
WriteFiles ==
  /\ AtInstall("files") /\ Continue("record")
  /\ hook' = TRUE
  /\ UNCHANGED <<running, triggers, safety, enabled, device>>

\* The whole record goes back as it was loaded, without the cycle lock.
RecordChoices ==
  /\ AtInstall("record")
  /\ step' = "enable" /\ loaded' = "none"
  /\ IF loaded = "current"
     THEN UNCHANGED due
     ELSE due' = (loaded = "passed")
  /\ UNCHANGED <<running, timer, wiring, device, marker, cmd, failed, history>>

EnableService ==
  /\ AtInstall("enable") /\ Continue("timer")
  /\ enabled' = TRUE
  /\ UNCHANGED <<running, triggers, safety, hook, device>>

EnableSafetyTimer ==
  /\ AtInstall("timer") /\ Continue("start")
  /\ safety' = TRUE
  /\ UNCHANGED <<running, triggers, enabled, hook, device>>

StartService ==
  /\ AtInstall("start") /\ Returns
  /\ proc' = Started("appliance")
  /\ UNCHANGED <<lock, path, suspend, triggers, wiring, device, marker, history>>

InstallStep ==
  \/ LoadState \/ WriteFiles \/ RecordChoices \/ EnableService
  \/ EnableSafetyTimer \/ StartService

\* The first error ends install where it is, and a user may interrupt either.
CommandEnds ==
  /\ "command" \in Faults /\ Awake /\ cmd # "none"
  /\ Returns
  /\ lock' = IF lock = "restore" THEN "none" ELSE lock
  /\ aborted' = (cmd = "restore" /\ marker)
  /\ UNCHANGED <<proc, path, suspend, triggers, wiring, device, marker, restored>>

-----------------------------------------------------------------------------
Next ==
  \/ \E p \in Procs : Step(p) \/ Kill(p)
  \/ \E m \in Manuals : RunOnce(m)
  \/ \E t \in Timers : TimerFires(t)
  \/ SafetyTimerFires \/ DeadlinePasses
  \/ FallAsleep \/ Resume \/ Crash \/ Boot \/ \E p \in Procs : Shutdown(p)
  \/ BeginRestore \/ RestoreStep \/ BeginInstall \/ InstallStep \/ CommandEnds

Spec == Init /\ [][Next]_vars

\* A process in a unit goes on or is killed by the unit's start timeout; one
\* that a user started may hang in any command of its cycle, but before it, it
\* ends.  systemd runs its timers, time passes, restore goes on.
UnitGoesOn(u) == WF_vars(Step(u) \/ Kill(u))
ManualReads == WF_vars(\E m \in Manuals : Admit(m) \/ Refuse(m))
Fairness ==
  /\ \A u \in Units : UnitGoesOn(u)
  /\ ManualReads
  /\ WF_vars(SafetyTimerFires) /\ WF_vars(DeadlinePasses)
  /\ WF_vars(RestoreStep)

FairSpec == Spec /\ Fairness

-----------------------------------------------------------------------------
(* Properties. *)

\* Whatever starts processes and however they overlap, at most one is past
\* the lock, and none while restore holds it: nothing plans, saves or
\* suspends behind the back of the stock system that is coming up.
OneCycle ==
  \A p \in Procs : Working(p) \/ proc[p] = "held" => lock = p

\* After a restore that reported success nothing of the appliance is left to
\* start a cycle, and none is on its way: not from a timer that a cycle
\* armed while restore was stopping the units, nor from a process that was
\* waiting to run.
\* docs/operations.md:163 says of the same command that it "does not cancel the
\* A/B transient timers" and that "a pending timer can start another cycle after
\* restore"; the code does cancel them.
RestoreQuiesces ==
  restored =>
    /\ ~safety /\ ~hook /\ ~enabled
    /\ \A t \in Timers : ~timer[t]
    /\ \A u \in Units : proc[u] = "idle"

\* A restore that ended in an error leaves no new cycle behind, whichever
\* triggers it had not removed yet, until it is retried or the appliance is
\* installed again.
AbortStartsNothing ==
  [][aborted /\ aborted' => \A p \in Procs : Working(p)' => Working(p)]_vars

\* While the installed device is awake another cycle always comes, or an error
\* is reported that kept one from beginning (and then comes the next): after
\* lost resume requests, killed or failed cycles, cycles that armed nothing or
\* stopped themselves, triggers that were suppressed or lost the lock, and a
\* sleep that fell into another cycle.
Serving == Awake /\ safety /\ ~marker
Attempted(p) == Working(p) \/ proc[p] = "refused"
CycleComes == Serving ~> (\E p \in Procs : Attempted(p)) \/ ~Serving

\* Restore ends, also beside a manual cycle that hangs with the lock.
RestoreEnds == cmd = "restore" ~> cmd # "restore" \/ ~Awake

\* The turn of a process begins with its admission, that of restore with the lock.
Turn == IF lock \in Procs /\ ~Working(lock) THEN "none" ELSE lock

\* Lock and marker together give out turns: a cycle begins only when no other
\* cycle is running and the marker is down, and restore comes only after its
\* marker, when the last cycle is over.
Turns == INSTANCE ApplianceTurns WITH turn <- Turn, barred <- marker
TakesTurns == Turns!Spec
=============================================================================
