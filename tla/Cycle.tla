-------------------------------- MODULE Cycle --------------------------------
(***************************************************************************)
(* One appliance cycle (cycle.Run and its recovery, battery and critical   *)
(* paths) over the device it drives.  Every call of the Operations seam    *)
(* that changes something outside the process is a step of its own, and    *)
(* may fail; the process may be killed and the machine may reboot between  *)
(* any two steps.                                                          *)
(*                                                                         *)
(* flow is the function that is running and pc the call it is about to     *)
(* make:                                                                   *)
(*   normal    Run:                  mode network fetch render cache plan  *)
(*                                   log save cleanup sleep                *)
(*   battery   batteryCycle:         screen plan save log sleep            *)
(*   critical  criticalBatteryCycle: screen save log shutdown              *)
(*   recovery  the deferred handler: cleanup screen plan save log sleep    *)
(***************************************************************************)
EXTENDS Policy

CONSTANTS
  Images,       \* payloads the server may offer; equal images hash equally
  Undecodable,  \* the images that display.Prepare rejects
  Rates,        \* values of refresh_rate in a response
  Samples,      \* battery readings the power supply may give
  BootIds,      \* kernel boot ids; an id no file holds any more is reused
  Faults,       \* the kinds of failure the environment may inject
  MaxFailures   \* bound: the consecutive-failure counter saturates here

FaultKinds ==
  {"mode", "network", "raise", "lower", "fetch", "draw", "cache", "rtc", "timer",
   "log", "save", "suspend", "shutdown", "kill", "reboot"}

Screens ==
  {"offline", "battery-unavailable", "critical-battery",
   "charging-recovery", "low-battery"}

ASSUME PayloadAssumption ==
  /\ Undecodable \subseteq Images
  /\ Images \cap (Screens \cup {"none", "splash", "torn"}) = {}
  /\ Rates \subseteq Int

ASSUME DeviceAssumption ==
  /\ Samples \subseteq Readings
  /\ "none" \notin BootIds
  /\ Faults \subseteq FaultKinds
  /\ MaxFailures \in Nat /\ MaxFailures >= FailureThreshold

VARIABLES
  (* durable files *)
  disk,        \* the state.json that loadState would return
  cache,       \* the raw download cache
  (* the device *)
  panel,       \* what the e-ink panel shows
  radio,       \* the wireless power: down, up for a cycle, raised by a BringUp
               \* that did not finish, or stuck as its lowering did not finish
  rtc,         \* minutes the RTC alarm was armed for; 0 when cleared
  timer,       \* is a transient awake timer armed?
  dev,         \* awake, asleep or off
  boot,        \* the kernel's boot id
  grace,       \* is uptime still below boot_grace_seconds?
  (* the running cycle *)
  flow, pc,
  st,          \* the in-memory State, shared with the deferred handler
  before,      \* failuresBefore
  decision,    \* the BatteryDecision
  payload,     \* the fetched image, its interval, changed and fullRefresh
  suspend,     \* ShouldSuspend of the mode, then of the effective mode
  rendered,    \* did this function's localScreen draw?
  netPending,  \* is the deferred cleanupNetwork still owed?
  saved,       \* did the last SaveState of this cycle succeed?
  (* history, for the properties only *)
  draws,       \* is the last drawing recorded in disk, pending, or lost?
  drew         \* has this cycle changed the panel?

files   == <<disk, cache>>
alarms  == <<rtc, timer>>
machine == <<dev, boot, grace>>
inputs  == <<before, decision, payload>>
history == <<draws, drew>>
vars ==
  <<files, panel, radio, alarms, machine, flow, pc, st, inputs, suspend,
    rendered, netPending, saved, history>>

State ==
  [boot     : BootIds \cup {"none"},
   local    : Screens \cup {"none"},
   low      : BOOLEAN,
   next     : Nat,                        \* minutes to NextAttemptAt
   hash     : Images \cup {"none"},
   rendered : 0 .. FullRefreshEvery - 1,  \* RenderedUpdates, modulo
   failures : 0 .. MaxFailures]

Payloads ==
  [image : Images \cup {"none"}, interval : Nat,
   changed : BOOLEAN, full : BOOLEAN]

FreshState ==
  [boot |-> "none", local |-> "none", low |-> FALSE, next |-> 0,
   hash |-> "none", rendered |-> 0, failures |-> 0]
NoPayload ==
  [image |-> "none", interval |-> 0, changed |-> FALSE, full |-> FALSE]
NoDecision ==
  [low |-> FALSE, shutdown |-> FALSE, external |-> FALSE, valid |-> FALSE,
   reason |-> "battery-adequate"]

TypeOK ==
  /\ disk \in State
  /\ cache \in Images \cup {"none", "torn"}
  /\ panel \in Images \cup Screens \cup {"splash", "torn"}
  /\ radio \in {"down", "up", "raised", "stuck"}
  /\ rtc \in Nat
  /\ timer \in BOOLEAN
  /\ dev \in {"awake", "asleep", "off"}
  /\ boot \in BootIds
  /\ grace \in BOOLEAN
  /\ flow \in {"none", "normal", "battery", "critical", "recovery"}
  /\ pc \in {"idle", "mode", "network", "fetch", "render", "cache", "plan",
             "log", "save", "cleanup", "screen", "sleep", "shutdown"}
  /\ st \in State
  /\ before \in 0 .. MaxFailures
  /\ decision \in Decisions
  /\ payload \in Payloads
  /\ suspend \in BOOLEAN
  /\ rendered \in BOOLEAN
  /\ netPending \in BOOLEAN
  /\ saved \in BOOLEAN
  /\ draws \in {"recorded", "pending", "lost"}
  /\ drew \in BOOLEAN

Init ==
  /\ disk = FreshState /\ cache = "none"
  /\ panel = "splash" /\ radio = "down" /\ rtc = 0 /\ timer = FALSE
  /\ dev = "awake" /\ boot \in BootIds /\ grace = TRUE
  /\ flow = "none" /\ pc = "idle" /\ st = FreshState
  /\ before = 0 /\ decision = NoDecision /\ payload = NoPayload
  /\ suspend = FALSE /\ rendered = FALSE /\ netPending = FALSE
  /\ saved = FALSE /\ draws = "recorded" /\ drew = FALSE

-----------------------------------------------------------------------------
(* Control flow. *)

\* The process is gone: its memory goes, and with it the account of a drawing
\* that no state file holds.
Exit ==
  /\ pc' = "idle" /\ flow' = "none"
  /\ st' = disk
  /\ before' = 0 /\ decision' = NoDecision /\ payload' = NoPayload
  /\ suspend' = FALSE /\ rendered' = FALSE /\ netPending' = FALSE
  /\ draws' = IF draws = "pending" THEN "lost" ELSE draws
  /\ drew' = FALSE

Goto(step) == pc' = step /\ flow' = flow

\* Only the recovery and critical paths carry on after an error.
CriticalGivesUp == flow = "recovery"
RecoveryGivesUp == flow = "critical"
BestEffort == flow \in {"recovery", "critical"}

Bump(n) == IF n < MaxFailures THEN n + 1 ELSE n

\* recoverCycle counts the failure and sets the retry deadline, from the count
\* of before the cycle: a late failure comes after Run has reset it.
CountFromReset(s) ==
  [s EXCEPT !.failures = Bump(s.failures), !.next = RetryInterval(Bump(s.failures))]
CountFailure(s) ==
  [s EXCEPT !.failures = Bump(before), !.next = RetryInterval(Bump(before))]

\* A pending network cleanup was deferred later, so it runs first.
RecoverBeforeCleanup == "screen"
RecoveryEntry == IF netPending THEN "cleanup" ELSE "screen"

\* Run or batteryCycle returns an error, with s in the shared State.
Fail(s) ==
  /\ flow' = "recovery" /\ pc' = RecoveryEntry
  /\ st' = CountFailure(s)
  /\ suspend' = FALSE /\ rendered' = FALSE /\ saved' = FALSE

-----------------------------------------------------------------------------
(* Run: sample the battery, then the normal path. *)

Start(reading) ==
  /\ dev = "awake" /\ pc = "idle"
  /\ decision' = Decide(reading, disk.low)
  /\ st' = [disk EXCEPT !.low = decision'.low]
  /\ before' = disk.failures
  /\ flow' = IF decision'.shutdown THEN "critical"
             ELSE IF decision'.low THEN "battery" ELSE "normal"
  /\ pc' = IF decision'.low THEN "screen" ELSE "mode"
  /\ saved' = FALSE
  /\ timer' \in {timer, FALSE}  \* the trigger may have been the timer
  /\ UNCHANGED <<files, panel, radio, rtc, machine, payload, suspend,
                 rendered, netPending, history>>

ChooseMode ==
  /\ pc = "mode"
  /\ \/ /\ \E serviced \in BOOLEAN :
             suspend' = ModeSuspends(DetermineMode(serviced, grace, st.failures))
        /\ Goto("network")
        /\ UNCHANGED <<st, rendered, saved>>
     \/ "mode" \in Faults /\ Fail(st)
  /\ UNCHANGED <<files, panel, radio, alarms, machine, inputs, netPending,
                 history>>

\* A failed BringUp may have powered the radio already; nothing lowers it.
BringUpLeaves == {radio} \cup IF "raise" \in Faults THEN {"raised"} ELSE {}

\* Bringing the link down is best effort; its error is dropped.
Lowered == {"down"} \cup IF "lower" \in Faults THEN {"stuck"} ELSE {}

\* A failed BringUp has no cleanup; a failed Wait lowers the link at once.
PrepareNetwork ==
  /\ pc = "network"
  /\ \/ /\ radio' = "up" /\ netPending' = TRUE
        /\ Goto("fetch")
        /\ UNCHANGED <<st, suspend, rendered, saved>>
     \/ /\ "network" \in Faults
        /\ radio' \in BringUpLeaves \cup Lowered
        /\ Fail(st)
        /\ UNCHANGED netPending
  /\ UNCHANGED <<files, panel, alarms, machine, inputs, history>>

\* The panel does not show this boot's last server image.
RedrawPerBoot == st.boot # boot
NeedsRedraw == st.boot # boot \/ st.local # "none"

Changed(image) == image # st.hash \/ NeedsRedraw

CadenceOnly(image) == Changed(image) /\ ShouldUseFullRefresh(st.rendered)
FullRefresh(image) ==
  Changed(image) /\ (ShouldUseFullRefresh(st.rendered) \/ NeedsRedraw)

StoreFirst(changed) == "cache"
AfterFetch(changed) == IF changed THEN "render" ELSE "cache"

FetchPayload ==
  /\ pc = "fetch"
  /\ \/ /\ \E image \in Images, rate \in Rates :
             /\ payload' = [image    |-> image,
                            interval |-> RefreshInterval(rate),
                            changed  |-> Changed(image),
                            full     |-> FullRefresh(image)]
             /\ Goto(AfterFetch(Changed(image)))
        /\ UNCHANGED <<st, suspend, rendered, saved>>
     \/ "fetch" \in Faults /\ Fail(st) /\ UNCHANGED payload
  /\ UNCHANGED <<files, panel, radio, alarms, machine, before, decision,
                 netPending, history>>

\* A render that fails may have failed before or after it reached the panel,
\* and has changed what is on it in the latter case.
DrawFails(mayReachPanel) ==
  \/ UNCHANGED <<panel, history>>
  \/ mayReachPanel /\ panel' = "torn" /\ draws' = "lost" /\ drew' = TRUE

ShowsImage(s) ==
  [s EXCEPT !.hash = payload.image, !.rendered = (@ + 1) % FullRefreshEvery,
            !.boot = boot, !.local = "none"]

Render ==
  /\ pc = "render"
  /\ \/ /\ payload.image \notin Undecodable
        /\ panel' = payload.image
        /\ st' = ShowsImage(st)
        /\ draws' = "pending" /\ drew' = TRUE
        /\ Goto("cache")
        /\ UNCHANGED <<suspend, rendered, saved>>
     \/ /\ payload.image \in Undecodable \/ "draw" \in Faults
        /\ DrawFails(payload.image \notin Undecodable)
        /\ Fail(st)
  /\ UNCHANGED <<files, radio, alarms, machine, inputs, netPending>>

Succeeds(s) == [s EXCEPT !.next = payload.interval, !.failures = 0]

\* The raw download replaces the cache in place.  With it behind, the cycle
\* has succeeded as far as State is concerned.
StoreImage ==
  /\ pc = "cache"
  /\ \/ /\ cache' = payload.image
        /\ st' = Succeeds(st)
        /\ Goto("plan")
        /\ UNCHANGED <<suspend, rendered, saved>>
     \/ /\ "cache" \in Faults
        /\ cache' \in {cache, "torn"}
        /\ Fail(st)
  /\ UNCHANGED <<disk, panel, radio, alarms, machine, inputs, netPending,
                 history>>

-----------------------------------------------------------------------------
(* Calls that several paths share. *)

\* Recovery leaves a useful server image, or a battery warning, on the panel.
OfflineAlways == ~st.low
OfflineDue == ~st.low /\ NeedsRedraw

ReasonAlways == decision.reason
ScreenName == IF flow = "recovery" THEN "offline" ELSE decision.reason

ScreenDue ==
  /\ flow = "recovery" => OfflineDue
  /\ ~(st.local = ScreenName /\ st.boot = boot)

ShownUnrecorded(s) == [s EXCEPT !.boot = boot]
ShownLocally(s) == [s EXCEPT !.local = ScreenName, !.boot = boot]

\* The deadline that the battery paths record; recovery has recorded its own.
DeadlineUnset(s) == s
Deadline(s) ==
  CASE flow = "battery"  -> [s EXCEPT !.next = CheckInterval]
    [] flow = "critical" -> [s EXCEPT !.next = CriticalRetry]
    [] OTHER             -> s

AfterScreen(s) ==
  /\ st' = Deadline(s)
  /\ Goto(IF flow = "critical" THEN "save" ELSE "plan")
  /\ UNCHANGED <<suspend, saved>>

LocalScreen ==
  /\ pc = "screen"
  /\ \/ /\ ~ScreenDue
        /\ AfterScreen(st)
        /\ UNCHANGED <<panel, rendered, history>>
     \/ /\ ScreenDue
        /\ panel' = ScreenName
        /\ draws' = "pending" /\ drew' = TRUE /\ rendered' = TRUE
        /\ AfterScreen(ShownLocally(st))
     \/ /\ ScreenDue /\ "draw" \in Faults
        /\ DrawFails(TRUE)
        /\ IF BestEffort THEN AfterScreen(st) /\ UNCHANGED rendered
                         ELSE Fail(st)
  /\ UNCHANGED <<files, radio, alarms, machine, inputs, netPending>>

\* Whether the mode handed to Plan asks for a suspend.  In recovery a battery
\* known to be discharging overrides the runtime mode; a mode that cannot be
\* determined stays awake.
Wanted ==
  CASE flow = "normal"  -> {suspend}
    [] flow = "battery" -> {TRUE}
    [] flow = "recovery" /\ decision.valid /\ ~decision.external -> {TRUE}
    [] flow = "recovery" /\ ~(decision.valid /\ ~decision.external) ->
         {FALSE} \cup
         {ModeSuspends(DetermineMode(serviced, grace, st.failures)) :
            serviced \in BOOLEAN}

\* The interval each path hands to Plan.
PlanInterval ==
  CASE flow = "normal"  -> payload.interval
    [] flow = "battery" -> CheckInterval
    [] OTHER            -> RetryInterval(st.failures)

ArmRtc(want) ==
  want /\ rtc' = PlanInterval /\ UNCHANGED timer /\ suspend' = TRUE
ArmTimer(want) ==
  ~want /\ timer' = TRUE /\ UNCHANGED rtc /\ suspend' = FALSE
FallBackAndSuspend(want) ==
  /\ want /\ "rtc" \in Faults
  /\ rtc' \in {rtc, 0} /\ timer' = TRUE /\ suspend' = TRUE
\* The alarm could not be armed, and may have been cleared by the attempt.
FallBackToTimer(want) ==
  /\ want /\ "rtc" \in Faults
  /\ rtc' \in {rtc, 0} /\ timer' = TRUE /\ suspend' = FALSE
\* The old timer unit is stopped before the new one is started.
NothingArmed(want) ==
  /\ "timer" \in Faults
  /\ timer' \in {timer, FALSE}
  /\ \/ ~want /\ UNCHANGED rtc
     \/ want /\ "rtc" \in Faults /\ rtc' \in {rtc, 0}

Plan ==
  /\ pc = "plan"
  /\ \E want \in Wanted :
       \/ /\ ArmRtc(want) \/ ArmTimer(want) \/ FallBackToTimer(want)
          /\ Goto(IF flow = "normal" THEN "log" ELSE "save")
          /\ UNCHANGED <<st, rendered, saved>>
       \/ /\ NothingArmed(want)
          /\ IF BestEffort
             THEN Goto("save") /\ suspend' = FALSE
                    /\ UNCHANGED <<st, rendered, saved>>
             ELSE Fail(st)
  /\ UNCHANGED <<files, panel, radio, machine, inputs, netPending, history>>

Committed ==
  /\ disk' = st
  /\ draws' = IF draws = "pending" THEN "recorded" ELSE draws

\* A save that reports an error may still have replaced the file: the rename
\* comes before the directory sync.
SaveState ==
  /\ pc = "save"
  /\ \/ /\ Committed /\ saved' = TRUE
        /\ Goto(IF flow = "normal" THEN "cleanup" ELSE "log")
        /\ UNCHANGED <<st, suspend, rendered>>
     \/ /\ "save" \in Faults
        /\ Committed \/ UNCHANGED <<disk, draws>>
        /\ IF BestEffort
           THEN Goto("log") /\ saved' = FALSE /\ UNCHANGED <<st, suspend, rendered>>
           ELSE Fail(st)
  /\ UNCHANGED <<cache, panel, radio, alarms, machine, inputs, netPending, drew>>

\* ChangedScreen of the record that each path appends.
ChangedUnlessNormal == flow = "normal" => payload.changed
EntryChanged == IF flow = "normal" THEN payload.changed ELSE rendered

AppendLog ==
  /\ pc = "log"
  /\ \/ /\ Goto(CASE flow = "normal"   -> "save"
                  [] flow = "critical" -> "shutdown"
                  [] OTHER             -> "sleep")
        /\ UNCHANGED <<st, suspend, rendered, saved>>
     \/ "log" \in Faults /\ ~BestEffort /\ Fail(st)
  /\ UNCHANGED <<files, panel, radio, alarms, machine, inputs, netPending,
                 history>>

\* Explicit at the end of a successful Run, deferred on its error paths.
CleanupNetwork ==
  /\ pc = "cleanup"
  /\ radio' \in Lowered /\ netPending' = FALSE
  /\ Goto(IF flow = "normal" THEN "sleep" ELSE "screen")
  /\ UNCHANGED <<files, panel, alarms, machine, st, inputs, suspend, rendered,
                 saved, history>>

\* The last call of every path but the critical one.
Suspend ==
  /\ pc = "sleep"
  /\ \/ ~suspend /\ UNCHANGED dev /\ saved' = FALSE /\ Exit
     \/ suspend /\ dev' = "asleep" /\ UNCHANGED saved /\ Exit
     \/ /\ suspend /\ "suspend" \in Faults /\ UNCHANGED dev
        /\ IF BestEffort
           THEN Exit /\ saved' = FALSE
           ELSE Fail(st) /\ UNCHANGED <<inputs, netPending, history>>
  /\ UNCHANGED <<files, panel, radio, alarms, boot, grace>>

Shutdown ==
  /\ pc = "shutdown"
  /\ \/ dev' = "off"
     \/ "shutdown" \in Faults /\ UNCHANGED dev
  /\ Exit /\ saved' = FALSE
  /\ UNCHANGED <<files, panel, radio, alarms, boot, grace>>

Step ==
  \/ ChooseMode \/ PrepareNetwork \/ FetchPayload \/ Render \/ StoreImage
  \/ LocalScreen \/ Plan \/ SaveState \/ AppendLog \/ CleanupNetwork
  \/ Suspend \/ Shutdown

-----------------------------------------------------------------------------
(* What happens to the device around the cycle. *)

\* The RTC alarm fires, or somebody presses the power button.
Wake ==
  /\ dev = "asleep"
  /\ dev' = "awake"
  /\ rtc' \in {rtc, 0} /\ saved' = FALSE
  /\ UNCHANGED <<files, panel, radio, timer, boot, grace, flow, pc, st, inputs,
                 suspend, rendered, netPending, history>>

GraceEnds ==
  /\ dev = "awake" /\ grace
  /\ grace' = FALSE
  /\ UNCHANGED <<files, panel, radio, alarms, dev, boot, flow, pc, st, inputs,
                 suspend, rendered, netPending, saved, history>>

\* systemd's start timeout, or a crash: deferred calls do not run.
Kill ==
  /\ "kill" \in Faults /\ pc # "idle"
  /\ \/ pc = "network" /\ radio' \in {radio, "raised"}
     \/ pc # "network" /\ radio' = IF netPending THEN "stuck" ELSE radio
  /\ Exit /\ saved' = FALSE
  /\ UNCHANGED <<files, panel, alarms, machine>>

\* Power-on, or a restart at any moment: a new boot id, and the panel may have
\* been overwritten by the boot splash.
Reboot ==
  /\ dev = "off" \/ "reboot" \in Faults
  /\ dev' = "awake" /\ grace' = TRUE
  /\ boot' \in BootIds \ {boot, disk.boot}
  /\ panel' \in {panel, "splash"}
  /\ radio' = "down" /\ timer' = FALSE
  /\ Exit /\ saved' = FALSE
  /\ UNCHANGED <<files, rtc>>

Next ==
  \/ \E reading \in Samples : Start(reading)
  \/ Step
  \/ Wake \/ GraceEnds \/ Kill \/ Reboot

Spec == Init /\ [][Next]_vars

\* A cycle that is running keeps running: the process is not stopped short of
\* Kill.  Nothing is assumed of what starts the next one.
FairSpec == Spec /\ WF_vars(Step)

-----------------------------------------------------------------------------
(* Properties. *)

\* What a state says is on the panel, for a state of this boot.
Claim(s) == IF s.local = "none" THEN s.hash ELSE s.local

\* The state file and the running cycle's memory name what is on the panel,
\* unless a drawing was lost (a failed draw, a process that died before it
\* saved).  Everything that skips or keeps a drawing relies on it.
ScreenHonest ==
  /\ draws = "recorded" /\ disk.boot = boot => panel = Claim(disk)
  /\ pc # "idle" /\ draws # "lost" /\ st.boot = boot => panel = Claim(st)

\* A cycle that got past its rendering decision has the server's image on the
\* panel, whether it drew it or skipped it as unchanged: after warnings,
\* offline banners, reboots and failures alike.
SuccessShowsImage ==
  /\ flow = "normal" /\ pc \in {"cache", "plan", "log", "save", "cleanup", "sleep"}
  /\ draws # "lost"
  => panel = payload.image

\* A partial refresh is drawn over a server image, never over a warning, a
\* banner or the boot splash, which it would leave ghosting.  The first state
\* has no record of the panel, as after a state file is deleted: there, too, the
\* code draws in full, where docs/operations.md:133 says "the first default
\* client render is partial, not full".
PartialOverImage ==
  flow = "normal" /\ pc = "render" /\ ~payload.full /\ draws # "lost"
  => panel \in Images

\* An outage never replaces a server image drawn in this boot, also when the
\* failing cycle itself drew it.
OutageKeepsImage ==
  [][flow = "recovery" /\ panel \in Images /\ draws # "lost" /\ st.boot = boot
     => panel' = panel \/ boot' # boot]_vars

\* The cache never takes an image that cannot be rendered.
CacheUsable == cache \notin Undecodable

\* The device is put to sleep only with the alarm armed for the interval of
\* the path that suspends.
WakeBeforeSleep ==
  [][dev = "awake" /\ dev' = "asleep" => rtc > 0 /\ rtc = PlanInterval]_vars

\* While the device sleeps the alarm agrees with the deadline in the state
\* file, which run-scheduled compares against when the alarm has fired.
SleepMatchesDeadline == dev = "asleep" /\ saved => rtc = disk.next

\* A radio that a cycle brought up for its network window is lowered, or was
\* tried to be, before local screens, recovery and sleep: an error inside the
\* window runs the cleanup before recovery starts.  Outside the window the
\* radio is on only after a BringUp that failed or was killed ("raised", which
\* nobody lowers: RadioOffWhenAsleep below) or a lowering that did ("stuck"),
\* and a cycle that completes does not leave it "raised".
RadioQuiet ==
  /\ radio = "up" => dev = "awake" /\ (flow = "normal" \/ pc = "cleanup")
  /\ flow = "normal" /\ pc = "sleep" => radio \in {"down", "stuck"}

\* After a failed cycle the state file holds one failure more than before the
\* cycle and the matching retry deadline, however far the cycle had got.
BackoffKept ==
  flow = "recovery" /\ pc \in {"log", "sleep"} /\ saved
  => /\ disk.failures = Bump(before)
     /\ disk.next = RetryInterval(disk.failures)

\* Outside recovery, a record that says the cycle changed the panel is right,
\* and so is one that denies it, but for one: the critical path drops the error
\* of its drawing and denies a change also when the drawing tore the panel.
EntryHonest ==
  pc = "log" /\ flow # "recovery"
  => /\ EntryChanged => drew
     /\ drew /\ ~EntryChanged => flow = "critical" /\ panel = "torn"

\* A critical battery is never answered with a wake-up plan or with sleep.
CriticalNeverPlans ==
  [][decision.shutdown => rtc' = rtc /\ (timer' => timer) /\ dev' # "asleep"]_vars

\* A critical battery is answered with a poweroff request whatever fails on
\* the way to it, unless the process itself is killed.
CriticalRequestsPoweroff == decision.shutdown ~> pc = "shutdown"

\* A cycle ends, also when every best-effort step of its recovery fails.
CycleEnds == pc # "idle" ~> pc = "idle"

-----------------------------------------------------------------------------
(* What the documents say and the code does not do.                        *)

\* README.md:82: "The first 10 minutes after boot default to a boot grace
\* window with no automatic suspend."  docs/recovery-and-battery.md:39 lets
\* only a low battery take precedence over it.
NoSuspendInGrace ==
  [][grace /\ dev = "awake" /\ dev' = "asleep" => decision.low]_vars

\* tasks/prd-rm1-trmnl-appliance-mode.md:83: "The app disables Wi-Fi after the
\* fetch/log phase on both success and failure paths."
RadioOffWhenAsleep == dev = "asleep" => radio = "down"

\* docs/recovery-and-battery.md:21: "A local warning/offline image similarly
\* forces a full normal redraw on recovery."
WarningCleared ==
  flow = "normal" /\ pc = "sleep" => panel \notin Screens
=============================================================================
