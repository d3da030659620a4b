----------------------------- MODULE CycleProofs -----------------------------
(***************************************************************************)
(* Invariants of Cycle, for every set of images, samples and faults and    *)
(* every configuration that validateConfig accepts.                        *)
(***************************************************************************)
EXTENDS Cycle, PolicyProofs

-----------------------------------------------------------------------------
(* Types and control. *)

\* Which calls each function makes.
CallsOf ==
  [normal   |-> {"mode", "network", "fetch", "render", "cache", "plan", "log",
                 "save", "cleanup", "sleep"},
   battery  |-> {"screen", "plan", "save", "log", "sleep"},
   critical |-> {"screen", "save", "log", "shutdown"},
   recovery |-> {"cleanup", "screen", "plan", "save", "log", "sleep"},
   none     |-> {"idle"}]

\* What a step relies on about where the cycle is: the battery paths have a
\* reason to show, a payload is at hand once it was fetched, and recovery knows
\* the number of failures it backs off by.
Control ==
  /\ pc \in CallsOf[flow]
  /\ flow \in {"battery", "critical"} => decision.reason \in Screens
  /\ flow = "critical" <=> decision.shutdown
  /\ flow = "normal" /\ pc \in {"render", "cache", "plan", "log", "save", "cleanup", "sleep"}
     => payload.image \in Images
  /\ pc # "idle" => dev = "awake"

TypeInv == TypeOK /\ Control

LEMMA RetryNat == \A n \in Nat : RetryInterval(n) \in Nat /\ RetryInterval(n) > 0
<1>1. \A n \in Nat : RetryInterval(n) \in 5 .. 60
  BY BackoffBounded
<1> QED BY <1>1

LEMMA IntervalNat == \A rate \in Rates : RefreshInterval(rate) \in Nat /\ RefreshInterval(rate) > 0
<1>1. \A rate \in Rates : RefreshInterval(rate) \in RefreshMin .. RefreshMax
  BY IntervalBounded, PayloadAssumption
<1> QED BY <1>1, IntervalAssumption

LEMMA BumpType == \A n \in 0 .. MaxFailures : Bump(n) \in 0 .. MaxFailures
BY DeviceAssumption, CadenceAssumption DEF Bump

LEMMA CountFailureType ==
  ASSUME TypeOK, NEW s \in State
  PROVE  CountFailure(s) \in State
<1>1. Bump(before) \in 0 .. MaxFailures
  BY BumpType DEF TypeOK
<1>2. Bump(before) \in Nat
  BY <1>1, DeviceAssumption
<1>3. RetryInterval(Bump(before)) \in Nat
  BY <1>2, RetryNat
<1> QED BY <1>1, <1>3 DEF CountFailure, State

\* Entering recovery keeps the types.
LEMMA FailType ==
  ASSUME TypeInv, NEW s \in State, Fail(s)
  PROVE  /\ st' \in State /\ pc' \in {"cleanup", "screen"} /\ flow' = "recovery"
         /\ suspend' = FALSE /\ rendered' = FALSE /\ saved' = FALSE
BY CountFailureType DEF Fail, RecoveryEntry, TypeInv

LEMMA FailControl ==
  ASSUME TypeInv, NEW s \in State, Fail(s), pc # "idle", flow # "critical",
         UNCHANGED <<decision, dev>>
  PROVE  Control'
<1>1. flow' = "recovery" /\ pc' \in {"cleanup", "screen"}
  BY FailType
<1>2. ~decision.shutdown /\ dev = "awake"
  BY DEF TypeInv, Control
<1> QED BY <1>1, <1>2 DEF Control, CallsOf

\* Leaving a cycle keeps the types.
LEMMA ExitType ==
  ASSUME TypeInv, Exit
  PROVE  /\ st' \in State /\ pc' = "idle" /\ flow' = "none"
         /\ before' \in 0 .. MaxFailures /\ decision' \in Decisions
         /\ payload' \in Payloads /\ suspend' \in BOOLEAN /\ rendered' \in BOOLEAN
         /\ netPending' \in BOOLEAN /\ draws' \in {"recorded", "pending", "lost"}
         /\ drew' \in BOOLEAN
         /\ ~decision'.shutdown
<1>1. 0 \in 0 .. MaxFailures
  BY DeviceAssumption
<1>2. NoDecision \in Decisions /\ ~NoDecision.shutdown
  BY DEF NoDecision, Decisions, Reasons
<1>3. NoPayload \in Payloads
  BY DEF NoPayload, Payloads
<1> QED BY <1>1, <1>2, <1>3 DEF Exit, TypeInv, TypeOK

LEMMA TypeInit == Init => TypeInv
<1> SUFFICES ASSUME Init PROVE TypeInv
  OBVIOUS
<1>1. 0 \in 0 .. MaxFailures /\ 0 \in 0 .. FullRefreshEvery - 1
  BY DeviceAssumption, CadenceAssumption
<1>2. FreshState \in State
  BY <1>1 DEF FreshState, State
<1>3. NoDecision \in Decisions /\ ~NoDecision.shutdown
  BY DEF NoDecision, Decisions, Reasons
<1>4. NoPayload \in Payloads
  BY DEF NoPayload, Payloads
<1>5. TypeOK
  BY <1>1, <1>2, <1>3, <1>4 DEF Init, TypeOK
<1>6. Control
  BY <1>3 DEF Init, Control, CallsOf
<1> QED BY <1>5, <1>6 DEF TypeInv

\* A battery path has one of the reasons for which there is a screen.
LEMMA ReasonIsScreen ==
  ASSUME NEW reading \in Readings, NEW wasLow \in BOOLEAN,
         Decide(reading, wasLow).low
  PROVE  Decide(reading, wasLow).reason \in Screens
<1>1. IsLow(reading, wasLow)
  BY DEF Decide
<1>2. Reason(reading, wasLow) \in Screens
  BY <1>1 DEF Reason, Screens
<1> QED BY <1>2 DEF Decide

LEMMA StartType ==
  ASSUME TypeInv, NEW reading \in Samples, Start(reading)
  PROVE  TypeInv'
<1> DEFINE d == Decide(reading, disk.low)
<1>1. disk \in State /\ disk.low \in BOOLEAN /\ reading \in Readings
  BY DeviceAssumption DEF TypeInv, TypeOK, State
<1>2. d \in Decisions
  BY <1>1, DecideType
<1>3. d.low => d.reason \in Screens
  BY <1>1, ReasonIsScreen
<1>4. d.shutdown => d.low
  BY <1>1, ShutdownOnlyWhenCritical
<1>5. d.low \in BOOLEAN /\ d.shutdown \in BOOLEAN
  BY <1>2 DEF Decisions
<1> HIDE DEF d
<1>6. /\ decision' = d /\ dev' = "awake"
      /\ st' = [disk EXCEPT !.low = d.low] /\ before' = disk.failures
      /\ flow' = IF d.shutdown THEN "critical" ELSE IF d.low THEN "battery" ELSE "normal"
      /\ pc' = IF d.low THEN "screen" ELSE "mode"
  BY DEF Start, d, machine
<1>7. TypeOK'
  <2>1. st' \in State /\ before' \in 0 .. MaxFailures
    BY <1>1, <1>5, <1>6 DEF State
  <2>2. timer' \in BOOLEAN /\ saved' \in BOOLEAN
    BY DEF Start, TypeInv, TypeOK
  <2> QED
    BY <1>2, <1>5, <1>6, <2>1, <2>2
       DEF Start, TypeInv, TypeOK, files, machine, history
<1>8. Control'
  BY <1>3, <1>4, <1>5, <1>6 DEF Control, CallsOf
<1> QED BY <1>7, <1>8 DEF TypeInv

\* Every call that may fail leaves the types and the control state intact.
LEMMA ChooseModeType == TypeInv /\ ChooseMode => TypeInv'
<1> SUFFICES ASSUME TypeInv, ChooseMode PROVE TypeInv'
  OBVIOUS
<1> USE DEF TypeInv, TypeOK, files, alarms, machine, inputs, history
<1>1. CASE pc' = "network" /\ flow' = flow /\ UNCHANGED <<st, rendered, saved>>
           /\ suspend' \in BOOLEAN
  BY <1>1 DEF ChooseMode, Control, CallsOf
<1>2. CASE Fail(st)
  <2>1. st \in State /\ pc # "idle" /\ flow # "critical" /\ UNCHANGED <<decision, dev>>
    BY <1>2 DEF ChooseMode, Control, CallsOf
  <2>2. Control'
    BY <1>2, <2>1, FailControl
  <2>3. st' \in State /\ pc' \in {"cleanup", "screen"} /\ flow' = "recovery"
        /\ suspend' = FALSE /\ rendered' = FALSE /\ saved' = FALSE
    BY <1>2, <2>1, FailType
  <2>4. UNCHANGED <<files, panel, radio, alarms, machine, inputs, netPending, history>>
    BY DEF ChooseMode
  <2>5. disk' \in State /\ panel' \in Images \cup Screens \cup {"splash", "torn"}
        /\ decision' \in Decisions /\ payload' \in Payloads
        /\ before' \in 0 .. MaxFailures /\ boot' \in BootIds
    BY <2>4
  <2>6. TypeOK'
    BY <2>3, <2>4, <2>5
  <2> QED BY <2>2, <2>6
<1> QED BY <1>1, <1>2 DEF ChooseMode, Goto, ModeSuspends

LEMMA PrepareNetworkType == TypeInv /\ PrepareNetwork => TypeInv'
<1> SUFFICES ASSUME TypeInv, PrepareNetwork PROVE TypeInv'
  OBVIOUS
<1> USE DEF TypeInv, TypeOK, files, alarms, machine, inputs, history
<1>1. CASE pc' = "fetch" /\ flow' = flow /\ UNCHANGED <<st, suspend, rendered, saved>>
           /\ radio' = "up" /\ netPending' = TRUE
  BY <1>1 DEF PrepareNetwork, Control, CallsOf
<1>2. CASE Fail(st) /\ UNCHANGED netPending /\ radio' \in {"down", "up", "raised", "stuck"}
  <2>1. st \in State /\ pc # "idle" /\ flow # "critical" /\ UNCHANGED <<decision, dev>>
    BY <1>2 DEF PrepareNetwork, Control, CallsOf
  <2>2. Control'
    BY <1>2, <2>1, FailControl
  <2>3. st' \in State /\ pc' \in {"cleanup", "screen"} /\ flow' = "recovery"
        /\ suspend' = FALSE /\ rendered' = FALSE /\ saved' = FALSE
    BY <1>2, <2>1, FailType
  <2>4. UNCHANGED <<files, panel, alarms, machine, inputs, history>>
    BY DEF PrepareNetwork
  <2>5. disk' \in State /\ panel' \in Images \cup Screens \cup {"splash", "torn"}
        /\ decision' \in Decisions /\ payload' \in Payloads
        /\ before' \in 0 .. MaxFailures /\ boot' \in BootIds
    BY <2>4
  <2>6. TypeOK'
    BY <1>2, <2>3, <2>4, <2>5
  <2> QED BY <2>2, <2>6
<1> QED BY <1>1, <1>2 DEF PrepareNetwork, Goto, BringUpLeaves, Lowered

LEMMA FetchPayloadType == TypeInv /\ FetchPayload => TypeInv'
<1> SUFFICES ASSUME TypeInv, FetchPayload PROVE TypeInv'
  OBVIOUS
<1> USE DEF TypeInv, TypeOK, files, alarms, machine, history
<1>1. ASSUME NEW image \in Images, NEW rate \in Rates,
             payload' = [image    |-> image,
                         interval |-> RefreshInterval(rate),
                         changed  |-> Changed(image),
                         full     |-> FullRefresh(image)],
             Goto(AfterFetch(Changed(image))),
             UNCHANGED <<st, suspend, rendered, saved>>
      PROVE  TypeInv'
  <2>1. RefreshInterval(rate) \in Nat
    BY IntervalNat
  <2>2. Changed(image) \in BOOLEAN /\ FullRefresh(image) \in BOOLEAN
    BY DEF Changed, FullRefresh, NeedsRedraw
  <2>3. payload' \in Payloads /\ payload'.image = image
    BY <1>1, <2>1, <2>2 DEF Payloads
  <2>4. pc' \in {"render", "cache"} /\ flow' = flow
    BY <1>1, <2>2 DEF Goto, AfterFetch
  <2> QED BY <1>1, <2>3, <2>4 DEF FetchPayload, Control, CallsOf
<1>2. CASE Fail(st) /\ UNCHANGED payload
  <2>1. st \in State /\ pc # "idle" /\ flow # "critical" /\ UNCHANGED <<decision, dev>>
    BY <1>2 DEF FetchPayload, Control, CallsOf
  <2>2. Control'
    BY <1>2, <2>1, FailControl
  <2>3. st' \in State /\ pc' \in {"cleanup", "screen"} /\ flow' = "recovery"
        /\ suspend' = FALSE /\ rendered' = FALSE /\ saved' = FALSE
    BY <1>2, <2>1, FailType
  <2>4. UNCHANGED <<files, panel, radio, alarms, machine, before, decision, netPending, history>>
    BY DEF FetchPayload
  <2>5. disk' \in State /\ panel' \in Images \cup Screens \cup {"splash", "torn"}
        /\ decision' \in Decisions /\ payload' \in Payloads
        /\ before' \in 0 .. MaxFailures /\ boot' \in BootIds
    BY <1>2, <2>4
  <2>6. TypeOK'
    BY <1>2, <2>3, <2>4, <2>5
  <2> QED BY <2>2, <2>6
<1> QED BY <1>1, <1>2 DEF FetchPayload

LEMMA RenderType == TypeInv /\ Render => TypeInv'
<1> SUFFICES ASSUME TypeInv, Render PROVE TypeInv'
  OBVIOUS
<1> USE DEF TypeInv, TypeOK, files, alarms, machine, inputs
<1>1. payload.image \in Images /\ flow = "normal" /\ pc = "render"
  BY DEF Render, Control, CallsOf
<1>2. CASE panel' = payload.image /\ st' = ShowsImage(st)
           /\ draws' = "pending" /\ drew' = TRUE /\ Goto("cache")
           /\ UNCHANGED <<suspend, rendered, saved>>
  <2>1. (st.rendered + 1) % FullRefreshEvery \in 0 .. FullRefreshEvery - 1
    BY CadenceAssumption DEF State
  <2>2. st' \in State
    BY <1>1, <1>2, <2>1 DEF State, ShowsImage
  <2> QED BY <1>1, <1>2, <2>2 DEF Render, Control, CallsOf, Goto
<1>3. CASE Fail(st) /\ DrawFails(payload.image \notin Undecodable)
  <2>1. st \in State /\ pc # "idle" /\ flow # "critical" /\ UNCHANGED <<decision, dev>>
    BY <1>3, <1>1 DEF Render, Control, CallsOf
  <2>2. Control'
    BY <1>3, <2>1, FailControl
  <2>3. st' \in State /\ pc' \in {"cleanup", "screen"} /\ flow' = "recovery"
        /\ suspend' = FALSE /\ rendered' = FALSE /\ saved' = FALSE
    BY <1>3, <2>1, FailType
  <2>4. /\ panel' \in Images \cup Screens \cup {"splash", "torn"}
        /\ draws' \in {"recorded", "pending", "lost"} /\ drew' \in BOOLEAN
    BY <1>3 DEF DrawFails, history
  <2>5. TypeOK'
    BY <1>3, <2>3, <2>4, <1>1 DEF Render
  <2> QED BY <2>2, <2>5
<1> QED BY <1>2, <1>3 DEF Render

LEMMA StoreImageType == TypeInv /\ StoreImage => TypeInv'
<1> SUFFICES ASSUME TypeInv, StoreImage PROVE TypeInv'
  OBVIOUS
<1> USE DEF TypeInv, TypeOK, alarms, machine, inputs, history
<1>1. payload.image \in Images /\ flow = "normal" /\ pc = "cache"
  BY DEF StoreImage, Control, CallsOf
<1>2. CASE cache' = payload.image /\ st' = Succeeds(st)
           /\ Goto("plan") /\ UNCHANGED <<suspend, rendered, saved>>
  <2>1. payload.interval \in Nat /\ 0 \in 0 .. MaxFailures
    BY DeviceAssumption DEF Payloads
  <2>2. Succeeds(st) \in State
    BY <2>1 DEF State, Succeeds
  <2> QED BY <1>1, <1>2, <2>2 DEF StoreImage, Control, CallsOf, Goto
<1>3. CASE Fail(st) /\ cache' \in {cache, "torn"}
  <2>1. st \in State /\ pc # "idle" /\ flow # "critical" /\ UNCHANGED <<decision, dev>>
    BY <1>3, <1>1 DEF StoreImage, Control, CallsOf
  <2>2. Control'
    BY <1>3, <2>1, FailControl
  <2>3. st' \in State /\ pc' \in {"cleanup", "screen"} /\ flow' = "recovery"
        /\ suspend' = FALSE /\ rendered' = FALSE /\ saved' = FALSE
    BY <1>3, <2>1, FailType
  <2>4. UNCHANGED <<disk, panel, radio, alarms, machine, inputs, netPending, history>>
    BY DEF StoreImage
  <2>5. disk' \in State /\ panel' \in Images \cup Screens \cup {"splash", "torn"}
        /\ decision' \in Decisions /\ payload' \in Payloads
        /\ before' \in 0 .. MaxFailures /\ boot' \in BootIds
    BY <2>4
  <2>6. TypeOK'
    BY <1>3, <2>3, <2>4, <2>5, <1>1
  <2> QED BY <2>2, <2>6
<1> QED BY <1>2, <1>3 DEF StoreImage

LEMMA ShownLocallyType ==
  ASSUME TypeInv, pc = "screen", NEW s \in State
  PROVE  /\ ScreenName \in Screens
         /\ ShownLocally(s) \in State /\ Deadline(s) \in State
<1>1. flow \in {"battery", "critical", "recovery"}
  BY DEF TypeInv, TypeOK, Control, CallsOf
<1>2. ScreenName \in Screens
  BY <1>1 DEF ScreenName, Screens, TypeInv, Control
<1>3. boot \in BootIds
  BY DEF TypeInv, TypeOK
<1>4. ShownLocally(s) \in State
  BY <1>2, <1>3 DEF ShownLocally, State
<1>5. CheckInterval \in Nat /\ CriticalRetry \in Nat
  BY IntervalAssumption DEF CriticalRetry
<1>6. Deadline(s) \in State
  <2>1. CASE flow = "battery"
    BY <1>5, <2>1 DEF Deadline, State
  <2>2. CASE flow = "critical"
    BY <1>5, <2>2 DEF Deadline, State
  <2>3. CASE flow = "recovery"
    BY <2>3 DEF Deadline
  <2> QED BY <1>1, <2>1, <2>2, <2>3
<1> QED BY <1>2, <1>4, <1>6

\* The parts of TypeOK that a step from one call to the next may disturb: what
\* outlives the process, and what the running function remembers.
DeviceTypes ==
  /\ disk \in State /\ cache \in Images \cup {"none", "torn"}
  /\ panel \in Images \cup Screens \cup {"splash", "torn"}
  /\ radio \in {"down", "up", "raised", "stuck"}
  /\ rtc \in Nat /\ timer \in BOOLEAN
  /\ draws \in {"recorded", "pending", "lost"} /\ drew \in BOOLEAN
  /\ netPending \in BOOLEAN
MemoryTypes ==
  st \in State /\ suspend \in BOOLEAN /\ rendered \in BOOLEAN /\ saved \in BOOLEAN

LEMMA StepFrame ==
  ASSUME TypeInv, pc # "idle",
         UNCHANGED <<dev, boot, grace, before, decision, payload>>,
         DeviceTypes', MemoryTypes',
         \/ flow' = flow /\ pc' \in CallsOf[flow]
              /\ (flow = "normal" => pc \in {"cache", "plan", "log", "save", "cleanup", "sleep"})
         \/ flow' = "recovery" /\ flow # "critical" /\ pc' \in {"cleanup", "screen"}
  PROVE  TypeInv'
<1>1. flow' \in {"none", "normal", "battery", "critical", "recovery"}
      /\ pc' \in {"idle", "mode", "network", "fetch", "render", "cache", "plan",
                  "log", "save", "cleanup", "screen", "sleep", "shutdown"}
  BY DEF TypeInv, TypeOK, CallsOf
<1>2. dev' \in {"awake", "asleep", "off"} /\ boot' \in BootIds /\ grace' \in BOOLEAN
      /\ before' \in 0 .. MaxFailures /\ decision' \in Decisions
      /\ payload' \in Payloads
  BY DEF TypeInv, TypeOK
<1>3. TypeOK'
  BY <1>1, <1>2 DEF TypeOK, DeviceTypes, MemoryTypes
<1>4. Control'
  BY DEF TypeInv, TypeOK, Control, CallsOf
<1> QED BY <1>3, <1>4 DEF TypeInv

LEMMA LocalScreenType == TypeInv /\ LocalScreen => TypeInv'
<1> SUFFICES ASSUME TypeInv, LocalScreen PROVE TypeInv'
  OBVIOUS
<1>1. pc = "screen" /\ st \in State /\ flow \in {"battery", "critical", "recovery"}
  BY DEF LocalScreen, TypeInv, TypeOK, Control, CallsOf
<1>2. UNCHANGED <<files, radio, alarms, machine, inputs, netPending>>
  BY DEF LocalScreen
<1>3. ScreenName \in Screens
  BY <1>1, ShownLocallyType
<1>4. DeviceTypes'
  BY <1>2, <1>3
     DEF LocalScreen, DrawFails, TypeInv, TypeOK, DeviceTypes, files, alarms, history
<1>5. UNCHANGED <<dev, boot, grace, before, decision, payload>>
  BY <1>2 DEF machine, inputs
<1>6. ASSUME NEW s \in State, AfterScreen(s), rendered' \in BOOLEAN
      PROVE  TypeInv'
  <2>1. st' \in State /\ UNCHANGED <<suspend, saved>>
    BY <1>1, <1>6, ShownLocallyType DEF AfterScreen
  <2>2. MemoryTypes'
    BY <1>6, <2>1 DEF TypeInv, TypeOK, MemoryTypes
  <2>3. flow' = flow /\ pc' \in CallsOf[flow]
    BY <1>1, <1>6 DEF AfterScreen, Goto, CallsOf
  <2> QED BY <1>1, <1>4, <1>5, <2>2, <2>3, StepFrame
<1>7. rendered \in BOOLEAN /\ ShownLocally(st) \in State
  BY <1>1, ShownLocallyType DEF TypeInv, TypeOK
<1>8. ASSUME ~BestEffort, Fail(st) PROVE TypeInv'
  <2>1. flow # "critical"
    BY <1>8 DEF BestEffort
  <2>2. MemoryTypes' /\ flow' = "recovery" /\ pc' \in {"cleanup", "screen"}
    BY <1>1, <1>8, FailType DEF MemoryTypes
  <2> QED BY <1>1, <1>4, <1>5, <2>1, <2>2, StepFrame
<1> QED BY <1>1, <1>6, <1>7, <1>8 DEF LocalScreen

LEMMA PlanIntervalNat ==
  ASSUME TypeInv, pc = "plan"
  PROVE  PlanInterval \in Nat /\ (flow # "normal" => PlanInterval > 0)
<1>1. flow \in {"normal", "battery", "recovery"}
  BY DEF TypeInv, TypeOK, Control, CallsOf
<1>2. payload.interval \in Nat /\ st.failures \in Nat
  BY DeviceAssumption DEF TypeInv, TypeOK, Payloads, State
<1>3. RetryInterval(st.failures) \in Nat /\ RetryInterval(st.failures) > 0
  BY <1>2, RetryNat
<1>4. CheckInterval \in Nat /\ CheckInterval > 0
  BY IntervalAssumption
<1> QED BY <1>1, <1>2, <1>3, <1>4 DEF PlanInterval

LEMMA PlanType == TypeInv /\ Plan => TypeInv'
<1> SUFFICES ASSUME TypeInv, Plan PROVE TypeInv'
  OBVIOUS
<1>1. pc = "plan" /\ st \in State /\ flow \in {"normal", "battery", "recovery"}
  BY DEF Plan, TypeInv, TypeOK, Control, CallsOf
<1>2. UNCHANGED <<files, panel, radio, machine, inputs, netPending, history>>
  BY DEF Plan
<1>3. PICK want \in Wanted :
        \/ /\ ArmRtc(want) \/ ArmTimer(want) \/ FallBackToTimer(want)
           /\ Goto(IF flow = "normal" THEN "log" ELSE "save")
           /\ UNCHANGED <<st, rendered, saved>>
        \/ /\ NothingArmed(want)
           /\ IF BestEffort
              THEN Goto("save") /\ suspend' = FALSE
                     /\ UNCHANGED <<st, rendered, saved>>
              ELSE Fail(st)
  BY DEF Plan
<1>4. rtc' \in Nat
  <2>1. rtc' \in {rtc, 0, PlanInterval}
    BY <1>3 DEF ArmRtc, ArmTimer, FallBackToTimer, NothingArmed
  <2> QED BY <1>1, <2>1, PlanIntervalNat DEF TypeInv, TypeOK
<1>5. timer' \in BOOLEAN
  <2>1. timer' \in {timer, TRUE, FALSE}
    BY <1>3, Zenon DEF ArmRtc, ArmTimer, FallBackToTimer, NothingArmed
  <2> QED BY <2>1 DEF TypeInv, TypeOK
<1>6. DeviceTypes'
  BY <1>2, <1>4, <1>5 DEF TypeInv, TypeOK, DeviceTypes, files, history
<1>7. UNCHANGED <<dev, boot, grace, before, decision, payload>>
  BY <1>2 DEF machine, inputs
<1>8. CASE /\ ArmRtc(want) \/ ArmTimer(want) \/ FallBackToTimer(want)
           /\ Goto(IF flow = "normal" THEN "log" ELSE "save")
           /\ UNCHANGED <<st, rendered, saved>>
  <2>1. suspend' \in BOOLEAN
    BY <1>8, Zenon DEF ArmRtc, ArmTimer, FallBackToTimer
  <2>2. MemoryTypes'
    BY <1>8, <2>1 DEF TypeInv, TypeOK, MemoryTypes
  <2>3. flow' = flow /\ pc' \in CallsOf[flow]
    BY <1>1, <1>8 DEF Goto, CallsOf
  <2> QED BY <1>1, <1>6, <1>7, <2>2, <2>3, StepFrame
<1>9. CASE BestEffort /\ Goto("save") /\ suspend' = FALSE
           /\ UNCHANGED <<st, rendered, saved>>
  <2>1. MemoryTypes'
    BY <1>9 DEF TypeInv, TypeOK, MemoryTypes
  <2>2. flow' = flow /\ pc' \in CallsOf[flow] /\ flow = "recovery"
    BY <1>1, <1>9 DEF Goto, CallsOf, BestEffort
  <2> QED BY <1>1, <1>6, <1>7, <2>1, <2>2, StepFrame
<1>10. CASE ~BestEffort /\ Fail(st)
  <2>1. MemoryTypes' /\ flow' = "recovery" /\ pc' \in {"cleanup", "screen"}
    BY <1>1, <1>10, FailType DEF MemoryTypes
  <2> QED BY <1>1, <1>6, <1>7, <2>1, StepFrame
<1> QED BY <1>3, <1>8, <1>9, <1>10, Zenon

LEMMA SaveStateType == TypeInv /\ SaveState => TypeInv'
<1> SUFFICES ASSUME TypeInv, SaveState PROVE TypeInv'
  OBVIOUS
<1>1. pc = "save" /\ st \in State /\ disk \in State
      /\ flow \in {"normal", "battery", "critical", "recovery"}
  BY DEF SaveState, TypeInv, TypeOK, Control, CallsOf
<1>2. UNCHANGED <<cache, panel, radio, alarms, machine, inputs, netPending, drew>>
  BY DEF SaveState
<1>3. disk' \in State /\ draws' \in {"recorded", "pending", "lost"}
  BY <1>1 DEF SaveState, Committed, TypeInv, TypeOK
<1>4. DeviceTypes'
  BY <1>2, <1>3 DEF TypeInv, TypeOK, DeviceTypes, alarms
<1>5. UNCHANGED <<dev, boot, grace, before, decision, payload>>
  BY <1>2 DEF machine, inputs
<1>6. CASE saved' = TRUE /\ Goto(IF flow = "normal" THEN "cleanup" ELSE "log")
           /\ UNCHANGED <<st, suspend, rendered>>
  <2>1. MemoryTypes'
    BY <1>6 DEF TypeInv, TypeOK, MemoryTypes
  <2>2. flow' = flow /\ pc' \in CallsOf[flow]
    BY <1>1, <1>6 DEF Goto, CallsOf
  <2> QED BY <1>1, <1>4, <1>5, <2>1, <2>2, StepFrame
<1>7. CASE BestEffort /\ Goto("log") /\ saved' = FALSE
           /\ UNCHANGED <<st, suspend, rendered>>
  <2>1. MemoryTypes'
    BY <1>7 DEF TypeInv, TypeOK, MemoryTypes
  <2>2. flow' = flow /\ pc' \in CallsOf[flow] /\ flow # "normal"
    BY <1>1, <1>7 DEF Goto, CallsOf, BestEffort
  <2> QED BY <1>1, <1>4, <1>5, <2>1, <2>2, StepFrame
<1>8. CASE ~BestEffort /\ Fail(st)
  <2>1. flow # "critical"
    BY <1>8 DEF BestEffort
  <2>2. MemoryTypes' /\ flow' = "recovery" /\ pc' \in {"cleanup", "screen"}
    BY <1>1, <1>8, FailType DEF MemoryTypes
  <2> QED BY <1>1, <1>4, <1>5, <2>1, <2>2, StepFrame
<1> QED BY <1>6, <1>7, <1>8 DEF SaveState

LEMMA AppendLogType == TypeInv /\ AppendLog => TypeInv'
<1> SUFFICES ASSUME TypeInv, AppendLog PROVE TypeInv'
  OBVIOUS
<1>1. pc = "log" /\ st \in State
      /\ flow \in {"normal", "battery", "critical", "recovery"}
  BY DEF AppendLog, TypeInv, TypeOK, Control, CallsOf
<1>2. UNCHANGED <<files, panel, radio, alarms, machine, inputs, netPending, history>>
  BY DEF AppendLog
<1>3. DeviceTypes'
  BY <1>2 DEF TypeInv, TypeOK, DeviceTypes, files, alarms, history
<1>4. UNCHANGED <<dev, boot, grace, before, decision, payload>>
  BY <1>2 DEF machine, inputs
<1>5. CASE /\ Goto(CASE flow = "normal"   -> "save"
                     [] flow = "critical" -> "shutdown"
                     [] OTHER             -> "sleep")
           /\ UNCHANGED <<st, suspend, rendered, saved>>
  <2>1. MemoryTypes'
    BY <1>5 DEF TypeInv, TypeOK, MemoryTypes
  <2>2. flow' = flow /\ pc' \in CallsOf[flow]
    BY <1>1, <1>5 DEF Goto, CallsOf
  <2> QED BY <1>1, <1>3, <1>4, <2>1, <2>2, StepFrame
<1>6. CASE ~BestEffort /\ Fail(st)
  <2>1. flow # "critical"
    BY <1>6 DEF BestEffort
  <2>2. MemoryTypes' /\ flow' = "recovery" /\ pc' \in {"cleanup", "screen"}
    BY <1>1, <1>6, FailType DEF MemoryTypes
  <2> QED BY <1>1, <1>3, <1>4, <2>1, <2>2, StepFrame
<1> QED BY <1>5, <1>6 DEF AppendLog

LEMMA CleanupNetworkType == TypeInv /\ CleanupNetwork => TypeInv'
<1> SUFFICES ASSUME TypeInv, CleanupNetwork PROVE TypeInv'
  OBVIOUS
<1>1. pc = "cleanup" /\ flow \in {"normal", "recovery"}
  BY DEF CleanupNetwork, TypeInv, TypeOK, Control, CallsOf
<1>2. radio' \in {"down", "stuck"} /\ netPending' = FALSE
      /\ UNCHANGED <<files, panel, alarms, machine, st, inputs, suspend,
                     rendered, saved, history>>
  BY DEF CleanupNetwork, Lowered
<1>3. DeviceTypes'
  BY <1>2 DEF TypeInv, TypeOK, DeviceTypes, files, alarms, history
<1>4. MemoryTypes'
  BY <1>2 DEF TypeInv, TypeOK, MemoryTypes
<1>5. UNCHANGED <<dev, boot, grace, before, decision, payload>>
  BY <1>2 DEF machine, inputs
<1>6. flow' = flow /\ pc' \in CallsOf[flow]
  BY <1>1 DEF CleanupNetwork, Goto, CallsOf
<1> QED BY <1>1, <1>3, <1>4, <1>5, <1>6, StepFrame

\* The process is gone: whatever happens to the device, the types hold.
LEMMA ExitFrame ==
  ASSUME TypeInv, Exit,
         disk' = disk, cache' = cache,
         panel' \in Images \cup Screens \cup {"splash", "torn"},
         radio' \in {"down", "up", "raised", "stuck"}, rtc' \in Nat, timer' \in BOOLEAN,
         dev' \in {"awake", "asleep", "off"}, boot' \in BootIds,
         grace' \in BOOLEAN, saved' \in BOOLEAN
  PROVE  TypeInv'
<1>1. /\ st' \in State /\ pc' = "idle" /\ flow' = "none"
      /\ before' \in 0 .. MaxFailures /\ decision' \in Decisions
      /\ payload' \in Payloads /\ suspend' \in BOOLEAN /\ rendered' \in BOOLEAN
      /\ netPending' \in BOOLEAN /\ draws' \in {"recorded", "pending", "lost"}
      /\ drew' \in BOOLEAN /\ ~decision'.shutdown
  BY ExitType
<1>2. disk' \in State /\ cache' \in Images \cup {"none", "torn"}
  BY DEF TypeInv, TypeOK
<1>3. TypeOK'
  BY <1>1, <1>2 DEF TypeOK
<1>4. Control'
  BY <1>1 DEF Control, CallsOf
<1> QED BY <1>3, <1>4 DEF TypeInv

LEMMA EnvironmentTypes ==
  ASSUME TypeInv
  PROVE  /\ panel \in Images \cup Screens \cup {"splash", "torn"}
         /\ radio \in {"down", "up", "raised", "stuck"} /\ rtc \in Nat /\ timer \in BOOLEAN
         /\ dev \in {"awake", "asleep", "off"} /\ boot \in BootIds
         /\ grace \in BOOLEAN /\ saved \in BOOLEAN
BY DEF TypeInv, TypeOK

LEMMA SuspendType == TypeInv /\ Suspend => TypeInv'
<1> SUFFICES ASSUME TypeInv, Suspend PROVE TypeInv'
  OBVIOUS
<1>1. pc = "sleep" /\ UNCHANGED <<disk, cache, panel, radio, rtc, timer, boot, grace>>
  BY DEF Suspend, files, alarms
<1>2. CASE Exit /\ dev' \in {dev, "asleep"} /\ saved' \in {saved, FALSE}
  <2>1. saved' \in BOOLEAN /\ dev' \in {"awake", "asleep", "off"}
    BY <1>2, EnvironmentTypes
  <2>2. panel' \in Images \cup Screens \cup {"splash", "torn"}
        /\ timer' \in BOOLEAN /\ grace' \in BOOLEAN
    BY <1>1, EnvironmentTypes
  <2>3. radio' \in {"down", "up", "raised", "stuck"} /\ rtc' \in Nat /\ boot' \in BootIds
    BY <1>1, EnvironmentTypes
  <2> QED BY <1>1, <1>2, <2>1, <2>2, <2>3, ExitFrame
<1>3. CASE ~BestEffort /\ Fail(st) /\ UNCHANGED <<dev, inputs, netPending, history>>
  <2>1. flow # "critical" /\ st \in State
    BY <1>3 DEF BestEffort, TypeInv, TypeOK
  <2>2. MemoryTypes' /\ flow' = "recovery" /\ pc' \in {"cleanup", "screen"}
    BY <1>3, <2>1, FailType DEF MemoryTypes
  <2>3. UNCHANGED <<dev, boot, grace, before, decision, payload>>
    BY <1>1, <1>3 DEF inputs
  <2>4. DeviceTypes'
    BY <1>1, <1>3 DEF TypeInv, TypeOK, DeviceTypes, history
  <2> QED BY <1>1, <2>1, <2>2, <2>3, <2>4, StepFrame
<1> QED BY <1>2, <1>3, Zenon DEF Suspend

LEMMA ShutdownType == TypeInv /\ Shutdown => TypeInv'
<1> SUFFICES ASSUME TypeInv, Shutdown PROVE TypeInv'
  OBVIOUS
<1>1. Exit /\ saved' = FALSE
      /\ UNCHANGED <<disk, cache, panel, radio, rtc, timer, boot, grace>>
  BY DEF Shutdown, files, alarms
<1>2. dev' \in {"awake", "asleep", "off"}
  BY EnvironmentTypes DEF Shutdown
<1> QED BY <1>1, <1>2, EnvironmentTypes, ExitFrame

LEMMA KillType == TypeInv /\ Kill => TypeInv'
<1> SUFFICES ASSUME TypeInv, Kill PROVE TypeInv'
  OBVIOUS
<1>1. Exit /\ saved' = FALSE
      /\ UNCHANGED <<disk, cache, panel, rtc, timer, dev, boot, grace>>
  BY DEF Kill, files, alarms, machine
<1>2. radio' \in {"down", "up", "raised", "stuck"}
  BY EnvironmentTypes DEF Kill
<1> QED BY <1>1, <1>2, EnvironmentTypes, ExitFrame

LEMMA RebootType == TypeInv /\ Reboot => TypeInv'
<1> SUFFICES ASSUME TypeInv, Reboot PROVE TypeInv'
  OBVIOUS
<1>1. /\ Exit /\ saved' = FALSE /\ dev' = "awake" /\ grace' = TRUE
      /\ boot' \in BootIds /\ radio' = "down" /\ timer' = FALSE
      /\ UNCHANGED <<disk, cache, rtc>>
  BY DEF Reboot, files
<1>2. panel' \in Images \cup Screens \cup {"splash", "torn"}
  BY EnvironmentTypes DEF Reboot
<1> QED BY <1>1, <1>2, EnvironmentTypes, ExitFrame

LEMMA WakeType == TypeInv /\ Wake => TypeInv'
<1> SUFFICES ASSUME TypeInv, Wake PROVE TypeInv'
  OBVIOUS
<1>1. /\ dev' = "awake" /\ rtc' \in {rtc, 0} /\ saved' = FALSE
      /\ UNCHANGED <<disk, cache, panel, radio, timer, boot, grace, flow, pc, st>>
      /\ UNCHANGED <<before, decision, payload, suspend, rendered, netPending,
                     draws, drew>>
  BY DEF Wake, files, inputs, history
<1>2. DeviceTypes' /\ MemoryTypes'
  <2>1. rtc' \in Nat
    BY <1>1 DEF TypeInv, TypeOK
  <2>2. DeviceTypes'
    BY <1>1, <2>1 DEF TypeInv, TypeOK, DeviceTypes
  <2>3. MemoryTypes'
    BY <1>1 DEF TypeInv, TypeOK, MemoryTypes
  <2> QED BY <2>2, <2>3
<1>3. TypeOK'
  <2>1. dev' \in {"awake", "asleep", "off"} /\ boot' \in BootIds /\ grace' \in BOOLEAN
        /\ before' \in 0 .. MaxFailures /\ decision' \in Decisions
        /\ payload' \in Payloads
    BY <1>1 DEF TypeInv, TypeOK
  <2>2. UNCHANGED <<flow, pc>>
    BY <1>1
  <2> QED BY <1>2, <2>1, <2>2 DEF TypeInv, TypeOK, DeviceTypes, MemoryTypes
<1>4. Control'
  BY <1>1 DEF TypeInv, Control
<1> QED BY <1>3, <1>4 DEF TypeInv

LEMMA GraceEndsType == TypeInv /\ GraceEnds => TypeInv'
<1> SUFFICES ASSUME TypeInv, GraceEnds PROVE TypeInv'
  OBVIOUS
<1>1. /\ grace' = FALSE
      /\ UNCHANGED <<disk, cache, panel, radio, rtc, timer, dev, boot, flow, pc, st>>
      /\ UNCHANGED <<before, decision, payload, suspend, rendered, netPending,
                     saved, draws, drew>>
  BY DEF GraceEnds, files, alarms, inputs, history
<1>2. DeviceTypes' /\ MemoryTypes'
  BY <1>1 DEF TypeInv, TypeOK, DeviceTypes, MemoryTypes
<1>3. TypeOK'
  <2>1. dev' \in {"awake", "asleep", "off"} /\ boot' \in BootIds /\ grace' \in BOOLEAN
        /\ before' \in 0 .. MaxFailures /\ decision' \in Decisions
        /\ payload' \in Payloads
    BY <1>1 DEF TypeInv, TypeOK
  <2>2. UNCHANGED <<flow, pc>>
    BY <1>1
  <2> QED BY <1>2, <2>1, <2>2 DEF TypeInv, TypeOK, DeviceTypes, MemoryTypes
<1>4. Control'
  BY <1>1 DEF TypeInv, Control
<1> QED BY <1>3, <1>4 DEF TypeInv

LEMMA TypeStutter == TypeInv /\ UNCHANGED vars => TypeInv'
<1> SUFFICES ASSUME TypeInv, UNCHANGED vars PROVE TypeInv'
  OBVIOUS
<1>1. /\ UNCHANGED <<disk, cache, panel, radio, rtc, timer, dev, boot, grace, flow, pc, st>>
      /\ UNCHANGED <<before, decision, payload, suspend, rendered, netPending,
                     saved, draws, drew>>
  BY DEF vars, files, alarms, machine, inputs, history
<1>2. DeviceTypes' /\ MemoryTypes'
  BY <1>1 DEF TypeInv, TypeOK, DeviceTypes, MemoryTypes
<1>3. TypeOK'
  <2>1. dev' \in {"awake", "asleep", "off"} /\ boot' \in BootIds /\ grace' \in BOOLEAN
        /\ before' \in 0 .. MaxFailures /\ decision' \in Decisions
        /\ payload' \in Payloads
    BY <1>1 DEF TypeInv, TypeOK
  <2>2. UNCHANGED <<flow, pc>>
    BY <1>1
  <2> QED BY <1>2, <2>1, <2>2 DEF TypeInv, TypeOK, DeviceTypes, MemoryTypes
<1>4. Control'
  BY <1>1 DEF TypeInv, Control
<1> QED BY <1>3, <1>4 DEF TypeInv

LEMMA TypeStep == TypeInv /\ [Next]_vars => TypeInv'
<1> SUFFICES ASSUME TypeInv, [Next]_vars PROVE TypeInv'
  OBVIOUS
<1>1. ASSUME NEW reading \in Samples, Start(reading) PROVE TypeInv'
  BY <1>1, StartType
<1>2. CASE Step
  BY <1>2, ChooseModeType, PrepareNetworkType, FetchPayloadType, RenderType,
     StoreImageType, LocalScreenType, PlanType, SaveStateType, AppendLogType,
     CleanupNetworkType, SuspendType, ShutdownType DEF Step
<1>3. CASE Wake \/ GraceEnds \/ Kill \/ Reboot
  BY <1>3, WakeType, GraceEndsType, KillType, RebootType
<1>4. CASE UNCHANGED vars
  BY <1>4, TypeStutter
<1> QED BY <1>1, <1>2, <1>3, <1>4 DEF Next

\* Every variable keeps its type, and every cycle stays on the calls of the
\* function that is running.
THEOREM TypeInvariant == Spec => []TypeInv
<1>1. Init => TypeInv
  BY TypeInit
<1>2. TypeInv /\ [Next]_vars => TypeInv'
  BY TypeStep
<1> QED BY <1>1, <1>2, PTL DEF Spec

\* The type invariant that the runs check.
THEOREM TypeCorrect == Spec => []TypeOK
<1>1. TypeInv => TypeOK
  BY DEF TypeInv
<1> QED BY <1>1, TypeInvariant, PTL

-----------------------------------------------------------------------------
(* A cycle ends. *)

\* How many calls a cycle can still make, whatever fails: recovery may follow
\* the last call of the function that started it.
CallsLeftTable ==
  [normal   |-> [mode |-> 16, network |-> 15, fetch |-> 14, render |-> 13,
                 cache |-> 12, plan |-> 11, log |-> 10, save |-> 9,
                 cleanup |-> 8, sleep |-> 7],
   battery  |-> [screen |-> 11, plan |-> 10, save |-> 9, log |-> 8, sleep |-> 7],
   critical |-> [screen |-> 4, save |-> 3, log |-> 2, shutdown |-> 1],
   recovery |-> [cleanup |-> 6, screen |-> 5, plan |-> 4, save |-> 3, log |-> 2,
                 sleep |-> 1],
   none     |-> [idle |-> 0]]
CallsLeft == CallsLeftTable[flow][pc]

LEMMA CallsLeftType ==
  ASSUME TypeInv
  PROVE  /\ CallsLeft \in 0 .. 16 /\ (CallsLeft = 0 <=> pc = "idle")
         /\ flow = "critical" => CallsLeft \in 1 .. 4 /\ (CallsLeft = 1 <=> pc = "shutdown")
<1>1. flow \in {"none", "normal", "battery", "critical", "recovery"} /\ pc \in CallsOf[flow]
  BY DEF TypeInv, TypeOK, Control
<1> QED BY <1>1 DEF CallsOf, CallsLeft, CallsLeftTable

\* Entering recovery lowers it.
LEMMA FailDescends ==
  ASSUME TypeInv, NEW s \in State, Fail(s), flow \in {"normal", "battery"}
  PROVE  CallsLeft' < CallsLeft
<1>1. flow' = "recovery" /\ pc' \in {"cleanup", "screen"} /\ pc \in CallsOf[flow]
  BY FailType DEF TypeInv, Control
<1> QED BY <1>1 DEF CallsOf, CallsLeft, CallsLeftTable

LEMMA ExitDescends ==
  ASSUME TypeInv, Exit, pc # "idle"
  PROVE  CallsLeft' < CallsLeft
<1>1. CallsLeft \in 1 .. 16
  BY CallsLeftType
<1>2. pc' = "idle" /\ flow' = "none"
  BY DEF Exit
<1> QED BY <1>1, <1>2 DEF CallsLeft, CallsLeftTable

LEMMA StepDescends ==
  ASSUME TypeInv, Step
  PROVE  CallsLeft' < CallsLeft /\ (flow = "critical" /\ pc # "shutdown" => flow' = "critical")
<1>1. /\ flow \in {"none", "normal", "battery", "critical", "recovery"}
      /\ pc \in CallsOf[flow] /\ st \in State
  BY DEF TypeInv, TypeOK, Control
<1>2. CASE ChooseMode
  <2>1. flow = "normal" /\ pc = "mode"
    BY <1>1, <1>2 DEF ChooseMode, CallsOf
  <2>2. CASE Goto("network")
    BY <2>1, <2>2 DEF Goto, CallsLeft, CallsLeftTable
  <2> QED BY <1>1, <1>2, <2>1, <2>2, FailDescends DEF ChooseMode
<1>3. CASE PrepareNetwork
  <2>1. flow = "normal" /\ pc = "network"
    BY <1>1, <1>3 DEF PrepareNetwork, CallsOf
  <2>2. CASE Goto("fetch")
    BY <2>1, <2>2 DEF Goto, CallsLeft, CallsLeftTable
  <2> QED BY <1>1, <1>3, <2>1, <2>2, FailDescends DEF PrepareNetwork
<1>4. CASE FetchPayload
  <2>1. flow = "normal" /\ pc = "fetch"
    BY <1>1, <1>4 DEF FetchPayload, CallsOf
  <2>2. CASE flow' = flow /\ pc' \in {"render", "cache"}
    BY <2>1, <2>2 DEF CallsLeft, CallsLeftTable
  <2> QED BY <1>1, <1>4, <2>1, <2>2, FailDescends DEF FetchPayload, Goto, AfterFetch
<1>5. CASE Render
  <2>1. flow = "normal" /\ pc = "render"
    BY <1>1, <1>5 DEF Render, CallsOf
  <2>2. CASE Goto("cache")
    BY <2>1, <2>2 DEF Goto, CallsLeft, CallsLeftTable
  <2> QED BY <1>1, <1>5, <2>1, <2>2, FailDescends DEF Render
<1>6. CASE StoreImage
  <2>1. flow = "normal" /\ pc = "cache"
    BY <1>1, <1>6 DEF StoreImage, CallsOf
  <2>2. CASE Goto("plan")
    BY <2>1, <2>2 DEF Goto, CallsLeft, CallsLeftTable
  <2> QED BY <1>1, <1>6, <2>1, <2>2, FailDescends DEF StoreImage
<1>7. CASE LocalScreen
  <2>1. flow \in {"battery", "critical", "recovery"} /\ pc = "screen"
    BY <1>1, <1>7 DEF LocalScreen, CallsOf
  <2>2. \/ flow' = flow /\ pc' = IF flow = "critical" THEN "save" ELSE "plan"
        \/ ~BestEffort /\ Fail(st)
    BY <1>7 DEF LocalScreen, AfterScreen, Goto
  <2>3. CASE flow' = flow /\ pc' = IF flow = "critical" THEN "save" ELSE "plan"
    BY <2>1, <2>3 DEF CallsLeft, CallsLeftTable
  <2>4. CASE ~BestEffort /\ Fail(st)
    <3>1. flow = "battery"
      BY <2>1, <2>4 DEF BestEffort
    <3> QED BY <1>1, <2>4, <3>1, FailDescends
  <2> QED BY <2>2, <2>3, <2>4
<1>8. CASE Plan
  <2>1. flow \in {"normal", "battery", "recovery"} /\ pc = "plan"
    BY <1>1, <1>8 DEF Plan, CallsOf
  <2>2. \/ flow' = flow /\ pc' = IF flow = "normal" THEN "log" ELSE "save"
        \/ ~BestEffort /\ Fail(st)
    BY <1>8, <2>1 DEF Plan, Goto, BestEffort
  <2>3. CASE flow' = flow /\ pc' = IF flow = "normal" THEN "log" ELSE "save"
    BY <2>1, <2>3 DEF CallsLeft, CallsLeftTable
  <2>4. CASE ~BestEffort /\ Fail(st)
    <3>1. flow \in {"normal", "battery"}
      BY <2>1, <2>4 DEF BestEffort
    <3> QED BY <1>1, <2>1, <2>4, <3>1, FailDescends
  <2> QED BY <2>2, <2>3, <2>4
<1>9. CASE SaveState
  <2>1. flow \in {"normal", "battery", "critical", "recovery"} /\ pc = "save"
    BY <1>1, <1>9 DEF SaveState, CallsOf
  <2>2. \/ flow' = flow /\ pc' = IF flow = "normal" THEN "cleanup" ELSE "log"
        \/ ~BestEffort /\ Fail(st)
    BY <1>9, <2>1 DEF SaveState, Goto, BestEffort
  <2>3. CASE flow' = flow /\ pc' = IF flow = "normal" THEN "cleanup" ELSE "log"
    BY <2>1, <2>3 DEF CallsLeft, CallsLeftTable
  <2>4. CASE ~BestEffort /\ Fail(st)
    <3>1. flow \in {"normal", "battery"}
      BY <2>1, <2>4 DEF BestEffort
    <3> QED BY <1>1, <2>4, <3>1, FailDescends
  <2> QED BY <2>2, <2>3, <2>4
<1>10. CASE AppendLog
  <2>1. flow \in {"normal", "battery", "critical", "recovery"} /\ pc = "log"
    BY <1>1, <1>10 DEF AppendLog, CallsOf
  <2>2. \/ flow' = flow /\ pc' = CASE flow = "normal" -> "save"
                                   [] flow = "critical" -> "shutdown"
                                   [] OTHER -> "sleep"
        \/ ~BestEffort /\ Fail(st)
    BY <1>10 DEF AppendLog, Goto
  <2>3. CASE flow' = flow /\ pc' = CASE flow = "normal" -> "save"
                                     [] flow = "critical" -> "shutdown"
                                     [] OTHER -> "sleep"
    BY <2>1, <2>3 DEF CallsLeft, CallsLeftTable
  <2>4. CASE ~BestEffort /\ Fail(st)
    <3>1. flow \in {"normal", "battery"}
      BY <2>1, <2>4 DEF BestEffort
    <3> QED BY <1>1, <2>4, <3>1, FailDescends
  <2> QED BY <2>2, <2>3, <2>4
<1>11. CASE CleanupNetwork
  <2>1. flow \in {"normal", "recovery"} /\ pc = "cleanup"
    BY <1>1, <1>11 DEF CleanupNetwork, CallsOf
  <2>2. flow' = flow /\ pc' = IF flow = "normal" THEN "sleep" ELSE "screen"
    BY <1>11 DEF CleanupNetwork, Goto
  <2> QED BY <2>1, <2>2 DEF CallsLeft, CallsLeftTable
<1>12. CASE Suspend
  <2>1. flow \in {"normal", "battery", "recovery"} /\ pc = "sleep"
    BY <1>1, <1>12 DEF Suspend, CallsOf
  <2>2. Exit \/ (~BestEffort /\ Fail(st))
    BY <1>12 DEF Suspend
  <2>3. CASE ~BestEffort /\ Fail(st)
    <3>1. flow \in {"normal", "battery"}
      BY <2>1, <2>3 DEF BestEffort
    <3> QED BY <1>1, <2>3, <3>1, FailDescends
  <2> QED BY <2>1, <2>2, <2>3, ExitDescends
<1>13. CASE Shutdown
  <2>1. pc = "shutdown" /\ Exit
    BY <1>13 DEF Shutdown
  <2> QED BY <2>1, ExitDescends
<1> QED BY <1>2, <1>3, <1>4, <1>5, <1>6, <1>7, <1>8, <1>9, <1>10, <1>11, <1>12, <1>13 DEF Step

\* Only a new cycle raises it.
LEMMA OthersKeepIt ==
  ASSUME TypeInv, [Next]_vars, ~Step, pc # "idle"
  PROVE  \/ UNCHANGED <<flow, pc>>
         \/ CallsLeft' = 0 /\ (Kill \/ Reboot)
<1>1. ASSUME NEW reading \in Samples, Start(reading) PROVE FALSE
  BY <1>1 DEF Start
<1>2. CASE Wake \/ GraceEnds
  BY <1>2 DEF Wake, GraceEnds
<1>3. CASE Kill \/ Reboot
  <2>1. pc' = "idle" /\ flow' = "none"
    BY <1>3 DEF Kill, Reboot, Exit
  <2> QED BY <1>3, <2>1 DEF CallsLeft, CallsLeftTable
<1>4. CASE UNCHANGED vars
  BY <1>4 DEF vars
<1> QED BY <1>1, <1>2, <1>3, <1>4 DEF Next

CallsRunOut ==
  [][ /\ Step => CallsLeft' < CallsLeft
      /\ CallsLeft' > CallsLeft => pc = "idle" ]_vars

\* A cycle makes at most sixteen calls: each one leaves fewer to make, and
\* nothing but the start of a cycle raises their number, so no failure of a
\* call, of recovery or of its own best-effort calls sends it round again.
THEOREM CycleDescends == Spec => CallsRunOut /\ [](CallsLeft \in 0 .. 16)
<1>1. TypeInv => CallsLeft \in 0 .. 16
  BY CallsLeftType
<1>2. TypeInv /\ (CallsLeft \in 0 .. 16)' /\ [Next]_vars =>
        [ /\ Step => CallsLeft' < CallsLeft
          /\ CallsLeft' > CallsLeft => pc = "idle" ]_vars
  <2> SUFFICES ASSUME TypeInv, (CallsLeft \in 0 .. 16)', [Next]_vars
               PROVE  /\ Step => CallsLeft' < CallsLeft
                      /\ CallsLeft' > CallsLeft => pc = "idle"
    OBVIOUS
  <2>1. CallsLeft \in 0 .. 16 /\ CallsLeft' \in 0 .. 16
    BY CallsLeftType
  <2>2. Step => CallsLeft' < CallsLeft
    BY StepDescends
  <2>3. ASSUME ~Step, pc # "idle" PROVE ~(CallsLeft' > CallsLeft)
    <3>1. CASE UNCHANGED <<flow, pc>>
      <4>1. CallsLeft' = CallsLeft
        BY <3>1 DEF CallsLeft
      <4> QED BY <2>1, <4>1
    <3>2. CASE CallsLeft' = 0
      BY <2>1, <3>2
    <3> QED BY <2>3, <3>1, <3>2, OthersKeepIt
  <2> QED BY <2>1, <2>2, <2>3
<1> QED BY <1>1, <1>2, TypeInvariant, PTL DEF Spec, CallsRunOut

(***************************************************************************)
(* From the calls running out to the end of the cycle.  The provers do not *)
(* reason about ENABLED: that a running cycle has a next call is the one   *)
(* hypothesis, which the run of these properties would refute.             *)
(***************************************************************************)

NeverStuck == [](pc # "idle" => ENABLED <<Step>>_vars)

Running(n) == CallsLeft = n
Fewer(n) == CallsLeft < n
Idle == pc = "idle"

\* With n calls left, there come to be fewer.
RunsDown(n) == FairSpec /\ NeverStuck => (Running(n) ~> Fewer(n))

LEMMA CycleRunsDown ==
  ASSUME NEW n \in 1 .. 16
  PROVE  RunsDown(n)
<1>1. TypeInv /\ Running(n) => pc # "idle"
  BY CallsLeftType DEF Running
<1>2. TypeInv /\ Running(n) /\ <<Step>>_vars => Fewer(n)'
  BY StepDescends DEF Running, Fewer
<1>3. TypeInv /\ Running(n) /\ [Next]_vars => Running(n)' \/ Fewer(n)'
  <2> SUFFICES ASSUME TypeInv, Running(n), [Next]_vars, ~Step
               PROVE  Running(n)' \/ Fewer(n)'
    BY StepDescends DEF Running, Fewer
  <2>1. CASE UNCHANGED <<flow, pc>>
    BY <2>1 DEF Running, CallsLeft
  <2>2. CASE CallsLeft' = 0
    BY <2>2 DEF Fewer
  <2> QED BY <1>1, <2>1, <2>2, OthersKeepIt
<1> QED BY <1>1, <1>2, <1>3, TypeInvariant, PTL DEF RunsDown, FairSpec, Spec, NeverStuck

\* Whatever fails on the way, a cycle ends: under the fairness of the model, as
\* long as a running cycle always has a next call.
THEOREM CyclesEnd == FairSpec /\ NeverStuck => CycleEnds
<1>1. /\ RunsDown(1) /\ RunsDown(2) /\ RunsDown(3) /\ RunsDown(4)
      /\ RunsDown(5) /\ RunsDown(6) /\ RunsDown(7) /\ RunsDown(8)
      /\ RunsDown(9) /\ RunsDown(10) /\ RunsDown(11) /\ RunsDown(12)
      /\ RunsDown(13) /\ RunsDown(14) /\ RunsDown(15) /\ RunsDown(16)
  BY CycleRunsDown
<1>2. TypeInv => /\ (Fewer(1) => Idle) /\ (Fewer(2) => Fewer(1) \/ Running(1))
                 /\ (Fewer(3) => Fewer(2) \/ Running(2)) /\ (Fewer(4) => Fewer(3) \/ Running(3))
                 /\ (Fewer(5) => Fewer(4) \/ Running(4)) /\ (Fewer(6) => Fewer(5) \/ Running(5))
                 /\ (Fewer(7) => Fewer(6) \/ Running(6)) /\ (Fewer(8) => Fewer(7) \/ Running(7))
                 /\ (Fewer(9) => Fewer(8) \/ Running(8)) /\ (Fewer(10) => Fewer(9) \/ Running(9))
  BY CallsLeftType DEF Fewer, Running, Idle
<1>3. TypeInv => /\ (Fewer(11) => Fewer(10) \/ Running(10)) /\ (Fewer(12) => Fewer(11) \/ Running(11))
                 /\ (Fewer(13) => Fewer(12) \/ Running(12)) /\ (Fewer(14) => Fewer(13) \/ Running(13))
                 /\ (Fewer(15) => Fewer(14) \/ Running(14)) /\ (Fewer(16) => Fewer(15) \/ Running(15))
                 /\ (Fewer(16) \/ Running(16))
  BY CallsLeftType DEF Fewer, Running
<1> QED BY <1>1, <1>2, <1>3, TypeInvariant, PTL DEF RunsDown, FairSpec, CycleEnds, Idle

\* On the critical path, with n calls left, there come to be fewer, on that path.
Dying(n) == flow = "critical" /\ CallsLeft = n
ClosingDown(n) == flow = "critical" /\ CallsLeft < n
PathRunsDown(n) == FairSpec /\ NeverStuck => (Dying(n) ~> ClosingDown(n))

LEMMA CriticalRunsDown ==
  ASSUME NEW n \in 2 .. 4, "kill" \notin Faults, "reboot" \notin Faults
  PROVE  PathRunsDown(n)
<1>1. TypeInv /\ Dying(n) => pc # "idle" /\ pc # "shutdown" /\ dev = "awake"
  BY CallsLeftType DEF Dying, TypeInv, Control
<1>2. TypeInv /\ Dying(n) /\ <<Step>>_vars => ClosingDown(n)'
  BY <1>1, StepDescends DEF Dying, ClosingDown
<1>3. TypeInv /\ Dying(n) /\ [Next]_vars => Dying(n)' \/ ClosingDown(n)'
  <2> SUFFICES ASSUME TypeInv, Dying(n), [Next]_vars, ~Step
               PROVE  Dying(n)'
    BY <1>1, StepDescends DEF Dying, ClosingDown
  <2>1. ~Kill /\ ~Reboot
    BY <1>1 DEF Kill, Reboot
  <2>2. UNCHANGED <<flow, pc>>
    BY <1>1, <2>1, OthersKeepIt
  <2> QED BY <2>2 DEF Dying, CallsLeft
<1>4. TypeInv /\ Dying(n) => pc # "idle"
  BY <1>1
<1> QED BY <1>2, <1>3, <1>4, TypeInvariant, PTL DEF PathRunsDown, FairSpec, Spec, NeverStuck

\* A critical battery is answered with a poweroff request whatever fails on the
\* way to it, when the process is not killed: under the fairness of the model,
\* as long as a running cycle always has a next call.
THEOREM PoweroffIsRequested ==
  ASSUME "kill" \notin Faults, "reboot" \notin Faults
  PROVE  FairSpec /\ NeverStuck => CriticalRequestsPoweroff
<1> DEFINE Requested == pc = "shutdown"
           Critical == decision.shutdown
<1>1. PathRunsDown(2) /\ PathRunsDown(3) /\ PathRunsDown(4)
  BY CriticalRunsDown
<1>2. TypeInv => /\ (Critical => Dying(4) \/ ClosingDown(4))
                 /\ (ClosingDown(4) => ClosingDown(3) \/ Dying(3))
                 /\ (ClosingDown(3) => ClosingDown(2) \/ Dying(2))
                 /\ (ClosingDown(2) => Requested)
  BY CallsLeftType DEF Dying, ClosingDown, TypeInv, Control
<1> QED BY <1>1, <1>2, TypeInvariant, PTL DEF PathRunsDown, FairSpec, CriticalRequestsPoweroff
=============================================================================
