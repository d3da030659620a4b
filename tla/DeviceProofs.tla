----------------------------- MODULE DeviceProofs -----------------------------
(***************************************************************************)
(* What a cycle leaves on the device: beside the picture the alarm it      *)
(* sleeps on, the deadline and failure count it records, the radio, the    *)
(* record it appends and the cached image, and, last, what the state file  *)
(* claims of the picture itself, proved for every sequence of calls,       *)
(* failures, kills and reboots.                                            *)
(*                                                                         *)
(* Each property speaks of one moment.  The invariants here follow what it *)
(* is about from where it is decided to that moment, call by call.         *)
(***************************************************************************)
EXTENDS CycleProofs

\* The calls of Run that come after the rendering decision, and after Plan.
Decided == {"cache", "plan", "log", "save", "cleanup", "sleep"}
Planned == {"log", "save", "cleanup", "sleep"}

\* From Plan to Suspend a wish to suspend means that the alarm is armed for the
\* path's interval, which is never 0.
AlarmInv ==
  /\ flow \in {"none", "critical"} => ~suspend
  /\ flow = "normal" /\ pc \in Decided \cup {"render"} => payload.interval > 0
  /\ pc \in Planned /\ suspend => rtc = PlanInterval /\ rtc > 0

\* The deadline in memory is the interval that the path plans for, the count
\* of recovery is the one of before the cycle plus one, and what a successful
\* save has written stays what is in memory.
DeadlineInv ==
  /\ flow = "normal" /\ pc \in Planned \cup {"plan"} => st.next = payload.interval
  /\ flow = "battery" /\ pc # "screen" => st.next = CheckInterval
  /\ flow = "recovery" =>
       st.failures = Bump(before) /\ st.next = RetryInterval(st.failures)
  /\ saved /\ pc # "idle" =>
       /\ disk = st
       /\ pc \in IF flow = "normal" THEN {"cleanup", "sleep"}
                 ELSE {"log", "sleep", "shutdown"}
  /\ SleepMatchesDeadline

\* A radio that is up is owed its cleanup, and so is still inside the window;
\* behind the cleanup it is down or stuck.
RadioInv ==
  /\ radio = "up" => netPending
  /\ flow = "normal" /\ pc = "sleep" => radio \in {"down", "stuck"}
  /\ netPending =>
       \/ flow = "normal"
            /\ pc \in {"fetch", "render", "cache", "plan", "log", "save", "cleanup"}
       \/ flow = "recovery" /\ pc = "cleanup"

\* What the record will say is what the cycle has drawn so far, but for what a
\* torn drawing of the critical path leaves on the panel.
RecordInv ==
  /\ flow = "none" => ~drew /\ ~rendered
  /\ flow \in {"battery", "critical"} /\ pc = "screen" => ~drew /\ ~rendered
  /\ flow = "battery" => rendered = drew
  /\ flow = "critical" /\ rendered => drew
  /\ flow = "critical" /\ drew /\ ~rendered => panel = "torn"
  /\ flow = "normal" /\ pc \in {"mode", "network", "fetch", "render"} => ~drew
  /\ flow = "normal" /\ pc = "render" => payload.changed
  /\ flow = "normal" /\ pc \in Decided => drew = payload.changed

\* Only what was rendered once is named by a state or stored.
ImageInv ==
  /\ cache \notin Undecodable
  /\ st.hash \notin Undecodable /\ disk.hash \notin Undecodable
  /\ flow = "normal" /\ pc \in Decided => payload.image \notin Undecodable

-----------------------------------------------------------------------------
(* The alarm. *)

LEMMA AlarmInit == Init => AlarmInv
BY DEF Init, AlarmInv, Planned

\* A call other than Plan that leaves the path's interval alone.
LEMMA AlarmFrame ==
  ASSUME AlarmInv, flow' = flow, UNCHANGED <<suspend, payload, rtc>>,
         st'.failures = st.failures,
         pc' \in Planned /\ flow # "critical" => pc \in Planned,
         flow = "normal" /\ pc' \in Decided \cup {"render"} => pc \in Decided \cup {"render"}
  PROVE  AlarmInv'
BY DEF AlarmInv, PlanInterval

\* Recovery and the time between cycles begin without a wish to suspend.
LEMMA AlarmReset ==
  ASSUME suspend' = FALSE, flow' # "normal" PROVE AlarmInv'
BY DEF AlarmInv

LEMMA AlarmStep == TypeInv /\ AlarmInv /\ [Next]_vars => AlarmInv'
<1> SUFFICES ASSUME TypeInv, AlarmInv, [Next]_vars PROVE AlarmInv'
  OBVIOUS
<1>1. ASSUME Fail(st) PROVE AlarmInv'
  BY <1>1, AlarmReset DEF Fail
<1>2. ASSUME Exit PROVE AlarmInv'
  BY <1>2, AlarmReset DEF Exit
<1>3. ASSUME NEW reading \in Samples, Start(reading) PROVE AlarmInv'
  <2>1. suspend' = suspend /\ pc' \in {"mode", "screen"} /\ flow = "none"
    BY <1>3 DEF Start, TypeInv, TypeOK, Control, CallsOf
  <2> QED BY <2>1 DEF AlarmInv, Planned, Decided
<1>4. CASE ChooseMode
  BY <1>1, <1>4 DEF ChooseMode, Goto, AlarmInv, Planned, Decided, TypeInv, Control, TypeOK, CallsOf
<1>5. CASE PrepareNetwork
  BY <1>1, <1>5, AlarmFrame DEF PrepareNetwork, Goto, Planned, Decided, alarms, inputs
<1>6. CASE FetchPayload
  <2>1. pc = "fetch" /\ flow = "normal"
    BY <1>6 DEF FetchPayload, TypeInv, TypeOK, Control, CallsOf
  <2>2. ASSUME NEW image \in Images, NEW rate \in Rates,
               payload'.interval = RefreshInterval(rate),
               pc' \in {"render", "cache"}, flow' = flow, suspend' = suspend
        PROVE  AlarmInv'
    <3>1. payload'.interval > 0
      BY <2>2, IntervalNat
    <3> QED BY <2>1, <2>2, <3>1 DEF AlarmInv, Planned
  <2> QED BY <1>1, <1>6, <2>2 DEF FetchPayload, Goto, AfterFetch
<1>7. CASE Render
  BY <1>1, <1>7, AlarmFrame DEF Render, Goto, Planned, Decided, alarms, inputs, ShowsImage, TypeInv, TypeOK, State
<1>8. CASE StoreImage
  <2>1. pc = "cache" /\ flow = "normal" /\ UNCHANGED <<rtc, payload>>
    BY <1>8 DEF StoreImage, TypeInv, TypeOK, Control, CallsOf, alarms, inputs
  <2> QED BY <1>1, <1>8, <2>1 DEF StoreImage, Goto, AlarmInv, Planned, Decided
<1>9. CASE LocalScreen
  <2>1. flow \in {"battery", "critical", "recovery"} /\ pc = "screen" /\ UNCHANGED <<rtc, payload>>
    BY <1>9 DEF LocalScreen, TypeInv, TypeOK, Control, CallsOf, alarms, inputs
  <2>2. ASSUME NEW s, AfterScreen(s) PROVE AlarmInv'
    BY <2>1, <2>2 DEF AfterScreen, Goto, AlarmInv, Planned
  <2> QED BY <1>1, <1>9, <2>2 DEF LocalScreen
<1>10. CASE Plan
  <2>1. pc = "plan" /\ UNCHANGED payload /\ flow \in {"normal", "battery", "recovery"}
    BY <1>10 DEF Plan, TypeInv, TypeOK, Control, CallsOf, inputs
  <2>2. PlanInterval > 0
    BY <2>1, PlanIntervalNat DEF AlarmInv, PlanInterval, Decided
  <2>3. CASE /\ rtc' = PlanInterval /\ flow' = flow /\ st' = st
    <3>1. PlanInterval' = PlanInterval
      BY <2>1, <2>3 DEF PlanInterval
    <3> QED BY <2>1, <2>2, <2>3, <3>1 DEF AlarmInv, Decided
  <2>4. CASE suspend' = FALSE /\ flow' = flow
    BY <2>1, <2>4 DEF AlarmInv, Decided
  <2> QED BY <1>1, <1>10, <2>3, <2>4, Zenon
       DEF Plan, Goto, ArmRtc, ArmTimer, FallBackToTimer, NothingArmed
<1>11. CASE SaveState
  BY <1>1, <1>11, AlarmFrame DEF SaveState, Goto, Planned, Decided, alarms, inputs
<1>12. CASE AppendLog
  BY <1>1, <1>12, AlarmFrame DEF AppendLog, Goto, Planned, Decided, alarms, inputs
<1>13. CASE CleanupNetwork
  BY <1>13, AlarmFrame DEF CleanupNetwork, Goto, Planned, Decided, alarms, inputs
<1>14. CASE Suspend \/ Shutdown \/ Kill \/ Reboot
  BY <1>1, <1>2, <1>14 DEF Suspend, Shutdown, Kill, Reboot
<1>15. CASE Wake
  <2>1. pc = "idle" /\ UNCHANGED <<flow, pc, suspend, payload>>
    BY <1>15 DEF Wake, TypeInv, Control, inputs
  <2> QED BY <2>1 DEF AlarmInv, Planned, Decided
<1>16. CASE GraceEnds \/ UNCHANGED vars
  BY <1>16, AlarmFrame DEF GraceEnds, vars, alarms, inputs
<1> QED
  BY <1>3, <1>4, <1>5, <1>6, <1>7, <1>8, <1>9, <1>10, <1>11, <1>12, <1>13, <1>14,
     <1>15, <1>16 DEF Next, Step

-----------------------------------------------------------------------------
(* The deadline. *)

LEMMA DeadlineInit == Init => DeadlineInv
BY DEF Init, DeadlineInv, SleepMatchesDeadline

\* Neither the file nor the memory changes, and no save was made.
LEMMA DeadlineFrame ==
  ASSUME DeadlineInv, flow' = flow, UNCHANGED <<disk, st, before, payload, saved>>,
         dev' = "awake",
         flow = "normal" /\ pc' \in Planned \cup {"plan"} => pc \in Planned \cup {"plan"},
         flow = "battery" => pc # "screen",
         saved /\ pc' # "idle" =>
           /\ pc # "idle"
           /\ pc' \in IF flow = "normal" THEN {"cleanup", "sleep"}
                      ELSE {"log", "sleep", "shutdown"}
  PROVE  DeadlineInv'
BY DEF DeadlineInv, SleepMatchesDeadline, Bump

\* recoverCycle counts from before the cycle and sets the matching deadline.
LEMMA DeadlineFail ==
  ASSUME TypeInv, Fail(st), before' = before, dev' = "awake"
  PROVE  DeadlineInv'
<1>1. st \in State
  BY DEF TypeInv, TypeOK
<1>2. /\ flow' = "recovery" /\ saved' = FALSE
      /\ st'.failures = Bump(before) /\ st'.next = RetryInterval(Bump(before))
  BY <1>1 DEF Fail, CountFailure, State
<1> QED BY <1>2 DEF DeadlineInv, SleepMatchesDeadline, Bump

LEMMA DeadlineExit ==
  ASSUME Exit, saved' = FALSE
  PROVE  DeadlineInv'
BY DEF Exit, DeadlineInv, SleepMatchesDeadline

LEMMA DeadlineStep == TypeInv /\ AlarmInv /\ DeadlineInv /\ [Next]_vars => DeadlineInv'
<1> SUFFICES ASSUME TypeInv, AlarmInv, DeadlineInv, [Next]_vars PROVE DeadlineInv'
  OBVIOUS
<1> USE DEF files, machine, inputs, alarms
<1>1. ASSUME NEW reading \in Samples, Start(reading) PROVE DeadlineInv'
  BY <1>1 DEF Start, DeadlineInv, SleepMatchesDeadline, Planned
<1>2. pc # "idle" => dev = "awake" /\ flow # "none"
  BY DEF TypeInv, TypeOK, Control, CallsOf
<1>3. CASE ChooseMode \/ PrepareNetwork \/ FetchPayload
  <2>1. flow = "normal" /\ pc \in {"mode", "network", "fetch"} /\ ~saved
        /\ UNCHANGED <<disk, before, dev>>
    BY <1>3 DEF ChooseMode, PrepareNetwork, FetchPayload, TypeInv, TypeOK, Control, CallsOf, DeadlineInv
  <2>2. CASE saved' = saved /\ flow' = "normal" /\ pc' \in {"network", "fetch", "render", "cache"}
    BY <1>2, <2>1, <2>2 DEF DeadlineInv, SleepMatchesDeadline, Planned
  <2>3. CASE Fail(st)
    BY <1>2, <2>1, <2>3, DeadlineFail
  <2> QED BY <1>3, <2>1, <2>2, <2>3 DEF ChooseMode, PrepareNetwork, FetchPayload, Goto, AfterFetch
<1>4. CASE Render \/ StoreImage
  <2>1. flow = "normal" /\ pc \in {"render", "cache"} /\ ~saved
        /\ UNCHANGED <<before, dev>>
    BY <1>4 DEF Render, StoreImage, TypeInv, TypeOK, Control, CallsOf, DeadlineInv
  <2>2. CASE Render /\ saved' = saved /\ Goto("cache")
    BY <1>2, <2>1, <2>2 DEF Goto, DeadlineInv, SleepMatchesDeadline, Planned
  <2>3. CASE StoreImage /\ saved' = saved /\ st' = Succeeds(st) /\ Goto("plan")
    <3>1. st'.next = payload'.interval
      BY <2>3 DEF StoreImage, Succeeds, TypeInv, TypeOK, State
    <3> QED BY <1>2, <2>1, <2>3, <3>1 DEF Goto, DeadlineInv, SleepMatchesDeadline
  <2>4. CASE Fail(st)
    BY <1>2, <2>1, <2>4, DeadlineFail
  <2> QED BY <1>4, <2>2, <2>3, <2>4 DEF Render, StoreImage
<1>5. CASE LocalScreen
  <2>1. flow \in {"battery", "critical", "recovery"} /\ pc = "screen" /\ ~saved
        /\ UNCHANGED <<before, dev>> /\ st \in State
    BY <1>5 DEF LocalScreen, TypeInv, TypeOK, Control, CallsOf, DeadlineInv
  <2>2. ASSUME NEW s \in State, s.failures = st.failures, s.next = st.next, AfterScreen(s)
        PROVE  DeadlineInv'
    <3>1. flow' = flow /\ saved' = FALSE /\ dev' = "awake" /\ pc' # "screen"
      BY <1>2, <2>1, <2>2 DEF AfterScreen, Goto
    <3>2. flow = "battery" => st'.next = CheckInterval
      BY <2>2 DEF AfterScreen, Deadline, State
    <3>3. flow = "recovery" => st' = s
      BY <2>2 DEF AfterScreen, Deadline
    <3> QED BY <2>1, <2>2, <3>1, <3>2, <3>3 DEF DeadlineInv, SleepMatchesDeadline, Bump
  <2>3. ShownLocally(st) \in State
    BY <2>1, ShownLocallyType
  <2>4. ShownLocally(st).failures = st.failures /\ ShownLocally(st).next = st.next
    BY <2>1 DEF ShownLocally, State
  <2>5. CASE Fail(st)
    BY <1>2, <2>1, <2>5, DeadlineFail
  <2> QED BY <1>5, <2>1, <2>2, <2>3, <2>4, <2>5 DEF LocalScreen
<1>6. CASE Plan
  <2>1. pc = "plan" /\ ~saved /\ UNCHANGED <<disk, before, payload, dev>>
    BY <1>6 DEF Plan, DeadlineInv
  <2>2. CASE flow' = flow /\ pc' \in {"log", "save"} /\ UNCHANGED <<st, saved>>
    BY <1>2, <2>1, <2>2, DeadlineFrame
  <2>3. CASE Fail(st)
    BY <1>2, <2>1, <2>3, DeadlineFail
  <2> QED BY <1>6, <2>2, <2>3, Zenon DEF Plan, Goto
<1>7. CASE SaveState
  <2>1. pc = "save" /\ UNCHANGED <<before, payload, dev>>
    BY <1>7 DEF SaveState
  <2>2. CASE /\ flow' = flow /\ UNCHANGED st
             /\ pc' = IF flow = "normal" THEN "cleanup" ELSE "log"
             /\ (saved' => disk' = st)
    BY <1>2, <2>1, <2>2 DEF DeadlineInv, SleepMatchesDeadline, Planned, Bump
  <2>3. CASE Fail(st)
    BY <1>2, <2>1, <2>3, DeadlineFail
  <2> QED BY <1>7, <2>2, <2>3 DEF SaveState, Committed, Goto, BestEffort
<1>8. CASE AppendLog
  <2>1. pc = "log" /\ UNCHANGED <<disk, before, payload, dev>>
    BY <1>8 DEF AppendLog
  <2>2. CASE /\ Goto(CASE flow = "normal" -> "save" [] flow = "critical" -> "shutdown"
                       [] OTHER -> "sleep")
             /\ UNCHANGED <<st, saved>>
    <3>1. saved => flow # "normal"
      BY <2>1 DEF DeadlineInv
    <3>2. flow' = flow /\ pc' = IF flow = "normal" THEN "save"
                                ELSE IF flow = "critical" THEN "shutdown" ELSE "sleep"
      BY <2>2 DEF Goto
    <3> QED BY <1>2, <2>1, <2>2, <3>1, <3>2, DeadlineFrame DEF Planned
  <2>3. CASE Fail(st)
    BY <1>2, <2>1, <2>3, DeadlineFail
  <2> QED BY <1>8, <2>2, <2>3 DEF AppendLog
<1>9. CASE CleanupNetwork
  <2>1. /\ pc = "cleanup" /\ flow' = flow /\ UNCHANGED <<disk, st, before, payload, dev, saved>>
        /\ pc' = IF flow = "normal" THEN "sleep" ELSE "screen"
        /\ flow # "battery"
    BY <1>9 DEF CleanupNetwork, Goto, TypeInv, TypeOK, Control, CallsOf
  <2>2. saved => flow = "normal"
    BY <2>1 DEF DeadlineInv
  <2> QED BY <1>2, <2>1, <2>2, DeadlineFrame DEF Planned
<1>10. CASE Suspend
  <2>1. pc = "sleep" /\ UNCHANGED <<disk, rtc>>
    BY <1>10 DEF Suspend
  <2>2. CASE Exit /\ saved' = FALSE
    BY <2>2, DeadlineExit
  <2>3. CASE Exit /\ suspend /\ saved' = saved
    <3>1. saved => disk = st /\ rtc = PlanInterval
      BY <2>1, <2>3 DEF DeadlineInv, AlarmInv, Planned
    <3>2. flow \in {"normal", "battery", "recovery"}
      BY <2>1 DEF TypeInv, TypeOK, Control, CallsOf
    <3>3. st.next = PlanInterval
      BY <2>1, <3>2 DEF DeadlineInv, PlanInterval, Planned
    <3>4. saved' => rtc' = disk'.next
      BY <2>1, <2>3, <3>1, <3>3
    <3>5. pc' = "idle" /\ flow' = "none"
      BY <2>3 DEF Exit
    <3> QED BY <3>4, <3>5 DEF DeadlineInv, SleepMatchesDeadline
  <2>4. CASE Fail(st) /\ UNCHANGED <<before, dev>>
    BY <1>2, <2>1, <2>4, DeadlineFail
  <2> QED BY <1>10, <2>2, <2>3, <2>4 DEF Suspend
<1>11. CASE Shutdown \/ Kill \/ Reboot
  BY <1>11, DeadlineExit DEF Shutdown, Kill, Reboot
<1>12. CASE Wake
  <2>1. pc = "idle" /\ flow = "none"
    BY <1>12 DEF Wake, TypeInv, TypeOK, Control, CallsOf
  <2> QED BY <1>12, <2>1 DEF Wake, DeadlineInv, SleepMatchesDeadline
<1>13. CASE GraceEnds \/ UNCHANGED vars
  BY <1>13 DEF GraceEnds, vars, DeadlineInv, SleepMatchesDeadline, Bump
<1> QED
  BY <1>1, <1>3, <1>4, <1>5, <1>6, <1>7, <1>8, <1>9, <1>10, <1>11, <1>12, <1>13
     DEF Next, Step

-----------------------------------------------------------------------------
(* The radio. *)

LEMMA RadioInit == Init => RadioInv
BY DEF Init, RadioInv

\* An error with a cleanup owed runs the cleanup first.
LEMMA RadioFail ==
  ASSUME RadioInv, Fail(st), UNCHANGED <<radio, netPending>>
  PROVE  RadioInv'
BY DEF RadioInv, Fail, RecoveryEntry

LEMMA RadioStep == TypeInv /\ RadioInv /\ [Next]_vars => RadioInv'
<1> SUFFICES ASSUME TypeInv, RadioInv, [Next]_vars PROVE RadioInv'
  OBVIOUS
<1>1. ASSUME NEW reading \in Samples, Start(reading) PROVE RadioInv'
  <2>1. flow = "none" /\ UNCHANGED <<radio, netPending>> /\ pc' # "sleep"
    BY <1>1 DEF Start, TypeInv, TypeOK, Control, CallsOf
  <2> QED BY <2>1 DEF RadioInv
<1>2. CASE ChooseMode
  BY <1>2, RadioFail DEF ChooseMode, Goto, RadioInv
<1>3. CASE PrepareNetwork
  <2>1. pc = "network" /\ flow = "normal" /\ ~netPending /\ radio # "up"
    BY <1>3 DEF PrepareNetwork, RadioInv, TypeInv, TypeOK, Control, CallsOf
  <2> QED
    BY <1>3, <2>1
       DEF PrepareNetwork, Goto, Fail, RecoveryEntry, BringUpLeaves, Lowered, RadioInv
<1>4. CASE FetchPayload
  BY <1>4, RadioFail DEF FetchPayload, Goto, AfterFetch, RadioInv
<1>5. CASE Render
  BY <1>5, RadioFail DEF Render, Goto, RadioInv
<1>6. CASE StoreImage
  BY <1>6, RadioFail DEF StoreImage, Goto, RadioInv
<1>7. CASE LocalScreen
  <2>1. pc = "screen" /\ flow # "normal" /\ UNCHANGED <<radio, netPending>>
    BY <1>7 DEF LocalScreen, TypeInv, TypeOK, Control, CallsOf
  <2>2. flow' # "normal"
    BY <1>7, <2>1 DEF LocalScreen, AfterScreen, Goto, Fail
  <2>3. ~netPending
    BY <2>1 DEF RadioInv
  <2> QED BY <2>1, <2>2, <2>3 DEF RadioInv
<1>8. CASE Plan
  <2>1. pc = "plan" /\ UNCHANGED <<radio, netPending>>
    BY <1>8 DEF Plan
  <2>2. CASE flow' = flow /\ pc' = IF flow = "normal" THEN "log" ELSE "save"
    BY <2>1, <2>2 DEF RadioInv
  <2>3. CASE BestEffort /\ flow' = flow /\ pc' = "save"
    BY <2>1, <2>3 DEF BestEffort, RadioInv
  <2> QED BY <1>8, <2>1, <2>2, <2>3, RadioFail, Zenon DEF Plan, Goto
<1>9. CASE SaveState
  BY <1>9, RadioFail DEF SaveState, Goto, BestEffort, RadioInv
<1>10. CASE AppendLog
  BY <1>10, RadioFail DEF AppendLog, Goto, RadioInv
<1>11. CASE CleanupNetwork
  BY <1>11 DEF CleanupNetwork, Lowered, RadioInv
<1>12. CASE Suspend
  <2>1. pc = "sleep" /\ ~netPending /\ radio # "up" /\ radio' = radio
    BY <1>12 DEF Suspend, RadioInv
  <2>2. netPending' = FALSE /\ pc' # "sleep"
    BY <1>12, <2>1 DEF Suspend, Exit, Fail, RecoveryEntry
  <2> QED BY <2>1, <2>2 DEF RadioInv
<1>13. CASE Shutdown
  <2>1. pc = "shutdown" /\ radio' = radio /\ netPending' = FALSE /\ pc' # "sleep"
    BY <1>13 DEF Shutdown, Exit
  <2> QED BY <2>1 DEF RadioInv
<1>14. CASE Kill \/ Reboot
  BY <1>14 DEF Kill, Reboot, Exit, RadioInv
<1>15. CASE Wake \/ GraceEnds \/ UNCHANGED vars
  BY <1>15 DEF Wake, GraceEnds, vars, RadioInv
<1> QED
  BY <1>1, <1>2, <1>3, <1>4, <1>5, <1>6, <1>7, <1>8, <1>9, <1>10, <1>11, <1>12,
     <1>13, <1>14, <1>15 DEF Next, Step

-----------------------------------------------------------------------------
(* The record. *)

LEMMA RecordInit == Init => RecordInv
BY DEF Init, RecordInv

\* Nothing is said of what recovery appends.
LEMMA RecordReset ==
  ASSUME Fail(st) \/ Exit PROVE RecordInv'
BY DEF Fail, Exit, RecordInv

LEMMA RecordStep == TypeInv /\ RecordInv /\ [Next]_vars => RecordInv'
<1> SUFFICES ASSUME TypeInv, RecordInv, [Next]_vars PROVE RecordInv'
  OBVIOUS
<1> USE DEF history, inputs
<1>0. rendered \in BOOLEAN /\ drew \in BOOLEAN
  BY DEF TypeInv, TypeOK
<1>1. ASSUME NEW reading \in Samples, Start(reading) PROVE RecordInv'
  <2>1. flow = "none" /\ UNCHANGED <<rendered, drew>> /\ pc' \in {"mode", "screen"}
        /\ flow' \in {"normal", "battery", "critical"}
    BY <1>1 DEF Start, TypeInv, TypeOK, Control, CallsOf
  <2>2. ~drew /\ ~rendered
    BY <2>1 DEF RecordInv
  <2>3. rendered' = FALSE /\ drew' = FALSE
    BY <1>0, <2>1, <2>2
  <2> QED BY <2>1, <2>3 DEF RecordInv, Decided
<1>2. CASE ChooseMode
  BY <1>2, RecordReset DEF ChooseMode, Goto, RecordInv, Decided
<1>3. CASE PrepareNetwork
  BY <1>3, RecordReset DEF PrepareNetwork, Goto, RecordInv, Decided
<1>4. CASE FetchPayload
  <2>1. pc = "fetch" /\ flow = "normal" /\ UNCHANGED drew
    BY <1>4 DEF FetchPayload, TypeInv, TypeOK, Control, CallsOf
  <2>2. ASSUME NEW image, payload'.changed = Changed(image),
               Goto(AfterFetch(Changed(image)))
        PROVE  RecordInv'
    <3>1. drew' = FALSE /\ flow' = "normal"
      BY <1>0, <2>1, <2>2 DEF Goto, RecordInv
    <3>2. CASE Changed(image)
      BY <2>2, <3>1, <3>2 DEF Goto, AfterFetch, RecordInv, Decided
    <3>3. CASE Changed(image) = FALSE
      BY <2>2, <3>1, <3>3 DEF Goto, AfterFetch, RecordInv, Decided
    <3> QED BY <3>2, <3>3 DEF Changed, NeedsRedraw
  <2> QED BY <1>4, <2>2, RecordReset DEF FetchPayload
<1>5. CASE Render
  <2>1. pc = "render" /\ flow = "normal" /\ payload.changed
    BY <1>5 DEF Render, TypeInv, TypeOK, Control, CallsOf, RecordInv
  <2> QED BY <1>5, <2>1, RecordReset DEF Render, Goto, RecordInv
<1>6. CASE StoreImage \/ SaveState \/ AppendLog \/ CleanupNetwork
  BY <1>6, RecordReset
     DEF StoreImage, SaveState, AppendLog, CleanupNetwork, Goto, RecordInv, Decided,
         TypeInv, TypeOK, Control, CallsOf
<1>7. CASE LocalScreen
  <2>1. flow \in {"battery", "critical", "recovery"}
    BY <1>7 DEF LocalScreen, TypeInv, TypeOK, Control, CallsOf
  <2>2. flow # "recovery" => ~drew /\ ~rendered
    BY <1>7, <2>1 DEF LocalScreen, RecordInv
  <2>3. CASE flow' = flow /\ pc' # "screen" /\ rendered' = rendered /\ drew' = drew
    BY <2>1, <2>2, <2>3 DEF RecordInv
  <2>4. CASE flow' = flow /\ pc' # "screen" /\ rendered' = TRUE /\ drew' = TRUE
    BY <2>1, <2>4 DEF RecordInv
  <2>5. CASE BestEffort /\ flow' = flow /\ pc' # "screen" /\ rendered' = rendered
             /\ drew' = TRUE /\ panel' = "torn"
    BY <2>1, <2>5 DEF RecordInv, BestEffort
  <2>6. ASSUME NEW s, AfterScreen(s) PROVE flow' = flow /\ pc' # "screen"
    BY <2>6 DEF AfterScreen, Goto
  <2>7. CASE AfterScreen(st) /\ UNCHANGED <<panel, rendered, history>>
    BY <2>3, <2>6, <2>7
  <2>8. CASE drew' = TRUE /\ rendered' = TRUE /\ AfterScreen(ShownLocally(st))
    BY <2>4, <2>6, <2>8
  <2>9. CASE DrawFails(TRUE) /\ BestEffort /\ AfterScreen(st) /\ UNCHANGED rendered
    BY <2>3, <2>5, <2>6, <2>9 DEF DrawFails
  <2> QED BY <1>7, <2>7, <2>8, <2>9, RecordReset, Zenon DEF LocalScreen
<1>8. CASE Plan
  <2>1. pc = "plan" /\ UNCHANGED <<payload, drew, panel>> /\ flow # "none"
    BY <1>8 DEF Plan, TypeInv, TypeOK, Control, CallsOf
  <2>2. flow' = flow /\ pc' \in {"log", "save"} /\ rendered' = rendered => RecordInv'
    BY <2>1 DEF RecordInv, Decided
  <2> QED BY <1>8, <2>2, RecordReset, Zenon DEF Plan, Goto
<1>9. CASE Suspend \/ Shutdown \/ Kill \/ Reboot
  BY <1>9, RecordReset DEF Suspend, Shutdown, Kill, Reboot
<1>10. CASE Wake \/ GraceEnds \/ UNCHANGED vars
  BY <1>10 DEF Wake, GraceEnds, vars, RecordInv
<1> QED
  BY <1>1, <1>2, <1>3, <1>4, <1>5, <1>6, <1>7, <1>8, <1>9, <1>10 DEF Next, Step

-----------------------------------------------------------------------------
(* The image. *)

LEMMA ImageInit == Init => ImageInv
BY PayloadAssumption DEF Init, ImageInv, FreshState

\* A state that names no other image, over a cache that is kept or damaged.
LEMMA ImageFrame ==
  ASSUME ImageInv, cache' \in {cache, "torn"},
         st'.hash \in {st.hash, disk.hash},
         disk'.hash \in {disk.hash, st.hash},
         flow' = "normal" /\ pc' \in Decided
           => flow = "normal" /\ pc \in Decided /\ payload' = payload
  PROVE  ImageInv'
BY PayloadAssumption DEF ImageInv

LEMMA ImageStep == TypeInv /\ ImageInv /\ [Next]_vars => ImageInv'
<1> SUFFICES ASSUME TypeInv, ImageInv, [Next]_vars PROVE ImageInv'
  OBVIOUS
<1> USE DEF files, inputs
<1>1. st \in State /\ disk \in State
  BY DEF TypeInv, TypeOK
<1>2. CountFailure(st).hash = st.hash
  BY <1>1 DEF CountFailure, State
<1>3. ASSUME Fail(st), disk'.hash \in {disk.hash, st.hash}, cache' \in {cache, "torn"}
      PROVE  ImageInv'
  BY <1>2, <1>3, ImageFrame DEF Fail
<1>4. ASSUME Exit, UNCHANGED files PROVE ImageInv'
  BY <1>4, ImageFrame DEF Exit
<1>5. ASSUME NEW reading \in Samples, Start(reading) PROVE ImageInv'
  <2>1. st' = [disk EXCEPT !.low = decision'.low] /\ UNCHANGED files
        /\ pc' \in {"mode", "screen"}
    BY <1>5 DEF Start
  <2>2. st'.hash = disk.hash
    BY <1>1, <2>1 DEF State
  <2> QED BY <2>1, <2>2, ImageFrame DEF Decided
<1>6. CASE ChooseMode \/ PrepareNetwork
  BY <1>3, <1>6, ImageFrame DEF ChooseMode, PrepareNetwork, Goto, Decided
<1>7. CASE FetchPayload
  <2>1. pc = "fetch" /\ UNCHANGED files
    BY <1>7 DEF FetchPayload
  <2>2. ASSUME NEW image, payload'.image = image, st' = st,
               Goto(AfterFetch(Changed(image)))
        PROVE  ImageInv'
    <3>1. CASE Changed(image)
      BY <2>1, <2>2, <3>1, ImageFrame DEF Goto, AfterFetch, Decided
    <3>2. CASE ~Changed(image)
      BY <2>1, <2>2, <3>2 DEF Changed, ImageInv
    <3> QED BY <3>1, <3>2
  <2> QED BY <1>3, <1>7, <2>1, <2>2 DEF FetchPayload
<1>8. CASE Render
  <2>1. UNCHANGED <<files, payload>> /\ pc = "render"
    BY <1>8 DEF Render
  <2>2. CASE payload.image \notin Undecodable /\ st' = ShowsImage(st) /\ Goto("cache")
    <3>1. st'.hash = payload.image
      BY <1>1, <2>2 DEF ShowsImage, State
    <3> QED BY <2>1, <2>2, <3>1 DEF ImageInv
  <2> QED BY <1>3, <1>8, <2>1, <2>2 DEF Render
<1>9. CASE StoreImage
  <2>1. pc = "cache" /\ flow = "normal" /\ UNCHANGED <<disk, payload>>
    BY <1>9 DEF StoreImage, TypeInv, TypeOK, Control, CallsOf
  <2>2. CASE cache' = payload.image /\ st' = Succeeds(st)
    <3>1. st'.hash = st.hash
      BY <1>1, <2>2 DEF Succeeds, State
    <3> QED BY <2>1, <2>2, <3>1 DEF ImageInv, Decided
  <2> QED BY <1>3, <1>9, <2>1, <2>2 DEF StoreImage
<1>10. CASE LocalScreen
  <2>1. UNCHANGED files /\ flow # "normal"
    BY <1>10 DEF LocalScreen, TypeInv, TypeOK, Control, CallsOf
  <2>2. ASSUME NEW s \in State, s.hash = st.hash, AfterScreen(s) PROVE ImageInv'
    <3>1. st'.hash = st.hash /\ flow' = flow
      BY <2>2 DEF AfterScreen, Deadline, Goto, State
    <3> QED BY <2>1, <3>1, ImageFrame
  <2>3. ShownLocally(st) \in State /\ ShownLocally(st).hash = st.hash
    BY <1>1, <1>10, ShownLocallyType DEF LocalScreen, ShownLocally, State
  <2> QED BY <1>1, <1>3, <1>10, <2>1, <2>2, <2>3 DEF LocalScreen
<1>11. CASE Plan
  <2>1. pc = "plan" /\ UNCHANGED <<files, payload>>
    BY <1>11 DEF Plan
  <2>2. flow' = flow /\ st' = st => ImageInv'
    BY <2>1, ImageFrame DEF Decided
  <2> QED BY <1>3, <1>11, <2>1, <2>2, Zenon DEF Plan, Goto
<1>12. CASE SaveState
  <2>1. pc = "save" /\ UNCHANGED <<cache, payload>> /\ disk' \in {disk, st}
    BY <1>12 DEF SaveState, Committed
  <2>2. flow' = flow /\ st' = st => ImageInv'
    BY <2>1, ImageFrame DEF Decided
  <2> QED BY <1>3, <1>12, <2>1, <2>2 DEF SaveState, Goto
<1>13. CASE AppendLog \/ CleanupNetwork
  <2>1. flow' = flow /\ UNCHANGED st => ImageInv'
    BY <1>13, ImageFrame DEF AppendLog, CleanupNetwork, Decided
  <2> QED BY <1>3, <1>13, <2>1 DEF AppendLog, CleanupNetwork, Goto
<1>14. CASE Suspend \/ Shutdown \/ Kill \/ Reboot
  BY <1>3, <1>4, <1>14 DEF Suspend, Shutdown, Kill, Reboot
<1>15. CASE Wake \/ GraceEnds \/ UNCHANGED vars
  BY <1>15, ImageFrame DEF Wake, GraceEnds, vars
<1> QED
  BY <1>5, <1>6, <1>7, <1>8, <1>9, <1>10, <1>11, <1>12, <1>13, <1>14, <1>15
     DEF Next, Step
-----------------------------------------------------------------------------
(* The properties. *)

DeviceInv == AlarmInv /\ DeadlineInv /\ RadioInv /\ RecordInv /\ ImageInv

\* The five invariants hold together: only the deadline leans on another one,
\* the alarm, at the moment of the suspend.
THEOREM DeviceInvariant == Spec => [](TypeInv /\ DeviceInv)
<1>1. Init => DeviceInv
  BY AlarmInit, DeadlineInit, RadioInit, RecordInit, ImageInit DEF DeviceInv
<1>2. TypeInv /\ DeviceInv /\ [Next]_vars => DeviceInv'
  BY AlarmStep, DeadlineStep, RadioStep, RecordStep, ImageStep DEF DeviceInv
<1> QED BY <1>1, <1>2, TypeInvariant, PTL DEF Spec

\* A device that sleeps after a saved cycle wakes up when the state file says
\* that the next attempt is due: Plan and the deadline of each path use the
\* same interval, and no call in between changes either.
THEOREM AlarmMatchesDeadline == Spec => []SleepMatchesDeadline
<1>1. DeviceInv => SleepMatchesDeadline
  BY DEF DeviceInv, DeadlineInv
<1> QED BY <1>1, DeviceInvariant, PTL

\* A radio that a cycle brought up is on only inside the network window of Run
\* or at its deferred cleanup, on every error path out of the window; what may
\* be on elsewhere is a radio of a BringUp or of a lowering that did not finish,
\* and of the two only the latter behind a cycle that completes.
THEOREM RadioOnlyInWindow == Spec => []RadioQuiet
<1>1. TypeInv /\ DeviceInv => RadioQuiet
  BY DEF TypeInv, Control, CallsOf, TypeOK, DeviceInv, RadioInv, RadioQuiet
<1> QED BY <1>1, DeviceInvariant, PTL

\* When every BringUp that fails has left the radio as it was and every lowering
\* works, with no cycle killed in between, the device sleeps with the radio off:
\* the faults that RadioOffWhenAsleep is refuted with are the only ones.
THEOREM SleepsRadioOff ==
  ASSUME Faults \cap {"raise", "lower", "kill"} = {}
  PROVE  Spec => []RadioOffWhenAsleep
<1> DEFINE Inv == radio \in {"down", "up"}
<1>1. Init => Inv
  BY DEF Init
<1>2. Inv /\ [Next]_vars => Inv'
  <2> SUFFICES ASSUME Inv, [Next]_vars PROVE Inv'
    OBVIOUS
  <2>1. CASE PrepareNetwork
    BY <2>1 DEF PrepareNetwork, BringUpLeaves, Lowered
  <2>2. CASE CleanupNetwork
    BY <2>2 DEF CleanupNetwork, Lowered
  <2>3. CASE Reboot
    BY <2>3 DEF Reboot
  <2>4. CASE \/ \E reading \in Samples : Start(reading)
             \/ ChooseMode \/ FetchPayload \/ Render \/ StoreImage \/ LocalScreen
             \/ Plan \/ SaveState \/ AppendLog \/ Suspend \/ Shutdown \/ Wake
             \/ GraceEnds \/ UNCHANGED vars
    <3>1. UNCHANGED radio
      BY <2>4 DEF Start, ChooseMode, FetchPayload, Render, StoreImage, LocalScreen,
                  Plan, SaveState, AppendLog, Suspend, Shutdown, Wake, GraceEnds, vars
    <3> QED BY <3>1
  <2> QED BY <2>1, <2>2, <2>3, <2>4 DEF Next, Step, Kill
<1>3. TypeInv /\ DeviceInv /\ Inv => RadioOffWhenAsleep
  <2> SUFFICES ASSUME TypeInv, DeviceInv, Inv, dev = "asleep" PROVE radio = "down"
    BY DEF RadioOffWhenAsleep
  <2>1. RadioQuiet
    BY DEF TypeInv, Control, CallsOf, TypeOK, DeviceInv, RadioInv, RadioQuiet
  <2> QED BY <2>1 DEF RadioQuiet
<1> QED BY <1>1, <1>2, <1>3, DeviceInvariant, PTL DEF Spec

\* What a recovered cycle leaves in the state file is the count of before the
\* cycle plus one and its deadline, also when Run had reset the count already.
THEOREM FailureIsCounted == Spec => []BackoffKept
<1>1. DeviceInv => BackoffKept
  BY DEF DeviceInv, DeadlineInv, BackoffKept
<1> QED BY <1>1, DeviceInvariant, PTL

\* Outside recovery a record that says the panel was changed is right, and one
\* that denies it is wrong only on the critical path, of a torn drawing.
THEOREM RecordHonest == Spec => []EntryHonest
<1>1. TypeInv /\ DeviceInv => EntryHonest
  BY DEF TypeInv, Control, CallsOf, TypeOK, DeviceInv, RecordInv, Decided,
         EntryHonest, EntryChanged
<1> QED BY <1>1, DeviceInvariant, PTL

\* An image that Prepare rejects is never stored: StoreImage comes after the
\* rendering, and skips it only for an image that was rendered before.
THEOREM CacheRenderable == Spec => []CacheUsable
<1>1. DeviceInv => CacheUsable
  BY DEF DeviceInv, ImageInv, CacheUsable
<1> QED BY <1>1, DeviceInvariant, PTL

\* Only the last call of a path that planned a suspend puts the device to
\* sleep, and the alarm is then armed for that path's interval.
THEOREM WakesUp == Spec => WakeBeforeSleep
<1> DEFINE Woken == dev = "awake" /\ dev' = "asleep" => rtc > 0 /\ rtc = PlanInterval
<1>1. TypeInv /\ DeviceInv /\ [Next]_vars => Woken
  <2> SUFFICES ASSUME TypeInv, DeviceInv, [Next]_vars, dev = "awake", dev' = "asleep"
               PROVE  rtc > 0 /\ rtc = PlanInterval
    BY DEF Woken
  <2>1. Suspend
    BY DEF Next, Step, vars, machine, Start, ChooseMode, PrepareNetwork, FetchPayload,
           Render, StoreImage, LocalScreen, Plan, SaveState, AppendLog, CleanupNetwork,
           Shutdown, Wake, GraceEnds, Kill, Reboot
  <2>2. pc = "sleep" /\ suspend
    BY <2>1 DEF Suspend
  <2> QED BY <2>2 DEF DeviceInv, AlarmInv, Planned
<1> QED BY <1>1, DeviceInvariant, PTL DEF Spec, WakeBeforeSleep

\* From the decision to power off until the process ends no alarm is armed, no
\* timer is started and the device is not put to sleep.
THEOREM CriticalOnlyPowersOff == Spec => CriticalNeverPlans
<1> DEFINE Kept == decision.shutdown => rtc' = rtc /\ (timer' => timer) /\ dev' # "asleep"
<1>1. TypeInv /\ [Next]_vars => Kept
  <2> SUFFICES ASSUME TypeInv, [Next]_vars, decision.shutdown
               PROVE  rtc' = rtc /\ (timer' => timer) /\ dev' # "asleep"
    BY DEF Kept
  <2>1. flow = "critical" /\ pc \in {"screen", "save", "log", "shutdown"} /\ dev = "awake"
    BY DEF TypeInv, TypeOK, Control, CallsOf
  <2>2. ~(\E reading \in Samples : Start(reading)) /\ ~Plan /\ ~Suspend /\ ~Wake
    BY <2>1 DEF Start, Plan, Suspend, Wake
  <2>3. CASE \/ ChooseMode \/ PrepareNetwork \/ FetchPayload \/ Render \/ StoreImage
             \/ LocalScreen \/ SaveState \/ AppendLog \/ CleanupNetwork
             \/ GraceEnds \/ Kill \/ UNCHANGED vars
    <3>1. UNCHANGED <<rtc, timer, dev>>
      BY <2>3
         DEF vars, alarms, machine, ChooseMode, PrepareNetwork, FetchPayload, Render,
             StoreImage, LocalScreen, SaveState, AppendLog, CleanupNetwork, GraceEnds, Kill
    <3> QED BY <2>1, <3>1
  <2>4. CASE Shutdown
    <3>1. UNCHANGED <<rtc, timer>> /\ dev' \in {"off", dev}
      BY <2>4 DEF Shutdown, alarms
    <3> QED BY <2>1, <3>1
  <2>5. CASE Reboot
    <3>1. rtc' = rtc /\ timer' = FALSE /\ dev' = "awake"
      BY <2>5 DEF Reboot
    <3> QED BY <3>1
  <2> QED BY <2>2, <2>3, <2>4, <2>5 DEF Next, Step
<1> QED BY <1>1, TypeInvariant, PTL DEF Spec, CriticalNeverPlans

-----------------------------------------------------------------------------
(* The screen: what the state file, the running cycle and the panel say    *)
(* about each other.                                                       *)

\* A state that claims no local screen in some boot names a server image.
NamesImage(s) == s.local = "none" /\ s.boot # "none" => s.hash \in Images

(***************************************************************************)
(* ScreenHonest alone is not inductive.  A new cycle starts from the file, *)
(* so no drawing may be pending between cycles; and a partial refresh goes *)
(* over an image only if a state without a local screen has an image.      *)
(***************************************************************************)
ScreenInv ==
  /\ ScreenHonest
  /\ SuccessShowsImage
  /\ PartialOverImage
  /\ pc = "idle" => draws # "pending"
  /\ NamesImage(disk) /\ NamesImage(st)

SameClaim(s, t) == s.boot = t.boot /\ s.local = t.local /\ s.hash = t.hash

LEMMA CountingKeepsClaim ==
  ASSUME NEW s \in State
  PROVE  SameClaim(CountFailure(s), s) /\ SameClaim(Succeeds(s), s)
         /\ SameClaim(Deadline(s), s)
<1>1. SameClaim(CountFailure(s), s)
  BY DEF CountFailure, SameClaim, State
<1>2. SameClaim(Succeeds(s), s)
  BY DEF Succeeds, SameClaim, State
<1>3. SameClaim(Deadline(s), s)
  BY DEF Deadline, SameClaim, State
<1> QED BY <1>1, <1>2, <1>3

LEMMA ScreenInit == Init => ScreenInv
<1> SUFFICES ASSUME Init PROVE ScreenInv
  OBVIOUS
<1>1. disk.boot = "none" /\ st.boot = "none" /\ boot # "none"
  BY DeviceAssumption DEF Init, FreshState
<1>2. pc = "idle" /\ flow = "none" /\ draws = "recorded"
  BY DEF Init
<1> QED
  BY <1>1, <1>2
     DEF ScreenInv, ScreenHonest, SuccessShowsImage, PartialOverImage, NamesImage

\* A step that neither draws nor forgets: only a save moves the record.
LEMMA ScreenFrame ==
  ASSUME TypeInv, ScreenInv, pc # "idle", pc' # "idle",
         SameClaim(st', st), panel' = panel, boot' = boot, payload' = payload,
         \/ disk' = disk /\ draws' = draws
         \/ disk' = st /\ draws' = IF draws = "pending" THEN "recorded" ELSE draws,
         flow' = "normal" /\ pc' \in Decided
           => flow = "normal" /\ pc \in Decided,
         flow' = "normal" /\ pc' = "render" => flow = "normal" /\ pc = "render"
  PROVE  ScreenInv'
<1>1. draws' # "lost" => draws # "lost"
  OBVIOUS
<1>2. Claim(st') = Claim(st)
  BY DEF Claim, SameClaim
<1>3. draws' # "lost" /\ st'.boot = boot' => panel' = Claim(st')
  BY <1>1, <1>2 DEF ScreenInv, ScreenHonest, SameClaim
<1>4. draws' = "recorded" /\ disk'.boot = boot' => panel' = Claim(disk')
  BY DEF ScreenInv, ScreenHonest
<1>5. ScreenHonest'
  BY <1>3, <1>4 DEF ScreenHonest, Claim
<1>6. SuccessShowsImage'
  BY <1>1 DEF ScreenInv, SuccessShowsImage, Decided
<1>7. PartialOverImage'
  BY <1>1 DEF ScreenInv, PartialOverImage
<1>8. NamesImage(disk') /\ NamesImage(st')
  BY DEF ScreenInv, NamesImage, SameClaim
<1> QED BY <1>5, <1>6, <1>7, <1>8 DEF ScreenInv, NamesImage

\* Entering recovery, with the panel as it was or with the drawing lost.
LEMMA FailScreen ==
  ASSUME TypeInv, ScreenInv, pc # "idle", Fail(st), boot' = boot,
         \/ /\ panel' = panel
            /\ \/ disk' = disk /\ draws' = draws
               \/ disk' = st /\ draws' = IF draws = "pending" THEN "recorded" ELSE draws
         \/ disk' = disk /\ draws' = "lost"
  PROVE  ScreenInv'
<1>1. flow' = "recovery" /\ pc' # "idle" /\ st' = CountFailure(st) /\ st \in State
  BY DEF Fail, RecoveryEntry, TypeInv, TypeOK
<1>2. SameClaim(st', st)
  BY <1>1, CountingKeepsClaim
<1>3. NamesImage(disk') /\ NamesImage(st')
  BY <1>2 DEF ScreenInv, NamesImage, SameClaim
<1>4. Claim(st') = Claim(st)
  BY <1>2 DEF Claim, SameClaim
<1>5. SuccessShowsImage' /\ PartialOverImage'
  BY <1>1 DEF SuccessShowsImage, PartialOverImage
<1>6. CASE disk' = disk /\ draws' = "lost"
  BY <1>1, <1>3, <1>5, <1>6 DEF ScreenInv, ScreenHonest, NamesImage
<1>7. CASE /\ panel' = panel
           /\ \/ disk' = disk /\ draws' = draws
              \/ disk' = st /\ draws' = IF draws = "pending" THEN "recorded" ELSE draws
  <2>1. draws' # "lost" => draws # "lost"
    BY <1>7
  <2>2. draws' # "lost" /\ st'.boot = boot' => panel' = Claim(st')
    BY <1>2, <1>4, <1>7, <2>1 DEF ScreenInv, ScreenHonest, SameClaim
  <2>3. draws' = "recorded" /\ disk'.boot = boot' => panel' = Claim(disk')
    BY <1>7 DEF ScreenInv, ScreenHonest
  <2>4. ScreenHonest'
    BY <2>2, <2>3 DEF ScreenHonest, Claim
  <2> QED BY <1>1, <1>3, <1>5, <2>4 DEF ScreenInv, NamesImage
<1> QED BY <1>6, <1>7

LEMMA StartScreen ==
  ASSUME TypeInv, ScreenInv, NEW reading \in Samples, Start(reading)
  PROVE  ScreenInv'
<1>1. /\ pc = "idle" /\ UNCHANGED <<disk, panel, boot, draws>>
      /\ flow' \in {"critical", "battery", "normal"} /\ pc' \in {"screen", "mode"}
      /\ st' = [disk EXCEPT !.low = decision'.low] /\ disk \in State
  BY DEF Start, TypeInv, TypeOK, files, machine, history
<1>2. SameClaim(st', disk) /\ Claim(st') = Claim(disk)
  BY <1>1 DEF SameClaim, Claim, State
<1>3. draws' # "lost" => draws = "recorded"
  BY <1>1 DEF ScreenInv, TypeInv, TypeOK
<1>4. ScreenHonest'
  BY <1>1, <1>2, <1>3 DEF ScreenInv, ScreenHonest, SameClaim, Claim
<1>5. SuccessShowsImage' /\ PartialOverImage'
  BY <1>1 DEF SuccessShowsImage, PartialOverImage
<1> QED BY <1>1, <1>2, <1>4, <1>5 DEF ScreenInv, NamesImage, SameClaim

LEMMA ChooseModeScreen == TypeInv /\ ScreenInv /\ ChooseMode => ScreenInv'
<1> SUFFICES ASSUME TypeInv, ScreenInv, ChooseMode PROVE ScreenInv'
  OBVIOUS
<1>1. pc = "mode" /\ UNCHANGED <<disk, panel, boot, draws, payload>>
  BY DEF ChooseMode, files, machine, inputs, history
<1>2. CASE pc' = "network" /\ UNCHANGED st
  BY <1>1, <1>2, ScreenFrame DEF SameClaim, Decided
<1>3. CASE Fail(st)
  BY <1>1, <1>3, FailScreen
<1> QED BY <1>2, <1>3 DEF ChooseMode, Goto

LEMMA PrepareNetworkScreen == TypeInv /\ ScreenInv /\ PrepareNetwork => ScreenInv'
<1> SUFFICES ASSUME TypeInv, ScreenInv, PrepareNetwork PROVE ScreenInv'
  OBVIOUS
<1>1. pc = "network" /\ UNCHANGED <<disk, panel, boot, draws, payload>>
  BY DEF PrepareNetwork, files, machine, inputs, history
<1>2. CASE pc' = "fetch" /\ UNCHANGED st
  BY <1>1, <1>2, ScreenFrame DEF SameClaim, Decided
<1>3. CASE Fail(st)
  BY <1>1, <1>3, FailScreen
<1> QED BY <1>2, <1>3 DEF PrepareNetwork, Goto

\* Where the decision is made: an image that needs no drawing is the one that
\* the panel shows, and a partial refresh is chosen only over an image.
LEMMA FetchPayloadScreen == TypeInv /\ ScreenInv /\ FetchPayload => ScreenInv'
<1> SUFFICES ASSUME TypeInv, ScreenInv, FetchPayload PROVE ScreenInv'
  OBVIOUS
<1>1. pc = "fetch" /\ UNCHANGED <<disk, panel, boot, draws>> /\ boot # "none"
  BY DeviceAssumption DEF FetchPayload, files, machine, history, TypeInv, TypeOK
<1>2. ASSUME NEW image \in Images, NEW rate \in Rates,
             payload' = [image    |-> image,
                         interval |-> RefreshInterval(rate),
                         changed  |-> Changed(image),
                         full     |-> FullRefresh(image)],
             Goto(AfterFetch(Changed(image))), UNCHANGED st
      PROVE  ScreenInv'
  <2>1. payload'.image = image /\ payload'.full = FullRefresh(image)
    BY <1>2
  <2>2. pc' = IF Changed(image) THEN "render" ELSE "cache"
    BY <1>2 DEF Goto, AfterFetch
  <2>3. ~NeedsRedraw /\ draws # "lost" => panel = st.hash /\ st.hash \in Images
    BY <1>1 DEF NeedsRedraw, ScreenInv, ScreenHonest, Claim, NamesImage
  <2>4. SuccessShowsImage'
    BY <1>1, <2>1, <2>2, <2>3 DEF SuccessShowsImage, Changed
  <2>5. PartialOverImage'
    BY <1>1, <2>1, <2>2, <2>3 DEF PartialOverImage, FullRefresh
  <2>6. ScreenHonest'
    BY <1>1, <1>2 DEF ScreenInv, ScreenHonest, Claim
  <2> QED BY <1>1, <1>2, <2>2, <2>4, <2>5, <2>6 DEF ScreenInv, NamesImage
<1>3. CASE Fail(st)
  BY <1>1, <1>3, FailScreen
<1> QED BY <1>2, <1>3 DEF FetchPayload

LEMMA RenderScreen == TypeInv /\ ScreenInv /\ Render => ScreenInv'
<1> SUFFICES ASSUME TypeInv, ScreenInv, Render PROVE ScreenInv'
  OBVIOUS
<1>1. pc = "render" /\ flow = "normal" /\ payload.image \in Images /\ st \in State
      /\ UNCHANGED <<disk, boot, payload>>
  BY DEF Render, files, machine, inputs, TypeInv, TypeOK, Control, CallsOf
<1>2. CASE panel' = payload.image /\ st' = ShowsImage(st) /\ draws' = "pending"
           /\ Goto("cache")
  <2>1. st'.hash = payload.image /\ st'.boot = boot /\ st'.local = "none"
    BY <1>1, <1>2 DEF ShowsImage, State
  <2>2. ScreenHonest'
    BY <1>1, <1>2, <2>1 DEF ScreenHonest, Claim
  <2>3. SuccessShowsImage' /\ PartialOverImage'
    BY <1>1, <1>2 DEF SuccessShowsImage, PartialOverImage, Goto
  <2> QED BY <1>1, <1>2, <2>1, <2>2, <2>3 DEF ScreenInv, NamesImage, Goto
<1>3. CASE DrawFails(payload.image \notin Undecodable) /\ Fail(st)
  BY <1>1, <1>3, FailScreen DEF DrawFails, history
<1> QED BY <1>2, <1>3 DEF Render

LEMMA StoreImageScreen == TypeInv /\ ScreenInv /\ StoreImage => ScreenInv'
<1> SUFFICES ASSUME TypeInv, ScreenInv, StoreImage PROVE ScreenInv'
  OBVIOUS
<1>1. pc = "cache" /\ flow = "normal" /\ st \in State
      /\ UNCHANGED <<disk, panel, boot, draws, payload>>
  BY DEF StoreImage, machine, inputs, history, TypeInv, TypeOK, Control, CallsOf
<1>2. CASE st' = Succeeds(st) /\ Goto("plan")
  BY <1>1, <1>2, CountingKeepsClaim, ScreenFrame DEF Goto, Decided
<1>3. CASE Fail(st)
  BY <1>1, <1>3, FailScreen
<1> QED BY <1>2, <1>3 DEF StoreImage

LEMMA LocalScreenScreen == TypeInv /\ ScreenInv /\ LocalScreen => ScreenInv'
<1> SUFFICES ASSUME TypeInv, ScreenInv, LocalScreen PROVE ScreenInv'
  OBVIOUS
<1>1. /\ pc = "screen" /\ flow \in {"battery", "critical", "recovery"}
      /\ st \in State /\ UNCHANGED <<disk, boot, payload>>
  BY DEF LocalScreen, files, machine, inputs, TypeInv, TypeOK, Control, CallsOf
<1>2. ASSUME NEW s \in State, AfterScreen(s)
      PROVE  SameClaim(st', s) /\ pc' \in {"save", "plan"} /\ flow' = flow
  BY <1>2, CountingKeepsClaim DEF AfterScreen, Goto
<1>3. CASE AfterScreen(st) /\ UNCHANGED <<panel, draws>>
  BY <1>1, <1>2, <1>3, ScreenFrame
<1>4. CASE panel' = ScreenName /\ draws' = "pending" /\ AfterScreen(ShownLocally(st))
  <2>1. ScreenName \in Screens /\ ShownLocally(st) \in State
    BY <1>1, ShownLocallyType
  <2>2. ScreenName # "none"
    BY <2>1 DEF Screens
  <2>3. ShownLocally(st).local = ScreenName /\ ShownLocally(st).boot = boot
    BY <1>1 DEF ShownLocally, State
  <2>4. st'.local = ScreenName /\ pc' \in {"save", "plan"} /\ flow' = flow
    BY <1>2, <1>4, <2>1, <2>3 DEF SameClaim
  <2>5. ScreenHonest'
    BY <1>1, <1>4, <2>2, <2>4 DEF ScreenHonest, Claim
  <2>6. SuccessShowsImage' /\ PartialOverImage'
    BY <1>1, <2>4 DEF SuccessShowsImage, PartialOverImage
  <2> QED BY <1>1, <2>2, <2>4, <2>5, <2>6 DEF ScreenInv, NamesImage
<1>5. CASE DrawFails(TRUE) /\ AfterScreen(st)
  <2>1. CASE UNCHANGED <<panel, draws>>
    BY <1>3, <1>5, <2>1
  <2>2. CASE draws' = "lost"
    <3>1. SameClaim(st', st) /\ pc' \in {"save", "plan"} /\ flow' = flow
      BY <1>1, <1>2, <1>5
    <3>2. ScreenHonest' /\ SuccessShowsImage' /\ PartialOverImage'
      BY <1>1, <2>2, <3>1 DEF ScreenHonest, SuccessShowsImage, PartialOverImage
    <3> QED BY <1>1, <3>1, <3>2 DEF ScreenInv, NamesImage, SameClaim
  <2> QED BY <1>5, <2>1, <2>2 DEF DrawFails, history
<1>6. CASE DrawFails(TRUE) /\ Fail(st)
  BY <1>1, <1>6, FailScreen DEF DrawFails, history
<1> QED BY <1>3, <1>4, <1>5, <1>6 DEF LocalScreen, history

LEMMA PlanScreen == TypeInv /\ ScreenInv /\ Plan => ScreenInv'
<1> SUFFICES ASSUME TypeInv, ScreenInv, Plan PROVE ScreenInv'
  OBVIOUS
<1>1. pc = "plan" /\ UNCHANGED <<disk, panel, boot, draws, payload>>
  BY DEF Plan, files, machine, inputs, history
<1>2. CASE pc' \in {"log", "save"} /\ flow' = flow /\ UNCHANGED st
  BY <1>1, <1>2, ScreenFrame DEF SameClaim, Decided
<1>3. CASE Fail(st)
  BY <1>1, <1>3, FailScreen
<1> QED BY <1>2, <1>3, Zenon DEF Plan, Goto

LEMMA SaveStateScreen == TypeInv /\ ScreenInv /\ SaveState => ScreenInv'
<1> SUFFICES ASSUME TypeInv, ScreenInv, SaveState PROVE ScreenInv'
  OBVIOUS
<1>1. pc = "save" /\ UNCHANGED <<panel, boot, payload>>
  BY DEF SaveState, machine, inputs
<1>2. \/ disk' = disk /\ draws' = draws
      \/ disk' = st /\ draws' = IF draws = "pending" THEN "recorded" ELSE draws
  BY DEF SaveState, Committed
<1>3. CASE pc' \in {"cleanup", "log"} /\ flow' = flow /\ UNCHANGED st
  BY <1>1, <1>2, <1>3, ScreenFrame DEF SameClaim, Decided
<1>4. CASE Fail(st)
  BY <1>1, <1>2, <1>4, FailScreen
<1> QED BY <1>3, <1>4 DEF SaveState, Goto

LEMMA AppendLogScreen == TypeInv /\ ScreenInv /\ AppendLog => ScreenInv'
<1> SUFFICES ASSUME TypeInv, ScreenInv, AppendLog PROVE ScreenInv'
  OBVIOUS
<1>1. pc = "log" /\ UNCHANGED <<disk, panel, boot, draws, payload>>
  BY DEF AppendLog, files, machine, inputs, history
<1>2. CASE pc' \in {"save", "shutdown", "sleep"} /\ flow' = flow /\ UNCHANGED st
  BY <1>1, <1>2, ScreenFrame DEF SameClaim, Decided
<1>3. CASE Fail(st)
  BY <1>1, <1>3, FailScreen
<1> QED BY <1>2, <1>3 DEF AppendLog, Goto

LEMMA CleanupNetworkScreen == TypeInv /\ ScreenInv /\ CleanupNetwork => ScreenInv'
<1> SUFFICES ASSUME TypeInv, ScreenInv, CleanupNetwork PROVE ScreenInv'
  OBVIOUS
<1>1. pc = "cleanup" /\ UNCHANGED <<disk, panel, boot, draws, payload, st>>
      /\ pc' \in {"sleep", "screen"} /\ flow' = flow
  BY DEF CleanupNetwork, Goto, files, machine, inputs, history
<1> QED BY <1>1, ScreenFrame DEF SameClaim, Decided

\* The process is gone and takes the account of its last drawing with it; a new
\* boot is one that the file has not heard of.
LEMMA ExitScreen ==
  ASSUME TypeInv, ScreenInv, Exit, disk' = disk,
         \/ panel' = panel /\ boot' = boot
         \/ boot' # disk.boot
  PROVE  ScreenInv'
<1>1. pc' = "idle" /\ flow' = "none" /\ st' = disk
      /\ draws' = IF draws = "pending" THEN "lost" ELSE draws
  BY DEF Exit
<1>2. ScreenHonest'
  BY <1>1 DEF ScreenInv, ScreenHonest, Claim
<1>3. SuccessShowsImage' /\ PartialOverImage'
  BY <1>1 DEF SuccessShowsImage, PartialOverImage
<1> QED BY <1>1, <1>2, <1>3 DEF ScreenInv, NamesImage

LEMMA EndScreen ==
  TypeInv /\ ScreenInv /\ (Suspend \/ Shutdown \/ Kill \/ Reboot) => ScreenInv'
<1> SUFFICES ASSUME TypeInv, ScreenInv, Suspend \/ Shutdown \/ Kill \/ Reboot
             PROVE  ScreenInv'
  OBVIOUS
<1>1. CASE Suspend
  <2>1. pc = "sleep" /\ UNCHANGED <<disk, panel, boot>>
    BY <1>1 DEF Suspend, files
  <2>2. CASE Exit
    BY <2>1, <2>2, ExitScreen
  <2>3. CASE Fail(st) /\ UNCHANGED history
    BY <2>1, <2>3, FailScreen DEF history
  <2> QED BY <1>1, <2>2, <2>3 DEF Suspend
<1>2. CASE Shutdown
  BY <1>2, ExitScreen DEF Shutdown, files
<1>3. CASE Kill
  BY <1>3, ExitScreen DEF Kill, files, machine
<1>4. CASE Reboot
  BY <1>4, ExitScreen DEF Reboot, files
<1> QED BY <1>1, <1>2, <1>3, <1>4

LEMMA QuietScreen ==
  TypeInv /\ ScreenInv /\ (Wake \/ GraceEnds \/ UNCHANGED vars) => ScreenInv'
<1> SUFFICES ASSUME TypeInv, ScreenInv, Wake \/ GraceEnds \/ UNCHANGED vars
             PROVE  ScreenInv'
  OBVIOUS
<1>1. UNCHANGED <<disk, panel, boot, flow, pc, st, payload, draws>>
  BY DEF Wake, GraceEnds, vars, files, machine, inputs, history
<1>2. ScreenHonest' /\ SuccessShowsImage' /\ PartialOverImage'
  BY <1>1 DEF ScreenInv, ScreenHonest, SuccessShowsImage, PartialOverImage, Claim
<1> QED BY <1>1, <1>2 DEF ScreenInv, NamesImage

LEMMA ScreenStep == TypeInv /\ ScreenInv /\ [Next]_vars => ScreenInv'
<1> SUFFICES ASSUME TypeInv, ScreenInv, [Next]_vars PROVE ScreenInv'
  OBVIOUS
<1>1. ASSUME NEW reading \in Samples, Start(reading) PROVE ScreenInv'
  BY <1>1, StartScreen
<1>2. CASE Step
  BY <1>2, ChooseModeScreen, PrepareNetworkScreen, FetchPayloadScreen, RenderScreen,
     StoreImageScreen, LocalScreenScreen, PlanScreen, SaveStateScreen,
     AppendLogScreen, CleanupNetworkScreen, EndScreen DEF Step
<1>3. CASE Wake \/ GraceEnds \/ Kill \/ Reboot \/ UNCHANGED vars
  BY <1>3, EndScreen, QuietScreen
<1> QED BY <1>1, <1>2, <1>3 DEF Next

\* What the file, the cycle's memory and the panel say about each other is kept
\* by every call, failure, kill and reboot.
THEOREM ScreenInvariant == Spec => []ScreenInv
<1>1. Init => ScreenInv
  BY ScreenInit
<1>2. TypeInv /\ ScreenInv /\ [Next]_vars => ScreenInv'
  BY ScreenStep
<1> QED BY <1>1, <1>2, TypeInvariant, PTL DEF Spec

\* The state file and the running cycle's memory name what is on the panel,
\* unless a drawing was lost: what every skipped or kept drawing relies on.
THEOREM ScreenIsHonest == Spec => []ScreenHonest
<1>1. ScreenInv => ScreenHonest
  BY DEF ScreenInv
<1> QED BY <1>1, ScreenInvariant, PTL

\* A cycle that got past its rendering decision has the server's image on the
\* panel, drawn now or skipped as unchanged.
THEOREM SuccessIsShown == Spec => []SuccessShowsImage
<1>1. ScreenInv => SuccessShowsImage
  BY DEF ScreenInv
<1> QED BY <1>1, ScreenInvariant, PTL

\* A partial refresh never goes over a warning, a banner or the boot splash.
THEOREM PartialIsOverImage == Spec => []PartialOverImage
<1>1. ScreenInv => PartialOverImage
  BY DEF ScreenInv
<1> QED BY <1>1, ScreenInvariant, PTL

\* No step of recovery replaces a server image that was drawn in this boot.
THEOREM OutageIsQuiet == Spec => OutageKeepsImage
<1>1. TypeInv /\ ScreenInv /\ [Next]_vars
      => (flow = "recovery" /\ panel \in Images /\ draws # "lost" /\ st.boot = boot
          => panel' = panel \/ boot' # boot)
  <2> SUFFICES ASSUME TypeInv, ScreenInv, [Next]_vars,
                      flow = "recovery", panel \in Images, draws # "lost",
                      st.boot = boot, boot' = boot
               PROVE  panel' = panel
    OBVIOUS
  <2>1. pc # "idle" /\ pc # "render"
    BY DEF TypeInv, TypeOK, Control, CallsOf
  <2>2. st.local \in Screens \cup {"none"} /\ panel = Claim(st)
    BY <2>1 DEF ScreenInv, ScreenHonest, TypeInv, TypeOK, State
  <2>3. st.local = "none"
    BY <2>2, PayloadAssumption DEF Claim
  <2>4. ~ScreenDue
    BY <2>3 DEF ScreenDue, OfflineDue, NeedsRedraw
  <2>5. CASE LocalScreen
    BY <2>4, <2>5 DEF LocalScreen
  <2>7. CASE Reboot
    BY <2>7 DEF Reboot
  <2>8. CASE \/ ChooseMode \/ PrepareNetwork \/ FetchPayload \/ StoreImage \/ Plan
             \/ SaveState \/ AppendLog \/ CleanupNetwork \/ Suspend \/ Shutdown
             \/ Wake \/ GraceEnds \/ Kill
    BY <2>8
       DEF ChooseMode, PrepareNetwork, FetchPayload, StoreImage, Plan, SaveState,
           AppendLog, CleanupNetwork, Suspend, Shutdown, Wake, GraceEnds, Kill, files
  <2>9. CASE UNCHANGED vars
    BY <2>9 DEF vars
  <2> QED
    BY <2>1, <2>5, <2>7, <2>8, <2>9 DEF Next, Step, Start, Render
<1> QED BY <1>1, TypeInvariant, ScreenInvariant, PTL DEF Spec, OutageKeepsImage
==============================================================================
