# Verification of trmnl-rm1

trmnl-rm1 turns a reMarkable 1 tablet into a TRMNL display. A oneshot program
wakes up, decides whether the battery allows an update, switches the radio on,
fetches an image from a self-hosted server, draws it on the e-ink panel,
records what it did, arms the next wake-up and puts the device to sleep. A
pair of commands installs it over the stock system and restores that system.

This directory holds TLA+ models of that program, TLC configurations that
check them on small instances, and proofs that TLAPS checks. Every action was
translated from the Go source; `PROJECT.json` maps each definition to its
lines. Paths below are under `src/`.

## 1. The system

### Components, their state, operations and what makes them correct

**Cycle** (`internal/cycle`). State: the in-memory `State` shared by `Run` and
its deferred recovery handler, and through the `Operations` seam the state
file, image cache, panel, radio, alarms and the log. Operations: `Run`
(normal), `batteryCycle`, `criticalBatteryCycle`, `recoverCycle`,
`localScreen`. Correct when: the state file names what is on the panel; an
update is skipped only when the panel really shows the image; the device never
sleeps without an alarm that matches the recorded deadline; failures are
counted across cycles and back off; a critical battery ends in a poweroff
request; recovery never recovers from itself. Hard: every call may fail, two
deferred handlers run on the error paths, the process may be killed
(`TimeoutStartSec=5min`) and the machine rebooted between any two calls.

**Power policy** (`internal/power/battery.go`, `runtime_linux.go`,
`internal/byos/refresh.go`). Stateless: hysteresis of battery protection, the
critical decision, refresh bounds, retry doubling, full-refresh cadence,
runtime mode. Correct at every boundary value and along every history of
inputs.

**Wake planning and suspend** (`internal/power/power_linux.go`). State: the RTC
alarm, two alternating transient systemd timers. `Plan` falls back from the
alarm to a timer, and then must not suspend. A cycle that runs inside one
transient unit must arm the other.

**Durable storage** (`internal/storage/files.go`). State: a document and its
`.bak`. `SaveJSON`, `LoadRecoverableJSON`. Correct when an acknowledged save
survives crashes and failed later saves, when one damaged file costs at most
one save, when damage is not mistaken for an empty document, and when damaged
bytes stay available. Hard: a rename shows before the directory sync makes it
durable.

**Wireless window** (`internal/network`). State: power, driver binding, link,
supplicant. `Prepare`, `BringUp`, `BringDown`. Correct when the radio is off
outside the window on every path.

**BYOS exchange** (`internal/byos/fetch.go`). Two HTTP requests; no state.

**Display** (`internal/display`). Prepares a PNG and runs FBInk. State: the
panel. A failing command may have drawn already.

**Application, lock, scheduled runs** (`internal/trmnl/app.go`, `recovery.go`,
`lock_unix.go`). State: the cycle lock and the restore marker. Five things
start cycles: the boot service, the recovery timer (5 min after the service
went inactive), the transient timers, the resume hook and a user. The
non-blocking lock lets one through; `run-scheduled` returns early before the
recorded deadline.

**Configuration and installation snapshot** (`internal/trmnl/config.go`).
State: `config.json` (read only), `state.json`, `install-state.json`. Loading
and saving the state reconcile it with the snapshot.

**Install and restore** (`internal/appliance`, `internal/trmnl/install_linux.go`).
State: stock units enabled and masked, the snapshot. Correct when every choice
is durable before the first mask, and when restore, repeated if need be,
brings back what the owner had.

**Diagnostics** (`internal/diagnostics`). A pass over the cycle log. Pure.

### How they interact

`runScheduled`/`runOnce` hold the lock, load the state (storage, snapshot
reconciliation) and call `cycle.Run`, which calls the others through
`Operations`. Cycles hand work to later cycles only through the state file,
the cache, the panel, the alarms and the boot id. Install writes the units
that start cycles; restore removes them, raises a marker against new cycles
and drains the lock.

The hazards this yields, each at its line with the properties that cover it,
are the `hazards` of `PROJECT.json`.

## 2. Modules

| Module | Models | Uses |
|---|---|---|
| `Policy` | the pure decisions | |
| `PolicyTrace`, `MCPolicyTrace` | them along a history, beside references computed another way | `Policy` |
| `Cycle`, `MCCycle` | one cycle after another over the device | `Policy` |
| `DurableStore` | `SaveJSON`, `LoadRecoverableJSON`, one file effect per step | `DurableRegister` |
| `DurableRegister` | what storage promises: one register | |
| `Lifecycle` | install and restore over stock units and snapshot | |
| `Scheduler` | what starts cycles, the lock, the marker, and install and restore beside them | `ApplianceTurns` |
| `ApplianceTurns` | what lock and marker promise: one cycle or restore at a time | |
| `Report`, `MCReport` | the power report over the cycle log | |
| `Config` | effective values and `validateConfig`, pure | |
| `Radio` | `BringUp` and `BringDown` command by command, pure | |
| `Raster` | which pixel is shown where: `Prepare` and `Status`, pure | |
| `PolicyProofs`, `LifecycleProofs`, `ReportProofs` | theorems | the module named |
| `SchedulerProofs` | theorems: safety, liveness, the refinement | `Scheduler`, `ApplianceTurns` |
| `CycleProofs`, `DeviceProofs` | theorems: types and the end of a cycle, then what it leaves behind | `Cycle`, `PolicyProofs` |
| `StoreProofs` | theorems, the refinement among them | `DurableStore`, `DurableRegister` |
| `PureProofs` | theorems about decisions, radio and pictures | `PolicyTrace`, `Radio`, `Raster` |

### Policy

`Decide`, `RefreshInterval`, `RetryInterval`, `ShouldUseFullRefresh` and
`DetermineMode` are the functions of those names in `BatteryPolicy`,
`RefreshPolicy`, `recovery.go`, `cycle.go` and `runtime_linux.go`. Durations
are minutes; the code's seconds keep the same order at every bound used. The
ASSUMEs are what `validateConfig` accepts. Overflow does not occur: `int` is
32 bits on the RM1 but intervals are `time.Duration`, and a 32-bit rate in
seconds fits.

### Cycle

`flow` is the running function and `pc` the call it is about to make, listed
at the top of the module. `st` is the `State` the deferred handler shares;
`before`, `decision`, `payload`, `suspend`, `rendered` are Run's locals;
`netPending` is the deferred network cleanup. `disk`, `cache`, `panel`,
`radio`, `rtc`, `timer`, `dev`, `boot`, `grace` are the world. One action is
one call of the seam with every effect it has, including the effects of a call
that fails: a render may have torn the panel, a save may have replaced the
file, arming the alarm may have cleared the old one, a bring-up may have
powered the radio. `Fail` is an error return: it enters the deferred handlers
in their order (cleanup, then recovery) and counts the failure from
`failuresBefore`. `Kill` runs no deferred call. `Start` may happen whenever
no cycle runs, which covers every trigger. `draws` and `drew` are history:
whether the last drawing is recorded in the file, is still to be recorded, or
was lost, and whether this cycle drew.

Abstracted: pixels, HTTP and command lines; times of day (a deadline is the
interval it was computed from); `ScheduleBootID`, `LastImageURL` and failure
categories, which only reports and the scheduler read; an unreadable boot id.
`disk` is one value: `DurableStore` justifies it up to the damage and the
undone renames it shows, which Cycle does not repeat. Run's branch for
`Recovery = false` exists for tests only. `DisableWiFiBetweenUpdates` is taken
at its default, true.

### DurableStore and DurableRegister

`file` is what a read returns, `stable` what the directory is known to hold on
the medium; a crash leaves each name at either. `Load` walks
`ReadPrimary`, `ReadBackup`, `Restore`, `RestoreSync`; `Save` walks
`ReadPrevious`, `PreservePrevious`, `Seed` or `Copy`, `CopySync`, `Put`,
`PutSync`. Contents are the number of the save, or one of two kinds of damage
(not JSON; JSON that does not decode or validate), which `SaveJSON` and
`LoadRecoverableJSON` treat differently. Fault `path` is a failing open, read
or write (`os.PathError`), `link` a failing rename (`os.LinkError`), `sync` a
failing directory sync. `IsRegister` is the refinement:
`DurableStore` implements `DurableRegister` with the recovered document as the value.
`LoadHonest` says when an acknowledged document may come back as an absent one:
after damage of both files, in strict mode only after the loss of both.

### Lifecycle

Which stock units exist, are enabled and masked; the two snapshot files; the
choices in `state.json`. `op`/`pc` walk `runInstallWithDeps` and `runRestore`
call by call. The snapshot files are written by `SaveSnapshot` as
`DurableStore` in strict mode writes them: backup first, then primary, and a
failure may stop between. Reads of a damaged file restore it from the other.
`Disable` (stop, disable, mask, errors collected) may leave any part done.
Restore collects errors and goes on. Everything restore does to the
appliance's own units before the stock ones, with the lock and the radio, is
the single step `Quiesce`, which may fail either way; `Scheduler` has its calls. `Init` includes devices
taken over by an old binary that kept the choices in `state.json`. `original`
is history: what was enabled before the appliance came. Assumed: stock units
are not masked by the owner, the owner does not change choices while restored,
a query that is answered is answered truthfully. One that fails is taken for "not
there" or "disabled" (`UnitExists`, `UnitEnabled`); `Detect` lets any of them fail,
and `misread` is history: the services whose query failed when their choice was
noted.

### Scheduler

`Cycle` runs one process at a time over a detailed device; `Scheduler` runs
many over a coarse one. `proc` says what each process is about to do: the
services of the appliance and of the transient units `a` and `b` run
`run-scheduled`, `Manuals` are users' `run-once`. A cycle is the steps another
process can notice: it gets or misses the lock (`AcquireCycleLock`), meets the
marker and the deadline (`Admit`), plans by RTC alarm or by a transient timer
(`Plan`, `StopTarget`, `ArmTarget`: the unit it does not run in), saves, sleeps
and unlocks. `path` tells the normal path, whose errors start recovery, from
recovery and the critical path, which carry on. What can go wrong between:

- A start may be refused by an error before its cycle begins (`Refuse`): the
  marker, the state or the configuration cannot be read, or the configuration is
  invalid. A lock file that cannot be opened ends a process likewise, only
  without the lock, and has no step of its own.
- A process may not be able to tell which unit it runs in (`SelfUnit`), and then
  stops itself. A failing stop is ignored by the code; the name that is still in
  use then makes `systemd-run` fail.
- `systemctl suspend` returns when systemd has accepted it. `asked` says that a
  sleep is still to come: the process may unlock and another take the lock and
  begin a cycle before the device sleeps (`FallAsleep`).

Two notes on what is coarse:

- An armed timer may fire at any time, earlier than the recorded deadline too,
  as one armed by an earlier cycle does; `due` is what `runScheduled` computes.
  `Resume` stands for the RTC alarm and the power button alike. After the
  fallback that writes to the kernel the resume hook does not run, and a
  request for a service that still runs is lost.
- `Kill` takes a process past `Admit`, where cycles spend their time.
  `install-appliance` and `restore-stock` run one at a time.

Restore is a step per call in the order of `Restore`, each failing with its
error collected; install is a step per call that touches what starts cycles.
Install saves the record it loaded without the cycle lock: `loaded` says
whether that record is still the current one, and `RecordChoices` puts an older
deadline back. `restored` and `aborted` are history. What restore does to stock
services is in `Lifecycle`; there `Quiesce`, here `RestoreStock`, is the part
the other module opens, and Cycle's one `timer` flag stands for both units.

`ApplianceTurns` is the promise in two variables: whose turn it is and whether
cycles are barred. A process has its turn from its admission on, not from the
lock, because one that got the lock may still be turned away (`Turn`); the marker is the
bar.

### Report

`ReadLine` is the body of the scanner loop in `diagnostics.Read`, `Report` the
loop over the rows, with the window as part of the accumulator. Times are
numbers, a zero time is 0, and blank lines, which the code skips, do not occur.
Of the counters the report keeps, those of the battery statuses stand for the
others. The second half of the module computes windows and counts from the
lines alone, without rows or an index, for the properties to compare.

### Config and Radio

`Config` gives the numbers of `config.json` their effective values and lists
the problems `validateConfig` finds; strings are left out, the URL and the
device id are flags. `Runs` is what `runOnce` accepts after it has put a
placeholder in for a missing identity. `Radio` describes each call of
`radio_linux.go` and `network_linux.go` as a relation between the radio before
and after; a command that fails may have had its effect. It shows that Cycle's
coarser radio is right: an acquisition may leave it on and fail, a `BringDown`
may leave it on and succeed.

### Raster

A picture is an origin, a size and a pixel at each position; `Turn` is
`rotate90CW`, `Fit` the scaling and cropping loop with `grayscaleAt`, `Prepare`
both with the rotation of the framebuffer, `Status` the banner over the cached
image. Arithmetic is exact where the code computes in `float64`, so a sample
that falls exactly between two pixels may differ by one. The origin is kept
because a decoded GIF frame may have one: `rotate90CW` respects it, the sampling
loop does not, and `FitIsExact` holds for origin 0 only.

## 3. Runs

| Run | Asks | Bounds |
|---|---|---|
| `cycle_safety` | the twelve properties below, all faults on | 2 images, one undecodable; 4 readings (unreadable, critical, charging between the thresholds, adequate); 3 boot ids; 2 failures; cadence 2 |
| `cycle_live` | a cycle ends; a critical battery reaches the poweroff request | 1 image, 3 readings, faults on but no kill |
| `policy` | decisions agree with references | 11 levels around each threshold × 4 statuses, 8 rates, 8 failures, 9 updates, with local screens and reboots between |
| `store` | durability, honesty, refinement | 4 saves, all faults, damage at any time no process runs |
| `lifecycle` | faithful and repeatable install and restore | 2 noise units, sync, UI; one unit that a firmware update may add; all faults |
| `scheduler` | one cycle at a time, nothing after a restore, another cycle always, restore ends | three units, one manual process; all faults; no bound on how often anything happens |
| `report` | windows and counts against a reference | logs of 4 lines, 4 starts, 4 samples, 3 filters |
| `cycle_grace`, `cycle_radio`, `cycle_warning`, `store_evidence`, `lifecycle_update` | five statements of the docs that the code does not keep | the fault named in each cfg |

**Why the bounds are enough.** Images are only compared: one that renders and
one that does not are enough for unchanged, changed and refused, the panel's
other contents (splash, banners, torn) being always there. Boot ids are only
compared too, with the file's and the kernel's; with two in use a third is
always free, and they are interchangeable, hence the symmetry (no liveness is
checked under it). Failures saturate at `MaxFailures`, at least the threshold,
so both sides of it occur. Cadence 2 has both answers. Intervals in
`cycle_safety`: server and battery intervals are 10 minutes, retries 5 and 10,
the deadline of the critical path 5. Four saves in `store` allow an acknowledged save, a failed one, a
repair and another. Two noise units give known and unknown ones side by side.
The units of `scheduler` are the program's own; one manual process beside them
is a second holder of the lock that no unit stops, and the safety properties
are proved for any number. Four lines in `report` give a run, a break in its
middle, and a second outcome that arrives after the break.

**Properties of `cycle_safety`.** `ScreenHonest`: the file and the memory name
the panel unless a drawing was lost. `SuccessShowsImage`: past its rendering
decision a cycle has the server's image on the panel, drawn or skipped.
`PartialOverImage`: no partial refresh over a warning or the splash.
`OutageKeepsImage`: recovery does not replace a server image of this boot, even
one the failing cycle drew. `CacheUsable`: the cache takes no image that cannot
be rendered. `WakeBeforeSleep`: asleep only with the alarm armed for the path's
interval. `SleepMatchesDeadline`: that alarm equals the saved deadline.
`RadioQuiet`: recovery, local screens and sleep come after the cleanup of the
radio that the cycle brought up. A radio is on elsewhere only after a `BringUp`
that failed or was killed (`raised`) or a lowering that did (`stuck`), and a cycle
that completes leaves it off or `stuck`; that the code leaves a `raised` radio on
through local screens and the sleep is the finding of `cycle_radio`.
`BackoffKept`: a failure counts on top of earlier ones however far the cycle
had got. `EntryHonest`: the log record says whether the panel changed; the
critical path, which drops the error of its drawing, denies a change also when
the drawing tore the panel (and recovery is left out: its record has no
documented meaning for an image the failing cycle drew). `CriticalNeverPlans`: a critical battery arms nothing. A lost drawing
excuses the screen properties, because the code does not notice one; see
`cycle_warning`.

**Properties of `scheduler`.** `OneCycle`: at most one process is past the
lock, and none while restore holds it. `TakesTurns`: lock and marker implement
`ApplianceTurns`, so no cycle begins beside another or behind the marker, and
restore comes only after its marker and the last cycle. `RestoreQuiesces`: after a
restore that succeeded no timer, hook, service or waiting process of the
appliance is left, also none from a cycle that was planning while restore
stopped the units. `AbortStartsNothing`: after a restore that ended in an error
no process gets into a cycle until it is retried. `CycleComes`: while the
installed device is awake a cycle comes, or an error is reported that kept one
from beginning, and then comes the next; whatever was killed, suppressed, lost,
stopped by itself or slept through. `RestoreEnds`: also beside a manual cycle
that hangs with the lock.

**Properties of `policy`.** `CadenceKept` follows the cadence through the full
refreshes that local screens, reboots and a missing record force
(`cycle.go:76`): no run of partial ones is as long as the cadence, and the forced
ones neither spend nor put off the cadence's own. The others compare one
decision each with a latch, a doubling or a bound.

**Properties of `lifecycle`.** `RestoreFaithful`: a restore that succeeds brings
back the owner's choices. `MaskedIsCovered`: no service is masked whose choice a
readable copy of the snapshot lacks. `ChoicesAreOriginal`: what is on record is
the owner's choice, never the appliance's doing. All three make an exception for
`misread` services, no wider than what the code really loses
(`install.go:164-172`): the choice of that service turns into "disabled", never
into "enabled", and a sync unit that seemed absent stays masked. `Repeatable`: no
command fails because of what an earlier one left.

**Properties of `report`.** `WindowsAreRuns`: the discharge windows are exactly
the longest runs of adjacent discharging samples, in their order. `FinalOutcomes`: every number
is that of the last outcome of each cycle, each counted once.

**Fairness.** `scheduler`: a process in a unit goes on or is killed by
`TimeoutStartSec=5min` (`UnitGoesOn`: weak fairness of `Step \/ Kill` for each unit). A manual
process has no timeout: it is only assumed that one that got the lock reads the
marker, and reports its error if that keeps it from beginning (`ManualReads`:
weak fairness of `Admit \/ Refuse`); it may then hang forever in its cycle with
the lock, and what a user does before that is not assumed at all. The
recovery timer elapses, time passes a recorded deadline, and restore makes its
next call. Nothing is assumed of transient timers, of the resume hook, of users
or of wake-ups, so `CycleComes` rests on the recovery timer alone.

`cycle_live` assumes weak fairness of `Step`: a running process
goes on, each call returning or failing. That is what systemd gives a oneshot
that is not killed. Nothing is assumed of what starts cycles, of wake-ups or of
failures ending. Kills and reboots at any moment are off: under them a critical
cycle may vanish before it asks for the poweroff. The two liveness properties
break if a failing best-effort call stops recovery or the critical path.

**Deadlock** is checked in every run but `report`, where reading a log ends;
nothing else here may stop.

**What the violation runs show.**
- `cycle_grace`: `recoverCycle` overrides the runtime mode on a discharging
  battery, so a failing cycle suspends inside the boot grace window (README:
  "no automatic suspend").
- `cycle_radio`: a `BringUp` that fails after powering the radio has no
  cleanup; the radio stays up through the retry sleep.
- `cycle_warning`: killed between drawing a warning and saving, the next
  successful cycle with the same image leaves the warning on the panel.
- `store_evidence`: copying damaged bytes aside fails in its rename, the error
  is not an `os.PathError`, and the load overwrites the only copy.
- `lifecycle_update`: a reinstall masks a sync unit that appeared after the
  first install without recording it, and restore never unmasks it.

**What passing runs show against the docs.** Two statements of
`docs/operations.md` describe another program than this one:

- Line 133 says that after `state.json` is deleted the first render is partial.
  The code makes it full, and `PartialOverImage` (`cycle_safety`, which starts
  from that empty state) needs it to be.
- Lines 163 and 285 say that `restore-stock` does not cancel the transient timers
  and that one can start a cycle afterwards. The code stops both, and
  `RestoreQuiesces` (`scheduler`) shows that none is left.

## 4. Proofs

All for every value of the constants under the named assumptions.

`PolicyProofs`: a poweroff needs a readable, discharging sample at the critical
level with shutdown enabled (`ShutdownOnlyWhenCritical`); a critical level is
always low (`CriticalIsAlwaysLow`); between the thresholds protection keeps
(`ProtectionLatches`); intervals stay within the configured bounds
(`IntervalBounded`); retries lie in 5..60 minutes and never shrink
(`BackoffBounded`). About `Config`: what `validateConfig` accepts satisfies
every assumption the models make (`AcceptedSuitsPolicy`), a configuration that
`validate` accepted lets every cycle run (`ValidatedRuns`), and the checks of
effective values against zero cannot fail (`PositiveAlready`).

`CycleProofs`: `TypeInv == TypeOK /\ Control` is inductive. `TypeOK` alone is
not: that the warning drawn is a screen needs the decision that led there, that
the payload is an image needs that it was fetched, that retry intervals are
numbers needs `BackoffBounded`. `Control` says which calls each function makes
and what is known there. One lemma per action; `FailType`, `FailControl` and
`ExitType` are the parts the actions share. Uses `PayloadAssumption`,
`DeviceAssumption` and the assumptions of `Policy`.

That a cycle ends rests on a measure. `CallsLeft` counts, for each function and
call, the calls still to come on the longest way out: at most 16, ten of a normal
cycle that fails in its last call and six of recovery. `CycleDescends`: every
call lowers it, every error return too (`FailDescends`), and nothing but a start raises it.
`CyclesEnd` and `PoweroffIsRequested` follow from it and the fairness of `Step`,
one level of the measure at a time (`RunsDown(n)`, `PathRunsDown(n)`).

`DeviceProofs`: every safety and action property of `cycle_safety`. Each speaks of
one moment (the device sleeps, the record is written) and its invariant follows
what it is about from where it is decided to that moment. `AlarmInv`: from `Plan`
on, a wish to suspend means that the alarm is armed for the path's interval.
`DeadlineInv`: the deadline in memory is that interval, and what a successful save
wrote stays what is in memory. `RadioInv`: a radio that is up is owed its cleanup;
`SleepsRadioOff` adds which faults it takes for the device to sleep with a radio on.
`RecordInv`: what the record will say is what was drawn so far. `ImageInv`: only
what was rendered once is named by a state or stored. `ScreenInv` strengthens
`ScreenHonest` with: nothing is pending between cycles, since a new cycle starts
from the file and would forget it; and a state without a local screen names an
image, so a skipped or partial refresh is over one. The `...Frame` lemmas cover
the calls that leave an invariant's variables alone, the `...Fail` and
`...Reset` lemmas every error return and every end of a process.

`StoreProofs`: every property of `store`, for any number of saves. After a crash
each file holds one of two contents, the one that shows and the one on the
medium, so `AckedSurvives` and `OneDamageOneSave` are statements about four
contents (`CrashLeaves`, `MayBeLeft`), and the invariant bounds these.
`VersionInv`: the primary on the medium is never ahead of the one that shows, and
is older than what was acknowledged only if the one that shows is the same.
`PrimaryInv`: a primary that was not damaged, or that a process has loaded, is
not older than what was acknowledged. `BackupInv`: before the primary is
replaced, the backup has caught up with it; this is what makes losing either file cost
one save only. `StoreIsRegister` is the refinement: `CopiesNow` computes the
register's value and what a crash could bring back from the four contents, one
`As...` lemma per action of `DurableRegister` says what a step has to show, and
`LoadRefines`, `PrepareRefines`, `ReplaceRefines` and `EnvironmentRefines` show
it. A load's calls are stutters until it returns (`Adopt`, or `Settle`), the new
version shows with the first replacement of a file that a load would read (`Seed`
when nothing else decodes, else `Put`), and the last directory sync acknowledges
it. Uses `StoreAssumption`.

`LifecycleProofs`: every property of `lifecycle`, for any set of stock services.
What restore needs is in several places: systemd stops showing the owner's choice
when install disables a service, and from then on it must be on record in every
copy that a later load may be left with. `Hidden` names the services whose choice
systemd no longer shows, `Owed` those a snapshot has to know; `FilesInv` says
that every copy that decodes knows them (before there is one, the legacy fields
do), `MemoryInv` carries it through a command that has loaded, and `RestoreInv`
follows what a restore has still to bring back. `SnapshotHonest` and
`CommandsRepeatable` hold without condition. `MaskedRecoverable` and
`RestoreBringsBack` assume `"sync" \notin Arrivals`: no firmware update brings a
sync unit that the first install did not see; `lifecycle_update` adds that unit
and TLC finds a masked service without a record. The other way to lose a choice,
a failed query, is in the properties themselves (`misread`). Uses `LifecycleAssumption`.

`SchedulerProofs`: every property of `scheduler`, for any set of
manual processes and any faults. `LockInv` adds to `OneCycle` that restore holds
the lock from one call to another only. `Marked` says that `aborted` implies the marker, so that
`Admit`, the only way into a cycle (`OnlyAdmission`), turns everyone away.
`QuietInv` follows restore call by call: as long as nothing failed, `Removed`
says which triggers are gone for good, `Drained` that no process of a transient
unit can start any more, and `Rested` carries both past the end. It is the
order of `Restore` that makes it inductive: a timer is stopped before its
service, both after the lock. `SchedulerTakesTurns` is the refinement of
`ApplianceTurns`: `OnlyAdmission` gives `Begin`, `RestoreTakesOver` gives
`TakeOver`, and `MarkerMoves` says that the marker moves apart from everything else.
Uses `ProcessAssumption`.

`CyclesCome` goes as follows. `Holder` says that whoever has the lock works, was
refused or is about to read the marker, or is restore between its two calls. Time makes the
deadline pass (`DueComes`), and while no cycle runs nothing brings a deadline back:
only `SaveState` and an install that loaded before the last cycle do, which is
why `Due` asks for the loaded record too. Then either the lock is held, and its
holder gets into a cycle or reports an error (`UnitGetsIn`, `ManualGetsIn`), or the appliance service is started, by the
recovery timer if by nothing else (`ApplianceRests`), and gets the lock unless
another process does (`ApplianceGetsIn`). `Meanwhile` is what every other step
leaves as it is. `RestoreComesToEnd`: no step but restore's own moves it
(`RestoreGoesOn`), and each of its eleven calls returns (`EachCallReturns`).

The four liveness theorems have one hypothesis besides the fairness: that a
running cycle has a next call (`NeverStuck`), and that each fair action of
`Scheduler` is enabled wherever its guard holds (`CanGoOn`). Both speak of ENABLED, about which
the provers cannot reason, and no run lists them: they are formulas of the proof
modules. The runs show their consequence on the instances: `cycle_live` and
`scheduler` check the four liveness properties under the fairness alone, and would
find a process that is stuck.

`ReportProofs`: types for logs of any length (`ReportTypeCorrect`), which
includes that a replaced row exists; the index is faithful and one to one
(`NoCycleTwice`); records are cycles plus duplicates (`RecordsAccounted`).
`TableIsTheLog` gives the whole table that the report is computed from: one row
for each cycle, in the order of the first records and with the last outcome, and
an empty row for every line that was not used. `TableInv` makes that inductive:
the index leads from every record of a cycle to the place of its first one, and
each cycle has a first and a last record.

`WindowsAreTheRuns` and `OutcomesAreFinal` say what the loop over those rows
makes of them. Induction over data is `SetInduction`: the set of counterexamples
has a least element, from the library's facts about well-founded relations. It
gives that the fold exists and goes row by row (`FoldExists`, `Loop`), that a
least and a greatest row exist, and that samples can be sorted (`OrderExists`).
Two loop invariants carry the rest. `WindowsStep`: after n rows the windows are
the spans that have ended, in order, and the open window is the span that ends
at row n. `NumbersStep`: counters and durations are those of the used rows among
the first n. `LinkedRows`, `JoinedIsChain` and `RunsAreSpans` take spans of rows
back to runs of lines, where `Adjoins` speaks of the lines between two cycles;
`SortedFacts`, `Ranks` and `DistributionFacts` show that median and percentile
count what `FinalOutcomes` says, with `RankIsNearest` for the index: four lines in the run are too few to tell
the 95th percentile from the greatest sample, so that it is right is known from
the proof. Uses
`LogAssumption`.

`PureProofs`, about `PolicyTrace`: the five properties of `policy`, for every
configuration, sample set and length of history. The decision answers the last
reading and agrees with the latch; the table of retries is the doubling, from
the fourth failure on by the cap; the distance to the cadence's last full
refresh is the counter's remainder (`NextRemainder`), and forced refreshes only
shorten the runs of partial ones, for every `FullRefreshEvery`. Uses `TraceAssumption` and the assumptions of `Policy`.

About `Radio`: `UpIsUp`, `DownIsDown`, `FailureLeavesPower`,
`SuccessMayLeavePower`, each from the definitions alone. About `Raster`: a turn
keeps every pixel (`TurnKeepsPixels`), four are none (`FourTurns`); the crop
samples inside the image for every two sizes (`SamplesInside`), so clamping never
smears an edge; an image of the panel's size and a status screen reach a panel
of the default size unchanged (`FitIsExact`, `StatusIsShown`). From
`DivisionBound` and `DivisionExact` about `\div`.

What the provers cannot reason about is ENABLED: without the hypotheses
`NeverStuck` and `CanGoOn` the four liveness properties are only model-checked. Every other
property of a passing run is a theorem without a hypothesis of that kind. The
five violation runs are, of course, for TLC alone.

## 5. Plan

Done: `Policy`, `Cycle`, `DurableStore` over `DurableRegister`, `Lifecycle`,
`Scheduler` over `ApplianceTurns`, `Report`, `Config`, `Radio`, `Raster`, and a
theorem for every property that a run checks. An abstract module for `Lifecycle`
is not planned: it could only say that a service is taken when its choice is on
record and given back as recorded, which are `MaskedIsCovered` and
`RestoreFaithful`. What could follow is code that is not modelled.

## 6. Not modelled

`LoadJSON`, `AppendJSON`; decoding, grey values, PNG handling, HTTP and URL
resolution (pure, unit-tested); the polling of `network.Wait` and the resolution of the
device id; the wall clock going backwards; the mode, reason and failure
counters of the report; command line entry, `deploy/`, and the stubs for other
systems.
