----------------------------- MODULE PolicyTrace -----------------------------
(***************************************************************************)
(* The decisions of Policy along a history: battery samples, failed        *)
(* cycles, rendered updates, local screens and reboots between them, and   *)
(* server rates in any order.  Beside each decision a reference is kept    *)
(* that is computed in another way (a latch, a doubling, updates counted   *)
(* off), and the invariants say that the two agree.                        *)
(***************************************************************************)
EXTENDS Policy

CONSTANTS
  Samples,      \* battery readings
  Rates,        \* values of refresh_rate
  MaxFailures,  \* bound on consecutive failures
  MaxRendered   \* bound on rendered updates

ASSUME TraceAssumption ==
  /\ Samples \subseteq Readings
  /\ Rates \subseteq Int

VARIABLES
  reading, decision,  \* the last sample and what was decided on it
  latch,              \* reference: is battery protection on?
  failures, backoff,  \* consecutive failures; reference: the doubled interval
  rendered, clean,    \* updates; does the panel show the last one of them,
                      \* drawn in this boot?
  since, gap,         \* reference: updates counted off, in rounds of the cadence;
                      \* and partial refreshes since the last full one
  rate, interval      \* the last response

updates == <<rendered, clean, since, gap>>
vars ==
  <<reading, decision, latch, failures, backoff, updates, rate, interval>>

Adequate == [capacity |-> 100, status |-> "full"]

Init ==
  /\ reading = Adequate /\ decision = Decide(Adequate, FALSE) /\ latch = FALSE
  /\ failures = 0 /\ backoff = 5
  /\ rendered = 0 /\ clean = FALSE /\ since = 0 /\ gap = 0
  /\ rate = 0 /\ interval = RefreshInterval(0)

\* Protection starts on an unusable or a low reading, ends at the recovery
\* level, and in between stays as it is.
Sample(r) ==
  /\ reading' = r
  /\ decision' = Decide(r, decision.low)
  /\ latch' = CASE ~Usable(r) \/ r.capacity <= LowPercent -> TRUE
                [] Usable(r) /\ r.capacity >= RecoveryPercent -> FALSE
                [] OTHER -> latch
  /\ UNCHANGED <<failures, backoff, updates, rate, interval>>

FailAgain ==
  /\ failures < MaxFailures
  /\ failures' = failures + 1
  /\ backoff' = IF failures = 0 THEN 5 ELSE AtMost(60, 2 * backoff)
  /\ UNCHANGED <<reading, decision, latch, updates, rate, interval>>

Succeed ==
  /\ failures' = 0 /\ backoff' = 5
  /\ UNCHANGED <<reading, decision, latch, updates, rate, interval>>

\* The refresh of a changed image: full when it is the cadence's turn, and
\* always over a local screen, after a reboot or over nothing recorded.
FullRefresh == ShouldUseFullRefresh(rendered) \/ ~clean

RenderUpdate ==
  /\ rendered < MaxRendered
  /\ rendered' = rendered + 1 /\ clean' = TRUE
  /\ since' = IF since = FullRefreshEvery - 1 THEN 0 ELSE since + 1
  /\ gap' = IF FullRefresh THEN 0 ELSE gap + 1
  /\ UNCHANGED <<reading, decision, latch, failures, backoff, rate, interval>>

\* A local screen or a new boot.
Spoil ==
  /\ clean /\ clean' = FALSE
  /\ UNCHANGED <<reading, decision, latch, failures, backoff, rendered, since, gap,
                 rate, interval>>

Respond(r) ==
  /\ rate' = r /\ interval' = RefreshInterval(r)
  /\ UNCHANGED <<reading, decision, latch, failures, backoff, updates>>

Next ==
  \/ \E r \in Samples : Sample(r)
  \/ FailAgain \/ Succeed \/ RenderUpdate \/ Spoil
  \/ \E r \in Rates : Respond(r)

Spec == Init /\ [][Next]_vars

\* Battery protection is a latch: whatever the sequence of samples, unreadable
\* ones included, Decide fed with its own last answer is on exactly when the
\* latch is.
HysteresisLatches == decision.low = latch

\* A poweroff is decided only on a readable, discharging battery at the
\* critical level that protection already covers, never on a missing sample.
ShutdownJustified ==
  decision.shutdown =>
    /\ latch
    /\ reading.status = "discharging"
    /\ reading.capacity \in 0 .. CriticalPercent

\* The table of retry intervals is the doubling of the loop, capped at an hour.
BackoffDoubles == failures > 0 => RetryInterval(failures) = backoff

\* No run of partial refreshes is as long as the cadence, whatever full ones
\* local screens and reboots force in between; and over a panel that is clean
\* a full refresh is neither spent early nor put off by them.
CadenceKept ==
  /\ gap < FullRefreshEvery
  /\ clean => (FullRefresh <=> since = FullRefreshEvery - 1)

\* A rate within the bounds is used as it is; no rate means the fallback; and
\* nothing the server says leaves the bounds.
RateRespected ==
  /\ interval \in RefreshMin .. RefreshMax
  /\ rate \in RefreshMin .. RefreshMax => interval = rate
  /\ rate <= 0 => interval = RefreshFallback
=============================================================================
