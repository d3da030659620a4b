----------------------------- MODULE PureProofs -----------------------------
(***************************************************************************)
(* Theorems about the parts of the appliance that compute: the policy over *)
(* a history of samples, failures and responses, the commands that raise   *)
(* and lower the radio, and the geometry of the panel.                     *)
(***************************************************************************)
EXTENDS PolicyTrace, PolicyProofs, Radio, Raster

-----------------------------------------------------------------------------
(* Arithmetic. *)

LEMMA DivisionBound ==
  ASSUME NEW a \in Int, NEW b \in Size, NEW c \in Size, 0 <= a, a < b * c
  PROVE  a \div b \in 0 .. c - 1
<1>1. a \div b \in Int /\ b * (a \div b) <= a /\ a < b * (a \div b) + b
  BY DEF Size
<1> DEFINE d == a \div b
<1>2. d \in Int /\ b * d < b * c /\ 0 < b * (d + 1)
  BY <1>1 DEF Size
<1> HIDE DEF d
<1>3. d < c
  <2>1. SUFFICES ASSUME d >= c PROVE FALSE
    BY <1>2 DEF Size
  <2>2. b * (d - c) >= 0
    BY <1>2, <2>1 DEF Size
  <2> QED BY <1>2, <2>2 DEF Size
<1>4. 0 <= d
  <2>1. SUFFICES ASSUME d + 1 <= 0 PROVE FALSE
    BY <1>2
  <2>2. b * (0 - (d + 1)) >= 0
    BY <1>2, <2>1 DEF Size
  <2> QED BY <1>2, <2>2 DEF Size
<1> QED BY <1>2, <1>3, <1>4 DEF d, Size

LEMMA DivisionExact ==
  ASSUME NEW z \in Nat, NEW b \in Size
  PROVE  (z * b) \div b = z
<1>1. z * b \in Int /\ (z * b) \div b \in Int
      /\ b * ((z * b) \div b) <= z * b /\ z * b < b * ((z * b) \div b) + b
  BY DEF Size
<1> DEFINE d == (z * b) \div b
<1>2. d \in Int /\ b * d <= b * z /\ b * z < b * (d + 1)
  BY <1>1 DEF Size
<1> HIDE DEF d
<1>3. d <= z
  <2>1. SUFFICES ASSUME d >= z + 1 PROVE FALSE
    BY <1>2
  <2>2. b * (d - (z + 1)) >= 0
    BY <1>2, <2>1 DEF Size
  <2> QED BY <1>2, <2>2 DEF Size
<1>4. z <= d
  <2>1. SUFFICES ASSUME z >= d + 1 PROVE FALSE
    BY <1>2
  <2>2. b * (z - (d + 1)) >= 0
    BY <1>2, <2>1 DEF Size
  <2> QED BY <1>2, <2>2 DEF Size
<1>5. d = z
  BY <1>2, <1>3, <1>4
<1> QED BY <1>5 DEF d

LEMMA DivisionFacts ==
  ASSUME NEW a \in Nat, NEW k \in Nat \ {0}
  PROVE  /\ a \div k \in Int /\ a % k \in 0 .. k - 1
         /\ a = (k * (a \div k)) + (a % k)
OBVIOUS

\* A quotient and a remainder in range are the quotient and the remainder.
LEMMA Remainder ==
  ASSUME NEW a \in Nat, NEW k \in Nat \ {0}, NEW q \in Int, NEW r \in 0 .. k - 1,
         a = k * q + r
  PROVE  a % k = r
<1> DEFINE d == a \div k  m == a % k
<1>1. d \in Int /\ m \in 0 .. k - 1 /\ a = k * d + m
  BY DivisionFacts
<1> SUFFICES m = r
  OBVIOUS
<1> HIDE DEF d, m
<1>2. CASE d >= q + 1
  <2>1. k * (d - (q + 1)) >= 0
    BY <1>1, <1>2
  <2>2. k * (d - (q + 1)) = k * d - k * q - k
    BY <1>1
  <2> QED BY <1>1, <2>1, <2>2
<1>3. CASE d <= q - 1
  <2>1. k * (q - 1 - d) >= 0
    BY <1>1, <1>3
  <2>2. k * (q - 1 - d) = k * q - k - k * d
    BY <1>1
  <2> QED BY <1>1, <2>1, <2>2
<1>4. CASE d = q
  <2>1. k * d = k * q /\ k * q \in Int
    BY <1>1, <1>4
  <2> QED BY <1>1, <2>1
<1> QED BY <1>1, <1>2, <1>3, <1>4

LEMMA NextRemainder ==
  ASSUME NEW n \in Nat, NEW k \in Nat \ {0}
  PROVE  /\ n % k \in 0 .. k - 1
         /\ (n + 1) % k = IF n % k = k - 1 THEN 0 ELSE (n % k) + 1
<1> DEFINE q == n \div k  r == n % k
<1>1. q \in Int /\ r \in 0 .. k - 1 /\ n = k * q + r
  OBVIOUS
<1> HIDE DEF q, r
<1>2. k * (q + 1) = k * q + k
  BY <1>1
<1>3. CASE r = k - 1
  <2>1. n + 1 = k * (q + 1) + 0 /\ n + 1 \in Nat /\ q + 1 \in Int /\ 0 \in 0 .. k - 1
    BY <1>1, <1>2, <1>3
  <2>2. (n + 1) % k = 0
    BY <2>1, Remainder
  <2> QED BY <1>1, <1>3, <2>2 DEF r
<1>4. CASE r # k - 1
  <2>1. n + 1 = k * q + (r + 1) /\ n + 1 \in Nat /\ r + 1 \in 0 .. k - 1
    BY <1>1, <1>4
  <2>2. (n + 1) % k = r + 1
    BY <1>1, <2>1, Remainder
  <2> QED BY <1>1, <1>4, <2>2 DEF r
<1> QED BY <1>1, <1>3, <1>4 DEF r

-----------------------------------------------------------------------------
(* PolicyTrace: a decision function and the reference kept beside it. *)

\* Decide's answer is the latch, in both states of the latch.
LEMMA DecideFollowsLatch ==
  ASSUME NEW r \in Readings, NEW was \in BOOLEAN
  PROVE  Decide(r, was).low =
           CASE ~Usable(r) \/ r.capacity <= LowPercent -> TRUE
             [] Usable(r) /\ r.capacity >= RecoveryPercent -> FALSE
             [] OTHER -> was
<1>1. r.capacity \in Int
  BY DEF Readings
<1>2. Decide(r, was).low = IsLow(r, was)
  BY DEF Decide
<1>3. CASE ~Usable(r) \/ r.capacity <= LowPercent
  <2>1. IsLow(r, was) = TRUE
    BY <1>1, <1>3, ThresholdAssumption DEF IsLow
  <2>2. ~(Usable(r) /\ r.capacity >= RecoveryPercent)
    BY <1>1, <1>3, ThresholdAssumption
  <2> QED BY <1>2, <1>3, <2>1, <2>2
<1>4. CASE Usable(r) /\ r.capacity >= RecoveryPercent
  <2>1. IsLow(r, was) = FALSE /\ ~(r.capacity <= LowPercent)
    BY <1>1, <1>4, ThresholdAssumption DEF IsLow
  <2> QED BY <1>2, <1>4, <2>1
<1>5. CASE Usable(r) /\ ~(r.capacity <= LowPercent) /\ ~(r.capacity >= RecoveryPercent)
  <2>1. CASE was = TRUE
    BY <1>1, <1>2, <1>5, <2>1, ThresholdAssumption DEF IsLow
  <2>2. CASE was = FALSE
    BY <1>1, <1>2, <1>5, <2>2, ThresholdAssumption DEF IsLow
  <2> QED BY <2>1, <2>2
<1> QED BY <1>3, <1>4, <1>5

\* The decision is always the answer to the last reading, and agrees with the
\* latch.
BatteryTrace ==
  /\ latch \in BOOLEAN /\ reading \in Readings
  /\ decision.low = latch
  /\ \E was \in BOOLEAN : decision = Decide(reading, was)

\* The table's first five entries are the doubling; from the fourth failure on
\* both have reached the cap or are one step away from it.
BackoffTrace ==
  /\ failures \in Nat
  /\ backoff = RetryInterval(AtLeast(1, failures))

\* The distance from the last scheduled full refresh is the remainder of the
\* counter; forced ones in between only shorten the runs of partial refreshes.
CadenceTrace ==
  /\ rendered \in Nat /\ clean \in BOOLEAN
  /\ since = rendered % FullRefreshEvery
  /\ gap \in Nat /\ gap <= since

RateTrace == rate \in Int /\ interval = RefreshInterval(rate)

TraceInv == BatteryTrace /\ BackoffTrace /\ CadenceTrace /\ RateTrace

LEMMA TraceInit == Init => TraceInv
<1> SUFFICES ASSUME Init PROVE TraceInv
  OBVIOUS
<1>1. Adequate \in Readings /\ Usable(Adequate)
  BY DEF Adequate, Readings, Statuses, Usable, Legible
<1>2. BatteryTrace
  <2>1. IsLow(Adequate, FALSE) = FALSE
    BY <1>1, ThresholdAssumption DEF Adequate, IsLow
  <2>2. Decide(Adequate, FALSE).low = FALSE
    BY <2>1 DEF Decide
  <2> QED BY <1>1, <2>2 DEF Init, BatteryTrace
<1>3. BackoffTrace
  BY DEF Init, BackoffTrace, RetryInterval, RetrySteps, AtMost, AtLeast
<1>4. CadenceTrace
  <2>1. rendered = 0 /\ since = 0 /\ gap = 0 /\ clean = FALSE
    BY DEF Init
  <2>2. 0 = 0 % FullRefreshEvery
    BY CadenceAssumption
  <2>3. since = rendered % FullRefreshEvery
    BY <2>1, <2>2
  <2>4. rendered \in Nat /\ gap \in Nat /\ gap <= since
    BY <2>1
  <2>5. clean \in BOOLEAN
    BY <2>1
  <2> QED BY <2>3, <2>4, <2>5 DEF CadenceTrace
<1>5. RateTrace
  BY DEF Init, RateTrace
<1> QED BY <1>2, <1>3, <1>4, <1>5 DEF TraceInv

LEMMA TraceStep == TraceInv /\ [Next]_vars => TraceInv'
<1> SUFFICES ASSUME TraceInv, [Next]_vars PROVE TraceInv'
  OBVIOUS
<1>1. BatteryTrace'
  <2>1. ASSUME NEW r \in Samples, Sample(r) PROVE BatteryTrace'
    <3>1. r \in Readings /\ latch \in BOOLEAN /\ decision.low = latch
      BY TraceAssumption DEF TraceInv, BatteryTrace
    <3>2. reading' = r /\ decision' = Decide(r, latch)
      BY <2>1, <3>1 DEF Sample
    <3>3. decision'.low = latch'
      BY <2>1, <3>1, <3>2, DecideFollowsLatch DEF Sample
    <3>4. latch' \in BOOLEAN
      BY <2>1, <3>1 DEF Sample
    <3> QED BY <3>1, <3>2, <3>3, <3>4 DEF BatteryTrace
  <2>2. CASE UNCHANGED <<reading, decision, latch>>
    BY <2>2 DEF TraceInv, BatteryTrace
  <2> QED BY <2>1, <2>2 DEF Next, vars, FailAgain, Succeed, RenderUpdate, Spoil, Respond
<1>2. BackoffTrace'
  <2>1. CASE FailAgain
    <3>1. failures \in Nat /\ failures' = failures + 1
          /\ backoff = RetryInterval(AtLeast(1, failures))
          /\ backoff' = IF failures = 0 THEN 5 ELSE AtMost(60, 2 * backoff)
      BY <2>1 DEF FailAgain, TraceInv, BackoffTrace
    <3>2. CASE failures \in 0 .. 4
      <4>1. failures \in {0, 1, 2, 3, 4}
        BY <3>2
      <4> QED
        BY <3>1, <4>1 DEF BackoffTrace, RetryInterval, RetrySteps, AtMost, AtLeast
    <3>3. CASE failures > 4
      <4>1. backoff = 60 /\ RetryInterval(AtLeast(1, failures + 1)) = 60
        BY <3>1, <3>3 DEF RetryInterval, RetrySteps, AtMost, AtLeast
      <4> QED BY <3>1, <3>3, <4>1 DEF BackoffTrace, AtMost
    <3> QED BY <3>1, <3>2, <3>3
  <2>2. CASE Succeed
    BY <2>2 DEF Succeed, BackoffTrace, RetryInterval, RetrySteps, AtMost, AtLeast
  <2>3. CASE UNCHANGED <<failures, backoff>>
    BY <2>3 DEF TraceInv, BackoffTrace
  <2> QED BY <2>1, <2>2, <2>3 DEF Next, vars, Sample, RenderUpdate, Spoil, Respond
<1>3. CadenceTrace'
  <2>1. CASE RenderUpdate
    <3>1. /\ rendered \in Nat /\ since = rendered % FullRefreshEvery
          /\ gap \in Nat /\ gap <= since /\ rendered' = rendered + 1 /\ clean' = TRUE
          /\ since' = IF since = FullRefreshEvery - 1 THEN 0 ELSE since + 1
          /\ gap' = IF FullRefresh THEN 0 ELSE gap + 1
      BY <2>1 DEF RenderUpdate, TraceInv, CadenceTrace
    <3>2. since' = (rendered + 1) % FullRefreshEvery
      BY <3>1, NextRemainder, CadenceAssumption
    <3>3. gap' \in Nat /\ gap' <= since'
      <4>1. since = FullRefreshEvery - 1 => FullRefresh
        BY <3>1, NextRemainder, CadenceAssumption DEF FullRefresh, ShouldUseFullRefresh
      <4> QED BY <3>1, <4>1
    <3> QED BY <3>1, <3>2, <3>3 DEF CadenceTrace
  <2>2. CASE Spoil
    BY <2>2 DEF Spoil, TraceInv, CadenceTrace
  <2>3. CASE UNCHANGED <<rendered, clean, since, gap>>
    BY <2>3 DEF TraceInv, CadenceTrace
  <2> QED
    BY <2>1, <2>2, <2>3 DEF Next, vars, updates, Sample, FailAgain, Succeed, Respond
<1>4. RateTrace'
  <2>1. ASSUME NEW r \in Rates, Respond(r) PROVE RateTrace'
    BY <2>1, TraceAssumption DEF Respond, RateTrace
  <2>2. CASE UNCHANGED <<rate, interval>>
    BY <2>2 DEF TraceInv, RateTrace
  <2> QED BY <2>1, <2>2 DEF Next, vars, Sample, FailAgain, Succeed, RenderUpdate, Spoil
<1> QED BY <1>1, <1>2, <1>3, <1>4 DEF TraceInv

LEMMA TraceInvariant == Spec => []TraceInv
BY TraceInit, TraceStep, PTL DEF Spec

\* The hysteresis of Decide over any sequence of samples is the latch that the
\* two thresholds describe: unreadable samples switch it on and never off.
THEOREM DecideLatches == Spec => []HysteresisLatches
<1>1. TraceInv => HysteresisLatches
  BY DEF TraceInv, BatteryTrace, HysteresisLatches
<1> QED BY <1>1, TraceInvariant, PTL

\* Along every history a poweroff is decided only on a readable, discharging
\* battery at the critical level, with protection on.
THEOREM PoweroffJustified == Spec => []ShutdownJustified
<1>1. TraceInv => ShutdownJustified
  <2> SUFFICES ASSUME TraceInv, decision.shutdown
               PROVE  latch /\ reading.status = "discharging"
                      /\ reading.capacity \in 0 .. CriticalPercent
    BY DEF ShutdownJustified
  <2>1. PICK was \in BOOLEAN : decision = Decide(reading, was)
    BY DEF TraceInv, BatteryTrace
  <2>2. reading \in Readings /\ decision.low = latch
    BY DEF TraceInv, BatteryTrace
  <2> QED BY <2>1, <2>2, ShutdownOnlyWhenCritical
<1> QED BY <1>1, TraceInvariant, PTL

\* The loop that doubles the interval and the table agree after any number of
\* failures, also past the cap.
THEOREM DoublingIsTheTable == Spec => []BackoffDoubles
<1>1. TraceInv => BackoffDoubles
  BY DEF TraceInv, BackoffTrace, BackoffDoubles, AtLeast
<1> QED BY <1>1, TraceInvariant, PTL

\* For every cadence and every history of updates, local screens and reboots
\* fewer partial refreshes follow each other than the cadence allows; and an
\* update over a clean panel is full exactly when it is the cadence's turn,
\* which the forced refreshes do not move.
THEOREM RefreshesEvenly == Spec => []CadenceKept
<1>1. TraceInv => CadenceKept
  <2> SUFFICES ASSUME TraceInv PROVE CadenceKept
    OBVIOUS
  <2>1. /\ rendered \in Nat /\ since = rendered % FullRefreshEvery
        /\ gap \in Nat /\ gap <= since
    BY DEF TraceInv, CadenceTrace
  <2>2. /\ since \in 0 .. FullRefreshEvery - 1
        /\ (rendered + 1) % FullRefreshEvery
             = IF since = FullRefreshEvery - 1 THEN 0 ELSE since + 1
    BY <2>1, NextRemainder, CadenceAssumption
  <2>3. gap < FullRefreshEvery
    BY <2>1, <2>2, CadenceAssumption
  <2>4. clean => (FullRefresh <=> since = FullRefreshEvery - 1)
    BY <2>2, CadenceAssumption DEF FullRefresh, ShouldUseFullRefresh
  <2> QED BY <2>3, <2>4 DEF CadenceKept
<1> QED BY <1>1, TraceInvariant, PTL

\* No response moves the interval out of the configured bounds, a rate inside
\* them is obeyed, and no rate means the fallback, which is inside them too.
THEOREM ServerObeyed == Spec => []RateRespected
<1>1. TraceInv => RateRespected
  <2> SUFFICES ASSUME TraceInv PROVE RateRespected
    OBVIOUS
  <2>1. rate \in Int /\ interval = RefreshInterval(rate)
    BY DEF TraceInv, RateTrace
  <2>2. rate <= 0 => RefreshInterval(rate) = RefreshFallback
    BY <2>1, IntervalAssumption DEF RefreshInterval, AtLeast, AtMost
  <2> QED BY <2>1, <2>2, IntervalBounded DEF RateRespected
<1> QED BY <1>1, TraceInvariant, PTL

-----------------------------------------------------------------------------
(* Radio. *)

\* A BringUp that reports success has the link up, and an rfkill block that a
\* previous BringDown left is gone, from every state of the radio.
THEOREM UpIsUp ==
  ASSUME ~CustomUp, NEW r \in Radios, NEW s \in Radios, BringUp(r, s, TRUE)
  PROVE  s.present /\ s.link /\ (Supported /\ HasRfkill => ~s.blocked)
<1>1. PICK t \in Radios, u \in Radios :
        Ensure(r, t) /\ Unblock(t, u, TRUE) /\ RaiseLink(u, s, TRUE)
  BY DEF BringUp
<1>2. Supported /\ HasRfkill => ~u.blocked
  BY <1>1 DEF Unblock, Radios
<1>3. PICK v \in Radios : SetLink(u, v, TRUE, TRUE) /\ AfterUp(v, s)
  BY <1>1 DEF RaiseLink
<1>4. v.present /\ v.link /\ v.blocked = u.blocked
  BY <1>3 DEF SetLink, Radios
<1>5. s.present = v.present /\ s.link = v.link /\ s.blocked = v.blocked
  BY <1>3 DEF AfterUp, Radios
<1> QED BY <1>2, <1>4, <1>5

\* A BringDown that reports success has the link down, and one that fails has
\* not raised anything: an interface that is left over was there before, and a
\* link that is still up was up before and its error is the one returned.
THEOREM DownIsDown ==
  ASSUME ~CustomDown, NEW r \in Radios, NEW s \in Radios, NEW ok \in BOOLEAN,
         BringDown(r, s, ok)
  PROVE  (s.link => r.link /\ ~ok) /\ (s.present => r.present)
<1>1. PICK t \in Radios : LowerLink(r, t, ok) /\ Stop(t, s)
  BY DEF BringDown
<1>2. (t.link => r.link /\ ~ok) /\ t.present = r.present
  <2>1. CASE t = [r EXCEPT !.link = FALSE]
    BY <2>1 DEF Radios
  <2>2. CASE ~ok /\ t = [r EXCEPT !.link = r.link]
    BY <2>2 DEF Radios
  <2> QED BY <1>1, <2>1, <2>2 DEF LowerLink, SetLink
<1>3. CASE Supported
  <2>1. PICK w \in {FALSE, t.wpa}, b \in {TRUE, t.blocked} :
          Unbind([t EXCEPT !.wpa = w, !.blocked = IF HasRfkill THEN b ELSE @], s)
    BY <1>1, <1>3 DEF Stop
  <2>2. s.link \in {t.link, FALSE} /\ s.present \in {t.present, FALSE}
    BY <2>1 DEF Unbind, Radios
  <2> QED BY <1>2, <2>2
<1>4. CASE ~Supported
  BY <1>1, <1>2, <1>4 DEF Stop
<1> QED BY <1>3, <1>4

\* BringUp may fail with the radio powered, from off: a bound driver and a
\* failing link.  Nobody owes it a BringDown, which is why Cycle lets a failing
\* acquisition leave the radio on.
THEOREM FailureLeavesPower ==
  ASSUME ~CustomUp, Supported, NEW r \in Radios, Off(r)
  PROVE  \E s \in Radios : BringUp(r, s, FALSE) /\ ~Off(s)
<1> DEFINE t == [r EXCEPT !.present = TRUE]
           u == [t EXCEPT !.blocked = IF HasRfkill THEN FALSE ELSE r.blocked]
<1>1. t \in Radios /\ u \in Radios /\ u.present
  BY DEF Radios
<1>2. Ensure(r, t)
  <2>1. r.present \in BOOLEAN /\ ~r.present
    BY DEF Off, Radios
  <2> QED BY <2>1 DEF Ensure
<1>3. Unblock(t, u, TRUE)
  BY DEF Unblock, Radios
<1>4. SetLink(u, u, TRUE, FALSE)
  BY <1>1 DEF SetLink, Radios
<1>5. RaiseLink(u, u, FALSE)
  BY <1>1, <1>4 DEF RaiseLink
<1>6. BringUp(r, u, FALSE)
  BY <1>1, <1>2, <1>3, <1>5 DEF BringUp
<1> QED BY <1>1, <1>6 DEF Off

\* BringDown may report success with the radio powered: the driver stays bound
\* when the write to unbind it fails.  Cycle's best-effort cleanup covers it.
THEOREM SuccessMayLeavePower ==
  ASSUME ~CustomDown, Supported, NEW r \in Radios, r.present
  PROVE  \E s \in Radios : BringDown(r, s, TRUE) /\ ~Off(s)
<1> DEFINE t == [r EXCEPT !.link = FALSE]
<1>1. t \in Radios /\ t.present
  BY DEF Radios
<1>2. LowerLink(r, t, TRUE)
  BY DEF LowerLink, SetLink
<1>3. Stop(t, t)
  <2>1. t = [t EXCEPT !.wpa = t.wpa, !.blocked = IF HasRfkill THEN t.blocked ELSE @]
    BY <1>1 DEF Radios
  <2>2. t.wpa \in {FALSE, t.wpa} /\ t.blocked \in {TRUE, t.blocked}
    OBVIOUS
  <2>3. Unbind(t, t)
    BY DEF Unbind
  <2> QED BY <1>1, <2>1, <2>2, <2>3 DEF Stop
<1> QED BY <1>1, <1>2, <1>3 DEF BringDown, Off

-----------------------------------------------------------------------------
(* Raster. *)

\* Turning a picture keeps every pixel and moves it to one place on the turned
\* picture: nothing is lost, doubled or taken from outside.
THEOREM TurnKeepsPixels ==
  ASSUME NEW p \in Pictures
  PROVE  /\ Turn(p) \in Pictures
         /\ \A q \in Area(p.w, p.h) :
              /\ <<p.h - 1 - q[2], q[1]>> \in Area(p.h, p.w)
              /\ Turn(p).at[<<p.h - 1 - q[2], q[1]>>] = p.at[<<p.x + q[1], p.y + q[2]>>]
<1>1. ASSUME NEW q \in Int \X Int
      PROVE  <<p.x + q[2], p.y + p.h - 1 - q[1]>> \in Int \X Int
  BY DEF Pictures, Size
<1>2. Turn(p) \in Pictures
  BY <1>1 DEF Turn, Pictures, Size
<1>3. ASSUME NEW q \in Area(p.w, p.h)
      PROVE  /\ <<p.h - 1 - q[2], q[1]>> \in Area(p.h, p.w)
             /\ Turn(p).at[<<p.h - 1 - q[2], q[1]>>] = p.at[<<p.x + q[1], p.y + q[2]>>]
  <2>1. q[1] \in 0 .. p.w - 1 /\ q[2] \in 0 .. p.h - 1 /\ p.w \in Nat /\ p.h \in Nat
        /\ p.x \in Int /\ p.y \in Int
    BY DEF Area, Pictures, Size
  <2>2. <<p.h - 1 - q[2], q[1]>> \in Area(p.h, p.w)
    BY <2>1 DEF Area
  <2>3. p.y + p.h - 1 - (p.h - 1 - q[2]) = p.y + q[2]
    BY <2>1
  <2>4. <<p.h - 1 - q[2], q[1]>> \in Int \X Int
    BY <2>1
  <2> QED BY <2>2, <2>3, <2>4 DEF Turn
<1> QED BY <1>2, <1>3

\* Four quarter turns are none: fbink_rotation means the same modulo 4, also
\* for the negative numbers that a configuration may give.
THEOREM FourTurns ==
  ASSUME NEW p \in Pictures, p.x = 0, p.y = 0
  PROVE  Turn(Turn(Turn(Turn(p)))) = p
<1>1. ASSUME NEW r \in Pictures, NEW q \in Int \X Int, r.x = 0, r.y = 0
      PROVE  Turn(r).at[q] = r.at[<<q[2], r.h - 1 - q[1]>>]
  BY <1>1 DEF Turn, Pictures, Size
<1> DEFINE a == Turn(p)  b == Turn(a)  c == Turn(b)  d == Turn(c)
<1>2. a \in Pictures /\ b \in Pictures /\ c \in Pictures /\ d \in Pictures
  BY TurnKeepsPixels
<1>3. /\ a.x = 0 /\ a.y = 0 /\ a.w = p.h /\ a.h = p.w
      /\ b.x = 0 /\ b.y = 0 /\ b.w = p.w /\ b.h = p.h
      /\ c.x = 0 /\ c.y = 0 /\ c.w = p.h /\ c.h = p.w
      /\ d.x = 0 /\ d.y = 0 /\ d.w = p.w /\ d.h = p.h
  BY DEF Turn
<1>4. ASSUME NEW q \in Int \X Int PROVE d.at[q] = p.at[q]
  <2>1. q[1] \in Int /\ q[2] \in Int /\ p.w \in Int /\ p.h \in Int /\ q = <<q[1], q[2]>>
    BY DEF Pictures, Size
  <2> DEFINE q1 == <<q[2], p.w - 1 - q[1]>>
             q2 == <<p.w - 1 - q[1], p.h - 1 - q[2]>>
             q3 == <<p.h - 1 - q[2], q[1]>>
  <2>2. q1 \in Int \X Int /\ q2 \in Int \X Int /\ q3 \in Int \X Int
    BY <2>1
  <2> HIDE DEF a, b, c, d
  <2>3. d.at[q] = c.at[q1]
    BY <1>1, <1>2, <1>3 DEF d
  <2>4. c.at[q1] = b.at[<<q1[2], p.h - 1 - q1[1]>>]
    BY <1>1, <1>2, <1>3, <2>2 DEF c
  <2>5. b.at[q2] = a.at[<<q2[2], p.w - 1 - q2[1]>>]
    BY <1>1, <1>2, <1>3, <2>2 DEF b
  <2>6. a.at[q3] = p.at[<<q3[2], p.h - 1 - q3[1]>>]
    BY <1>1, <1>3, <2>2 DEF a
  <2>7. /\ <<q1[2], p.h - 1 - q1[1]>> = q2
        /\ <<q2[2], p.w - 1 - q2[1]>> = q3
        /\ <<q3[2], p.h - 1 - q3[1]>> = q
    BY <2>1
  <2> QED BY <2>3, <2>4, <2>5, <2>6, <2>7
<1> HIDE DEF a, b, c
<1>5. d.at = p.at
  BY <1>2, <1>4 DEF Pictures
<1>6. d = p
  BY <1>2, <1>3, <1>5 DEF Pictures
<1> QED BY <1>6 DEF a, b, c

\* Every pixel of the panel shows a pixel of the image at its own place: the
\* crop leaves the whole panel inside the image, whatever the two sizes are, so
\* that taking the nearest pixel never smears an edge over several columns or
\* rows.  This is where the origin counts: of a decoded frame that does not
\* start at 0 the code takes the pixels as if it did.
THEOREM SamplesInside ==
  ASSUME NEW p \in Pictures, NEW w \in Size, NEW h \in Size,
         NEW x \in 0 .. w - 1, NEW y \in 0 .. h - 1
  PROVE  SourceX(p, w, h, x) \in 0 .. p.w - 1 /\ SourceY(p, w, h, y) \in 0 .. p.h - 1
<1>1. /\ p.w \in Size /\ p.h \in Size /\ w \in Nat /\ h \in Nat /\ w > 0 /\ h > 0
      /\ x \in Nat /\ y \in Nat /\ x <= w - 1 /\ y <= h - 1
  BY DEF Pictures, Size
\* Along the other side.
<1>2. ASSUME NEW b \in Size, NEW n \in Size, NEW z \in Nat, z < n
      PROVE  (z * b) \div n \in 0 .. b - 1
  <2> DEFINE t == z * b
  <2>1. t \in Int /\ 0 <= t /\ t < n * b
    BY <1>2 DEF Size
  <2> HIDE DEF t
  <2>2. t \div n \in 0 .. b - 1
    BY <2>1, DivisionBound
  <2> QED BY <2>2 DEF t
\* Along the cropped side, for a picture of side a over b and a panel of n over m.
<1>3. ASSUME NEW a \in Size, NEW b \in Size, NEW n \in Size, NEW m \in Size,
             n * a <= m * b, NEW z \in Nat, z < n
      PROVE  (2 * z * a + (b * m - n * a)) \div (2 * m) \in 0 .. b - 1
  <2> DEFINE e == b * m - n * a
             t == 2 * z * a + e
  <2>1. z * a \in Nat /\ n * a \in Nat /\ m * b \in Nat /\ b * m = m * b
    BY <1>3 DEF Size
  <2>2. z * a + a <= n * a
    <3>1. (z + 1) * a <= n * a
      BY <1>3 DEF Size
    <3> QED BY <3>1 DEF Size
  <2>3. 2 * z * a = 2 * (z * a)
    BY <1>3 DEF Size
  <2>4. t \in Int /\ 0 <= t
    BY <1>3, <2>1, <2>3
  <2>5. t <= n * a - 2 * a + m * b
    BY <2>1, <2>2, <2>3 DEF Size
  <2>6. t < 2 * (m * b)
    BY <1>3, <2>1, <2>5, <2>4 DEF Size
  <2>7. 2 * m \in Size /\ 2 * (m * b) = (2 * m) * b
    BY <1>3 DEF Size
  <2> HIDE DEF t
  <2>8. t \div (2 * m) \in 0 .. b - 1
    BY <2>4, <2>6, <2>7, DivisionBound
  <2> QED BY <2>8 DEF t
<1>4. CASE ByWidth(p, w, h)
  <2>1. (x * p.w) \div w \in 0 .. p.w - 1
    <3>1. x < w
      BY <1>1
    <3> QED BY <1>1, <1>2, <3>1
  <2>2. h * p.w <= w * p.h
    BY <1>1, <1>4 DEF ByWidth, Size
  <2>3. (2 * y * p.w + (p.h * w - h * p.w)) \div (2 * w) \in 0 .. p.h - 1
    <3>1. y < h
      BY <1>1
    <3> QED BY <1>1, <1>3, <2>2, <3>1
  <2> QED BY <1>4, <2>1, <2>3 DEF SourceX, SourceY
<1>5. CASE ~ByWidth(p, w, h)
  <2>1. (y * p.h) \div h \in 0 .. p.h - 1
    <3>1. y < h
      BY <1>1
    <3> QED BY <1>1, <1>2, <3>1
  <2>2. w * p.h <= h * p.w
    BY <1>1, <1>5 DEF ByWidth, Size
  <2>3. (2 * x * p.h + (p.w * h - w * p.h)) \div (2 * h) \in 0 .. p.w - 1
    <3>1. x < w
      BY <1>1
    <3> QED BY <1>1, <1>3, <2>2, <3>1
  <2> QED BY <1>5, <2>1, <2>3 DEF SourceX, SourceY
<1> QED BY <1>4, <1>5

\* An image of the panel's size is shown pixel for pixel: no rounding in the
\* scaling moves a column or a row.
THEOREM FitIsExact ==
  ASSUME NEW p \in Pictures, p.x = 0, p.y = 0,
         NEW x \in 0 .. p.w - 1, NEW y \in 0 .. p.h - 1
  PROVE  Fit(p, p.w, p.h).at[<<x, y>>] = p.at[<<x, y>>]
<1>1. /\ p.w \in Size /\ p.h \in Size /\ x \in Nat /\ y \in Nat
      /\ x < p.w /\ y < p.h
  BY DEF Pictures, Size
<1>2. p.w * p.h \in Int /\ p.h * p.w = p.w * p.h
  BY <1>1 DEF Size
<1>3. ByWidth(p, p.w, p.h)
  BY <1>2 DEF ByWidth
<1>4. SourceX(p, p.w, p.h, x) = x
  BY <1>1, <1>3, DivisionExact DEF SourceX
<1>5. SourceY(p, p.w, p.h, y) = y
  <2>1. 2 * p.w \in Size /\ 2 * y * p.w = y * (2 * p.w) /\ y * (2 * p.w) \in Int
    BY <1>1 DEF Size
  <2>2. 2 * y * p.w + (p.h * p.w - p.h * p.w) = y * (2 * p.w)
    BY <1>2, <2>1
  <2>3. (y * (2 * p.w)) \div (2 * p.w) = y
    BY <1>1, <2>1, DivisionExact
  <2> QED BY <1>3, <2>2, <2>3 DEF SourceY
<1>6. Nearest(x, p.x, p.w) = x /\ Nearest(y, p.y, p.h) = y
  BY <1>1 DEF Nearest, Size
<1>7. <<x, y>> \in Int \X Int
  BY <1>1
<1> QED BY <1>4, <1>5, <1>6, <1>7 DEF Fit

LEMMA CanvasType ==
  ASSUME White \in Pixels, NEW cached \in Pictures
  PROVE  Canvas(cached) \in Pictures /\ Blank \in Pictures
<1> DEFINE p == Landscape(cached)
<1>1. p \in Pictures
  BY TurnKeepsPixels DEF Landscape
<1> HIDE DEF p
<1>2. StatusWidth \in Size /\ StatusHeight \in Size
  BY DEF StatusWidth, StatusHeight, Size
<1>3. ASSUME NEW w \in Size, NEW h \in Size PROVE Fit(p, w, h) \in Pictures
  <2>1. /\ p.w \in Size /\ p.h \in Size /\ p.x \in Int /\ p.y \in Int
        /\ p.at \in [Int \X Int -> Pixels]
    BY <1>1 DEF Pictures
  <2>2. ASSUME NEW a \in Int, NEW b \in Size PROVE a \div b \in Int
    BY DEF Size
  <2>3. ASSUME NEW z \in Int
        PROVE  SourceX(p, w, h, z) \in Int /\ SourceY(p, w, h, z) \in Int
    <3>1. /\ z * p.w \in Int /\ 2 * z * p.h + (p.w * h - w * p.h) \in Int /\ 2 * h \in Size
          /\ z * p.h \in Int /\ 2 * z * p.w + (p.h * w - h * p.w) \in Int /\ 2 * w \in Size
      BY <2>1 DEF Size
    <3>2. /\ (z * p.w) \div w \in Int
          /\ (2 * z * p.h + (p.w * h - w * p.h)) \div (2 * h) \in Int
          /\ (z * p.h) \div h \in Int
          /\ (2 * z * p.w + (p.h * w - h * p.w)) \div (2 * w) \in Int
      BY <2>2, <3>1
    <3> QED BY <3>2 DEF SourceX, SourceY
  <2>4. ASSUME NEW n \in Int, NEW first \in Int, NEW size \in Size
        PROVE  Nearest(n, first, size) \in Int
    BY DEF Nearest, Size
  <2>5. ASSUME NEW q \in Int \X Int
        PROVE  <<Nearest(SourceX(p, w, h, q[1]), p.x, p.w),
                 Nearest(SourceY(p, w, h, q[2]), p.y, p.h)>> \in Int \X Int
    BY <2>1, <2>3, <2>4
  <2> QED BY <2>1, <2>5 DEF Fit, Pictures
<1>4. Blank \in Pictures
  BY <1>2 DEF Blank, Pictures
<1> QED BY <1>2, <1>3, <1>4 DEF Canvas, Prepared, p

\* A status screen goes through the same preparation as the server's images.
\* On a panel of the default size that keeps it pixel for pixel: the banner and
\* below it the cached image, whatever was cached, or white.
THEOREM StatusIsShown ==
  ASSUME White \in Pixels, Ink \in Pixels,
         NEW cached \in Pictures, NEW canvas \in {Blank, Canvas(cached)}, NEW text,
         Width = StatusWidth, Height = StatusHeight,
         NEW x \in 0 .. Width - 1, NEW y \in 0 .. Height - 1
  PROVE  Prepared(Status(text, canvas), Width, Height).at[<<x, y>>] =
           IF y < BannerHeight
           THEN IF <<x \div 6, y \div 6>> \in text THEN Ink ELSE White
           ELSE canvas.at[<<x, y>>]
<1>1. /\ canvas \in Pictures /\ canvas.x = 0 /\ canvas.y = 0
      /\ canvas.w = StatusWidth /\ canvas.h = StatusHeight
  <2>1. Blank \in Pictures /\ Canvas(cached) \in Pictures
    BY CanvasType
  <2>2. /\ Blank.x = 0 /\ Blank.y = 0
        /\ Blank.w = StatusWidth /\ Blank.h = StatusHeight
    BY DEF Blank
  <2>3. /\ Canvas(cached).x = 0 /\ Canvas(cached).y = 0
        /\ Canvas(cached).w = StatusWidth /\ Canvas(cached).h = StatusHeight
    BY DEF Canvas, Prepared, Fit
  <2> QED BY <2>1, <2>2, <2>3
<1> DEFINE s == Status(text, canvas)
<1>2. s \in Pictures /\ s.x = 0 /\ s.y = 0 /\ s.w = Width /\ s.h = Height
  BY <1>1 DEF Status, Pictures
<1>3. Landscape(s) = s
  BY <1>2 DEF Landscape, StatusWidth, StatusHeight
<1>4. Prepared(s, Width, Height) = Fit(s, s.w, s.h)
  BY <1>2, <1>3 DEF Prepared
<1>5. Fit(s, s.w, s.h).at[<<x, y>>] = s.at[<<x, y>>]
  BY <1>2, FitIsExact
<1>6. <<x, y>> \in Int \X Int
  BY DEF StatusWidth, StatusHeight
<1> QED BY <1>4, <1>5, <1>6 DEF Status
=============================================================================
