----------------------------- MODULE AdcsProofs -----------------------------
(***************************************************************************)
(* Proofs about Adcs, for any readings, commands, thresholds and bounds:   *)
(* the types, and the three action properties of the mode machine.         *)
(*                                                                         *)
(* What adcs_manager_update makes of its record is stated once, as lemmas  *)
(* on the functions it is made of.  The properties then follow from where  *)
(* the tasks stand: whatever the control task relied on in its update is   *)
(* still so when it drives the coils, since only the sensor task runs in   *)
(* between; and the packets behind the count of Sun acquisition are told   *)
(* apart by the order of their timestamps.                                 *)
(***************************************************************************)
EXTENDS Adcs, TLAPS

-----------------------------------------------------------------------------
(***************************************************************************)
(* Constants and ages.                                                     *)
(***************************************************************************)
\* The thresholds are numbers, and Old is an age none of them reaches.
LEMMA OldFacts ==
  /\ Old \in Nat /\ Old > 1 /\ MaxLag \in Nat /\ Stale \in Nat /\ FixAge \in Nat
  /\ FaultStale \in Nat /\ Stale + MaxLag < Old /\ MaxLag < Old
  /\ SunSettle \in Nat /\ SunSettle > 0 /\ DetumbleSettle \in Nat /\ DetumbleSettle > 0
  /\ SlewSettle \in Nat /\ SlewSettle > 0 /\ QueueLength \in Nat
  /\ MaxCommands \in Nat /\ MaxUpsets \in Nat
  BY ThresholdAssumption DEF Old

\* A tick keeps an age an age.
LEMMA OlderFacts ==
  ASSUME NEW a \in Ages
  PROVE  /\ Older(a) \in Ages /\ Older(a) \in Nat /\ Older(a) <= Old
         /\ a < Old => Older(a) = a + 1
         /\ a >= Old => Older(a) = a
  BY OldFacts DEF Older, Ages

\* A tick keeps the order of two ages, and never separates what was equal.
LEMMA OlderOrder ==
  ASSUME NEW a \in Ages, NEW b \in Ages
  PROVE  /\ a <= b => Older(a) <= Older(b)
         /\ Older(a) < Older(b) => a < b
  BY OldFacts DEF Older, Ages

\* No sensor reading is the absence of one.
LEMMA ReadingFacts == Nothing \notin Readings /\ "nominal" \in Readings
  BY InputAssumption DEF Nothing, Scenes

-----------------------------------------------------------------------------
(***************************************************************************)
(* adcs_manager_update.                                                    *)
(***************************************************************************)
\* enter_mode changes nothing but the mode's own bookkeeping, and that only when
\* the mode is a new one.
LEMMA EnterFacts ==
  ASSUME NEW s \in Manager, NEW m \in Modes, latest_sensors.age \in Ages
  PROVE  LET e == enter_mode(s, m) IN
         /\ e \in Manager /\ e.mode = m /\ e.requested = s.requested
         /\ s.mode = m => e = s
         /\ s.mode # m => /\ e.entered = latest_sensors.age
                          /\ e.stable = 0 /\ e.counted = Old
<1>1. CASE s.mode = m BY <1>1 DEF enter_mode
<1>2. CASE s.mode # m
  <2>1. enter_mode(s, m) = [s EXCEPT !.mode = m, !.entered = latest_sensors.age,
                                     !.stable = 0, !.counted = Old]
    BY <1>2 DEF enter_mode
  <2>2. Old \in Ages BY OldFacts DEF Ages
  <2> DEFINE a == latest_sensors.age
             r == [s EXCEPT !.mode = m, !.entered = a, !.stable = 0, !.counted = Old]
  <2>3. a \in Ages /\ 0 \in Nat OBVIOUS
  <2> HIDE DEF a
  <2>4. r \in Manager BY <2>2, <2>3 DEF Manager
  <2>5. r.mode = m /\ r.requested = s.requested BY DEF Manager
  <2>6. r.entered = a BY DEF Manager
  <2>7. r.stable = 0 /\ r.counted = Old BY DEF Manager
  <2>8. enter_mode(s, m) = r BY <2>1 DEF a
  <2> HIDE DEF r
  <2> QED BY <1>2, <2>4, <2>5, <2>6, <2>7, <2>8 DEF a
<1> QED BY <1>1, <1>2

\* refresh_builtin_target changes nothing but the target.
LEMMA RefreshFacts ==
  ASSUME NEW s \in Manager
  PROVE  LET r == refresh_builtin_target(s) IN
         /\ r \in Manager /\ r.mode = s.mode /\ r.requested = s.requested
         /\ r.entered = s.entered /\ r.stable = s.stable /\ r.counted = s.counted
  BY DEF refresh_builtin_target, Manager

\* The body rate is one of four classes.
LEMMA RateFacts == body_rate \in 0..3
  BY DEF body_rate

\* The modes are distinct, and a requested mode is one of them.
LEMMA ModeFacts ==
  /\ {"SAFE", "DETUMBLE", "SUN_ACQUISITION", "SUN_POINTING", "SLEWING",
      "TARGET_POINTING", "BOOT", "EARTH_POINTING", "SCIENCE"} = Modes
  /\ \A s \in Manager : s.requested \in Modes /\ s.requested # "BOOT" /\ s.mode \in Modes
  BY DEF Modes, Manager

\* A mode that needs the attitude is only allowed with a usable one.
LEMMA AllowedFacts ==
  ASSUME NEW m \in Modes, NEW lag, transition_is_allowed(m, lag),
         mode_needs_attitude(m)
  PROVE  attitude_usable(lag)
  BY DEF transition_is_allowed, mode_needs_attitude, Modes

\* choose_mode leaves the mode alone or enters the one that the request, the body
\* rate and the tests of the manager name.
LEMMA ChooseFacts ==
  ASSUME NEW s \in Manager, NEW lag, latest_sensors.age \in Ages
  PROVE  LET c == choose_mode(s, lag) IN
         /\ c \in Manager /\ c.requested = s.requested
         /\ s.requested = "SAFE" => c.mode = "SAFE"
         /\ s.requested # "SAFE" /\ body_rate > 1 => c.mode = "DETUMBLE"
         /\ \/ c = s
            \/ /\ c.mode # s.mode /\ c.entered = latest_sensors.age
               /\ c.stable = 0 /\ c.counted = Old
               /\ \/ c.mode = "DETUMBLE" /\ body_rate > 1
                  \/ c.mode = s.requested /\ s.requested = "SAFE"
                  \/ c.mode = s.requested /\ transition_is_allowed(s.requested, lag)
<1> USE RateFacts, ModeFacts
<1>1. CASE s.requested = "SAFE"
  <2>1. choose_mode(s, lag) = enter_mode(s, "SAFE") BY <1>1 DEF choose_mode
  <2> QED BY <1>1, <2>1, EnterFacts
<1>2. CASE s.requested # "SAFE" /\ body_rate > 1
  <2>1. choose_mode(s, lag) = enter_mode(s, "DETUMBLE") BY <1>2 DEF choose_mode
  <2> QED BY <1>2, <2>1, EnterFacts
<1>3. CASE /\ s.requested # "SAFE" /\ ~(body_rate > 1)
           /\ s.mode # "DETUMBLE" /\ transition_is_allowed(s.requested, lag)
  <2>1. choose_mode(s, lag) = enter_mode(s, s.requested) BY <1>3 DEF choose_mode
  <2> QED BY <1>3, <2>1, EnterFacts
<1>4. CASE /\ s.requested # "SAFE" /\ ~(body_rate > 1)
           /\ ~(s.mode # "DETUMBLE" /\ transition_is_allowed(s.requested, lag))
  <2>1. choose_mode(s, lag) = s BY <1>4 DEF choose_mode
  <2> QED BY <1>4, <2>1
<1> QED BY <1>1, <1>2, <1>3, <1>4

\* settle_detumble stays and counts, or leaves for SAFE or for a request that is
\* allowed.
LEMMA DetumbleFacts ==
  ASSUME NEW s \in Manager, NEW lag, latest_sensors.age \in Ages, s.mode = "DETUMBLE"
  PROVE  LET d == settle_detumble(s, lag) IN
         /\ d \in Manager /\ d.requested = s.requested
         /\ \/ d.mode = s.mode /\ d.entered = s.entered /\ d.counted = s.counted
            \/ /\ d.mode # s.mode /\ d.entered = latest_sensors.age
               /\ d.stable = 0 /\ d.counted = Old
               /\ body_rate = 0 /\ s.requested # "DETUMBLE"
               /\ \/ d.mode = "SAFE"
                  \/ d.mode = s.requested /\ transition_is_allowed(s.requested, lag)
<1> USE RateFacts, ModeFacts, OldFacts
<1> DEFINE n == IF body_rate > 0 THEN 0
                ELSE IF s.stable < DetumbleSettle THEN s.stable + 1 ELSE s.stable
           m == IF transition_is_allowed(s.requested, lag) THEN s.requested ELSE "SAFE"
<1>0. n \in Nat /\ (n >= DetumbleSettle => body_rate = 0) BY DEF Manager
<1>1. CASE n >= DetumbleSettle /\ s.requested # "DETUMBLE"
  <2>1. settle_detumble(s, lag) = enter_mode(s, m) BY <1>1 DEF settle_detumble
  <2>2. m \in Modes /\ m # "DETUMBLE" BY <1>1
  <2> HIDE DEF m
  <2>3. m = "SAFE" \/ (m = s.requested /\ transition_is_allowed(s.requested, lag))
    BY DEF m
  <2> QED BY <1>0, <1>1, <2>1, <2>2, <2>3, EnterFacts
<1>2. CASE ~(n >= DetumbleSettle /\ s.requested # "DETUMBLE")
  <2>1. settle_detumble(s, lag) = [s EXCEPT !.stable = n]
    BY <1>2 DEF settle_detumble
  <2> QED BY <1>0, <2>1 DEF Manager
<1> QED BY <1>1, <1>2

\* A control result that settle_sun takes for one of this stay: Mine.  One it has
\* not met yet: New.
Mine(s, lag) == /\ latest_control.source = "SUN_ACQUISITION"
                /\ latest_control.age < s.entered
                /\ Fresh(latest_control.age, lag, Stale)
New(s) == latest_control.age < s.counted

\* settle_sun ends the stay only on a small error in a result that is new.
LEMMA SunFacts ==
  ASSUME NEW s \in Manager, NEW lag, latest_sensors.age \in Ages,
         latest_control.age \in Ages, s.mode = "SUN_ACQUISITION", body_rate <= 1
  PROVE  LET d == settle_sun(s, lag) IN
         /\ d \in Manager
         /\ \/ /\ d.mode = s.mode /\ d.entered = s.entered /\ d.requested = s.requested
               /\ \/ ~Mine(s, lag) /\ d.stable = 0 /\ d.counted = s.counted
                  \/ Mine(s, lag) /\ ~New(s) /\ d = s
                  \/ /\ Mine(s, lag) /\ New(s) /\ ~latest_control.small
                     /\ d.stable = 0 /\ d.counted = latest_control.age
                  \/ /\ Mine(s, lag) /\ New(s) /\ latest_control.small
                     /\ s.stable + 1 < SunSettle
                     /\ d.stable = s.stable + 1 /\ d.counted = latest_control.age
            \/ /\ d.mode = "SUN_POINTING" /\ d.entered = latest_sensors.age
               /\ d.stable = 0 /\ d.counted = Old
               /\ Mine(s, lag) /\ New(s) /\ latest_control.small
               /\ s.stable + 1 >= SunSettle
<1> USE RateFacts, ModeFacts, OldFacts
<1>1. CASE ~Mine(s, lag)
  <2>1. settle_sun(s, lag) = [s EXCEPT !.stable = 0] BY <1>1 DEF settle_sun, Mine
  <2> QED BY <1>1, <2>1 DEF Manager
<1>2. CASE Mine(s, lag) /\ ~New(s)
  <2>1. settle_sun(s, lag) = s BY <1>2 DEF settle_sun, Mine, New
  <2> QED BY <1>2, <2>1
<1>3. CASE Mine(s, lag) /\ New(s) /\ ~latest_control.small
  <2>1. settle_sun(s, lag) = [s EXCEPT !.stable = 0, !.counted = latest_control.age]
    BY <1>3 DEF settle_sun, Mine, New
  <2> DEFINE d == settle_sun(s, lag)
             a == latest_control.age
             k == 0
  <2>2. d \in Manager
    <3>1. a \in Ages /\ k \in Nat BY DEF Manager
    <3>2. d = [s EXCEPT !.stable = k, !.counted = a] BY <2>1
    <3> HIDE DEF a, k, d
    <3>3. [s EXCEPT !.stable = k, !.counted = a] \in Manager BY ONLY <3>1, s \in Manager DEF Manager
    <3> QED BY <3>2, <3>3
  <2>3. d.mode = s.mode /\ d.entered = s.entered /\ d.requested = s.requested
    BY <2>1 DEF Manager
  <2>4. d.stable = 0 /\ d.counted = latest_control.age BY <2>1 DEF Manager
  <2> QED BY <1>3, <2>2, <2>3, <2>4
<1>4. CASE /\ Mine(s, lag) /\ New(s) /\ latest_control.small
           /\ s.stable + 1 < SunSettle
  <2>1. settle_sun(s, lag)
          = [s EXCEPT !.stable = @ + 1, !.counted = latest_control.age]
    BY <1>4 DEF settle_sun, Mine, New
  <2> DEFINE d == settle_sun(s, lag)
             a == latest_control.age
             k == s.stable + 1
  <2>2. d \in Manager
    <3>1. a \in Ages /\ k \in Nat BY DEF Manager
    <3>2. d = [s EXCEPT !.stable = k, !.counted = a] BY <2>1
    <3> HIDE DEF a, k, d
    <3>3. [s EXCEPT !.stable = k, !.counted = a] \in Manager BY ONLY <3>1, s \in Manager DEF Manager
    <3> QED BY <3>2, <3>3
  <2>3. d.mode = s.mode /\ d.entered = s.entered /\ d.requested = s.requested
    BY <2>1 DEF Manager
  <2>4. d.stable = s.stable + 1 /\ d.counted = latest_control.age BY <2>1 DEF Manager
  <2> QED BY <1>4, <2>2, <2>3, <2>4
<1>5. CASE /\ Mine(s, lag) /\ New(s) /\ latest_control.small
           /\ ~(s.stable + 1 < SunSettle)
  <2> DEFINE t == [s EXCEPT !.requested = "SUN_POINTING"]
  <2>1. settle_sun(s, lag) = enter_mode(t, "SUN_POINTING")
    BY <1>5 DEF settle_sun, Mine, New
  <2>2. t \in Manager /\ t.mode = "SUN_ACQUISITION" BY DEF Manager
  <2>3. s.stable \in Nat BY DEF Manager
  <2> HIDE DEF t
  <2> DEFINE d == settle_sun(s, lag)
  <2>4. /\ d \in Manager /\ d.mode = "SUN_POINTING" /\ d.entered = latest_sensors.age
        /\ d.stable = 0 /\ d.counted = Old
    BY <2>1, <2>2, EnterFacts
  <2>5. s.stable + 1 >= SunSettle BY <1>5, <2>3
  <2> QED BY <1>5, <2>4, <2>5
<1> QED BY <1>1, <1>2, <1>3, <1>4, <1>5

\* settle_slew stays, or moves on to TARGET_POINTING.
LEMMA SlewFacts ==
  ASSUME NEW s \in Manager, latest_sensors.age \in Ages, s.mode = "SLEWING"
  PROVE  LET d == settle_slew(s) IN
         /\ d \in Manager
         /\ \/ d = s
            \/ /\ d.mode = "TARGET_POINTING" /\ d.entered = latest_sensors.age
               /\ d.stable = 0 /\ d.counted = Old
<1> DEFINE t == [s EXCEPT !.requested = "TARGET_POINTING"]
<1>1. settle_slew(s) = s \/ settle_slew(s) = enter_mode(t, "TARGET_POINTING")
  BY DEF settle_slew
<1>2. t \in Manager /\ t.mode = "SLEWING" BY ModeFacts DEF Manager
<1> HIDE DEF t
<1> QED BY <1>1, <1>2, EnterFacts, ModeFacts
\* What an update makes of the record s: it entered a mode, or it stayed; in
\* SUN_ACQUISITION the four ways to stay are those of SunFacts.
Entered(d) == /\ d.entered = latest_sensors.age /\ d.counted = Old
              /\ d.mode = "SUN_ACQUISITION" => d.stable = 0

SunCount(s, d, lag) ==
  \/ ~Mine(s, lag) /\ d.stable = 0 /\ d.counted = s.counted
  \/ Mine(s, lag) /\ ~New(s) /\ d.stable = s.stable /\ d.counted = s.counted
  \/ /\ Mine(s, lag) /\ New(s) /\ ~latest_control.small
     /\ d.stable = 0 /\ d.counted = latest_control.age
  \/ /\ Mine(s, lag) /\ New(s) /\ latest_control.small /\ s.stable + 1 < SunSettle
     /\ d.stable = s.stable + 1 /\ d.counted = latest_control.age

Stayed(s, d, lag) ==
  /\ d.mode = s.mode /\ d.entered = s.entered
  /\ s.mode = "SUN_ACQUISITION" => SunCount(s, d, lag)
  /\ s.mode # "SUN_ACQUISITION" => d.counted = s.counted

Earns(s, lag) == /\ Mine(s, lag) /\ New(s) /\ latest_control.small
                 /\ s.stable + 1 >= SunSettle

\* settle enters a mode or stays; it ends in SUN_POINTING out of another mode only
\* when Sun acquisition earned it or when it was asked for.
LEMMA SettleFacts ==
  ASSUME NEW s \in Manager, NEW lag, latest_sensors.age \in Ages,
         latest_control.age \in Ages, s.mode = "SUN_ACQUISITION" => body_rate <= 1
  PROVE  LET d == settle(s, lag) IN
         /\ d \in Manager
         /\ (Entered(d) \/ Stayed(s, d, lag))
         /\ s.mode \notin {"DETUMBLE", "SUN_ACQUISITION", "SLEWING"} => d = s
         /\ mode_needs_attitude(d.mode) =>
              (mode_needs_attitude(s.mode) \/ attitude_usable(lag))
         /\ d.mode = "SUN_POINTING" =>
              \/ s.mode = "SUN_POINTING"
              \/ s.mode = "SUN_ACQUISITION" /\ Earns(s, lag)
              \/ s.mode = "DETUMBLE" /\ s.requested = "SUN_POINTING" /\ body_rate = 0
<1> USE ModeFacts
<1>1. CASE s.mode = "DETUMBLE"
  <2>1. settle(s, lag) = settle_detumble(s, lag) BY <1>1 DEF settle
  <2> QED BY <1>1, <2>1, DetumbleFacts, AllowedFacts
          DEF Entered, Stayed, mode_needs_attitude
<1>2. CASE s.mode = "SUN_ACQUISITION"
  <2>1. settle(s, lag) = settle_sun(s, lag) BY <1>2 DEF settle
  <2> QED BY <1>2, <2>1, SunFacts DEF Entered, Stayed, SunCount, Earns, mode_needs_attitude
<1>3. CASE s.mode = "SLEWING"
  <2>1. settle(s, lag) = settle_slew(s) BY <1>3 DEF settle
  <2> QED BY <1>3, <2>1, SlewFacts DEF Entered, Stayed, mode_needs_attitude
<1>4. CASE s.mode \notin {"DETUMBLE", "SUN_ACQUISITION", "SLEWING"}
  <2>1. settle(s, lag) = s BY <1>4 DEF settle
  <2>2. s.mode # "SUN_ACQUISITION" /\ s.mode # "DETUMBLE" BY <1>4
  <2>3. Stayed(s, s, lag) BY <2>2 DEF Stayed
  <2> QED BY <2>1, <2>2, <2>3
<1> QED BY <1>1, <1>2, <1>3, <1>4

\* The last branch of update: no fault, good sensors, and an attitude where the
\* mode needs one.
LEMMA RunFacts ==
  ASSUME NEW s \in Manager, NEW lag, latest_sensors.age \in Ages,
         latest_control.age \in Ages, latest_sensors.age <= latest_control.age,
         s.mode # "BOOT",
         s.requested # "SAFE" /\ mode_needs_attitude(s.mode) => attitude_usable(lag)
  PROVE  LET d == settle(choose_mode(s, lag), lag) IN
         /\ d \in Manager
         /\ (Entered(d) \/ Stayed(s, d, lag))
         /\ Entered(s) /\ s.mode = "SAFE" => Entered(d)
         /\ mode_needs_attitude(d.mode) => attitude_usable(lag)
         /\ s.mode = "SUN_ACQUISITION" /\ d.mode = "SUN_POINTING" =>
              s.requested = "SUN_POINTING" \/ Earns(s, lag)
<1> DEFINE c == choose_mode(s, lag)
           d == settle(c, lag)
<1>1. /\ c \in Manager /\ c.requested = s.requested
      /\ s.requested = "SAFE" => c.mode = "SAFE"
      /\ s.requested # "SAFE" /\ body_rate > 1 => c.mode = "DETUMBLE"
      /\ \/ c = s
         \/ /\ c.mode # s.mode /\ c.entered = latest_sensors.age
            /\ c.stable = 0 /\ c.counted = Old
            /\ \/ c.mode = "DETUMBLE" /\ body_rate > 1
               \/ c.mode = s.requested /\ s.requested = "SAFE"
               \/ c.mode = s.requested /\ transition_is_allowed(s.requested, lag)
  BY ChooseFacts
<1> HIDE DEF c
<1>2. c.mode = "SUN_ACQUISITION" => body_rate <= 1 BY <1>1, RateFacts
<1>3. /\ d \in Manager
      /\ Entered(d) \/ Stayed(c, d, lag)
      /\ c.mode \notin {"DETUMBLE", "SUN_ACQUISITION", "SLEWING"} => d = c
      /\ mode_needs_attitude(d.mode) => (mode_needs_attitude(c.mode) \/ attitude_usable(lag))
      /\ d.mode = "SUN_POINTING" =>
           \/ c.mode = "SUN_POINTING"
           \/ c.mode = "SUN_ACQUISITION" /\ Earns(c, lag)
           \/ c.mode = "DETUMBLE" /\ c.requested = "SUN_POINTING" /\ body_rate = 0
  BY <1>1, <1>2, SettleFacts
<1> HIDE DEF d
<1>4. c # s => Entered(d)
  <2> SUFFICES ASSUME c # s, Stayed(c, d, lag) PROVE Entered(d) BY <1>3
  <2>1. c.entered = latest_sensors.age /\ c.counted = Old BY <1>1
  <2>2. ~Mine(c, lag) BY <2>1 DEF Mine, Ages
  <2> QED BY <2>1, <2>2 DEF Stayed, SunCount, Entered
<1>5. Entered(d) \/ Stayed(s, d, lag) BY <1>3, <1>4
<1>6. Entered(s) /\ s.mode = "SAFE" => Entered(d)
  BY <1>3, <1>4 DEF Entered
<1>7. mode_needs_attitude(c.mode) => attitude_usable(lag)
  BY <1>1, AllowedFacts, ModeFacts DEF mode_needs_attitude
<1>8. s.mode = "SUN_ACQUISITION" /\ d.mode = "SUN_POINTING" =>
        s.requested = "SUN_POINTING" \/ Earns(s, lag)
  BY <1>1, <1>3
<1> QED BY <1>3, <1>5, <1>6, <1>7, <1>8 DEF c, d

\* adcs_manager_update: an active mode means no critical fault, a pointing mode a
\* usable attitude; and the bookkeeping of the mode, as Entered or Stayed.
LEMMA UpdateFacts ==
  ASSUME mgr \in Manager, NEW lag, latest_sensors.age \in Ages,
         latest_control.age \in Ages, latest_sensors.age <= latest_control.age
  PROVE  LET u == update(mgr, lag) IN
         /\ u \in Manager
         /\ u.mode \notin Passive => CriticalFaults = {}
         /\ mode_needs_attitude(u.mode) =>
              attitude_usable(lag) /\ Fresh(latest_sensors.age, lag, Stale)
         /\ Entered(u) \/ Stayed(mgr, u, lag)
         /\ mgr.mode = "SUN_ACQUISITION" /\ u.mode = "SUN_POINTING" =>
              mgr.requested = "SUN_POINTING" \/ Earns(mgr, lag)
<1> USE ModeFacts
<1> DEFINE u == update(mgr, lag)
           usable == sensors_ready /\ Fresh(latest_sensors.age, lag, Stale)
           b == IF mgr.mode = "BOOT" THEN enter_mode(mgr, "SAFE") ELSE mgr
           safe == enter_mode(mgr, "SAFE")
           tumble == enter_mode(b, "DETUMBLE")
<1>1. /\ safe \in Manager /\ safe.mode = "SAFE"
      /\ Entered(safe) \/ Stayed(mgr, safe, lag)
  BY EnterFacts DEF Entered, Stayed
<1>2. /\ b \in Manager /\ b.mode # "BOOT" /\ b.requested = mgr.requested
      /\ mgr.mode # "BOOT" => b = mgr
      /\ mgr.mode = "BOOT" => Entered(b) /\ b.mode = "SAFE"
  BY EnterFacts DEF Entered
<1>3. CASE CriticalFaults # {}
  <2>1. u = refresh_builtin_target(safe) BY <1>3 DEF update
  <2> HIDE DEF safe
  <2> QED BY <1>1, <1>3, <2>1, RefreshFacts
          DEF Entered, Stayed, SunCount, Passive, mode_needs_attitude
<1>4. CASE CriticalFaults = {} /\ ~usable
  <2>1. u = IF mgr.mode = "BOOT" THEN mgr ELSE safe BY <1>4 DEF update
  <2> HIDE DEF safe
  <2> QED BY <1>1, <1>4, <2>1
          DEF Entered, Stayed, SunCount, Passive, mode_needs_attitude
<1>5. CASE CriticalFaults = {} /\ usable /\ body_rate > 2
  <2>1. u = enter_mode(b, "SAFE") BY <1>5 DEF update
  <2> HIDE DEF b
  <2> QED BY <1>2, <1>5, <2>1, EnterFacts
          DEF Entered, Stayed, Passive, mode_needs_attitude
<1>6. CASE /\ CriticalFaults = {} /\ usable /\ ~(body_rate > 2)
           /\ b.requested # "SAFE" /\ mode_needs_attitude(b.mode) /\ ~attitude_usable(lag)
  <2>1. u = tumble BY <1>6 DEF update
  <2> HIDE DEF b
  <2> QED BY <1>2, <1>6, <2>1, EnterFacts
          DEF Entered, Stayed, Passive, mode_needs_attitude
<1>7. CASE /\ CriticalFaults = {} /\ usable /\ ~(body_rate > 2)
           /\ ~(/\ b.requested # "SAFE" /\ mode_needs_attitude(b.mode)
                /\ ~attitude_usable(lag))
  <2> DEFINE d == settle(choose_mode(b, lag), lag)
  <2>1. u = refresh_builtin_target(d) BY <1>7 DEF update
  <2> HIDE DEF b
  <2>2. /\ d \in Manager
        /\ Entered(d) \/ Stayed(b, d, lag)
        /\ Entered(b) /\ b.mode = "SAFE" => Entered(d)
        /\ mode_needs_attitude(d.mode) => attitude_usable(lag)
        /\ b.mode = "SUN_ACQUISITION" /\ d.mode = "SUN_POINTING" =>
             b.requested = "SUN_POINTING" \/ Earns(b, lag)
    BY <1>2, <1>7, RunFacts
  <2> HIDE DEF d
  <2>3. Entered(d) \/ Stayed(mgr, d, lag) BY <1>2, <2>2
  <2>4. /\ u \in Manager /\ u.mode = d.mode /\ u.requested = d.requested
        /\ u.entered = d.entered /\ u.stable = d.stable /\ u.counted = d.counted
    BY <2>1, <2>2, RefreshFacts
  <2>5. Entered(u) \/ Stayed(mgr, u, lag)
    BY <2>3, <2>4 DEF Entered, Stayed, SunCount
  <2> QED BY <1>2, <1>7, <2>2, <2>4, <2>5
<1> QED BY <1>3, <1>4, <1>5, <1>6, <1>7

-----------------------------------------------------------------------------
(***************************************************************************)
(* The types.                                                              *)
(***************************************************************************)
\* A packet is published with age 0 and becomes one tick old only while the next
\* one is being read.
SensorInv == /\ latest_sensors.age = 0 => sampling = Nothing
             /\ latest_sensors.age = 1 => sampling # Nothing

\* No control result is newer than the packet it was computed from, no mode was
\* entered at a later packet, and no result was counted that is newer than the
\* latest one.
OrderInv == /\ latest_sensors.age <= latest_control.age
            /\ latest_sensors.age <= mgr.entered
            /\ latest_control.age <= mgr.counted

TInv == TypeOK /\ SensorInv /\ OrderInv

\* The fields of the manager's record and of the others have their types.
LEMMA FieldFacts ==
  ASSUME TypeOK
  PROVE  /\ mgr \in Manager /\ mgr.entered \in Ages /\ mgr.counted \in Ages
         /\ mgr.stable \in Nat /\ mgr.mode \in Modes /\ mgr.requested \in Modes \ {"BOOT"}
         /\ latest_sensors.age \in Ages /\ latest_sensors.age \in {0, 1, Old}
         /\ latest_control.age \in Ages /\ latest_attitude.age \in Ages
         /\ ctl.lag \in 0..MaxLag /\ hk.lag \in 0..MaxLag
         /\ ctl.pc \in {"idle", "timed", "updated"}
<1>1. {0, 1, Old} \subseteq Ages BY OldFacts DEF Ages
<1>2. mgr \in Manager BY DEF TypeOK, TypeManager
<1>3. /\ mgr.entered \in Ages /\ mgr.counted \in Ages /\ mgr.stable \in Nat
      /\ mgr.mode \in Modes /\ mgr.requested \in Modes \ {"BOOT"}
  BY <1>2 DEF Manager
<1>4. latest_sensors.age \in {0, 1, Old} BY DEF TypeOK, TypeSensing
<1>5. latest_control.age \in Ages /\ ctl.lag \in 0..MaxLag
      /\ ctl.pc \in {"idle", "timed", "updated"}
  BY DEF TypeOK, TypeActing
<1>6. latest_attitude.age \in Ages BY DEF TypeOK, TypeEstimator
<1>7. hk.lag \in 0..MaxLag BY DEF TypeOK, TypeFaults
<1> QED BY <1>1, <1>2, <1>3, <1>4, <1>5, <1>6, <1>7

\* A new manager record is one of update's.
LEMMA UpdateType ==
  ASSUME TInv, NEW lag, Update(lag)
  PROVE  mgr' \in Manager
  BY FieldFacts, UpdateFacts DEF TInv, OrderInv, Update

\* The records the board boots with.
LEMMA BootFacts ==
  /\ Boot.mgr \in Manager /\ Boot.mgr.entered = Old /\ Boot.mgr.counted = Old
  /\ Boot.mgr.mode = "BOOT" /\ Boot.mgr.stable = 0
  /\ Boot.sensors \in [age : {0, 1, Old}, scene : Readings \cup {Nothing}]
  /\ Boot.sensors.age = Old
  /\ Boot.attitude \in [age : Ages, valid : BOOLEAN]
  /\ Boot.control \in [age : Ages, source : Modes, small : BOOLEAN, settled : BOOLEAN]
  /\ Boot.control.age = Old
  /\ Boot.ctl \in [pc : {"idle", "timed", "updated"}, lag : 0..MaxLag]
  /\ Boot.ctl.pc = "idle"
  /\ Boot.controller \in [previous_mode : Modes, cycles : 0..SlewSettle]
  /\ Boot.hk \in [pc : {"idle", "evaluated", "cleared", "reported"},
                  observed : SUBSET Faults, latched : SUBSET Faults, lag : 0..MaxLag]
  /\ Old \in Ages
<1>1. Old \in Ages /\ 0 \in 0..MaxLag /\ 0 \in 0..SlewSettle BY OldFacts DEF Ages
<1>2. /\ Boot.mgr \in Manager /\ Boot.mgr.entered = Old /\ Boot.mgr.counted = Old
      /\ Boot.mgr.mode = "BOOT" /\ Boot.mgr.stable = 0
  BY <1>1 DEF Boot, Manager, Modes
<1>3. /\ Boot.sensors \in [age : {0, 1, Old}, scene : Readings \cup {Nothing}]
      /\ Boot.sensors.age = Old
  BY DEF Boot
<1>4. Boot.attitude \in [age : Ages, valid : BOOLEAN] BY <1>1 DEF Boot
<1>5. /\ Boot.control \in [age : Ages, source : Modes, small : BOOLEAN, settled : BOOLEAN]
      /\ Boot.control.age = Old
  BY <1>1 DEF Boot, Modes
<1>6. /\ Boot.ctl \in [pc : {"idle", "timed", "updated"}, lag : 0..MaxLag]
      /\ Boot.ctl.pc = "idle"
      /\ Boot.controller \in [previous_mode : Modes, cycles : 0..SlewSettle]
  BY <1>1 DEF Boot, Modes
<1>7. Boot.hk \in [pc : {"idle", "evaluated", "cleared", "reported"},
                  observed : SUBSET Faults, latched : SUBSET Faults, lag : 0..MaxLag]
  BY <1>1 DEF Boot
<1> QED BY <1>1, <1>2, <1>3, <1>4, <1>5, <1>6, <1>7

\* A reset brings every variable back to its type.
LEMMA ResetType ==
  ASSUME TypeOK, Reset
  PROVE  TypeManager' /\ TypeSensing' /\ TypeEstimator' /\ TypeActing' /\ TypeFaults'
<1>1. TypeManager' /\ TypeSensing'
  BY BootFacts DEF Reset, TypeOK, TypeManager, TypeSensing
<1>2. TypeEstimator' BY BootFacts DEF Reset, TypeEstimator
<1>3. TypeActing' /\ TypeFaults' BY BootFacts DEF Reset, TypeActing, TypeFaults
<1> QED BY <1>1, <1>2, <1>3

\* A command that is received resets the board, or leaves all to the tasks.
LEMMA ReceiveFacts ==
  ASSUME ReceiveCommand
  PROVE  \/ Reset
         \/ /\ UNCHANGED <<mgr, references, inhibited>>
            /\ UNCHANGED <<sampling, scene, latest_sensors, packet>>
            /\ UNCHANGED <<fix, previous, latest_attitude>>
            /\ UNCHANGED <<ctl, controller, coils, latest_control, earned>>
            /\ UNCHANGED <<active_faults, hk>>
  BY DEF ReceiveCommand, HkRest, manager, sensing, estimator, acting

\* The command at the head of a queue is a command.
LEMMA HeadFacts ==
  ASSUME TypeOK, queue # <<>>
  PROVE  Head(queue) \in Commands /\ Tail(queue) \in Seq(Commands)
         /\ Len(Tail(queue)) <= QueueLength
  BY OldFacts DEF TypeOK, TypeCommands

\* The manager keeps its types.
LEMMA ManagerStep == TInv /\ [Next]_vars => TypeManager'
<1> SUFFICES ASSUME TInv, [Next]_vars PROVE TypeManager'
  OBVIOUS
<1> USE FieldFacts, OldFacts DEF TInv
<1>1. CASE SensorSample
  BY <1>1, OlderFacts DEF SensorSample, Later, command, TypeOK, TypeManager, Manager
<1>2. CASE SensorPublish
  BY <1>2 DEF SensorPublish, manager, estimator, acting, command, TypeOK, TypeManager
<1>3. CASE Estimate
  BY <1>3 DEF Estimate, Estimating, HighestIdle, acting, TypeOK, TypeManager
<1>4. CASE EstimateCorrupt
  BY <1>4, ResetType DEF EstimateCorrupt
<1>5. CASE ControlTime
  BY <1>5 DEF ControlTime, manager, sensing, estimator, command, TypeOK, TypeManager
<1>6. CASE ControlUpdate
  BY <1>6, UpdateType DEF ControlUpdate, Update, Recount, sensing, estimator, command,
     TypeOK, TypeManager
<1>7. CASE ControlAct
  BY <1>7 DEF ControlAct, manager, sensing, estimator, command, TypeOK, TypeManager
<1>8. CASE HkEvaluate
  BY <1>8 DEF HkEvaluate, HkRest, manager, sensing, estimator, acting, command,
     TypeOK, TypeManager
<1>9. CASE HkClear
  BY <1>9 DEF HkClear, HkRest, manager, sensing, estimator, acting, command, TypeOK,
     TypeManager
<1>10. CASE HkReport
  BY <1>10 DEF HkReport, HkRest, manager, sensing, estimator, acting, command, TypeOK,
     TypeManager
<1>11. CASE HkUpdate
  BY <1>11, UpdateType DEF HkUpdate, Update, Recount, sensing, estimator, command,
     TypeOK, TypeManager
<1>12. CASE ReceiveCommand
  BY <1>12, ResetType, ReceiveFacts DEF TypeOK, TypeManager
<1>13. CASE ExecuteCommand
  <2> DEFINE c == Head(queue)
             r == IF c.type = "SET_MODE" THEN c.arg ELSE mgr.requested
             t == IF c.type = "SLEW" THEN c.arg ELSE mgr.target
  <2>1. c \in Commands BY <1>13, HeadFacts DEF ExecuteCommand
  <2>2. r \in Modes \ {"BOOT"}
    BY <2>1, InputAssumption DEF Commands, ControlCommands
  <2>3. t \in Goals \cup {"identity", "sun", "nadir"}
    BY <2>1, InputAssumption DEF Commands, ControlCommands, Manager
  <2>4. mgr' = [mgr EXCEPT !.requested = r, !.target = t] BY <1>13 DEF ExecuteCommand
  <2> HIDE DEF c, r, t
  <2>5. [mgr EXCEPT !.requested = r, !.target = t] \in Manager
    BY <2>2, <2>3 DEF Manager
  <2>6. references' \in BOOLEAN /\ inhibited' \in BOOLEAN
    BY <1>13 DEF ExecuteCommand, CommandRest, TypeOK, TypeManager
  <2> QED BY <2>4, <2>5, <2>6 DEF TypeManager
<1>14. CASE RequestSlew
  <2>1. mgr' = [mgr EXCEPT !.requested = "SLEWING"] BY <1>14 DEF RequestSlew
  <2>2. mgr' \in Manager BY <2>1, ModeFacts DEF Manager
  <2> QED BY <1>14, <2>2 DEF RequestSlew, CommandRest, TypeOK, TypeManager
<1>15. CASE UNCHANGED vars
  BY <1>15 DEF vars, manager, sensing, estimator, acting, command, TypeOK, TypeManager
<1> QED BY <1>1, <1>2, <1>3, <1>4, <1>5, <1>6, <1>7, <1>8, <1>9, <1>10, <1>11, <1>12,
        <1>13, <1>14, <1>15 DEF Next, SensorTask, EstimationTask, ControlTask,
        HousekeepingTask, CommandTask

\* The sensing keeps its types.
LEMMA SensingStep == TInv /\ [Next]_vars => TypeSensing'
<1> SUFFICES ASSUME TInv, [Next]_vars PROVE TypeSensing'
  OBVIOUS
<1> USE FieldFacts, OldFacts DEF TInv
<1>1. CASE SensorSample
  BY <1>1, OlderFacts, ReadingFacts DEF SensorSample, Later, command, TypeOK,
     TypeSensing, SensorInv
<1>2. CASE SensorPublish
  BY <1>2 DEF SensorPublish, manager, estimator, acting, command, TypeOK, TypeSensing
<1>3. CASE Estimate
  BY <1>3 DEF Estimate, Estimating, HighestIdle, acting, TypeOK, TypeSensing
<1>4. CASE EstimateCorrupt
  BY <1>4, ResetType DEF EstimateCorrupt
<1>5. CASE ControlTime
  BY <1>5 DEF ControlTime, manager, sensing, estimator, command, TypeOK, TypeSensing
<1>6. CASE ControlUpdate
  BY <1>6 DEF ControlUpdate, Update, Recount, sensing, estimator, command, TypeOK,
     TypeSensing
<1>7. CASE ControlAct
  BY <1>7 DEF ControlAct, manager, sensing, estimator, command, TypeOK, TypeSensing
<1>8. CASE HkEvaluate
  BY <1>8 DEF HkEvaluate, HkRest, manager, sensing, estimator, acting, command,
     TypeOK, TypeSensing
<1>9. CASE HkClear
  BY <1>9 DEF HkClear, HkRest, manager, sensing, estimator, acting, command, TypeOK,
     TypeSensing
<1>10. CASE HkReport
  BY <1>10 DEF HkReport, HkRest, manager, sensing, estimator, acting, command, TypeOK,
     TypeSensing
<1>11. CASE HkUpdate
  BY <1>11 DEF HkUpdate, Update, Recount, sensing, estimator, command, TypeOK,
     TypeSensing
<1>12. CASE ReceiveCommand
  BY <1>12, ResetType, ReceiveFacts DEF TypeOK, TypeSensing
<1>13. CASE ExecuteCommand
  BY <1>13 DEF ExecuteCommand, CommandRest, sensing, estimator, acting, TypeOK,
     TypeSensing
<1>14. CASE RequestSlew
  BY <1>14 DEF RequestSlew, CommandRest, sensing, estimator, acting, TypeOK,
     TypeSensing
<1>15. CASE UNCHANGED vars
  BY <1>15 DEF vars, manager, sensing, estimator, acting, command, TypeOK, TypeSensing
<1> QED BY <1>1, <1>2, <1>3, <1>4, <1>5, <1>6, <1>7, <1>8, <1>9, <1>10, <1>11, <1>12,
        <1>13, <1>14, <1>15 DEF Next, SensorTask, EstimationTask, ControlTask,
        HousekeepingTask, CommandTask

\* The estimator keeps its types.
LEMMA EstimatorStep == TInv /\ [Next]_vars => TypeEstimator'
<1> SUFFICES ASSUME TInv, [Next]_vars PROVE TypeEstimator'
  OBVIOUS
<1> USE FieldFacts, OldFacts DEF TInv
<1>1. CASE SensorSample
  BY <1>1, OlderFacts DEF SensorSample, Later, command, TypeOK, TypeEstimator
<1>2. CASE SensorPublish
  BY <1>2 DEF SensorPublish, manager, estimator, acting, command, TypeOK,
     TypeEstimator
<1>3. CASE Estimate
  <2>1. 0 \in Ages /\ Old \in Ages BY DEF Ages
  <2>2. fix' \in Ages
    BY <1>3, <2>1 DEF Estimate, TypeOK, TypeEstimator
  <2>3. previous' \in Ages
    BY <1>3, <2>1 DEF Estimate, TypeOK, TypeEstimator
  <2>4. latest_attitude' \in [age : Ages, valid : BOOLEAN]
    <3>1. \A n \in Ages : (n <= FixAge) \in BOOLEAN BY DEF Ages
    <3>2. PICK v \in BOOLEAN : \/ latest_attitude' = [age |-> 0, valid |-> v]
                              \/ UNCHANGED latest_attitude
      BY <1>3, <2>1, <3>1 DEF Estimate, TypeOK, TypeEstimator
    <3> QED BY <2>1, <3>2 DEF TypeOK, TypeEstimator
  <2> QED BY <2>2, <2>3, <2>4 DEF TypeEstimator
<1>4. CASE EstimateCorrupt
  BY <1>4, ResetType DEF EstimateCorrupt
<1>5. CASE ControlTime
  BY <1>5 DEF ControlTime, manager, sensing, estimator, command, TypeOK, TypeEstimator
<1>6. CASE ControlUpdate
  BY <1>6 DEF ControlUpdate, Update, Recount, sensing, estimator, command, TypeOK,
     TypeEstimator
<1>7. CASE ControlAct
  BY <1>7 DEF ControlAct, manager, sensing, estimator, command, TypeOK, TypeEstimator
<1>8. CASE HkEvaluate
  BY <1>8 DEF HkEvaluate, HkRest, manager, sensing, estimator, acting, command,
     TypeOK, TypeEstimator
<1>9. CASE HkClear
  BY <1>9 DEF HkClear, HkRest, manager, sensing, estimator, acting, command, TypeOK,
     TypeEstimator
<1>10. CASE HkReport
  BY <1>10 DEF HkReport, HkRest, manager, sensing, estimator, acting, command, TypeOK,
     TypeEstimator
<1>11. CASE HkUpdate
  BY <1>11 DEF HkUpdate, Update, Recount, sensing, estimator, command, TypeOK,
     TypeEstimator
<1>12. CASE ReceiveCommand
  BY <1>12, ResetType, ReceiveFacts DEF TypeOK, TypeEstimator
<1>13. CASE ExecuteCommand
  BY <1>13 DEF ExecuteCommand, CommandRest, sensing, estimator, acting, TypeOK,
     TypeEstimator
<1>14. CASE RequestSlew
  BY <1>14 DEF RequestSlew, CommandRest, sensing, estimator, acting, TypeOK,
     TypeEstimator
<1>15. CASE UNCHANGED vars
  BY <1>15 DEF vars, manager, sensing, estimator, acting, command, TypeOK,
     TypeEstimator
<1> QED BY <1>1, <1>2, <1>3, <1>4, <1>5, <1>6, <1>7, <1>8, <1>9, <1>10, <1>11, <1>12,
        <1>13, <1>14, <1>15 DEF Next, SensorTask, EstimationTask, ControlTask,
        HousekeepingTask, CommandTask

\* The control task keeps its types.
LEMMA ActingStep == TInv /\ [Next]_vars => TypeActing'
<1> SUFFICES ASSUME TInv, [Next]_vars PROVE TypeActing'
  OBVIOUS
<1> USE FieldFacts, OldFacts DEF TInv
<1>1. CASE SensorSample
  BY <1>1, OlderFacts DEF SensorSample, Later, command, TypeOK, TypeActing
<1>2. CASE SensorPublish
  BY <1>2 DEF SensorPublish, manager, estimator, acting, command, TypeOK, TypeActing
<1>3. CASE Estimate
  BY <1>3 DEF Estimate, Estimating, HighestIdle, acting, TypeOK, TypeActing
<1>4. CASE EstimateCorrupt
  BY <1>4, ResetType DEF EstimateCorrupt
<1>5. CASE ControlTime
  BY <1>5 DEF ControlTime, manager, sensing, estimator, command, TypeOK, TypeActing
<1>6. CASE ControlUpdate
  BY <1>6 DEF ControlUpdate, Update, Recount, sensing, estimator, command, TypeOK,
     TypeActing
<1>7. CASE ControlAct
  <2> DEFINE s == latest_sensors.scene
             ok == ControllerOk(mgr.mode, s)
             small == ok /\ mgr.mode \in SunModes /\ ~inhibited /\ s # "askew"
  <2>1. PICK near \in BOOLEAN :
          LET n == SettledCycles(mgr.mode, s, near) IN
          /\ controller' = [previous_mode |-> mgr.mode, cycles |-> n]
          /\ latest_control' = [age |-> latest_sensors.age, source |-> mgr.mode,
                small |-> small,
                settled |-> mgr.mode \in SlewModes /\ ok /\ n = SlewSettle]
    BY <1>7 DEF ControlAct
  <2>2. SettledCycles(mgr.mode, s, near) \in 0..SlewSettle
    BY DEF SettledCycles, TypeOK, TypeActing
  <2>3. controller' \in [previous_mode : Modes, cycles : 0..SlewSettle]
    BY <2>1, <2>2
  <2>4. small \in BOOLEAN OBVIOUS
  <2>5. latest_control' \in [age : Ages, source : Modes, small : BOOLEAN,
                             settled : BOOLEAN]
    BY <2>1, <2>4
  <2>6. ctl' \in [pc : {"idle", "timed", "updated"}, lag : 0..MaxLag]
    BY <1>7 DEF ControlAct
  <2>7. coils' \in {"off", "auto", "manual"} BY <1>7 DEF ControlAct, Drive
  <2>8. earned' \in Nat BY <1>7 DEF ControlAct, TypeOK, TypeActing
  <2> QED BY <2>3, <2>5, <2>6, <2>7, <2>8 DEF TypeActing
<1>8. CASE HkEvaluate
  BY <1>8 DEF HkEvaluate, HkRest, manager, sensing, estimator, acting, command,
     TypeOK, TypeActing
<1>9. CASE HkClear
  BY <1>9 DEF HkClear, HkRest, manager, sensing, estimator, acting, command, TypeOK,
     TypeActing
<1>10. CASE HkReport
  BY <1>10 DEF HkReport, HkRest, manager, sensing, estimator, acting, command, TypeOK,
     TypeActing
<1>11. CASE HkUpdate
  BY <1>11 DEF HkUpdate, Update, Recount, sensing, estimator, command, TypeOK,
     TypeActing
<1>12. CASE ReceiveCommand
  BY <1>12, ResetType, ReceiveFacts DEF TypeOK, TypeActing
<1>13. CASE ExecuteCommand
  BY <1>13 DEF ExecuteCommand, CommandRest, sensing, estimator, acting, TypeOK,
     TypeActing
<1>14. CASE RequestSlew
  BY <1>14 DEF RequestSlew, CommandRest, sensing, estimator, acting, TypeOK,
     TypeActing
<1>15. CASE UNCHANGED vars
  BY <1>15 DEF vars, manager, sensing, estimator, acting, command, TypeOK, TypeActing
<1> QED BY <1>1, <1>2, <1>3, <1>4, <1>5, <1>6, <1>7, <1>8, <1>9, <1>10, <1>11, <1>12,
        <1>13, <1>14, <1>15 DEF Next, SensorTask, EstimationTask, ControlTask,
        HousekeepingTask, CommandTask

\* The faults keep their types.
LEMMA FaultsStep == TInv /\ [Next]_vars => TypeFaults'
<1> SUFFICES ASSUME TInv, [Next]_vars PROVE TypeFaults'
  OBVIOUS
<1> USE FieldFacts, OldFacts DEF TInv
<1>1. CASE SensorSample
  BY <1>1 DEF SensorSample, Later, command, TypeOK, TypeFaults, Faults
<1>2. CASE SensorPublish
  BY <1>2 DEF SensorPublish, manager, estimator, acting, command, TypeOK, TypeFaults,
     Faults
<1>3. CASE Estimate
  BY <1>3 DEF Estimate, Estimating, HighestIdle, acting, TypeOK, TypeFaults, Faults
<1>4. CASE EstimateCorrupt
  BY <1>4, ResetType DEF EstimateCorrupt
<1>5. CASE ControlTime
  BY <1>5 DEF ControlTime, manager, sensing, estimator, command, TypeOK, TypeFaults,
     Faults
<1>6. CASE ControlUpdate
  BY <1>6 DEF ControlUpdate, Update, Recount, sensing, estimator, command, TypeOK,
     TypeFaults, Faults
<1>7. CASE ControlAct
  BY <1>7 DEF ControlAct, manager, sensing, estimator, command, TypeOK, TypeFaults,
     Faults
<1>8. CASE HkEvaluate
  BY <1>8 DEF HkEvaluate, HkRest, manager, sensing, estimator, acting, command,
     TypeOK, TypeFaults, Faults, ObservedFaults
<1>9. CASE HkClear
  BY <1>9 DEF HkClear, HkRest, manager, sensing, estimator, acting, command, TypeOK,
     TypeFaults, Faults
<1>10. CASE HkReport
  BY <1>10 DEF HkReport, HkRest, manager, sensing, estimator, acting, command, TypeOK,
     TypeFaults, Faults
<1>11. CASE HkUpdate
  BY <1>11 DEF HkUpdate, Update, Recount, sensing, estimator, command, TypeOK,
     TypeFaults, Faults
<1>12. CASE ReceiveCommand
  BY <1>12, ResetType, ReceiveFacts DEF TypeOK, TypeFaults
<1>13. CASE ExecuteCommand
  BY <1>13 DEF ExecuteCommand, CommandRest, sensing, estimator, acting, TypeOK,
     TypeFaults, Faults
<1>14. CASE RequestSlew
  BY <1>14 DEF RequestSlew, CommandRest, sensing, estimator, acting, TypeOK,
     TypeFaults, Faults
<1>15. CASE UNCHANGED vars
  BY <1>15 DEF vars, manager, sensing, estimator, acting, command, TypeOK, TypeFaults,
     Faults
<1> QED BY <1>1, <1>2, <1>3, <1>4, <1>5, <1>6, <1>7, <1>8, <1>9, <1>10, <1>11, <1>12,
        <1>13, <1>14, <1>15 DEF Next, SensorTask, EstimationTask, ControlTask,
        HousekeepingTask, CommandTask

\* The commands keep their types.
LEMMA CommandsStep == TInv /\ [Next]_vars => TypeCommands'
<1> SUFFICES ASSUME TInv, [Next]_vars PROVE TypeCommands'
  OBVIOUS
<1> USE FieldFacts, OldFacts DEF TInv
<1>1. CASE SensorSample
  BY <1>1 DEF SensorSample, Later, command, TypeOK, TypeCommands
<1>2. CASE SensorPublish
  BY <1>2 DEF SensorPublish, manager, estimator, acting, command, TypeOK, TypeCommands
<1>3. CASE Estimate
  BY <1>3 DEF Estimate, Estimating, HighestIdle, acting, TypeOK, TypeCommands
<1>4. CASE EstimateCorrupt
  <2>1. queue' \in Seq(Commands) /\ Len(queue') <= QueueLength
    BY <1>4 DEF EstimateCorrupt, Reset
  <2>2. upsets' \in 0..MaxUpsets /\ received' \in 0..MaxCommands
    BY <1>4 DEF EstimateCorrupt, TypeOK, TypeCommands
  <2> QED BY <1>4, <2>1, <2>2 DEF EstimateCorrupt, Reset, TypeOK, TypeCommands
<1>5. CASE ControlTime
  BY <1>5 DEF ControlTime, manager, sensing, estimator, command, TypeOK, TypeCommands
<1>6. CASE ControlUpdate
  BY <1>6 DEF ControlUpdate, Update, Recount, sensing, estimator, command, TypeOK,
     TypeCommands
<1>7. CASE ControlAct
  BY <1>7 DEF ControlAct, manager, sensing, estimator, command, TypeOK, TypeCommands
<1>8. CASE HkEvaluate
  BY <1>8 DEF HkEvaluate, HkRest, manager, sensing, estimator, acting, command,
     TypeOK, TypeCommands
<1>9. CASE HkClear
  BY <1>9 DEF HkClear, HkRest, manager, sensing, estimator, acting, command, TypeOK,
     TypeCommands
<1>10. CASE HkReport
  BY <1>10 DEF HkReport, HkRest, manager, sensing, estimator, acting, command, TypeOK,
     TypeCommands
<1>11. CASE HkUpdate
  BY <1>11 DEF HkUpdate, Update, Recount, sensing, estimator, command, TypeOK,
     TypeCommands
<1>12. CASE ReceiveCommand
  <2>1. received' \in 0..MaxCommands BY <1>12 DEF ReceiveCommand, TypeOK, TypeCommands
  <2>2. PICK c \in Commands :
          \/ c.type = "reset" /\ Reset /\ UNCHANGED upsets
          \/ /\ c.type = "shutdown" /\ up' = FALSE
             /\ UNCHANGED <<HkRest, active_faults, hk>>
          \/ /\ c.type \notin {"reset", "shutdown"}
             /\ queue' = IF c.type = "refused" \/ Len(queue) = QueueLength
                         THEN queue ELSE Append(queue, c)
             /\ UNCHANGED <<manager, sensing, estimator, acting, slewing, manual,
                            reset_requested, active_faults, hk, up, upsets>>
    BY <1>12 DEF ReceiveCommand
  <2>3. CASE c.type = "reset" /\ Reset /\ UNCHANGED upsets
    <3>1. queue' \in Seq(Commands) /\ Len(queue') <= QueueLength BY <2>3 DEF Reset
    <3> QED BY <2>1, <2>3, <3>1 DEF Reset, TypeOK, TypeCommands
  <2>4. CASE up' = FALSE /\ UNCHANGED <<HkRest, active_faults, hk>>
    BY <1>12, <2>1, <2>4 DEF ReceiveCommand, HkRest, command, TypeOK, TypeCommands
  <2>5. CASE /\ queue' = IF c.type = "refused" \/ Len(queue) = QueueLength
                         THEN queue ELSE Append(queue, c)
             /\ UNCHANGED <<manager, sensing, estimator, acting, slewing, manual,
                            reset_requested, active_faults, hk, up, upsets>>
    <3>1. queue' \in Seq(Commands) /\ Len(queue') <= QueueLength
      BY <2>5 DEF TypeOK, TypeCommands
    <3> QED BY <2>1, <2>5, <3>1 DEF TypeOK, TypeCommands
  <2> QED BY <2>2, <2>3, <2>4, <2>5
<1>13. CASE ExecuteCommand
  <2> DEFINE c == Head(queue)
  <2>1. c \in Commands /\ Tail(queue) \in Seq(Commands) /\ Len(Tail(queue)) <= QueueLength
    BY <1>13, HeadFacts DEF ExecuteCommand
  <2>2. queue' \in Seq(Commands) /\ Len(queue') <= QueueLength
    BY <1>13, <2>1 DEF ExecuteCommand
  <2>3. c.type = "coil_on" => c.arg \in Axes
    BY <2>1, InputAssumption DEF Commands, ControlCommands
  <2>4. manual' \subseteq Axes
    BY <1>13, <2>3 DEF ExecuteCommand, TypeOK, TypeCommands
  <2>5. slewing' \in BOOLEAN /\ reset_requested' \in BOOLEAN
    BY <1>13 DEF ExecuteCommand
  <2> QED BY <1>13, <2>2, <2>4, <2>5
          DEF ExecuteCommand, CommandRest, TypeOK, TypeCommands
<1>14. CASE RequestSlew
  BY <1>14 DEF RequestSlew, CommandRest, sensing, estimator, acting, TypeOK,
     TypeCommands
<1>15. CASE UNCHANGED vars
  BY <1>15 DEF vars, manager, sensing, estimator, acting, command, TypeOK,
     TypeCommands
<1> QED BY <1>1, <1>2, <1>3, <1>4, <1>5, <1>6, <1>7, <1>8, <1>9, <1>10, <1>11, <1>12,
        <1>13, <1>14, <1>15 DEF Next, SensorTask, EstimationTask, ControlTask,
        HousekeepingTask, CommandTask

-----------------------------------------------------------------------------
(***************************************************************************)
(* The order of the timestamps, and TypeOK.                                *)
(***************************************************************************)
\* What a call of update does, for the tasks that call it.
LEMMA UpdateStep ==
  ASSUME TInv, NEW lag, Update(lag)
  PROVE  /\ mgr'.mode \notin Passive => CriticalFaults = {}
         /\ mode_needs_attitude(mgr'.mode) =>
              attitude_usable(lag) /\ Fresh(latest_sensors.age, lag, Stale)
         /\ Entered(mgr') \/ Stayed(mgr, mgr', lag)
         /\ mgr.mode = "SUN_ACQUISITION" /\ mgr'.mode = "SUN_POINTING" =>
              mgr.requested = "SUN_POINTING" \/ Earns(mgr, lag)
  BY FieldFacts, UpdateFacts DEF TInv, OrderInv, Update

\* The bookkeeping keeps the order of the timestamps.
LEMMA UpdateOrder ==
  ASSUME TInv, NEW lag, Update(lag)
  PROVE  latest_sensors.age <= mgr'.entered /\ latest_control.age <= mgr'.counted
<1> USE FieldFacts, OldFacts DEF TInv, Ages
<1>1. CASE Entered(mgr')
  BY <1>1 DEF OrderInv, Entered
<1>2. CASE Stayed(mgr, mgr', lag)
  <2>1. mgr'.counted \in {mgr.counted, latest_control.age}
    BY <1>2 DEF Stayed, SunCount
  <2>2. mgr'.entered = mgr.entered BY <1>2 DEF Stayed
  <2> QED BY <2>1, <2>2 DEF OrderInv
<1> QED BY <1>1, <1>2, UpdateStep

\* Every packet is published before the next one is read.
LEMMA SensorStep == TInv /\ [Next]_vars => SensorInv'
<1> SUFFICES ASSUME TInv, [Next]_vars PROVE SensorInv'
  OBVIOUS
<1> USE FieldFacts, OldFacts DEF TInv
<1>1. CASE SensorSample
  BY <1>1, ReadingFacts, OlderFacts DEF SensorSample, Later, command, SensorInv,
     Older, TypeOK, TypeSensing
<1>2. CASE SensorPublish
  BY <1>2 DEF SensorPublish, manager, estimator, acting, command, SensorInv
<1>3. CASE Estimate
  BY <1>3 DEF Estimate, Estimating, HighestIdle, acting, SensorInv
<1>4. CASE EstimateCorrupt
  BY <1>4, BootFacts DEF EstimateCorrupt, Reset, SensorInv
<1>5. CASE ControlTime
  BY <1>5 DEF ControlTime, manager, sensing, estimator, command, SensorInv
<1>6. CASE ControlUpdate
  BY <1>6 DEF ControlUpdate, Update, Recount, sensing, estimator, command, SensorInv
<1>7. CASE ControlAct
  BY <1>7 DEF ControlAct, manager, sensing, estimator, command, SensorInv
<1>8. CASE HkEvaluate
  BY <1>8 DEF HkEvaluate, HkRest, manager, sensing, estimator, acting, command,
     SensorInv
<1>9. CASE HkClear
  BY <1>9 DEF HkClear, HkRest, manager, sensing, estimator, acting, command, SensorInv
<1>10. CASE HkReport
  BY <1>10 DEF HkReport, HkRest, manager, sensing, estimator, acting, command,
     SensorInv
<1>11. CASE HkUpdate
  BY <1>11 DEF HkUpdate, Update, Recount, sensing, estimator, command, SensorInv
<1>12. CASE ReceiveCommand
  <2>1. CASE Reset BY <2>1, BootFacts DEF Reset, SensorInv
  <2>2. CASE UNCHANGED <<sampling, latest_sensors, latest_control, mgr>>
    BY <2>2 DEF SensorInv
  <2> QED BY <1>12, <2>1, <2>2, ReceiveFacts
<1>13. CASE ExecuteCommand
  BY <1>13 DEF ExecuteCommand, CommandRest, sensing, estimator, acting, SensorInv
<1>14. CASE RequestSlew
  BY <1>14 DEF RequestSlew, CommandRest, sensing, estimator, acting, SensorInv
<1>15. CASE UNCHANGED vars
  BY <1>15 DEF vars, manager, sensing, estimator, acting, command, SensorInv
<1> QED BY <1>1, <1>2, <1>3, <1>4, <1>5, <1>6, <1>7, <1>8, <1>9, <1>10, <1>11, <1>12,
        <1>13, <1>14, <1>15 DEF Next, SensorTask, EstimationTask, ControlTask,
        HousekeepingTask, CommandTask

\* The timestamps keep their order.
LEMMA OrderStep == TInv /\ [Next]_vars => OrderInv'
<1> SUFFICES ASSUME TInv, [Next]_vars PROVE OrderInv'
  OBVIOUS
<1> USE FieldFacts, OldFacts DEF TInv
<1>1. CASE SensorSample
  <2>1. /\ latest_sensors'.age = Older(latest_sensors.age)
        /\ latest_control'.age = Older(latest_control.age)
    BY <1>1 DEF SensorSample, TypeOK, TypeSensing, TypeActing
  <2>2. mgr'.entered = Older(mgr.entered) /\ mgr'.counted = Older(mgr.counted)
    BY <1>1 DEF SensorSample, Manager
  <2> QED BY <2>1, <2>2, OlderOrder DEF OrderInv
<1>2. CASE SensorPublish
  <2>1. latest_sensors'.age = 0 /\ UNCHANGED <<mgr, latest_control>>
    BY <1>2 DEF SensorPublish, manager, acting
  <2> QED BY <2>1 DEF OrderInv, Ages
<1>3. CASE Estimate
  BY <1>3 DEF Estimate, Estimating, HighestIdle, acting, OrderInv
<1>4. CASE EstimateCorrupt
  BY <1>4, BootFacts DEF EstimateCorrupt, Reset, OrderInv
<1>5. CASE ControlTime
  BY <1>5 DEF ControlTime, manager, sensing, estimator, command, OrderInv
<1>6. CASE ControlUpdate
  BY <1>6, UpdateOrder DEF ControlUpdate, sensing, OrderInv
<1>7. CASE ControlAct
  <2>1. latest_control'.age = latest_sensors.age BY <1>7 DEF ControlAct
  <2>2. UNCHANGED <<mgr, latest_sensors>> BY <1>7 DEF ControlAct, manager, sensing
  <2> QED BY <2>1, <2>2 DEF OrderInv, Ages
<1>8. CASE HkEvaluate
  BY <1>8 DEF HkEvaluate, HkRest, manager, sensing, estimator, acting, command,
     OrderInv
<1>9. CASE HkClear
  BY <1>9 DEF HkClear, HkRest, manager, sensing, estimator, acting, command, OrderInv
<1>10. CASE HkReport
  BY <1>10 DEF HkReport, HkRest, manager, sensing, estimator, acting, command,
     OrderInv
<1>11. CASE HkUpdate
  BY <1>11, UpdateOrder DEF HkUpdate, sensing, OrderInv
<1>12. CASE ReceiveCommand
  <2>1. CASE Reset BY <2>1, BootFacts DEF Reset, OrderInv
  <2>2. CASE UNCHANGED <<sampling, latest_sensors, latest_control, mgr>>
    BY <2>2 DEF OrderInv
  <2> QED BY <1>12, <2>1, <2>2, ReceiveFacts
<1>13. CASE ExecuteCommand
  <2>1. mgr'.entered = mgr.entered /\ mgr'.counted = mgr.counted
    BY <1>13 DEF ExecuteCommand, Manager
  <2> QED BY <1>13, <2>1 DEF ExecuteCommand, CommandRest, sensing, acting, OrderInv
<1>14. CASE RequestSlew
  <2>1. mgr'.entered = mgr.entered /\ mgr'.counted = mgr.counted
    BY <1>14 DEF RequestSlew, Manager
  <2> QED BY <1>14, <2>1 DEF RequestSlew, CommandRest, sensing, acting, OrderInv
<1>15. CASE UNCHANGED vars
  BY <1>15 DEF vars, manager, sensing, estimator, acting, command, OrderInv
<1> QED BY <1>1, <1>2, <1>3, <1>4, <1>5, <1>6, <1>7, <1>8, <1>9, <1>10, <1>11, <1>12,
        <1>13, <1>14, <1>15 DEF Next, SensorTask, EstimationTask, ControlTask,
        HousekeepingTask, CommandTask


\* The initial state.
LEMMA InitType == Init => TInv
<1> SUFFICES ASSUME Init PROVE TInv OBVIOUS
<1> USE OldFacts
<1>1. TypeManager /\ TypeSensing BY BootFacts DEF Init, TypeManager, TypeSensing
<1>2. TypeEstimator BY BootFacts DEF Init, TypeEstimator
<1>3. TypeActing /\ TypeFaults BY BootFacts DEF Init, TypeActing, TypeFaults
<1>4. TypeCommands
  <2>1. queue \in Seq(Commands) /\ Len(queue) <= QueueLength BY DEF Init
  <2>2. received \in 0..MaxCommands /\ upsets \in 0..MaxUpsets BY DEF Init
  <2>3. manual \subseteq Axes BY DEF Init
  <2>4. slewing \in BOOLEAN /\ reset_requested \in BOOLEAN /\ up \in BOOLEAN BY DEF Init
  <2> QED BY <2>1, <2>2, <2>3, <2>4 DEF TypeCommands
<1>5. SensorInv /\ OrderInv BY BootFacts DEF Init, SensorInv, OrderInv
<1> QED BY <1>1, <1>2, <1>3, <1>4, <1>5 DEF TInv, TypeOK

\* The types, with the queues' and the clocks' bounds, are an invariant of a step.
LEMMA TypeInductive == TInv /\ [Next]_vars => TInv'
  BY ManagerStep, SensingStep, EstimatorStep, ActingStep, FaultsStep, CommandsStep,
     SensorStep, OrderStep DEF TInv, TypeOK

\* Every variable of the board keeps its type and its limit: in particular a
\* control result and a mode's entry are never newer than the newest packet, on
\* which the ages of the packets rest (adcs_manager.c, command_handler.c).
THEOREM TypeTheorem == Spec => []TypeOK
<1>1. Init => TInv BY InitType
<1>2. TInv /\ [Next]_vars => TInv' BY TypeInductive
<1>3. TInv => TypeOK BY DEF TInv
<1> QED BY <1>1, <1>2, <1>3, PTL DEF Spec

-----------------------------------------------------------------------------
(***************************************************************************)
(* The coils.  Between its update and its call of the driver the control   *)
(* task is interrupted by the sensor task and by received commands only.   *)
(***************************************************************************)
FaultInv == ctl.pc = "updated" /\ mgr.mode \notin Passive => CriticalFaults = {}

AttitudeInv ==
  ctl.pc = "updated" /\ mode_needs_attitude(mgr.mode) =>
    latest_attitude.valid /\ latest_attitude.age <= Stale + ctl.lag

ActInv == FaultInv /\ AttitudeInv

\* No fault appears while the control task is between update and driver.
LEMMA FaultStep == TInv /\ FaultInv /\ [Next]_vars => FaultInv'
<1> SUFFICES ASSUME TInv, FaultInv, [Next]_vars PROVE FaultInv'
  OBVIOUS
<1> USE FieldFacts DEF TInv
<1>1. CASE SensorSample
  <2>1. mgr'.mode = mgr.mode BY <1>1 DEF SensorSample, Manager
  <2>2. ctl'.pc = ctl.pc BY <1>1 DEF SensorSample, Later, TypeOK, TypeActing
  <2> QED BY <1>1, <2>1, <2>2 DEF SensorSample, FaultInv, CriticalFaults
<1>2. CASE SensorPublish
  BY <1>2 DEF SensorPublish, manager, estimator, acting, command, FaultInv,
     CriticalFaults
<1>3. CASE Estimate
  BY <1>3 DEF Estimate, Estimating, HighestIdle, acting, FaultInv, CriticalFaults
<1>4. CASE EstimateCorrupt
  BY <1>4, BootFacts DEF EstimateCorrupt, Reset, FaultInv
<1>5. CASE ControlTime
  BY <1>5 DEF ControlTime, manager, sensing, estimator, command, FaultInv,
     CriticalFaults
<1>6. CASE ControlUpdate
  BY <1>6, UpdateStep DEF ControlUpdate, FaultInv, CriticalFaults
<1>7. CASE ControlAct
  BY <1>7 DEF ControlAct, manager, sensing, estimator, command, FaultInv,
     CriticalFaults
<1>8. CASE HkEvaluate
  BY <1>8 DEF HkEvaluate, HkRest, manager, sensing, estimator, acting, command,
     FaultInv, CriticalFaults, LowestIdle, HighestIdle
<1>9. CASE HkClear
  BY <1>9 DEF HkClear, HkRest, manager, sensing, estimator, acting, command, FaultInv,
     CriticalFaults, LowestIdle, HighestIdle
<1>10. CASE HkReport
  BY <1>10 DEF HkReport, HkRest, manager, sensing, estimator, acting, command,
     FaultInv, CriticalFaults, LowestIdle, HighestIdle
<1>11. CASE HkUpdate
  BY <1>11 DEF HkUpdate, LowestIdle, HighestIdle, FaultInv
<1>12. CASE ReceiveCommand
  <2>1. CASE Reset BY <2>1, BootFacts DEF Reset, FaultInv
  <2>2. CASE UNCHANGED <<mgr, ctl, active_faults, latest_attitude>>
    BY <2>2 DEF FaultInv, CriticalFaults
  <2> QED BY <1>12, <2>1, <2>2, ReceiveFacts
<1>13. CASE ExecuteCommand
  BY <1>13 DEF ExecuteCommand, CommandRest, sensing, estimator, acting, FaultInv,
     CriticalFaults, LowestIdle, HighestIdle
<1>14. CASE RequestSlew
  BY <1>14 DEF RequestSlew, CommandRest, sensing, estimator, acting, FaultInv,
     CriticalFaults, LowestIdle, HighestIdle
<1>15. CASE UNCHANGED vars
  BY <1>15 DEF vars, manager, sensing, estimator, acting, command, FaultInv,
     CriticalFaults
<1> QED BY <1>1, <1>2, <1>3, <1>4, <1>5, <1>6, <1>7, <1>8, <1>9, <1>10, <1>11, <1>12,
        <1>13, <1>14, <1>15 DEF Next, SensorTask, EstimationTask, ControlTask,
        HousekeepingTask, CommandTask

\* The attitude the update relied on ages by the ticks the clock reading is old.
LEMMA AttitudeStep == TInv /\ AttitudeInv /\ [Next]_vars => AttitudeInv'
<1> SUFFICES ASSUME TInv, AttitudeInv, [Next]_vars PROVE AttitudeInv'
  OBVIOUS
<1> USE FieldFacts, OldFacts DEF TInv
<1>1. CASE SensorSample
  <2>1. mgr'.mode = mgr.mode BY <1>1 DEF SensorSample, Manager
  <2>2. ctl'.pc = ctl.pc /\ (ctl.pc = "updated" => ctl'.lag = ctl.lag + 1)
    BY <1>1 DEF SensorSample, Later, TypeOK, TypeActing
  <2>3. /\ latest_attitude'.valid = latest_attitude.valid
        /\ latest_attitude'.age = Older(latest_attitude.age)
    BY <1>1 DEF SensorSample, TypeOK, TypeEstimator
  <2>4. Older(latest_attitude.age) <= latest_attitude.age + 1
    BY OlderFacts DEF Ages
  <2>5. SUFFICES ASSUME ctl.pc = "updated", mode_needs_attitude(mgr.mode)
        PROVE  latest_attitude'.valid /\ latest_attitude'.age <= Stale + ctl'.lag
    BY <2>1, <2>2 DEF AttitudeInv, mode_needs_attitude
  <2>6. latest_attitude.valid /\ latest_attitude.age <= Stale + ctl.lag
    BY <2>5 DEF AttitudeInv
  <2>7. Older(latest_attitude.age) <= Stale + (ctl.lag + 1)
    BY <2>4, <2>6, OlderFacts DEF Ages
  <2> QED BY <2>2, <2>3, <2>5, <2>6, <2>7
<1>2. CASE SensorPublish
  BY <1>2 DEF SensorPublish, manager, estimator, acting, command, AttitudeInv,
     mode_needs_attitude
<1>3. CASE Estimate
  BY <1>3 DEF Estimate, Estimating, HighestIdle, acting, AttitudeInv,
     mode_needs_attitude
<1>4. CASE EstimateCorrupt
  BY <1>4, BootFacts DEF EstimateCorrupt, Reset, AttitudeInv
<1>5. CASE ControlTime
  BY <1>5 DEF ControlTime, manager, sensing, estimator, command, AttitudeInv,
     mode_needs_attitude
<1>6. CASE ControlUpdate
  <2>1. mode_needs_attitude(mgr'.mode) => attitude_usable(ctl.lag)
    BY <1>6, UpdateStep DEF ControlUpdate
  <2>2. ctl'.lag = ctl.lag BY <1>6 DEF ControlUpdate, TypeOK, TypeActing
  <2>3. UNCHANGED latest_attitude BY <1>6 DEF ControlUpdate, estimator
  <2>4. attitude_usable(ctl.lag) =>
          latest_attitude.valid /\ latest_attitude.age <= Stale + ctl.lag
    BY DEF attitude_usable, Fresh, Ages
  <2> QED BY <2>1, <2>2, <2>3, <2>4 DEF AttitudeInv, mode_needs_attitude
<1>7. CASE ControlAct
  BY <1>7 DEF ControlAct, manager, sensing, estimator, command, AttitudeInv,
     mode_needs_attitude
<1>8. CASE HkEvaluate
  BY <1>8 DEF HkEvaluate, HkRest, manager, sensing, estimator, acting, command,
     AttitudeInv, mode_needs_attitude, LowestIdle, HighestIdle
<1>9. CASE HkClear
  BY <1>9 DEF HkClear, HkRest, manager, sensing, estimator, acting, command,
     AttitudeInv, mode_needs_attitude, LowestIdle, HighestIdle
<1>10. CASE HkReport
  BY <1>10 DEF HkReport, HkRest, manager, sensing, estimator, acting, command,
     AttitudeInv, mode_needs_attitude, LowestIdle, HighestIdle
<1>11. CASE HkUpdate
  BY <1>11 DEF HkUpdate, LowestIdle, HighestIdle, AttitudeInv
<1>12. CASE ReceiveCommand
  <2>1. CASE Reset BY <2>1, BootFacts DEF Reset, AttitudeInv
  <2>2. CASE UNCHANGED <<mgr, ctl, active_faults, latest_attitude>>
    BY <2>2 DEF AttitudeInv, mode_needs_attitude
  <2> QED BY <1>12, <2>1, <2>2, ReceiveFacts
<1>13. CASE ExecuteCommand
  BY <1>13 DEF ExecuteCommand, CommandRest, sensing, estimator, acting, AttitudeInv,
     mode_needs_attitude, LowestIdle, HighestIdle
<1>14. CASE RequestSlew
  BY <1>14 DEF RequestSlew, CommandRest, sensing, estimator, acting, AttitudeInv,
     mode_needs_attitude, LowestIdle, HighestIdle
<1>15. CASE UNCHANGED vars
  BY <1>15 DEF vars, manager, sensing, estimator, acting, command, AttitudeInv,
     mode_needs_attitude
<1> QED BY <1>1, <1>2, <1>3, <1>4, <1>5, <1>6, <1>7, <1>8, <1>9, <1>10, <1>11, <1>12,
        <1>13, <1>14, <1>15 DEF Next, SensorTask, EstimationTask, ControlTask,
        HousekeepingTask, CommandTask

\* The first state: nothing acts yet.
LEMMA InitAct == Init => ActInv
  BY BootFacts DEF Init, ActInv, FaultInv, AttitudeInv

\* The control task turns its coils on in ControlAct only, by way of Drive.
LEMMA TorqueFacts ==
  ASSUME TInv, Next, Torques
  PROVE  ~inhibited /\ mgr.mode \notin Passive
<1> USE FieldFacts DEF TInv, Torques
<1>1. ControlAct
  <2>1. ~(EstimateCorrupt \/ Reset) BY BootFacts DEF EstimateCorrupt, Reset
  <2>2. CASE ReceiveCommand BY <2>1, <2>2, ReceiveFacts
  <2>3. CASE SensorTask
    BY <2>3 DEF SensorTask, SensorSample, SensorPublish, Later, acting,
                TypeOK, TypeActing
  <2>4. CASE EstimationTask
    BY <2>1, <2>4 DEF EstimationTask, Estimate, Estimating, HighestIdle
  <2>5. CASE ControlTime \/ ControlUpdate BY <2>5 DEF ControlTime, ControlUpdate
  <2>6. CASE HousekeepingTask
    BY <2>6 DEF HousekeepingTask, HkEvaluate, HkClear, HkReport, HkUpdate,
                LowestIdle, HighestIdle
  <2>7. CASE CommandTask
    BY <2>7 DEF CommandTask, ExecuteCommand, RequestSlew, HighestIdle
  <2> QED BY <2>1, <2>2, <2>3, <2>4, <2>5, <2>6, <2>7 DEF Next, ControlTask
<1>2. coils' = Drive(ControllerOk(mgr.mode, latest_sensors.scene))
  BY <1>1 DEF ControlAct
<1> QED BY <1>2 DEF Drive

\* The control laws never drive the coils under a critical fault, inhibited, or
\* in a passive mode, for any readings, thresholds and bounds (control_task.c).
THEOREM TorqueTheorem == Spec => NoTorqueUnderFault
<1>1. Init => TInv /\ ActInv BY InitType, InitAct
<1>2. TInv /\ ActInv /\ [Next]_vars => (TInv /\ ActInv)'
  BY TypeInductive, FaultStep, AttitudeStep DEF ActInv
<1>3. TInv /\ ActInv /\ [Next]_vars =>
        [Torques => /\ CriticalFaults = {} /\ ~inhibited
                    /\ mgr.mode \notin Passive]_vars
  <2> SUFFICES ASSUME TInv, ActInv, Next, Torques
               PROVE  CriticalFaults = {} /\ ~inhibited /\ mgr.mode \notin Passive
    OBVIOUS
  <2> QED BY TorqueFacts DEF ActInv, FaultInv, Torques
<1> QED BY <1>1, <1>2, <1>3, PTL DEF Spec, NoTorqueUnderFault

\* No pointing law acts on an attitude that is invalid or was stale when the cycle
\* began, for any readings, thresholds and bounds (adcs_manager.c).
THEOREM PointingTheorem == Spec => PointsWithFreshAttitude
<1>1. Init => TInv /\ ActInv BY InitType, InitAct
<1>2. TInv /\ ActInv /\ [Next]_vars => (TInv /\ ActInv)'
  BY TypeInductive, FaultStep, AttitudeStep DEF ActInv
<1>3. TInv /\ ActInv /\ [Next]_vars =>
        [Torques /\ mode_needs_attitude(mgr.mode)
           => latest_attitude.valid /\ latest_attitude.age <= Stale + ctl.lag]_vars
  BY DEF ActInv, AttitudeInv, Torques
<1> QED BY <1>1, <1>2, <1>3, PTL DEF Spec, PointsWithFreshAttitude

-----------------------------------------------------------------------------
(***************************************************************************)
(* Sun acquisition.  A result that update has not counted yet is Uncounted *)
(* until the next update; the ghost count of the packets is then ahead of  *)
(* stable_cycles by that result, or was set back by it.                    *)
(***************************************************************************)
\* A result on a packet newer than the one the mode was entered at is a result of
\* this stay.
StayInv == latest_control.age < mgr.entered => latest_control.source = mgr.mode

Uncounted == /\ latest_control.age < mgr.counted
             /\ latest_control.age < mgr.entered

EarnInv ==
  mgr.mode = "SUN_ACQUISITION" =>
    /\ mgr.stable < SunSettle
    /\ mgr.entered <= latest_control.age /\ mgr.entered < Old => mgr.stable = 0
    /\ \/ mgr.stable <= earned
       \/ latest_control.age > Stale + MaxLag
       \/ Uncounted /\ ~latest_control.small
    /\ Uncounted /\ latest_control.small => mgr.stable < earned
    /\ ctl.pc = "updated" =>
         /\ mgr.stable <= earned
         /\ latest_sensors.age < latest_control.age \/ ~Uncounted

SunInv == StayInv /\ EarnInv

\* One call of update, by either task: afterwards no result of this stay on the
\* newest packet is left uncounted.
LEMMA EarnUpdate ==
  ASSUME TInv, StayInv, EarnInv, NEW lag \in 0..MaxLag, Update(lag), Recount,
         UNCHANGED <<latest_control, latest_sensors>>
  PROVE  /\ StayInv'
         /\ mgr'.mode = "SUN_ACQUISITION" =>
              /\ mgr'.stable < SunSettle /\ mgr'.stable <= earned'
              /\ mgr'.entered <= latest_control'.age => mgr'.stable = 0 \/ mgr'.entered = Old
              /\ Uncounted' /\ latest_control'.small => mgr'.stable < earned'
              /\ latest_sensors'.age < latest_control'.age \/ ~Uncounted'
<1> USE FieldFacts, OldFacts DEF TInv, Ages
<1>0. earned \in Nat /\ latest_sensors.age <= latest_control.age
  BY DEF TypeOK, TypeActing, OrderInv
<1>1. CASE Entered(mgr')
  <2>1. mgr'.entered = latest_sensors.age BY <1>1 DEF Entered
  <2>2. ~(latest_control'.age < mgr'.entered) BY <1>0, <2>1
  <2>3. mgr'.mode = "SUN_ACQUISITION" => mgr'.stable = 0 BY <1>1 DEF Entered
  <2>4. earned' \in Nat BY <1>0 DEF Recount
  <2> QED BY <2>2, <2>3, <2>4 DEF StayInv, Uncounted
<1>2. CASE Stayed(mgr, mgr', lag)
  <2>1. mgr'.mode = mgr.mode /\ mgr'.entered = mgr.entered BY <1>2 DEF Stayed
  <2>2. StayInv' BY <2>1 DEF StayInv
  <2>3. earned' = earned BY <2>1 DEF Recount
  <2> SUFFICES ASSUME mgr.mode = "SUN_ACQUISITION"
      PROVE  /\ mgr'.stable < SunSettle /\ mgr'.stable <= earned
             /\ mgr.entered <= latest_control.age =>
                  mgr'.stable = 0 \/ mgr.entered = Old
             /\ Uncounted' /\ latest_control.small => mgr'.stable < earned
             /\ latest_sensors.age < latest_control.age \/ ~Uncounted'
    BY <2>1, <2>2, <2>3
  <2>4. Fresh(latest_sensors.age, lag, Stale)
    BY <2>1, UpdateStep DEF mode_needs_attitude
  <2>5. latest_control.age < mgr.entered => latest_control.source = "SUN_ACQUISITION"
    BY DEF StayInv
  <2>a. Mine(mgr, lag) => ~(mgr.entered <= latest_control.age) BY DEF Mine
  <2>6. CASE ~Mine(mgr, lag) /\ mgr'.stable = 0 /\ mgr'.counted = mgr.counted
    <3>1. Uncounted' => Uncounted BY <2>1, <2>6 DEF Uncounted
    <3>2. Uncounted /\ latest_control.small => 0 < earned BY <1>0 DEF EarnInv
    <3>3. latest_sensors.age = latest_control.age => ~Uncounted
      BY <2>4, <2>5, <2>6 DEF Mine, Uncounted
    <3> QED BY <1>0, <2>6, <3>1, <3>2, <3>3
  <2>7. CASE /\ Mine(mgr, lag) /\ ~New(mgr)
             /\ mgr'.stable = mgr.stable /\ mgr'.counted = mgr.counted
    <3>1. ~Uncounted /\ ~Uncounted' BY <2>7 DEF New, Uncounted
    <3>2. ~(latest_control.age > Stale + MaxLag) BY <2>7 DEF Mine, Fresh
    <3> QED BY <2>7, <2>a, <3>1, <3>2 DEF EarnInv
  <2>8. CASE /\ Mine(mgr, lag) /\ New(mgr) /\ ~latest_control.small
             /\ mgr'.stable = 0 /\ mgr'.counted = latest_control.age
    <3>1. ~Uncounted' BY <2>8 DEF Uncounted
    <3> QED BY <1>0, <2>8, <2>a, <3>1
  <2>9. CASE /\ Mine(mgr, lag) /\ New(mgr) /\ latest_control.small
             /\ mgr.stable + 1 < SunSettle
             /\ mgr'.stable = mgr.stable + 1 /\ mgr'.counted = latest_control.age
    <3>1. ~Uncounted' BY <2>9 DEF Uncounted
    <3>2. Uncounted BY <2>9 DEF Mine, New, Uncounted
    <3>3. mgr.stable < earned BY <2>9, <3>2 DEF EarnInv
    <3> QED BY <1>0, <2>9, <2>a, <3>1, <3>3
  <2> QED BY <1>2, <2>6, <2>7, <2>8, <2>9 DEF Stayed, SunCount
<1> QED BY <1>1, <1>2, UpdateStep

\* A result of another mode is never taken for one of this stay.
LEMMA StayStep == TInv /\ SunInv /\ [Next]_vars => StayInv'
<1> SUFFICES ASSUME TInv, SunInv, [Next]_vars PROVE StayInv'
  OBVIOUS
<1> USE FieldFacts, OldFacts DEF TInv, SunInv
<1>1. CASE SensorSample
  <2>1. /\ latest_sensors'.age = Older(latest_sensors.age)
        /\ latest_control'.age = Older(latest_control.age)
        /\ latest_control'.source = latest_control.source
        /\ latest_control'.small = latest_control.small
    BY <1>1 DEF SensorSample, TypeOK, TypeSensing, TypeActing
  <2>2. /\ mgr'.entered = Older(mgr.entered) /\ mgr'.counted = Older(mgr.counted)
        /\ mgr'.mode = mgr.mode /\ mgr'.stable = mgr.stable
    BY <1>1 DEF SensorSample, Manager
  <2> QED BY <2>1, <2>2, OlderOrder DEF StayInv
<1>2. CASE SensorPublish
  BY <1>2 DEF SensorPublish, manager, estimator, acting, command, StayInv
<1>3. CASE Estimate
  BY <1>3 DEF Estimate, Estimating, HighestIdle, acting, StayInv
<1>4. CASE EstimateCorrupt
  BY <1>4, BootFacts DEF EstimateCorrupt, Reset, StayInv
<1>5. CASE ControlTime
  BY <1>5 DEF ControlTime, manager, sensing, estimator, command, StayInv
<1>6. CASE ControlUpdate
  BY <1>6, EarnUpdate DEF ControlUpdate, sensing
<1>7. CASE ControlAct
  <2>1. latest_control'.source = mgr.mode BY <1>7 DEF ControlAct
  <2> QED BY <1>7, <2>1 DEF ControlAct, manager, StayInv
<1>8. CASE HkEvaluate
  BY <1>8 DEF HkEvaluate, HkRest, manager, sensing, estimator, acting, command,
     StayInv
<1>9. CASE HkClear
  BY <1>9 DEF HkClear, HkRest, manager, sensing, estimator, acting, command, StayInv
<1>10. CASE HkReport
  BY <1>10 DEF HkReport, HkRest, manager, sensing, estimator, acting, command, StayInv
<1>11. CASE HkUpdate
  BY <1>11, EarnUpdate DEF HkUpdate, sensing
<1>12. CASE ReceiveCommand
  <2>1. CASE Reset BY <2>1, BootFacts DEF Reset, StayInv
  <2>2. CASE UNCHANGED <<mgr, ctl, earned, latest_control, latest_sensors>>
    BY <2>2 DEF StayInv
  <2> QED BY <1>12, <2>1, <2>2, ReceiveFacts
<1>13. CASE ExecuteCommand
  <2>1. /\ mgr'.entered = mgr.entered /\ mgr'.counted = mgr.counted
        /\ mgr'.mode = mgr.mode /\ mgr'.stable = mgr.stable
    BY <1>13 DEF ExecuteCommand, Manager
  <2> QED BY <1>13, <2>1 DEF ExecuteCommand, CommandRest, sensing, acting, StayInv
<1>14. CASE RequestSlew
  <2>1. /\ mgr'.entered = mgr.entered /\ mgr'.counted = mgr.counted
        /\ mgr'.mode = mgr.mode /\ mgr'.stable = mgr.stable
    BY <1>14 DEF RequestSlew, Manager
  <2> QED BY <1>14, <2>1 DEF RequestSlew, CommandRest, sensing, acting, StayInv
<1>15. CASE UNCHANGED vars
  BY <1>15 DEF vars, manager, sensing, estimator, acting, command, StayInv
<1> QED BY <1>1, <1>2, <1>3, <1>4, <1>5, <1>6, <1>7, <1>8, <1>9, <1>10, <1>11, <1>12,
        <1>13, <1>14, <1>15 DEF Next, SensorTask, EstimationTask, ControlTask,
        HousekeepingTask, CommandTask

\* stable_cycles never runs ahead of the packets that earned it.
LEMMA EarnStep == TInv /\ SunInv /\ [Next]_vars => EarnInv'
<1> SUFFICES ASSUME TInv, SunInv, [Next]_vars PROVE EarnInv'
  OBVIOUS
<1> USE FieldFacts, OldFacts DEF TInv, SunInv
<1>0. earned \in Nat /\ latest_sensors.age <= latest_control.age
  BY DEF TypeOK, TypeActing, OrderInv
<1>1. CASE SensorSample
  <2>1. /\ latest_sensors'.age = Older(latest_sensors.age)
        /\ latest_control'.age = Older(latest_control.age)
        /\ latest_control'.source = latest_control.source
        /\ latest_control'.small = latest_control.small
    BY <1>1 DEF SensorSample, TypeOK, TypeSensing, TypeActing
  <2>2. /\ mgr'.entered = Older(mgr.entered) /\ mgr'.counted = Older(mgr.counted)
        /\ mgr'.mode = mgr.mode /\ mgr'.stable = mgr.stable
    BY <1>1 DEF SensorSample, Manager
  <2>3. UNCHANGED earned /\ ctl'.pc = ctl.pc
    BY <1>1 DEF SensorSample, Later, TypeOK, TypeActing
  <2>4. Uncounted' => Uncounted BY <2>1, <2>2, OlderOrder DEF Uncounted
  <2>5. latest_control.age > Stale + MaxLag => latest_control'.age > Stale + MaxLag
    BY <2>1, OlderFacts DEF Ages
  <2>6. Uncounted => Uncounted' \/ latest_control'.age > Stale + MaxLag
    BY <2>1, <2>2 DEF Uncounted, Older, Ages
  <2>7. latest_sensors.age < latest_control.age => latest_sensors'.age < latest_control'.age
    <3>1. latest_sensors.age \in {0, Old} BY <1>1 DEF SensorSample, SensorInv
    <3> QED BY <2>1, <3>1 DEF Older, Ages
  <2>a. mgr'.entered <= latest_control'.age /\ mgr'.entered < Old =>
          mgr.entered <= latest_control.age /\ mgr.entered < Old
    BY <2>1, <2>2 DEF Older, Ages
  <2>8. SUFFICES ASSUME mgr.mode = "SUN_ACQUISITION"
        PROVE  /\ mgr'.stable < SunSettle
               /\ mgr'.entered <= latest_control'.age /\ mgr'.entered < Old =>
                    mgr'.stable = 0
               /\ \/ mgr'.stable <= earned'
                  \/ latest_control'.age > Stale + MaxLag
                  \/ Uncounted' /\ ~latest_control'.small
               /\ Uncounted' /\ latest_control'.small => mgr'.stable < earned'
               /\ ctl'.pc = "updated" =>
                    /\ mgr'.stable <= earned'
                    /\ latest_sensors'.age < latest_control'.age \/ ~Uncounted'
    BY <2>2 DEF EarnInv
  <2> QED BY <2>1, <2>2, <2>3, <2>4, <2>5, <2>6, <2>7, <2>8, <2>a DEF EarnInv
<1>2. CASE SensorPublish
  <2>1. UNCHANGED <<mgr, ctl, earned, latest_control>> /\ latest_sensors'.age = 0
    BY <1>2 DEF SensorPublish, manager, acting
  <2>2. latest_sensors.age # 0 BY <1>2 DEF SensorPublish, SensorInv
  <2>3. latest_sensors'.age < latest_control'.age BY <1>0, <2>1, <2>2 DEF Ages
  <2> QED BY <2>1, <2>3 DEF EarnInv, Uncounted
<1>3. CASE Estimate
  BY <1>3 DEF Estimate, Estimating, HighestIdle, acting, EarnInv, Uncounted
<1>4. CASE EstimateCorrupt
  BY <1>4, BootFacts DEF EstimateCorrupt, Reset, EarnInv, Uncounted
<1>5. CASE ControlTime
  BY <1>5 DEF ControlTime, manager, sensing, estimator, command, EarnInv, Uncounted
<1>6. CASE ControlUpdate
  BY <1>6, EarnUpdate DEF ControlUpdate, sensing, EarnInv
<1>7. CASE ControlAct
  <2> DEFINE ok == ControllerOk(mgr.mode, latest_sensors.scene)
             small == /\ ok /\ mgr.mode \in SunModes /\ ~inhibited
                      /\ latest_sensors.scene # "askew"
  <2>1. /\ UNCHANGED <<mgr, latest_sensors>> /\ ctl'.pc = "idle" /\ ctl.pc = "updated"
        /\ latest_control'.age = latest_sensors.age
    BY <1>7 DEF ControlAct, manager, sensing
  <2>2. latest_control'.small = small
    <3>1. \E q : latest_control' = [age |-> latest_sensors.age, source |-> mgr.mode,
                                   small |-> small, settled |-> q]
      BY <1>7 DEF ControlAct
    <3> QED BY <3>1
  <2>3. earned' = IF latest_sensors.age >= latest_control.age THEN earned
                  ELSE IF ~(small /\ mgr.mode = "SUN_ACQUISITION") THEN 0
                  ELSE IF earned < SunSettle THEN earned + 1 ELSE earned
    BY <1>7 DEF ControlAct
  <2> HIDE DEF ok, small
  <2> SUFFICES ASSUME mgr.mode = "SUN_ACQUISITION"
      PROVE  /\ mgr.stable < SunSettle
             /\ mgr.entered <= latest_control'.age /\ mgr.entered < Old => mgr.stable = 0
             /\ \/ mgr.stable <= earned'
                \/ latest_control'.age > Stale + MaxLag
                \/ Uncounted' /\ ~latest_control'.small
             /\ Uncounted' /\ latest_control'.small => mgr.stable < earned'
    BY <2>1 DEF EarnInv
  <2>4. mgr.stable < SunSettle /\ mgr.stable <= earned BY <2>1 DEF EarnInv
  <2>a. mgr.entered <= latest_control'.age /\ mgr.entered < Old => mgr.stable = 0
    BY <1>0, <2>1 DEF EarnInv, Ages
  <2>5. CASE latest_sensors.age >= latest_control.age
    <3>1. latest_sensors.age = latest_control.age BY <1>0, <2>5 DEF Ages
    <3>2. ~Uncounted BY <2>1, <3>1 DEF EarnInv, Ages
    <3>3. ~Uncounted' BY <2>1, <3>1, <3>2 DEF Uncounted
    <3> QED BY <2>3, <2>4, <2>5, <2>a, <3>3
  <2>6. CASE ~(latest_sensors.age >= latest_control.age) /\ small
    <3>1. mgr.stable < earned' BY <1>0, <2>3, <2>4, <2>6
    <3>2. mgr.stable <= earned' BY <1>0, <2>3, <2>4, <2>6
    <3> QED BY <2>4, <2>a, <3>1, <3>2
  <2>7. CASE ~(latest_sensors.age >= latest_control.age) /\ ~small
    <3>1. latest_control'.age < mgr.counted
      BY <2>1, <2>7 DEF OrderInv, Ages
    <3>2. latest_control'.age < mgr.entered \/ latest_sensors.age = mgr.entered
      BY <2>1, <2>7 DEF OrderInv, Ages
    <3>3. CASE latest_control'.age < mgr.entered
      <4>1. Uncounted' BY <2>1, <3>1, <3>3 DEF Uncounted
      <4> QED BY <2>2, <2>4, <2>7, <2>a, <4>1
    <3>4. CASE latest_sensors.age = mgr.entered
      <4>1. ~Uncounted' BY <2>1, <3>4 DEF Uncounted, Ages
      <4>2. mgr.stable = 0 BY <2>1, <2>7, <2>a, <3>4 DEF Ages
      <4>3. earned' = 0 BY <2>3, <2>7
      <4> QED BY <2>4, <2>a, <4>1, <4>2, <4>3
    <3> QED BY <3>2, <3>3, <3>4
  <2> QED BY <2>5, <2>6, <2>7
<1>8. CASE HkEvaluate
  BY <1>8 DEF HkEvaluate, HkRest, manager, sensing, estimator, acting, command,
     EarnInv, Uncounted
<1>9. CASE HkClear
  BY <1>9 DEF HkClear, HkRest, manager, sensing, estimator, acting, command, EarnInv,
     Uncounted
<1>10. CASE HkReport
  BY <1>10 DEF HkReport, HkRest, manager, sensing, estimator, acting, command,
     EarnInv, Uncounted
<1>11. CASE HkUpdate
  BY <1>11, EarnUpdate DEF HkUpdate, LowestIdle, HighestIdle, sensing, EarnInv
<1>12. CASE ReceiveCommand
  <2>1. CASE Reset BY <2>1, BootFacts DEF Reset, EarnInv, Uncounted
  <2>2. CASE UNCHANGED <<mgr, ctl, earned, latest_control, latest_sensors>>
    BY <2>2 DEF EarnInv, Uncounted
  <2> QED BY <1>12, <2>1, <2>2, ReceiveFacts
<1>13. CASE ExecuteCommand
  <2>1. /\ mgr'.entered = mgr.entered /\ mgr'.counted = mgr.counted
        /\ mgr'.mode = mgr.mode /\ mgr'.stable = mgr.stable
    BY <1>13 DEF ExecuteCommand, Manager
  <2> QED BY <1>13, <2>1 DEF ExecuteCommand, CommandRest, sensing, acting, EarnInv, Uncounted
<1>14. CASE RequestSlew
  <2>1. /\ mgr'.entered = mgr.entered /\ mgr'.counted = mgr.counted
        /\ mgr'.mode = mgr.mode /\ mgr'.stable = mgr.stable
    BY <1>14 DEF RequestSlew, Manager
  <2> QED BY <1>14, <2>1 DEF RequestSlew, CommandRest, sensing, acting, EarnInv, Uncounted
<1>15. CASE UNCHANGED vars
  BY <1>15 DEF vars, manager, sensing, estimator, acting, command, EarnInv, Uncounted
<1> QED BY <1>1, <1>2, <1>3, <1>4, <1>5, <1>6, <1>7, <1>8, <1>9, <1>10, <1>11, <1>12,
        <1>13, <1>14, <1>15 DEF Next, SensorTask, EstimationTask, ControlTask,
        HousekeepingTask, CommandTask

\* The first state: no packet has been judged yet.
LEMMA InitSun == Init => SunInv
  BY BootFacts, OldFacts DEF Init, SunInv, StayInv, EarnInv

\* Sun acquisition ends by itself only after SunSettle packets in a row with a
\* small error, however control and housekeeping task interleave their updates
\* and whatever the bounds (adcs_manager.c).
THEOREM SunTheorem == Spec => SunSettleIsEarned
<1>1. Init => TInv /\ SunInv BY InitType, InitSun
<1>2. TInv /\ SunInv /\ [Next]_vars => (TInv /\ SunInv)'
  BY TypeInductive, StayStep, EarnStep DEF SunInv
<1>3. TInv /\ SunInv /\ [Next]_vars =>
        [mgr.mode = "SUN_ACQUISITION" /\ mgr'.mode = "SUN_POINTING"
           /\ mgr.requested # "SUN_POINTING" => earned >= SunSettle]_vars
  <2> SUFFICES ASSUME TInv, SunInv, Next, mgr.mode = "SUN_ACQUISITION",
                      mgr'.mode = "SUN_POINTING", mgr.requested # "SUN_POINTING"
               PROVE  earned >= SunSettle
    OBVIOUS
  <2> USE FieldFacts, OldFacts DEF TInv
  <2>1. \E lag : Update(lag)
    <3>1. CASE SensorTask
      BY <3>1 DEF SensorTask, SensorSample, SensorPublish, manager, Manager
    <3>2. CASE Estimate \/ ControlTime \/ ControlAct
      BY <3>2 DEF Estimate, ControlTime, ControlAct, manager
    <3>3. CASE EstimateCorrupt BY <3>3, BootFacts DEF EstimateCorrupt, Reset
    <3>4. CASE HkEvaluate \/ HkClear \/ HkReport
      BY <3>4 DEF HkEvaluate, HkClear, HkReport, HkRest, manager
    <3>5. CASE ControlUpdate \/ HkUpdate BY <3>5 DEF ControlUpdate, HkUpdate
    <3>6. CASE ReceiveCommand
      <4>1. CASE Reset BY <4>1, BootFacts DEF Reset
      <4>2. CASE UNCHANGED mgr BY <4>2
      <4> QED BY <3>6, <4>1, <4>2, ReceiveFacts
    <3>7. CASE CommandTask
      <4>1. mgr'.mode = mgr.mode
        BY <3>7 DEF CommandTask, ExecuteCommand, RequestSlew, Manager
      <4> QED BY <4>1
    <3> QED BY <3>1, <3>2, <3>3, <3>4, <3>5, <3>6, <3>7
            DEF Next, EstimationTask, ControlTask, HousekeepingTask
  <2>2. PICK lag : Update(lag) BY <2>1
  <2>3. Earns(mgr, lag) BY <2>2, UpdateStep
  <2>4. Uncounted /\ latest_control.small BY <2>3 DEF Earns, Mine, New, Uncounted
  <2>5. mgr.stable < earned BY <2>4 DEF SunInv, EarnInv
  <2>6. mgr.stable + 1 >= SunSettle BY <2>3 DEF Earns
  <2> QED BY <2>5, <2>6 DEF TypeOK, TypeActing
<1> QED BY <1>1, <1>2, <1>3, PTL DEF Spec, SunSettleIsEarned

=============================================================================
