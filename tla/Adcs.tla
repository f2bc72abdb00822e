-------------------------------- MODULE Adcs --------------------------------
(***************************************************************************)
(* The attitude control board: the mode machine of adcs_manager.c, the     *)
(* fault latches of fault_manager.c, and the FreeRTOS tasks that share     *)
(* them (src/apps/adcs/Application, desktop build).                        *)
(*                                                                         *)
(* Sensor and control task have the highest priority and are time-sliced;  *)
(* estimation, command and housekeeping task run, in this order of         *)
(* priority, when no task above them has work.  Commands arrive on a       *)
(* thread outside the scheduler.                                           *)
(*                                                                         *)
(* Time is the simulator's clock, which the sensor task itself advances at *)
(* the start of every cycle, so one tick is one sensor cycle.  Timestamps  *)
(* are kept as ages in ticks; an age of Old stands for every greater one   *)
(* and for the timestamp 0.  A task that read the clock lag ticks ago      *)
(* takes a timestamp of age a for one of age a - lag.                      *)
(***************************************************************************)
EXTENDS Integers, Sequences, FiniteSets

CONSTANTS
  Readings,        \* what the sensors may see, of Scenes
  CommandedModes,  \* modes that SET_MODE commands ask for
  Goals,           \* attitudes that slew commands ask for
  Axes,            \* coils that SET_MAGNETORQUER commands switch
  OtherCommands,   \* of ControlCommands
  Stale,           \* sensor_stale_after_us, estimate_stale_after_us of the
                   \* manager and maximum_sample_gap_s of the estimator
  FaultStale,      \* estimate_stale_after_us of the fault manager
  FixAge,          \* SIMPLE_ESTIMATOR_MAX_FIX_AGE_US
  DetumbleSettle,  \* detumble_settle_cycles
  SunSettle,       \* sun_acquisition_settle_cycles
  SlewSettle,      \* settled_cycles_required
  QueueLength,     \* COMMAND_QUEUE_LENGTH
  MaxLag,          \* bound: sensor cycles during one cycle of the control task
                   \* or of the housekeeping task
  MaxCommands,     \* bound: commands received
  MaxUpsets        \* bound: changes of the scene to another than the nominal
                   \* one, actuator failures and corrupt estimates

Scenes == {"nominal", "askew", "drifting", "spinning", "excess", "eclipse", "weak",
           "weak_spinning", "strong", "no_magnetometer", "no_gyroscope", "no_orbit"}
ControlCommands == {"inhibit", "permit", "reset_estimator", "refused", "reset",
                    "shutdown"}
Modes == {"BOOT", "SAFE", "DETUMBLE", "SUN_ACQUISITION", "SUN_POINTING",
          "EARTH_POINTING", "SLEWING", "TARGET_POINTING", "SCIENCE"}
Nothing == "nothing"

ASSUME InputAssumption ==
  /\ "nominal" \in Readings /\ Readings \subseteq Scenes
  /\ CommandedModes \subseteq Modes \ {"BOOT"}
  /\ OtherCommands \subseteq ControlCommands
  /\ Goals \cap {"identity", "sun", "nadir", Nothing} = {}
ASSUME ThresholdAssumption ==
  /\ {Stale, DetumbleSettle, SunSettle, SlewSettle, QueueLength} \subseteq Nat \ {0}
  /\ {FaultStale, FixAge, MaxLag, MaxCommands, MaxUpsets} \subseteq Nat
  /\ Stale < FaultStale /\ FaultStale <= FixAge

Old == FixAge + MaxLag + 1
Ages == 0..Old
Older(a) == IF a < Old THEN a + 1 ELSE a

Commands ==
  [type : {"SET_MODE"}, arg : CommandedModes] \cup
  [type : {"SLEW"}, arg : Goals] \cup
  [type : {"coil_on", "coil_off"}, arg : Axes] \cup
  [type : OtherCommands, arg : {Nothing}]

VARIABLES
  mgr,             \* mode, requested_mode, mode_entered_us, stable_cycles,
                   \* last_counted_control_timestamp_us, guidance_target
  latest_sensors,  \* age and scene of the newest packet
  latest_attitude, \* age and validity of the newest estimate
  latest_control,  \* age, source_mode, small pointing error, target_settled
  references,      \* the reference vectors are valid
  inhibited,       \* actuators_inhibited
  active_faults,
  sampling,        \* sensor task: scene read and not yet published
  scene,           \* what the sensors see
  packet,          \* the sensor queue holds latest_sensors
  fix, previous,   \* estimator: ages of the last fix and of the last packet
  reset_requested,
  ctl,             \* control task: next step, lag of its clock
  controller,      \* previous_mode, settled_cycles
  coils,           \* what drives the magnetorquers
  manual,          \* axes with a manual dipole; s_manual_override if any
  hk,              \* housekeeping task: next step, faults seen, latched, lag
  queue, slewing,  \* command queue; slew command half executed
  up,              \* the board is not shut down
  received, upsets,
  earned           \* packets since SUN_ACQUISITION was entered whose first
                   \* control result has a small error, in a row

manager == <<mgr, references, inhibited>>
sensing == <<sampling, scene, latest_sensors, packet>>
estimator == <<fix, previous, latest_attitude>>
acting  == <<ctl, controller, coils, latest_control, earned>>
command == <<queue, slewing, manual, reset_requested>>
vars == <<manager, sensing, estimator, acting, command, active_faults, hk, up,
          received, upsets>>

Faults == {"stale", "range", "rate", "attitude", "actuator"}

Manager == [mode : Modes, requested : Modes \ {"BOOT"}, entered : Ages,
            stable : Nat, counted : Ages,
            target : Goals \cup {"identity", "sun", "nadir"}]

TypeManager ==
  /\ mgr \in Manager
  /\ references \in BOOLEAN /\ inhibited \in BOOLEAN

TypeSensing ==
  /\ latest_sensors \in [age : {0, 1, Old}, scene : Readings \cup {Nothing}]
  /\ sampling \in Readings \cup {Nothing} /\ scene \in Readings
  /\ packet \in BOOLEAN

TypeEstimator ==
  /\ latest_attitude \in [age : Ages, valid : BOOLEAN]
  /\ fix \in Ages /\ previous \in Ages

TypeActing ==
  /\ latest_control \in [age : Ages, source : Modes, small : BOOLEAN,
                         settled : BOOLEAN]
  /\ ctl \in [pc : {"idle", "timed", "updated"}, lag : 0..MaxLag]
  /\ controller \in [previous_mode : Modes, cycles : 0..SlewSettle]
  /\ coils \in {"off", "auto", "manual"} /\ earned \in Nat

TypeFaults ==
  /\ active_faults \subseteq Faults
  /\ hk \in [pc : {"idle", "evaluated", "cleared", "reported"},
             observed : SUBSET Faults, latched : SUBSET Faults, lag : 0..MaxLag]

TypeCommands ==
  /\ queue \in Seq(Commands) /\ Len(queue) <= QueueLength
  /\ slewing \in BOOLEAN /\ manual \subseteq Axes
  /\ reset_requested \in BOOLEAN /\ up \in BOOLEAN
  /\ received \in 0..MaxCommands /\ upsets \in 0..MaxUpsets

\* Every variable has its type; the counts and the command queue keep to their limits.
TypeOK == /\ TypeManager /\ TypeSensing /\ TypeEstimator
          /\ TypeActing /\ TypeFaults /\ TypeCommands

\* adcs_manager_init, fault_management_init and the tasks' init functions.
Boot ==
  [mgr |-> [mode |-> "BOOT", requested |-> "SUN_ACQUISITION", entered |-> Old,
            stable |-> 0, counted |-> Old, target |-> "identity"],
   sensors  |-> [age |-> Old, scene |-> Nothing],
   attitude |-> [age |-> Old, valid |-> FALSE],
   control  |-> [age |-> Old, source |-> "BOOT", small |-> FALSE,
                 settled |-> FALSE],
   ctl      |-> [pc |-> "idle", lag |-> 0],
   controller |-> [previous_mode |-> "BOOT", cycles |-> 0],
   hk       |-> [pc |-> "idle", observed |-> {}, latched |-> {}, lag |-> 0]]

Init ==
  /\ mgr = Boot.mgr /\ references = FALSE /\ inhibited = FALSE
  /\ latest_sensors = Boot.sensors /\ sampling = Nothing /\ packet = FALSE
  /\ latest_attitude = Boot.attitude /\ fix = Old /\ previous = Old
  /\ latest_control = Boot.control /\ controller = Boot.controller
  /\ ctl = Boot.ctl /\ coils = "off" /\ earned = 0
  /\ hk = Boot.hk /\ active_faults = {}
  /\ queue = <<>> /\ slewing = FALSE /\ manual = {} /\ reset_requested = FALSE
  /\ up = TRUE /\ scene \in Readings /\ received = 0 /\ upsets = 0

\* board_reset starts the program again.
Reset ==
  /\ mgr' = Boot.mgr /\ references' = FALSE /\ inhibited' = FALSE
  /\ latest_sensors' = Boot.sensors /\ sampling' = Nothing /\ packet' = FALSE
  /\ latest_attitude' = Boot.attitude /\ fix' = Old /\ previous' = Old
  /\ latest_control' = Boot.control /\ controller' = Boot.controller
  /\ ctl' = Boot.ctl /\ coils' = "off" /\ earned' = 0
  /\ hk' = Boot.hk /\ active_faults' = {}
  /\ queue' = <<>> /\ slewing' = FALSE /\ manual' = {} /\ reset_requested' = FALSE
  /\ UNCHANGED <<up, scene>>

-----------------------------------------------------------------------------
(***************************************************************************)
(* The tests of the manager, on the packet and the estimate it holds.      *)
(***************************************************************************)
HasGyroscope(s)    == s \notin {Nothing, "no_gyroscope"}
HasMagnetometer(s) == s \notin {Nothing, "no_magnetometer"}
SeesSun(s)         == s \notin {Nothing, "eclipse"}
FieldInRange(s)    == HasMagnetometer(s) /\ s \notin {"weak", "weak_spinning", "strong"}
FieldUsable(s)     == s \notin {"weak", "weak_spinning"}   \* by the allocator

sensors_ready == HasGyroscope(latest_sensors.scene) /\ HasMagnetometer(latest_sensors.scene)

\* A timestamp of this age is neither in the future nor too old.
Fresh(a, lag, limit) == a >= lag /\ a - lag <= limit

\* 1: above the exit rate, 2: above the entry rate, 3: excessive.
body_rate == CASE latest_sensors.scene = "excess"   -> 3
               [] latest_sensors.scene \in {"spinning", "weak_spinning"} -> 2
               [] latest_sensors.scene = "drifting" -> 1
               [] OTHER                             -> 0

mode_needs_attitude(m) == m \notin {"BOOT", "SAFE", "DETUMBLE"}

attitude_usable(lag) ==
  /\ latest_attitude.valid /\ "attitude" \notin active_faults
  /\ Fresh(latest_attitude.age, lag, Stale)

transition_is_allowed(m, lag) ==
  CASE m = "SAFE"     -> TRUE
    [] m = "DETUMBLE" -> sensors_ready
    [] m \in {"SUN_ACQUISITION", "SUN_POINTING"} ->
         attitude_usable(lag) /\ SeesSun(latest_sensors.scene) /\ references
    [] m = "EARTH_POINTING" -> attitude_usable(lag) /\ references
    [] OTHER -> attitude_usable(lag)

enter_mode(s, m) ==
  IF s.mode = m THEN s
  ELSE [s EXCEPT !.mode = m, !.entered = latest_sensors.age,
                 !.stable = 0, !.counted = Old]

refresh_builtin_target(s) ==
  [s EXCEPT !.target =
     CASE references /\ s.mode \in {"SUN_ACQUISITION", "SUN_POINTING"} -> "sun"
       [] references /\ s.mode = "EARTH_POINTING" -> "nadir"
       [] OTHER -> @]

-----------------------------------------------------------------------------
(***************************************************************************)
(* adcs_manager_update, as a function of the manager's record.             *)
(***************************************************************************)
choose_mode(s, lag) ==
  CASE s.requested = "SAFE" -> enter_mode(s, "SAFE")
    [] s.requested # "SAFE" /\ body_rate > 1 -> enter_mode(s, "DETUMBLE")
    [] /\ s.requested # "SAFE" /\ body_rate <= 1
       /\ s.mode # "DETUMBLE" /\ transition_is_allowed(s.requested, lag) ->
         enter_mode(s, s.requested)
    [] OTHER -> s

\* stable_cycles is only compared with the limit, so it may stop there.
settle_detumble(s, lag) ==
  LET n == IF body_rate > 0 THEN 0
           ELSE IF s.stable < DetumbleSettle THEN s.stable + 1 ELSE s.stable
  IN  IF n >= DetumbleSettle /\ s.requested # "DETUMBLE"
      THEN enter_mode(s, IF transition_is_allowed(s.requested, lag)
                         THEN s.requested ELSE "SAFE")
      ELSE [s EXCEPT !.stable = n]

\* Mutant of settle_sun: a result is counted each time an update meets it.
settle_sun_twice(s, lag) ==
  LET c == latest_control IN
  CASE \/ c.source # "SUN_ACQUISITION" \/ c.age >= s.entered
       \/ ~Fresh(c.age, lag, Stale) \/ ~c.small \/ body_rate > 1 ->
         [s EXCEPT !.stable = 0]
    [] OTHER ->
         IF s.stable + 1 < SunSettle THEN [s EXCEPT !.stable = @ + 1]
         ELSE enter_mode([s EXCEPT !.requested = "SUN_POINTING"], "SUN_POINTING")

\* Mutant of settle_sun: the limit for a stale result in the wrong unit.
settle_sun_strict(s, lag) ==
  LET c == latest_control
  IN  IF \/ c.source # "SUN_ACQUISITION" \/ c.age >= s.entered
         \/ ~Fresh(c.age, lag, 0) \/ c.age >= s.counted \/ ~c.small
      THEN [s EXCEPT !.stable = 0]
      ELSE IF s.stable + 1 < SunSettle
           THEN [s EXCEPT !.stable = @ + 1, !.counted = c.age]
           ELSE enter_mode([s EXCEPT !.requested = "SUN_POINTING"], "SUN_POINTING")

settle_sun(s, lag) ==
  LET c    == latest_control
      mine == /\ c.source = "SUN_ACQUISITION" /\ c.age < s.entered
              /\ Fresh(c.age, lag, Stale)
      new  == c.age < s.counted
      good == c.small /\ body_rate <= 1
  IN  CASE ~mine -> [s EXCEPT !.stable = 0]
        [] mine /\ ~new -> s
        [] mine /\ new /\ ~good -> [s EXCEPT !.stable = 0, !.counted = c.age]
        [] mine /\ new /\ good ->
             IF s.stable + 1 < SunSettle
             THEN [s EXCEPT !.stable = @ + 1, !.counted = c.age]
             ELSE enter_mode([s EXCEPT !.requested = "SUN_POINTING"],
                             "SUN_POINTING")

settle_slew(s) ==
  IF latest_control.settled
  THEN enter_mode([s EXCEPT !.requested = "TARGET_POINTING"], "TARGET_POINTING")
  ELSE s

\* The switch over the mode.  Its SAFE branch asks once more what choose_mode
\* just asked, and finds the same answer.
settle(s, lag) ==
  CASE s.mode = "DETUMBLE"        -> settle_detumble(s, lag)
    [] s.mode = "SUN_ACQUISITION" -> settle_sun(s, lag)
    [] s.mode = "SLEWING"         -> settle_slew(s)
    [] OTHER                      -> s

CriticalFaults == active_faults \ {"attitude"}

\* Mutant of update: the mode is left alone when only the attitude is lost.
update_keeps_mode(s, lag) ==
  IF CriticalFaults # {} \/ ~sensors_ready \/ body_rate = 3
  THEN enter_mode(s, "SAFE")
  ELSE refresh_builtin_target(settle(choose_mode(s, lag), lag))

\* Mutant of update: a fault is looked for only on the way out of SAFE.
update_trusts_running_mode(s, lag) ==
  IF CriticalFaults # {} /\ s.mode \in {"BOOT", "SAFE"}
  THEN enter_mode(s, "SAFE")
  ELSE IF ~sensors_ready \/ ~Fresh(latest_sensors.age, lag, Stale)
  THEN enter_mode(s, "SAFE")
  ELSE refresh_builtin_target(settle(choose_mode(s, lag), lag))

update(s, lag) ==
  LET sensors_usable == sensors_ready /\ Fresh(latest_sensors.age, lag, Stale)
      b == IF s.mode = "BOOT" THEN enter_mode(s, "SAFE") ELSE s
  IN  CASE CriticalFaults # {} -> refresh_builtin_target(enter_mode(s, "SAFE"))
        [] CriticalFaults = {} /\ ~sensors_usable ->
             IF s.mode = "BOOT" THEN s ELSE enter_mode(s, "SAFE")
        [] CriticalFaults = {} /\ sensors_usable /\ body_rate > 2 ->
             enter_mode(b, "SAFE")
        [] OTHER ->
             IF /\ b.requested # "SAFE" /\ mode_needs_attitude(b.mode)
                /\ ~attitude_usable(lag)
             THEN enter_mode(b, "DETUMBLE")
             ELSE refresh_builtin_target(settle(choose_mode(b, lag), lag))

Update(lag) ==
  /\ mgr' = update(mgr, lag)
  /\ UNCHANGED <<references, inhibited>>

-----------------------------------------------------------------------------
(***************************************************************************)
(* sensor_task: advance the clock and read the sensors, then publish.      *)
(***************************************************************************)
Later(t) == IF t.pc = "idle" THEN t ELSE [t EXCEPT !.lag = @ + 1]

SensorSample ==
  /\ up /\ sampling = Nothing
  /\ ctl.pc # "idle" => ctl.lag < MaxLag
  /\ hk.pc # "idle" => hk.lag < MaxLag
  /\ \E s \in Readings :
       /\ \/ s \in {scene, "nominal"} /\ UNCHANGED upsets
          \/ s \notin {scene, "nominal"} /\ upsets < MaxUpsets
             /\ upsets' = upsets + 1
       /\ scene' = s /\ sampling' = s
  /\ mgr' = [mgr EXCEPT !.entered = Older(@), !.counted = Older(@)]
  /\ latest_sensors' = [latest_sensors EXCEPT !.age = Older(@)]
  /\ latest_attitude' = [latest_attitude EXCEPT !.age = Older(@)]
  /\ latest_control' = [latest_control EXCEPT !.age = Older(@)]
  /\ fix' = Older(fix) /\ previous' = Older(previous)
  /\ ctl' = Later(ctl) /\ hk' = Later(hk)
  /\ UNCHANGED <<references, inhibited, packet, controller, coils, earned,
                 command, active_faults, up, received>>

SensorPublish ==
  /\ up /\ sampling # Nothing
  /\ latest_sensors' = [age |-> 0, scene |-> sampling]
  /\ packet' = TRUE /\ sampling' = Nothing
  /\ UNCHANGED <<scene, manager, estimator, acting, command, active_faults,
                 hk, up, received, upsets>>

(***************************************************************************)
(* estimation_task, one packet.  A fix needs the Sun, the field and both   *)
(* references; between fixes the gyroscope carries the attitude on.        *)
(***************************************************************************)
\* Neither task of the highest priority is in the middle of a cycle; the first
\* sensor cycle comes before everything below.
HighestIdle == up /\ sampling = Nothing /\ ctl.pc = "idle"
               /\ latest_sensors.scene # Nothing

Estimating == HighestIdle /\ packet

Estimate ==
  LET s     == latest_sensors.scene
      known == IF reset_requested \/ previous > Stale THEN Old ELSE fix
      newfix == IF FieldInRange(s) /\ SeesSun(s) /\ s # "no_orbit"
                THEN 0 ELSE known
  IN  /\ Estimating
      /\ packet' = FALSE /\ reset_requested' = FALSE
      /\ references' = (s # "no_orbit")
      /\ IF HasGyroscope(s)
         THEN /\ previous' = 0 /\ fix' = newfix
              /\ latest_attitude' = [age |-> 0, valid |-> newfix <= FixAge]
         ELSE /\ fix' = IF reset_requested THEN Old ELSE fix
              /\ previous' = IF reset_requested THEN Old ELSE previous
              /\ UNCHANGED latest_attitude
      /\ UNCHANGED <<mgr, inhibited, sampling, scene, latest_sensors, acting,
                     queue, slewing, manual, active_faults, hk, up, received, upsets>>

\* The filter's state is corrupt: fault_management_trigger_reset.
EstimateCorrupt ==
  /\ Estimating /\ HasGyroscope(latest_sensors.scene) /\ upsets < MaxUpsets
  /\ upsets' = upsets + 1
  /\ Reset /\ UNCHANGED received

(***************************************************************************)
(* control_task: read the clock, update the manager, then drive the coils  *)
(* from a snapshot and publish the result.                                 *)
(***************************************************************************)
ControlTime ==
  /\ up /\ ctl.pc = "idle"
  /\ ctl' = [pc |-> "timed", lag |-> 0]
  /\ UNCHANGED <<manager, sensing, estimator, controller, coils, latest_control,
                 earned, command, active_faults, hk, up, received, upsets>>

\* A new mode starts a new count.
Recount == earned' = IF mgr'.mode = mgr.mode THEN earned ELSE 0

ControlUpdate ==
  /\ up /\ ctl.pc = "timed"
  /\ Update(ctl.lag) /\ Recount
  /\ ctl' = [ctl EXCEPT !.pc = "updated"]
  /\ UNCHANGED <<sensing, estimator, controller, coils, latest_control, command,
                 active_faults, hk, up, received, upsets>>

Passive == {"BOOT", "SAFE"}
SunModes == {"SUN_ACQUISITION", "SUN_POINTING"}
SlewModes == Modes \ (Passive \cup SunModes \cup {"DETUMBLE"})

\* adcs_controller_update returns ADCS_RESULT_OK.
ControllerOk(m, s) ==
  \/ m \in Passive
  \/ m = "DETUMBLE" /\ HasMagnetometer(s)
  \/ m \in SunModes /\ HasMagnetometer(s) /\ FieldUsable(s)
     /\ latest_attitude.valid /\ SeesSun(s)
  \/ m \in SlewModes /\ HasMagnetometer(s) /\ FieldUsable(s) /\ latest_attitude.valid

\* Mutant of SettledCycles: the count goes on past the limit.
SettledCyclesUnlimited(m, s, near) ==
  LET c == IF m = controller.previous_mode THEN controller.cycles ELSE 0
  IN  CASE ~(m \in SlewModes /\ HasMagnetometer(s) /\ latest_attitude.valid) -> c
        [] near -> c + 1
        [] OTHER -> 0

\* settled_cycles after adcs_slew_update met an attitude near the target or not.
SettledCycles(m, s, near) ==
  LET c == IF m = controller.previous_mode THEN controller.cycles ELSE 0
  IN  CASE ~(m \in SlewModes /\ HasMagnetometer(s) /\ latest_attitude.valid) -> c
        [] near /\ c < SlewSettle -> c + 1
        [] near /\ c = SlewSettle -> c
        [] OTHER -> 0

\* The command the control task gives to magnetorquer_set.
Drive(ok) ==
  CASE manual # {} -> "manual"
    [] manual = {} /\ ok /\ mgr.mode \notin Passive /\ ~inhibited -> "auto"
    [] OTHER -> "off"

ControlAct ==
  LET m  == mgr.mode
      s  == latest_sensors.scene
      ok == ControllerOk(m, s)
      small == ok /\ m \in SunModes /\ ~inhibited /\ s # "askew"
  IN  /\ up /\ ctl.pc = "updated"
      /\ ctl' = [pc |-> "idle", lag |-> 0]
      /\ \E near \in (IF m \in SlewModes THEN BOOLEAN ELSE {FALSE}) :
           LET n == SettledCycles(m, s, near) IN
           /\ controller' = [previous_mode |-> m, cycles |-> n]
           /\ latest_control' = [age |-> latest_sensors.age, source |-> m,
                                 small |-> small,
                                 settled |-> m \in SlewModes /\ ok /\ n = SlewSettle]
      /\ \/ /\ coils' = Drive(ok)
            /\ UNCHANGED <<active_faults, upsets>>
         \/ /\ upsets < MaxUpsets /\ upsets' = upsets + 1
            /\ coils' = "off"
            /\ active_faults' = active_faults \cup {"actuator"}
      /\ earned' = IF latest_sensors.age >= latest_control.age THEN earned
                   ELSE IF ~(small /\ m = "SUN_ACQUISITION") THEN 0
                   ELSE IF earned < SunSettle THEN earned + 1 ELSE earned
      /\ UNCHANGED <<manager, sensing, estimator, command, hk, up, received>>

(***************************************************************************)
(* housekeeping_task: judge a snapshot, clear the latched faults that are  *)
(* gone, report those that are there, update the manager with the clock    *)
(* read at the start.                                                      *)
(***************************************************************************)
LowestIdle == HighestIdle /\ ~packet /\ queue = <<>> /\ ~slewing

\* fault_management_evaluate_adcs.  The controller bounds its own output, so a
\* failing actuator is never observed here, only reported by the control task.
ObservedFaults ==
  LET s == latest_sensors.scene IN
  (CASE s = Nothing -> {"stale"}
     [] s # Nothing /\ ~sensors_ready -> {"range"}
     [] OTHER -> (IF FieldInRange(s) THEN {} ELSE {"range"})
                 \cup (IF body_rate > 2 THEN {"rate"} ELSE {}))
  \cup (IF latest_attitude.valid /\ latest_attitude.age <= FaultStale
         THEN {} ELSE {"attitude"})

HkRest == <<manager, sensing, estimator, acting, command, up, received, upsets>>

HkEvaluate ==
  /\ LowestIdle /\ hk.pc = "idle"
  /\ hk' = [pc |-> "evaluated", observed |-> ObservedFaults,
            latched |-> active_faults, lag |-> 0]
  /\ UNCHANGED <<HkRest, active_faults>>

\* Mutants of HkClear: a latched fault is cleared, there or not, as the report
\* that follows sets it again; no fault is ever cleared.
HkClearAll ==
  /\ LowestIdle /\ hk.pc = "evaluated"
  /\ active_faults' = active_faults \ hk.latched
  /\ hk' = [hk EXCEPT !.pc = "cleared"]
  /\ UNCHANGED HkRest

HkClearNone ==
  /\ LowestIdle /\ hk.pc = "evaluated"
  /\ hk' = [hk EXCEPT !.pc = "cleared"]
  /\ UNCHANGED <<HkRest, active_faults>>

HkClear ==
  /\ LowestIdle /\ hk.pc = "evaluated"
  /\ active_faults' = active_faults \ (hk.latched \ hk.observed)
  /\ hk' = [hk EXCEPT !.pc = "cleared"]
  /\ UNCHANGED HkRest

HkReport ==
  /\ LowestIdle /\ hk.pc = "cleared"
  /\ active_faults' = active_faults \cup hk.observed
  /\ hk' = [hk EXCEPT !.pc = "reported"]
  /\ UNCHANGED HkRest

HkUpdate ==
  /\ LowestIdle /\ hk.pc = "reported"
  /\ Update(hk.lag) /\ Recount
  /\ hk' = [pc |-> "idle", observed |-> {}, latched |-> {}, lag |-> 0]
  /\ UNCHANGED <<sensing, estimator, ctl, controller, coils, latest_control,
                 command, active_faults, up, received, upsets>>

(***************************************************************************)
(* command_handler_rx_loop and command_task.                               *)
(***************************************************************************)
ReceiveCommand ==
  /\ up /\ received < MaxCommands /\ received' = received + 1
  /\ \E c \in Commands :
       \/ c.type = "reset" /\ Reset /\ UNCHANGED upsets
       \/ /\ c.type = "shutdown" /\ up' = FALSE
          /\ UNCHANGED <<HkRest, active_faults, hk>>
       \/ /\ c.type \notin {"reset", "shutdown"}
          /\ queue' = IF c.type = "refused" \/ Len(queue) = QueueLength
                      THEN queue ELSE Append(queue, c)
          /\ UNCHANGED <<manager, sensing, estimator, acting, slewing, manual,
                         reset_requested, active_faults, hk, up, upsets>>

CommandRest == <<references, sensing, estimator, acting, active_faults, hk, up,
                 received, upsets>>

\* execute_command; a slew stores its target and then requests the mode.
ExecuteCommand ==
  /\ HighestIdle /\ ~packet /\ ~slewing /\ queue # <<>>
  /\ queue' = Tail(queue)
  /\ LET c == Head(queue) IN
     /\ mgr' = [mgr EXCEPT
          !.requested = IF c.type = "SET_MODE" THEN c.arg ELSE @,
          !.target = IF c.type = "SLEW" THEN c.arg ELSE @]
     /\ slewing' = (c.type = "SLEW")
     /\ inhibited' = ((inhibited \/ c.type = "inhibit") /\ c.type # "permit")
     /\ manual' = CASE c.type = "coil_on" -> manual \cup {c.arg}
                    [] c.type = "coil_off" -> manual \ {c.arg}
                    [] OTHER -> manual
     /\ reset_requested' = (reset_requested \/ c.type = "reset_estimator")
  /\ UNCHANGED CommandRest

RequestSlew ==
  /\ HighestIdle /\ ~packet /\ slewing
  /\ slewing' = FALSE
  /\ mgr' = [mgr EXCEPT !.requested = "SLEWING"]
  /\ UNCHANGED <<CommandRest, inhibited, queue, manual, reset_requested>>

SensorTask == SensorSample \/ SensorPublish
EstimationTask == Estimate \/ EstimateCorrupt
ControlTask == ControlTime \/ ControlUpdate \/ ControlAct
HousekeepingTask == HkEvaluate \/ HkClear \/ HkReport \/ HkUpdate
CommandTask == ExecuteCommand \/ RequestSlew

Next ==
  \/ SensorTask \/ EstimationTask \/ ControlTask \/ HousekeepingTask
  \/ ReceiveCommand \/ CommandTask

Spec == Init /\ [][Next]_vars

\* The tasks of the highest priority are always served.  The ones below them
\* are served again and again, since those above use a part of their period;
\* sensor and control task do not cut into each other in every single cycle.
Fairness ==
  /\ SF_vars(SensorTask) /\ SF_vars(SensorPublish /\ ctl.pc = "idle")
  /\ WF_vars(ControlTask) /\ SF_vars(ControlUpdate /\ ctl.lag = 0)
  /\ SF_vars(Estimate) /\ SF_vars(CommandTask) /\ SF_vars(HousekeepingTask)

FairSpec == Spec /\ Fairness

-----------------------------------------------------------------------------
\* The control task turns its coils on by itself.
Torques == ctl.pc = "updated" /\ ctl'.pc = "idle" /\ coils' = "auto"

\* The control laws drive the coils only when no critical fault is latched, the
\* actuators are not inhibited and the mode is an active one, whatever happened
\* between the manager's update and the driver call (control_task.c).
NoTorqueUnderFault ==
  [][Torques => /\ CriticalFaults = {} /\ ~inhibited
                /\ mgr.mode \notin Passive]_vars

\* A pointing law never acts on an attitude that is invalid or was stale when
\* the cycle began, although estimates stop coming while the gyroscope fails
\* and the mode was chosen on an earlier one (adcs_manager.c, control_task.c).
PointsWithFreshAttitude ==
  [][Torques /\ mode_needs_attitude(mgr.mode)
       => latest_attitude.valid /\ latest_attitude.age <= Stale + ctl.lag]_vars

\* Sun acquisition ends by itself only after SunSettle packets in a row gave a
\* small error in this stay, in the first control result on each of them: control
\* and housekeeping task both call update and must not count one packet twice,
\* nor a result of an earlier stay.
SunSettleIsEarned ==
  [][mgr.mode = "SUN_ACQUISITION" /\ mgr'.mode = "SUN_POINTING"
       /\ mgr.requested # "SUN_POINTING" => earned >= SunSettle]_vars

\* A field that stays out of range keeps the board in SAFE: housekeeping clears
\* and reports faults in two steps and must leave no gap for an update.
FieldFaultEndsInSafe ==
  <>[](scene \in {"weak", "weak_spinning", "strong"} /\ up) => <>[](mgr.mode = "SAFE")

\* Once the sensors stay good and no one asks for SAFE, the board does not stay
\* in SAFE, whatever faults were latched before and however updates race.
RecoversFromSafe ==
  <>[](scene = "nominal" /\ up /\ mgr.requested # "SAFE")
    => []<>(mgr.mode \notin Passive)

\* Estimates and control results come before the last ones are stale, and no
\* sensor cycle falls into one of another task.
KeepsUp ==
  /\ latest_attitude.age <= Stale /\ latest_control.age <= Stale
  /\ ctl.lag = 0 /\ hk.lag = 0

\* With good sensors and tasks that keep up, the board gets from any state to
\* Sun pointing, unless it is inhibited or told to do something else.
NominalReachesSun ==
  <>[](/\ scene = "nominal" /\ up /\ ~inhibited /\ KeepsUp
       /\ mgr.requested \in SunModes)
    => []<>(mgr.mode = "SUN_POINTING")
=============================================================================
