------------------------------ MODULE Thermals ------------------------------
(***************************************************************************)
(* The thermals board (src/apps/thermals, desktop build): the control loop *)
(* of the sensor, heater and model tasks, the command and the telemetry    *)
(* task, and the thread that receives commands.                            *)
(*                                                                         *)
(* The tasks run under FreeRTOS' POSIX port: one at a time, by priority,   *)
(* time-sliced among equals, switched by a tick at any point of their      *)
(* code.  What they share is guarded by pthread mutexes, of which FreeRTOS *)
(* knows nothing: a task that waits for one stays the running task.  The   *)
(* receiving thread is outside the scheduler and really runs in parallel.  *)
(*                                                                         *)
(* A temperature is a cell so wide that it changes by at most one cell in  *)
(* a step of the thermal model.  The PI controller gives power exactly     *)
(* while the average is below the target, and that is all of it that is    *)
(* kept.  One Period is 100 ms.                                            *)
(***************************************************************************)
EXTENDS Integers, Sequences, FiniteSets, FiniteSetsExt

CONSTANTS
  S,             \* MAX_SENSORS
  Targets,       \* valid target temperatures that commands ask for
  QueueLength,   \* COMMAND_QUEUE_LENGTH
  MaxTemp,       \* bound: the highest cell of a temperature
  MaxCommands    \* bound: commands not refused

ASSUME CountAssumption == {S, QueueLength} \subseteq Nat \ {0} /\ MaxCommands \in Nat
ASSUME TempAssumption ==
  MaxTemp \in Nat /\ Targets # {} /\ Targets \subseteq 1..MaxTemp

Tasks == {"command", "sensor", "heater", "model", "telemetry"}
Periodic == {"sensor", "heater", "model"}
Prio == [t \in Tasks |-> IF t = "command" THEN 3
                         ELSE IF t = "telemetry" THEN 1 ELSE 2]
Mutexes == {"thermal_data_lock", "heater_lock"}
Sensors == 1..S
Slots == 0..(QueueLength - 1)
Temps == 0..MaxTemp    \* cell 0 is the ambient temperature and all below
Free == "free"
Idle == "idle"
Nothing == -1            \* no reading, no message, no target, not sending
Request == 0             \* a REQUEST_TELEMETRY; a target is a SET_TARGET_TEMP
Message == Targets \cup {Request, Nothing}

VARIABLES
  running,       \* the task FreeRTOS has made the running one
  pc,            \* where each task is; "asleep": blocked in FreeRTOS
  owner,         \* the holder of each pthread mutex
  temperatures,  \* of the sensors whose valid_sensor_mask bit is set, else Nothing
  average_temp, target_temp,
  applied_power,
  temperature,   \* model_temperature_c
  i, currentTemp,     \* sensor task: the sensor it is at, what it read
  requested_power,    \* heater task: what the controller makes of its snapshot
  heater_power,       \* model task: the power it read
  slots, head, end, waiting,   \* command queue: storage, the places pcReadFrom and
                               \* pcWriteTo go to next, uxMessagesWaiting
  message, seen,      \* command task: message, the count xQueueReceive read
  rx,                 \* receiving thread: the count xQueueSendFromISR read
  notified,           \* a notification is pending for the telemetry task
  received,      \* bound
  raced,         \* both ends of the queue were at its count at the same time
  highest, last, \* the highest target put into the queue, the last one answered ACK
  asked, handled, sampled,   \* requests answered ACK, seen by the command task,
                             \* and seen by it before the last telemetry sample
  blind          \* periods that began without a valid sensor

data == <<temperatures, average_temp, target_temp>>
queue == <<slots, head, end, waiting>>
local == <<i, currentTemp, requested_power, heater_power, message, seen>>
ghosts == <<raced, last, highest, asked, handled, sampled, blind>>
vars == <<running, pc, owner, data, applied_power, temperature, local, queue,
             rx, notified, received, ghosts>>

Valid == {s \in Sensors : temperatures[s] # Nothing}

\* Sum and number of the valid temperatures: the average is their quotient.
Average == <<MapThenSumSet(LAMBDA s : temperatures[s], Valid), Cardinality(Valid)>>

\* The first place of each periodic task's cycle.
Start == [t \in Periodic |-> IF t = "sensor" THEN "read"
                             ELSE IF t = "heater" THEN "dataLock" ELSE "heaterLock"]

TypeTasks ==
  /\ running \in Tasks \cup {Idle}
  /\ pc \in [Tasks -> {"asleep", "read", "dataLock", "store", "average", "copy",
                       "heaterLock", "power", "step", "receive", "take"}]
  /\ owner \in [Mutexes -> Tasks \cup {Free}]

TypeControl ==
  /\ temperatures \in [Sensors -> Temps \cup {Nothing}]
  /\ average_temp \in Nat \X (0..S) /\ target_temp \in Targets \cup {Nothing}
  /\ applied_power \in 0..1 /\ requested_power \in 0..1 /\ heater_power \in 0..1
  /\ temperature \in Temps
  /\ i \in Sensors /\ currentTemp \in Temps \cup {Nothing} /\ blind \in 0..2

TypeCommands ==
  /\ slots \in [Slots -> Message] /\ head \in Slots /\ end \in Slots
  /\ waiting \in 0..QueueLength /\ message \in Message
  /\ seen \in 0..QueueLength /\ rx \in 0..QueueLength \cup {Nothing}
  /\ notified \in BOOLEAN /\ received \in 0..MaxCommands /\ raced \in BOOLEAN
  /\ last \in Targets \cup {Nothing} /\ highest \in Targets \cup {Nothing}
  /\ asked \in Nat /\ handled \in Nat /\ sampled \in Nat

\* Every variable has its type; the queue's count keeps to its length, whoever
\* writes it.
TypeOK == TypeTasks /\ TypeControl /\ TypeCommands

Init ==
  /\ running = Idle
  /\ pc = [t \in Tasks |-> IF t = "telemetry" THEN "asleep"
                           ELSE IF t = "command" THEN "receive" ELSE Start[t]]
  /\ owner = [m \in Mutexes |-> Free]
  /\ temperatures = [s \in Sensors |-> Nothing]
  /\ average_temp = <<0, 0>> /\ target_temp = Nothing
  /\ applied_power = 0 /\ temperature = 0
  /\ i = 1 /\ currentTemp = Nothing
  /\ requested_power = 0 /\ heater_power = 0
  /\ slots = [k \in Slots |-> Nothing] /\ head = 0 /\ end = 0 /\ waiting = 0
  /\ message = Nothing /\ seen = 0 /\ rx = Nothing
  /\ notified = FALSE /\ received = 0
  /\ raced = FALSE /\ last = Nothing /\ highest = Nothing
  /\ asked = 0 /\ handled = 0 /\ sampled = 0 /\ blind = 0

-----------------------------------------------------------------------------
(***************************************************************************)
(* The scheduler.  A task that FreeRTOS has not blocked is ready, and the  *)
(* running task is a ready one of the highest priority as soon as a tick   *)
(* or a blocking call lets the scheduler choose.  The tick is a signal,    *)
(* which a task in a critical section of the kernel has blocked.           *)
(***************************************************************************)
Ready == {t \in Tasks : pc[t] # "asleep" \/ (t = "telemetry" /\ notified)}
Highest == {t \in Ready : \A u \in Ready : Prio[u] <= Prio[t]}
Critical == running # Idle /\ pc[running] = "take"

vTaskSwitchContext ==
  /\ ~Critical
  /\ \E t \in Highest \ {running} : running' = t
  /\ UNCHANGED <<pc, owner, data, applied_power, temperature, local, queue, rx,
                 notified, received, ghosts>>

\* Task t waits for mutex m in pthread_mutex_lock.
Waits(t, m) ==
  /\ pc[t] = IF m = "heater_lock" THEN "heaterLock" ELSE "dataLock"
  /\ owner[m] # Free

\* A task waits for a mutex whose holder FreeRTOS will not run before it has run
\* the waiting task.
LockedUp == \E t \in Tasks, m \in Mutexes : Waits(t, m) /\ Prio[owner[m]] < Prio[t]

\* The end of the 100 ms for which the periodic tasks sleep.  They have finished
\* their cycle by then, unless the board is locked up; what happens to a board
\* after that is not followed.
Period ==
  /\ \A t \in Periodic : pc[t] = "asleep"
  /\ pc' = [t \in Tasks |-> IF t \in Periodic THEN Start[t] ELSE pc[t]]
  /\ blind' = IF Valid # {} THEN 0 ELSE IF blind < 2 THEN blind + 1 ELSE 2
  /\ UNCHANGED <<running, owner, data, applied_power, temperature, local, queue,
                 rx, notified, received, raced, last, highest, asked, handled, sampled>>

\* The running task t goes from one place to another.
At(t, from, to) ==
  /\ running = t /\ pc[t] = from /\ pc' = [pc EXCEPT ![t] = to]
  /\ UNCHANGED running

\* Mutant: Without the mutex.
LockWithoutWaiting(t, m) == owner' = [owner EXCEPT ![m] = t]
Lock(t, m) == owner[m] = Free /\ owner' = [owner EXCEPT ![m] = t]
Unlock(m) == owner' = [owner EXCEPT ![m] = Free]

\* pthread_mutex_lock, and nothing else.
Acquire(t, m, from, to) ==
  /\ At(t, from, to) /\ Lock(t, m)
  /\ UNCHANGED <<data, applied_power, temperature, local, queue, rx, notified,
                 received, ghosts>>

-----------------------------------------------------------------------------
(***************************************************************************)
(* The control loop.                                                       *)
(***************************************************************************)
\* thermal_sensor_read: a driver may fail, or read what is out of range; the offsets
\* of a tenth of a degree that the simulated sensors add are left out.  Reading
\* and stepping the model are single steps: thermal_model_lock is only used by these
\* two tasks, which are of equal priority, and around one access each.
thermal_sensor_read ==
  /\ At("sensor", "read", "dataLock")
  /\ currentTemp' \in {temperature, Nothing}
  /\ UNCHANGED <<owner, data, applied_power, temperature, i, requested_power, heater_power,
                 message, seen, queue, rx, notified, received, ghosts>>

\* thermals_set_current or thermals_invalidate_sensor.
StoreReading ==
  /\ At("sensor", "store", "average")
  /\ temperatures' = [temperatures EXCEPT ![i] = currentTemp]
  /\ blind' = IF currentTemp = Nothing THEN blind ELSE 0
  /\ currentTemp' = Nothing
  /\ UNCHANGED <<owner, average_temp, target_temp, applied_power, temperature, i,
                 requested_power, heater_power, message, seen, queue, rx, notified, received,
                 raced, last, highest, asked, handled, sampled>>

\* Mutant: Returns early, with the mutex, when no sensor is valid.
RecalculateReturnsEarly ==
  /\ At("sensor", "average", IF i < S THEN "read" ELSE "asleep")
  /\ IF Valid = {} THEN UNCHANGED owner ELSE Unlock("thermal_data_lock")
  /\ average_temp' = Average
  /\ i' = IF i < S THEN i + 1 ELSE 1
  /\ UNCHANGED <<temperatures, target_temp, applied_power,
                 temperature, currentTemp, requested_power, heater_power, message, seen,
                 queue, rx, notified, received, ghosts>>

thermals_recalculate_average ==
  /\ At("sensor", "average", IF i < S THEN "read" ELSE "asleep")
  /\ Unlock("thermal_data_lock")
  /\ average_temp' = Average
  /\ i' = IF i < S THEN i + 1 ELSE 1
  /\ UNCHANGED <<temperatures, target_temp, applied_power,
                 temperature, currentTemp, requested_power, heater_power, message, seen,
                 queue, rx, notified, received, ghosts>>

sensor_read_task ==
  \/ thermal_sensor_read
  \/ Acquire("sensor", "thermal_data_lock", "dataLock", "store")
  \/ StoreReading
  \/ thermals_recalculate_average

\* Mutant: Power also at the target.
UpdateAtTarget ==
  IF /\ Valid # {} /\ target_temp # Nothing
     /\ average_temp[1] <= target_temp * average_temp[2]
  THEN 1 ELSE 0

\* The PI controller may give power while it is too cold; without a valid sensor or
\* a target there is none.
prop_int_controller_update ==
  IF /\ Valid # {} /\ target_temp # Nothing
     /\ average_temp[1] < target_temp * average_temp[2]
  THEN 1 ELSE 0

\* get_thermal_data by task t, of which the heater task makes its request and the
\* telemetry task its sample.
get_thermal_data(t) ==
  /\ At(t, "copy", "heaterLock") /\ Unlock("thermal_data_lock")
  /\ IF t = "heater"
     THEN requested_power' = prop_int_controller_update /\ UNCHANGED sampled
     ELSE sampled' = handled /\ UNCHANGED requested_power
  /\ UNCHANGED <<data, applied_power, temperature, i, currentTemp, heater_power, message,
                 seen, queue, rx, notified, received, raced, last, highest, asked,
                 handled, blind>>

\* heater_set_power or force_heater_off.
heater_set_power ==
  /\ At("heater", "power", "asleep") /\ Unlock("heater_lock")
  /\ applied_power' = requested_power /\ requested_power' = 0
  /\ UNCHANGED <<data, temperature, i, currentTemp, heater_power, message, seen, queue,
                 rx, notified, received, ghosts>>

heater_set_task ==
  \/ Acquire("heater", "thermal_data_lock", "dataLock", "copy")
  \/ get_thermal_data("heater")
  \/ Acquire("heater", "heater_lock", "heaterLock", "power")
  \/ heater_set_power

get_applied_power ==
  /\ At("model", "power", "step") /\ Unlock("heater_lock")
  /\ heater_power' = applied_power
  /\ UNCHANGED <<data, applied_power, temperature, i, currentTemp, requested_power, message,
                 seen, queue, rx, notified, received, ghosts>>

\* Only a heated bed gets warmer than the ambience; a power that does not make up
\* for the heat loss lets it cool.
thermal_model_step ==
  /\ At("model", "step", "asleep")
  /\ temperature' \in (temperature - 1)..(temperature + heater_power) \cap Temps
  /\ heater_power' = 0
  /\ UNCHANGED <<owner, data, applied_power, i, currentTemp, requested_power, message, seen,
                 queue, rx, notified, received, ghosts>>

thermal_model_task ==
  \/ Acquire("model", "heater_lock", "heaterLock", "power")
  \/ get_applied_power
  \/ thermal_model_step

-----------------------------------------------------------------------------
(***************************************************************************)
(* Commands.  xQueueReceive and xQueueSendFromISR both read the count of   *)
(* the queue and write it back later, and the critical section of the one  *)
(* does not keep the thread of the other out.                              *)
(***************************************************************************)
After(k) == (k + 1) % QueueLength

\* xQueueReceive finds the queue empty and blocks, or copies a message ...
Receive ==
  /\ At("command", "receive", IF waiting = 0 THEN "asleep" ELSE "take")
  /\ seen' = waiting
  /\ IF waiting = 0 THEN UNCHANGED <<message, head>>
     ELSE message' = slots[head] /\ head' = After(head)
  /\ UNCHANGED <<owner, data, applied_power, temperature, i, currentTemp, requested_power,
                 heater_power, slots, end, waiting, rx, notified, received, ghosts>>

\* Mutant: Notifies the telemetry task only when it is waiting.
TakeNotifiesIdle ==
  /\ At("command", "take", IF message \in Targets THEN "dataLock" ELSE "receive")
  /\ waiting' = seen - 1 /\ seen' = 0 /\ raced' = (raced \/ waiting # seen)
  /\ IF message = Request
     THEN /\ notified' = (notified \/ pc["telemetry"] = "asleep")
          /\ handled' = handled + 1
     ELSE UNCHANGED <<notified, handled>>
  /\ message' = IF message \in Targets THEN message ELSE Nothing
  /\ UNCHANGED <<owner, data, applied_power, temperature, i, currentTemp, requested_power,
                 heater_power, slots, head, end, rx, received, last, highest, asked,
                 sampled, blind>>

\* ... counts it off, and the task looks at it.
Take ==
  /\ At("command", "take", IF message \in Targets THEN "dataLock" ELSE "receive")
  /\ waiting' = seen - 1 /\ seen' = 0 /\ raced' = (raced \/ waiting # seen)
  /\ IF message = Request
     THEN /\ notified' = TRUE /\ handled' = handled + 1
     ELSE UNCHANGED <<notified, handled>>
  /\ message' = IF message \in Targets THEN message ELSE Nothing
  /\ UNCHANGED <<owner, data, applied_power, temperature, i, currentTemp, requested_power,
                 heater_power, slots, head, end, rx, received, last, highest, asked,
                 sampled, blind>>

\* thermals_set_target in the command task; the target was checked on reception.
thermals_set_target ==
  /\ At("command", "store", "receive") /\ Unlock("thermal_data_lock")
  /\ target_temp' = message /\ message' = Nothing
  /\ UNCHANGED <<temperatures, average_temp, applied_power,
                 temperature, i, currentTemp, requested_power, heater_power, seen, queue, rx,
                 notified, received, ghosts>>

command_task ==
  \/ Receive
  \/ Take
  \/ Acquire("command", "thermal_data_lock", "dataLock", "store")
  \/ thermals_set_target

\* command_handler_rx_loop: xQueueSendFromISR copies the command into the queue ...
\* A command that is too short, of an unknown kind or for an invalid target, or that
\* finds the queue full, is answered NACK and changes nothing.
decode_command(m) ==
  /\ rx = Nothing /\ waiting < QueueLength
  /\ received < MaxCommands /\ received' = received + 1
  /\ slots' = [slots EXCEPT ![end] = m] /\ end' = After(end) /\ rx' = waiting
  /\ highest' = IF m \in Targets /\ m > highest THEN m ELSE highest
  /\ UNCHANGED <<running, pc, owner, data, applied_power, temperature, local, head,
                 waiting, notified, raced, last, asked, handled, sampled, blind>>

\* ... counts it, and wakes the command task; the answer is ACK.
enqueue_command ==
  /\ rx # Nothing /\ waiting' = rx + 1 /\ rx' = Nothing
  /\ raced' = (raced \/ waiting # rx)
  /\ pc' = IF pc["command"] = "asleep" THEN [pc EXCEPT !["command"] = "receive"] ELSE pc
  /\ LET m == slots[(end + QueueLength - 1) % QueueLength] IN
       /\ asked' = asked + (IF m = Request THEN 1 ELSE 0)
       /\ last' = IF m \in Targets THEN m ELSE last
  /\ UNCHANGED <<running, owner, data, applied_power, temperature, local, slots, head,
                 end, notified, received, highest, handled, sampled, blind>>

-----------------------------------------------------------------------------
\* xTaskNotifyWait returns at once if a notification came in the meantime.
xTaskNotifyWait ==
  /\ notified /\ At("telemetry", "asleep", "dataLock") /\ notified' = FALSE
  /\ UNCHANGED <<owner, data, applied_power, temperature, local, queue, rx, received,
                 ghosts>>

\* The sample and the power go to the OBC, or are lost for want of a connection or a
\* buffer.  An earlier reading of the power for the log is left out.
telemetry_send_thermal_values ==
  /\ At("telemetry", "power", "asleep") /\ Unlock("heater_lock")
  /\ UNCHANGED <<data, applied_power, temperature, local, queue, rx, notified, received,
                 ghosts>>

telemetry_task ==
  \/ xTaskNotifyWait
  \/ Acquire("telemetry", "thermal_data_lock", "dataLock", "copy")
  \/ get_thermal_data("telemetry")
  \/ Acquire("telemetry", "heater_lock", "heaterLock", "power")
  \/ telemetry_send_thermal_values

-----------------------------------------------------------------------------
Next == \/ sensor_read_task \/ heater_set_task \/ thermal_model_task
        \/ command_task \/ telemetry_task
        \/ vTaskSwitchContext \/ Period
        \/ \E m \in Targets \cup {Request} : decode_command(m)
        \/ enqueue_command

Spec == Init /\ [][Next]_vars

-----------------------------------------------------------------------------
(***************************************************************************)
(* Properties.                                                             *)
(***************************************************************************)
\* "the mutex keeps get_thermal_data() from ever returning a torn snapshot": the
\* average that is copied is that of the valid temperatures copied with it, although
\* the sensor task is switched out between writing the one and the other.
SnapshotIsWhole ==
  [][\A t \in {"heater", "telemetry"} :
       pc[t] = "copy" /\ pc'[t] # "copy" =>
         average_temp = Average]_vars

\* The bed gets at most two cells warmer than the highest target, although the
\* reading, the power and the step are each as old as the order of the three
\* tasks makes them.
OvershootIsBounded ==
  temperature > 0 => temperature <= highest + 2

\* When the board has come to rest, what it answered with ACK is done: the target
\* is the last one accepted, and a sample was taken after every request.
AcceptedIsDone ==
  (pc["command"] = "asleep" /\ rx = Nothing /\ pc["telemetry"] = "asleep"
     /\ ~notified /\ ~raced)
  => target_temp = last /\ sampled = asked

\* When the sensors have been out for a whole period the heater is off.
BlindHeaterIsOff == blind = 2 => applied_power = 0

\* The tasks never all wait for each other, as far as the scheduler will run them,
\* unless one was switched out with a mutex that a task of higher priority needs;
\* and the control loop alone, three tasks of equal priority, does not even do that.
SomebodyRuns ==
  \/ LockedUp /\ received > 0
  \/ Ready = {}
  \/ \E t \in Highest : \A m \in Mutexes : ~Waits(t, m)

\* The tasks stay able to run and the heater off without sensors, whenever ticks
\* switch them (thermal_data.c, heater_set_task.c, port.c).
BoardInv == TypeOK /\ SomebodyRuns /\ BlindHeaterIsOff

=============================================================================
