--------------------------- MODULE ThermalsProofs ---------------------------
(***************************************************************************)
(* Proofs about the thermals board, for any number of sensors, any targets *)
(* and commands, and any length of the command queue.                      *)
(***************************************************************************)
EXTENDS Thermals, FiniteSetTheorems, WellFoundedInduction, TLAPS

\* Where each task can be.
PlaceInv ==
  /\ pc["sensor"] \in {"asleep", "read", "dataLock", "store", "average"}
  /\ pc["heater"] \in {"asleep", "dataLock", "copy", "heaterLock", "power"}
  /\ pc["model"] \in {"asleep", "heaterLock", "power", "step"}
  /\ pc["command"] \in {"asleep", "receive", "take", "dataLock", "store"}
  /\ pc["telemetry"] \in {"asleep", "dataLock", "copy", "heaterLock", "power"}

\* The holder of a mutex is the one task between its lock and its unlock.
Inside(m) == IF m = "heater_lock" THEN {"power"} ELSE {"store", "average", "copy"}
MutexInv == \A m \in Mutexes, t \in Tasks : owner[m] = t <=> pc[t] \in Inside(m)

\* Before the first command only the control loop runs.
QuietInv ==
  received = 0 => /\ waiting = 0 /\ rx = Nothing /\ ~notified
                  /\ pc["command"] \in {"receive", "asleep"}
                  /\ pc["telemetry"] = "asleep"

\* What the two ends of the queue have read of its count; the receiver's can only be
\* too high when it is used, the command task's too low.
CountInv ==
  /\ rx # Nothing => waiting <= rx /\ rx < QueueLength
  /\ pc["command"] = "take" => 0 < seen /\ seen <= waiting
  /\ pc["command"] = "asleep" => waiting = 0
  /\ pc["command"] \in {"receive", "asleep"} => message = Nothing
  /\ pc["command"] \in {"dataLock", "store"} => message \in Targets

\* The average is only out of date while the sensor task is about to renew it.
AverageInv == pc["sensor"] # "average" => average_temp = Average

\* A period without a sensor lets the heater task only ask for power 0.
BlindInv ==
  /\ pc["heater"] \notin {"heaterLock", "power"} => requested_power = 0
  /\ blind >= 1 => Valid = {} /\ requested_power = 0
  /\ blind = 1 /\ pc["heater"] = "asleep" => applied_power = 0
  /\ blind = 2 => applied_power = 0

\* The bed has made its step of this period.
Stepped == IF pc["model"] = "asleep" THEN 1 ELSE 0

\* The sensors that were read in this period.
ReadNow == {s \in Sensors : \/ pc["sensor"] = "asleep"
                            \/ s < i
                            \/ s = i /\ pc["sensor"] = "average"}

\* How much warmer the bed can be than a reading: a step for each period since.
WarmInv ==
  /\ \A s \in Valid : temperature <= temperatures[s] + Stepped
                                     + (IF s \in ReadNow THEN 0 ELSE 1)
  /\ currentTemp # Nothing => temperature <= currentTemp + Stepped
  /\ pc["sensor"] = "asleep" => currentTemp = Nothing /\ i = 1
  /\ pc["sensor"] \in {"read", "average"} => currentTemp = Nothing

\* No target on its way to the control loop is above the highest.
TargetInv ==
  /\ target_temp <= highest
  /\ message \in Targets => message <= highest
  /\ \A k \in Slots : slots[k] \in Targets => slots[k] <= highest

\* How warm the bed can be where power is on its way.
HeatInv ==
  /\ requested_power = 1 => highest # Nothing /\ temperature <= highest + Stepped
  /\ applied_power = 1 =>
       highest # Nothing /\ temperature <= highest + Stepped
                            + (IF pc["heater"] = "asleep" THEN 0 ELSE 1)
  /\ heater_power = 1 => pc["model"] = "step" /\ highest # Nothing
                         /\ temperature <= highest + 1
  /\ OvershootIsBounded

\* As long as the two ends have not met at the count, the queue holds what was
\* accepted and not yet taken out.
Good == /\ ~raced /\ (rx # Nothing => waiting = rx)
        /\ (pc["command"] = "take" => waiting = seen)
Dist(k) == IF k >= head THEN k - head ELSE k - head + QueueLength
InHand == IF pc["command"] = "take" THEN 1 ELSE 0
Stored == waiting - InHand
Window == {k \in Slots : Dist(k) < Stored}
Requests == {k \in Window : slots[k] = Request}
Wanted == {k \in Window : slots[k] \in Targets}

\* The end is where the stored commands end, with the one that is not counted yet.
EndInv == Good => LET n == Stored + (IF rx = Nothing THEN 0 ELSE 1) IN
                  end = IF head + n < QueueLength THEN head + n ELSE head + n - QueueLength

\* A request that was answered is handled, in hand or in the queue.
RequestInv ==
  Good => asked = handled + Cardinality(Requests)
                  + (IF pc["command"] = "take" /\ message = Request THEN 1 ELSE 0)

\* The last target that was answered is the last in the queue, in hand or in force.
LastInv ==
  Good => IF Wanted # {}
          THEN \E k \in Wanted : slots[k] = last /\ \A j \in Wanted : Dist(j) <= Dist(k)
          ELSE last = IF message \in Targets THEN message ELSE target_temp

QueueInv == EndInv /\ RequestInv /\ LastInv

\* A request that was handled after the last sample has woken the telemetry task.
SampleInv == sampled = handled \/ notified \/ pc["telemetry"] \in {"dataLock", "copy"}

\* BoardInv and SnapshotIsWhole follow from these.
IInv == TypeOK /\ PlaceInv /\ MutexInv /\ QuietInv /\ CountInv /\ AverageInv /\ BlindInv

-----------------------------------------------------------------------------
(***************************************************************************)
(* The average.  MapThenSumSet is a recursive function on the subsets of a *)
(* finite set; what it computes follows by induction on the subset order,  *)
(* as the absence of a smallest counterexample.                            *)
(***************************************************************************)
\* A set of subsets of a finite set has a smallest one.
LEMMA FinMin ==
  ASSUME NEW V, IsFiniteSet(V), NEW T, T \subseteq SUBSET V, T # {}
  PROVE  \E s \in T : \A r \in T : ~(r \subseteq s /\ r # s)
<1>1. IsWellFoundedOn(StrictSubsetOrdering(V), FiniteSubsetsOf(V))
  BY FS_StrictSubsetOrderingWellFounded
<1>2. T \subseteq FiniteSubsetsOf(V)
  BY FS_Subset DEF FiniteSubsetsOf
<1>3. \E s \in T : \A r \in T : ~(<<r, s>> \in StrictSubsetOrdering(V))
  BY <1>1, <1>2, WFMin
<1> QED BY <1>3 DEF StrictSubsetOrdering

\* The sums of f over the subsets of V, by the element that is added last.
Pick(s) == CHOOSE x \in s : TRUE
Sums(g, f, V) ==
  g = [s \in SUBSET V |-> IF s = {} THEN 0 ELSE f[Pick(s)] + g[s \ {Pick(s)}]]

\* A subset without its picked element is a smaller subset.
LEMMA PickFacts ==
  ASSUME NEW s, s # {}
  PROVE  Pick(s) \in s /\ s \ {Pick(s)} \subseteq s /\ s \ {Pick(s)} # s
BY DEF Pick

\* What a function of sums is at a subset.
LEMMA SumsAt ==
  ASSUME NEW g, NEW f, NEW V, Sums(g, f, V), NEW s \in SUBSET V
  PROVE  /\ s = {} => g[s] = 0
         /\ s # {} => /\ g[s] = f[Pick(s)] + g[s \ {Pick(s)}]
                      /\ Pick(s) \in V /\ s \ {Pick(s)} \in SUBSET V
BY PickFacts DEF Sums

\* The sums over the subsets of a subset are the same.
LEMMA SumsUnique ==
  ASSUME NEW f, NEW V, IsFiniteSet(V), NEW W \in SUBSET V, NEW g, NEW h,
         Sums(g, f, V), Sums(h, f, W), NEW w \in SUBSET W
  PROVE  g[w] = h[w]
<1> DEFINE T == {s \in SUBSET W : g[s] # h[s]}
<1> SUFFICES ASSUME T # {} PROVE FALSE
  OBVIOUS
<1>1. PICK s \in T : \A r \in T : ~(r \subseteq s /\ r # s)
  <2>1. IsFiniteSet(W) /\ T \subseteq SUBSET W
    BY FS_Subset
  <2> HIDE DEF T
  <2> QED BY <2>1, FinMin
<1>2. s \in SUBSET V /\ s \in SUBSET W /\ g[s] # h[s]
  OBVIOUS
<1>a. /\ s = {} => g[s] = 0
      /\ s # {} => g[s] = f[Pick(s)] + g[s \ {Pick(s)}]
  BY <1>2, SumsAt
<1>b. /\ s = {} => h[s] = 0
      /\ s # {} => h[s] = f[Pick(s)] + h[s \ {Pick(s)}] /\ s \ {Pick(s)} \in SUBSET W
  BY <1>2, SumsAt
<1>3. /\ s # {} /\ s \ {Pick(s)} \in SUBSET W
      /\ g[s] = f[Pick(s)] + g[s \ {Pick(s)}] /\ h[s] = f[Pick(s)] + h[s \ {Pick(s)}]
  BY <1>2, <1>a, <1>b
<1>4. s \ {Pick(s)} \notin T
  BY <1>1, <1>3, PickFacts
<1> QED BY <1>2, <1>3, <1>4

\* There is a function of sums.
LEMMA SumsExist ==
  ASSUME NEW f, NEW V, IsFiniteSet(V)
  PROVE  \E g : Sums(g, f, V)
<1> DEFINE T == {W \in SUBSET V : ~ \E g : Sums(g, f, W)}
<1> SUFFICES ASSUME T # {} PROVE FALSE
  OBVIOUS
<1>1. PICK W \in T : \A r \in T : ~(r \subseteq W /\ r # W)
  <2>1. T \subseteq SUBSET V
    OBVIOUS
  <2> HIDE DEF T
  <2> QED BY <2>1, FinMin
<1> DEFINE h(s) == CHOOSE g : Sums(g, f, s)
           G == [s \in SUBSET W |->
                   IF s = {} THEN 0
                   ELSE IF s = W THEN f[Pick(W)] + h(W \ {Pick(W)})[W \ {Pick(W)}]
                   ELSE h(s)[s]]
<1>2. \A s \in SUBSET W : s # W => Sums(h(s), f, s)
  BY <1>1
<1>3. \A s \in SUBSET W : s # W => IsFiniteSet(s)
  BY FS_Subset
<1> HIDE DEF h
<1>4. ASSUME NEW s \in SUBSET W, s # {}
      PROVE  G[s] = f[Pick(s)] + G[s \ {Pick(s)}]
  <2> DEFINE r == s \ {Pick(s)}
  <2>1. r \in SUBSET W /\ r # W /\ r \subseteq s
    BY <1>4, PickFacts
  <2>2. G[r] = h(r)[r]
    <3>1. r = {} => h(r)[r] = 0
      <4>1. r \in SUBSET r /\ Sums(h(r), f, r)
        BY <1>2, <2>1
      <4> HIDE DEF r
      <4> QED BY <4>1, SumsAt
    <3> QED BY <2>1, <3>1
  <2>3. CASE s = W
    BY <1>4, <2>2, <2>3
  <2>4. CASE s # W
    <3>1. h(s)[s] = f[Pick(s)] + h(s)[r]
      BY <1>2, <1>4, <2>4, SumsAt
    <3>2. h(s)[r] = h(r)[r]
      BY <1>2, <1>3, <2>1, <2>4, SumsUnique
    <3> QED BY <1>4, <2>2, <2>4, <3>1, <3>2
  <2> QED BY <2>3, <2>4
<1>5. Sums(G, f, W)
  <2>1. G = [s \in SUBSET W |-> G[s]]
    OBVIOUS
  <2>2. \A s \in SUBSET W : G[s] = IF s = {} THEN 0 ELSE f[Pick(s)] + G[s \ {Pick(s)}]
    BY <1>4
  <2> HIDE DEF G
  <2> QED BY <2>1, <2>2 DEF Sums
<1> QED BY <1>5

\* A sum of naturals is one, and none of them can be above the average.
LEMMA SumsBounds ==
  ASSUME NEW f, NEW V, IsFiniteSet(V), \A x \in V : f[x] \in Nat,
         NEW c \in Nat, \A x \in V : c <= f[x], NEW g, Sums(g, f, V)
  PROVE  g[V] \in Nat /\ c * Cardinality(V) <= g[V]
<1> DEFINE T == {s \in SUBSET V : ~(g[s] \in Nat /\ c * Cardinality(s) <= g[s])}
<1> SUFFICES ASSUME T # {} PROVE FALSE
  OBVIOUS
<1>1. PICK s \in T : \A r \in T : ~(r \subseteq s /\ r # s)
  <2>1. T \subseteq SUBSET V
    OBVIOUS
  <2> HIDE DEF T
  <2> QED BY <2>1, FinMin
<1>2. s # {}
  <2>1. s = {} => g[s] = 0 /\ Cardinality(s) = 0
    BY SumsAt, FS_EmptySet
  <2>2. c * 0 = 0
    OBVIOUS
  <2> QED BY <2>1, <2>2
<1>3. /\ g[s] = f[Pick(s)] + g[s \ {Pick(s)}]
      /\ Pick(s) \in V /\ s \ {Pick(s)} \in SUBSET V
  BY <1>2, SumsAt
<1>4. g[s \ {Pick(s)}] \in Nat /\ c * Cardinality(s \ {Pick(s)}) <= g[s \ {Pick(s)}]
  BY <1>1, <1>2, <1>3, PickFacts
<1>5. Cardinality(s \ {Pick(s)}) = Cardinality(s) - 1 /\ Cardinality(s) \in Nat
  BY <1>2, PickFacts, FS_Subset, FS_RemoveElement, FS_CardinalityType
<1>6. c * (Cardinality(s) - 1) = c * Cardinality(s) - c
  BY <1>5
<1>7. f[Pick(s)] \in Nat /\ c <= f[Pick(s)]
  BY <1>3
<1>8. c * Cardinality(s) \in Nat
  BY <1>5
<1>9. c * Cardinality(s) - c <= g[s \ {Pick(s)}]
  BY <1>4, <1>5, <1>6
<1> QED BY <1>3, <1>4, <1>7, <1>8, <1>9

\* The average of no sensors is 0; if all valid sensors have reached a temperature,
\* then so has the average.
LEMMA AverageFacts ==
  ASSUME temperatures \in [Sensors -> Temps \cup {Nothing}]
  PROVE  /\ Average \in Nat \X (0..S)
         /\ Valid = {} => Average = <<0, 0>>
         /\ \A c \in Nat : (\A s \in Valid : c <= temperatures[s]) =>
                             c * Average[2] <= Average[1]
<1> DEFINE g == CHOOSE h : Sums(h, temperatures, Valid)
<1>1. /\ Valid \in SUBSET Sensors /\ IsFiniteSet(Sensors) /\ Cardinality(Sensors) = S
      /\ S \in Nat
  <2>1. S \in Nat /\ S > 0 /\ 1 \in Int /\ S \in Int
    BY CountAssumption
  <2> QED BY <2>1, FS_Interval DEF Valid, Sensors
<1>2. IsFiniteSet(Valid) /\ Cardinality(Valid) \in 0..S
  BY <1>1, FS_Subset, FS_CardinalityType
<1>3. Average = <<g[Valid], Cardinality(Valid)>>
  BY DEF Average, MapThenSumSet, MapThenFoldSet, Sums, Pick
<1>4. Sums(g, temperatures, Valid)
  BY <1>2, SumsExist
<1>5. \A x \in Valid : temperatures[x] \in Nat
  BY DEF Valid, Temps, Nothing, Sensors
<1> HIDE DEF g
<1>6. ASSUME NEW c \in Nat, \A s \in Valid : c <= temperatures[s]
      PROVE  g[Valid] \in Nat /\ c * Cardinality(Valid) <= g[Valid]
  BY <1>2, <1>4, <1>5, <1>6, SumsBounds
<1>7. g[Valid] \in Nat
  <2>1. \A s \in Valid : 0 <= temperatures[s]
    BY <1>5
  <2> QED BY <1>6, <2>1
<1>8. Valid = {} => g[Valid] = 0
  BY <1>4, SumsAt
<1>9. Average[1] = g[Valid] /\ Average[2] = Cardinality(Valid)
  BY <1>3
<1> QED BY <1>2, <1>3, <1>6, <1>7, <1>8, <1>9, FS_EmptySet

-----------------------------------------------------------------------------
\* The places of the queue in a circle.
LEMMA AfterFacts ==
  ASSUME NEW k \in Slots
  PROVE  After(k) = IF k = QueueLength - 1 THEN 0 ELSE k + 1
<1>1. QueueLength \in Nat /\ QueueLength > 0 /\ k \in Nat /\ k < QueueLength
  BY CountAssumption DEF Slots
<1>2. CASE k = QueueLength - 1
  BY <1>1, <1>2 DEF After
<1>3. CASE k # QueueLength - 1
  BY <1>1, <1>3 DEF After
<1> QED BY <1>2, <1>3

\* The place before the end, where the last command was written.
LEMMA BeforeFacts ==
  ASSUME NEW k \in Slots
  PROVE  (k + QueueLength - 1) % QueueLength = IF k = 0 THEN QueueLength - 1 ELSE k - 1
<1>1. QueueLength \in Nat /\ QueueLength > 0 /\ k \in Nat /\ k < QueueLength
  BY CountAssumption DEF Slots
<1>2. CASE k = 0
  BY <1>1, <1>2
<1>3. CASE k # 0
  BY <1>1, <1>3
<1> QED BY <1>2, <1>3

\* Each step keeps the tasks in their places.
LEMMA TasksStep == TypeTasks /\ PlaceInv /\ [Next]_vars => TypeTasks' /\ PlaceInv'
<1> SUFFICES ASSUME TypeTasks, PlaceInv, [Next]_vars PROVE TypeTasks' /\ PlaceInv'
  OBVIOUS
<1>1. CASE sensor_read_task
  BY <1>1 DEF sensor_read_task, thermal_sensor_read, Acquire, StoreReading,
     thermals_recalculate_average, At, Lock, Unlock, data, queue, local, ghosts,
     TypeTasks, PlaceInv, Tasks, Periodic, Mutexes, Start
<1>2. CASE heater_set_task
  BY <1>2 DEF heater_set_task, Acquire, get_thermal_data, heater_set_power, At, Lock,
     Unlock, data, queue, local, ghosts, TypeTasks, PlaceInv, Tasks, Periodic,
     Mutexes, Start
<1>3. CASE thermal_model_task
  BY <1>3 DEF thermal_model_task, Acquire, get_applied_power, thermal_model_step, At,
     Lock, Unlock, data, queue, local, ghosts, TypeTasks, PlaceInv, Tasks, Periodic,
     Mutexes, Start
<1>4. CASE command_task
  BY <1>4 DEF command_task, Receive, Take, Acquire, thermals_set_target, At, Lock,
     Unlock, data, queue, local, ghosts, TypeTasks, PlaceInv, Tasks, Periodic,
     Mutexes, Start
<1>5. CASE telemetry_task
  BY <1>5 DEF telemetry_task, xTaskNotifyWait, Acquire, get_thermal_data,
     telemetry_send_thermal_values, At, Lock, Unlock, data, queue, local, ghosts,
     TypeTasks, PlaceInv, Tasks, Periodic, Mutexes, Start
<1>6. CASE vTaskSwitchContext \/ UNCHANGED vars
  BY <1>6 DEF vTaskSwitchContext, Highest, Ready, vars, data, queue, local, ghosts,
     TypeTasks, PlaceInv, Tasks, Periodic, Mutexes, Start
<1>7. CASE Period
  BY <1>7 DEF Period, data, queue, local, ghosts, TypeTasks, PlaceInv, Tasks,
     Periodic, Mutexes, Start
<1>8. CASE \E m \in Targets \cup {Request} : decode_command(m)
  BY <1>8 DEF decode_command, data, queue, local, ghosts, TypeTasks, PlaceInv, Tasks,
     Periodic, Mutexes, Start
<1>9. CASE enqueue_command
  BY <1>9 DEF enqueue_command, data, queue, local, ghosts, TypeTasks, PlaceInv, Tasks,
     Periodic, Mutexes, Start
<1> QED BY <1>1, <1>2, <1>3, <1>4, <1>5, <1>6, <1>7, <1>8, <1>9 DEF Next

\* Each step lets a task in only while the mutex is free.
LEMMA MutexStep == TypeTasks /\ PlaceInv /\ MutexInv /\ [Next]_vars => MutexInv'
<1> SUFFICES ASSUME TypeTasks, PlaceInv, MutexInv, [Next]_vars PROVE MutexInv'
  OBVIOUS
<1>1. CASE sensor_read_task
  BY <1>1 DEF sensor_read_task, thermal_sensor_read, Acquire, StoreReading,
     thermals_recalculate_average, At, Lock, Unlock, data, queue, local, ghosts,
     TypeTasks, PlaceInv, MutexInv, Inside, Tasks, Periodic, Mutexes, Start, Free
<1>2. CASE heater_set_task
  BY <1>2 DEF heater_set_task, Acquire, get_thermal_data, heater_set_power, At, Lock,
     Unlock, data, queue, local, ghosts, TypeTasks, PlaceInv, MutexInv, Inside, Tasks,
     Periodic, Mutexes, Start, Free
<1>3. CASE thermal_model_task
  BY <1>3 DEF thermal_model_task, Acquire, get_applied_power, thermal_model_step, At,
     Lock, Unlock, data, queue, local, ghosts, TypeTasks, PlaceInv, MutexInv, Inside,
     Tasks, Periodic, Mutexes, Start, Free
<1>4. CASE command_task
  BY <1>4 DEF command_task, Receive, Take, Acquire, thermals_set_target, At, Lock,
     Unlock, data, queue, local, ghosts, TypeTasks, PlaceInv, MutexInv, Inside, Tasks,
     Periodic, Mutexes, Start, Free
<1>5. CASE telemetry_task
  BY <1>5 DEF telemetry_task, xTaskNotifyWait, Acquire, get_thermal_data,
     telemetry_send_thermal_values, At, Lock, Unlock, data, queue, local, ghosts,
     TypeTasks, PlaceInv, MutexInv, Inside, Tasks, Periodic, Mutexes, Start, Free
<1>6. CASE vTaskSwitchContext \/ UNCHANGED vars
  BY <1>6 DEF vTaskSwitchContext, Highest, Ready, vars, data, queue, local, ghosts,
     TypeTasks, PlaceInv, MutexInv, Inside, Tasks, Periodic, Mutexes, Start, Free
<1>7. CASE Period
  BY <1>7 DEF Period, data, queue, local, ghosts, TypeTasks, PlaceInv, MutexInv,
     Inside, Tasks, Periodic, Mutexes, Start, Free
<1>8. CASE \E m \in Targets \cup {Request} : decode_command(m)
  BY <1>8 DEF decode_command, data, queue, local, ghosts, TypeTasks, PlaceInv,
     MutexInv, Inside, Tasks, Periodic, Mutexes, Start, Free
<1>9. CASE enqueue_command
  BY <1>9 DEF enqueue_command, data, queue, local, ghosts, TypeTasks, PlaceInv,
     MutexInv, Inside, Tasks, Periodic, Mutexes, Start, Free
<1> QED BY <1>1, <1>2, <1>3, <1>4, <1>5, <1>6, <1>7, <1>8, <1>9 DEF Next

\* Each step keeps what the control loop works with in its type.
LEMMA ControlStep == TypeTasks /\ CountInv /\ TypeControl /\ [Next]_vars => TypeControl'
<1> SUFFICES ASSUME TypeTasks, CountInv, TypeControl, [Next]_vars PROVE TypeControl'
  OBVIOUS
<1>a. S \in Nat /\ S > 0 /\ MaxTemp \in Nat /\ Targets \subseteq 1..MaxTemp
  BY CountAssumption, TempAssumption
<1>b. Average \in Nat \X (0..S)
  BY AverageFacts DEF TypeControl
<1>1. CASE sensor_read_task
  <2>1. CASE StoreReading
    BY <1>1, <1>a, <2>1 DEF StoreReading, TypeControl
  <2>2. CASE ~StoreReading
    BY <1>1, <1>a, <1>b, <2>2
       DEF sensor_read_task, thermal_sensor_read, Acquire, thermals_recalculate_average,
           TypeControl, data, local, ghosts, Sensors
  <2> QED BY <2>1, <2>2
<1>2. CASE heater_set_task
  <2>1. prop_int_controller_update \in 0..1 /\ 0 \in 0..1
    BY DEF prop_int_controller_update
  <2> QED BY <1>2, <2>1
          DEF heater_set_task, Acquire, get_thermal_data, heater_set_power, TypeControl,
              data, local, ghosts
<1>3. CASE thermal_model_task
  BY <1>3, <1>a
     DEF thermal_model_task, Acquire, get_applied_power, thermal_model_step, data, local,
         ghosts, TypeControl, Temps
<1>4. CASE command_task
  BY <1>4, <1>a DEF command_task, Receive, Take, Acquire, thermals_set_target, At,
     Lock, Unlock, data, queue, local, ghosts, TypeControl, CountInv
<1>5. CASE telemetry_task
  BY <1>5, <1>a DEF telemetry_task, xTaskNotifyWait, Acquire, get_thermal_data,
     telemetry_send_thermal_values, At, Lock, Unlock, data, queue, local, ghosts,
     TypeControl, CountInv
<1>6. CASE vTaskSwitchContext \/ UNCHANGED vars
  BY <1>6, <1>a DEF vTaskSwitchContext, Highest, Ready, vars, data, queue, local,
     ghosts, TypeControl, CountInv
<1>7. CASE Period
  BY <1>7, <1>a DEF Period, data, queue, local, ghosts, TypeControl, CountInv
<1>8. CASE \E m \in Targets \cup {Request} : decode_command(m)
  BY <1>8, <1>a DEF decode_command, data, queue, local, ghosts, TypeControl, CountInv
<1>9. CASE enqueue_command
  BY <1>9, <1>a DEF enqueue_command, data, queue, local, ghosts, TypeControl, CountInv
<1> QED BY <1>1, <1>2, <1>3, <1>4, <1>5, <1>6, <1>7, <1>8, <1>9 DEF Next

\* Each step keeps the command queue and its count in bounds.
LEMMA CommandsStep == TypeTasks /\ PlaceInv /\ TypeCommands /\ CountInv /\ [Next]_vars => TypeCommands' /\ CountInv'
<1> SUFFICES ASSUME TypeTasks, PlaceInv, TypeCommands, CountInv, [Next]_vars PROVE TypeCommands' /\ CountInv'
  OBVIOUS
<1>a. /\ QueueLength \in Nat /\ QueueLength > 0 /\ MaxCommands \in Nat
      /\ MaxTemp \in Nat /\ Targets \subseteq 1..MaxTemp
  BY CountAssumption, TempAssumption
<1>b. \A k \in Slots : After(k) \in Slots /\ slots[k] \in Message
  BY <1>a, AfterFacts DEF TypeCommands, Slots
<1>1. CASE sensor_read_task
  BY <1>1, <1>a DEF sensor_read_task, thermal_sensor_read, Acquire, StoreReading,
     thermals_recalculate_average, At, Lock, Unlock, data, queue, local, ghosts,
     TypeTasks, PlaceInv, TypeCommands, CountInv, Tasks, Periodic, Start
<1>2. CASE heater_set_task
  BY <1>2, <1>a DEF heater_set_task, Acquire, get_thermal_data, heater_set_power, At,
     Lock, Unlock, data, queue, local, ghosts, TypeTasks, PlaceInv, TypeCommands,
     CountInv, Tasks, Periodic, Start
<1>3. CASE thermal_model_task
  BY <1>3, <1>a DEF thermal_model_task, Acquire, get_applied_power,
     thermal_model_step, At, Lock, Unlock, data, queue, local, ghosts, TypeTasks,
     PlaceInv, TypeCommands, CountInv, Tasks, Periodic, Start
<1>4. CASE command_task
  <2>1. CASE Receive
    <3>1. slots[head] \in Message /\ After(head) \in Slots
      BY <1>b DEF TypeCommands
    <3>2. TypeCommands'
      BY <1>a, <2>1, <3>1 DEF Receive, TypeCommands, data, local, queue, ghosts
    <3>3. CountInv'
      BY <1>a, <2>1 DEF Receive, At, TypeTasks, TypeCommands, CountInv, Tasks
    <3> QED BY <3>2, <3>3
  <2>2. CASE Take
    <3>1. TypeCommands'
      <4>1. raced' \in BOOLEAN
        BY <2>2 DEF Take, TypeCommands
      <4>2. message' \in Message
        BY <2>2 DEF Take, Message
      <4>3. waiting' \in 0..QueueLength /\ seen' \in 0..QueueLength
        BY <1>a, <2>2 DEF Take, At, TypeCommands, CountInv
      <4>a. \/ notified' = TRUE /\ handled' = handled + 1
            \/ notified' = notified /\ handled' = handled
        BY <2>2 DEF Take
      <4>b. notified' \in BOOLEAN
        BY <4>a DEF TypeCommands
      <4>c. handled' \in Nat
        BY <4>a DEF TypeCommands
      <4>4. notified' \in BOOLEAN /\ handled' \in Nat
        BY <4>b, <4>c
      <4> QED BY <2>2, <4>1, <4>2, <4>3, <4>4 DEF Take, TypeCommands
    <3>2. CountInv'
      BY <1>a, <2>2
         DEF Take, At, TypeTasks, TypeCommands, CountInv, Tasks, Request, Nothing, Message
    <3> QED BY <3>1, <3>2
  <2>3. CASE ~Receive /\ ~Take
    <3>1. TypeCommands'
      BY <1>4, <1>a, <2>3
         DEF command_task, Acquire, thermals_set_target, data, local, queue, ghosts,
             TypeCommands, Message
    <3>2. CountInv'
      BY <1>4, <1>a, <2>3
         DEF command_task, Acquire, thermals_set_target, At, data, local, queue, ghosts,
             TypeTasks, TypeCommands, CountInv, Tasks
    <3> QED BY <3>1, <3>2
  <2> QED BY <2>1, <2>2, <2>3
<1>5. CASE telemetry_task
  BY <1>5, <1>a, ZenonT(40) DEF telemetry_task, xTaskNotifyWait, Acquire, get_thermal_data,
     telemetry_send_thermal_values, At, Lock, Unlock, data, queue, local, ghosts,
     TypeTasks, PlaceInv, TypeCommands, CountInv, Tasks, Periodic, Start
<1>6. CASE vTaskSwitchContext \/ UNCHANGED vars
  BY <1>6, <1>a DEF vTaskSwitchContext, Highest, Ready, vars, data, queue, local,
     ghosts, TypeTasks, PlaceInv, TypeCommands, CountInv, Tasks, Periodic, Start
<1>7. CASE Period
  BY <1>7, <1>a DEF Period, data, queue, local, ghosts, TypeTasks, PlaceInv,
     TypeCommands, CountInv, Tasks, Periodic, Start
<1>8. CASE \E m \in Targets \cup {Request} : decode_command(m)
  <2>1. PICK m \in Targets \cup {Request} : decode_command(m)
    BY <1>8
  <2>2. m \in Message /\ After(end) \in Slots
    BY <1>b DEF Message, TypeCommands
  <2>3. TypeCommands'
    BY <1>a, <2>1, <2>2 DEF decode_command, TypeCommands, local
  <2>4. CountInv'
    BY <1>a, <2>1 DEF decode_command, TypeCommands, CountInv, local, Nothing
  <2> QED BY <2>3, <2>4
<1>9. CASE enqueue_command
  BY <1>9, <1>a DEF enqueue_command, data, queue, local, ghosts, TypeTasks, PlaceInv,
     TypeCommands, CountInv, Tasks, Periodic, Start
<1> QED BY <1>1, <1>2, <1>3, <1>4, <1>5, <1>6, <1>7, <1>8, <1>9 DEF Next

\* The average depends on the readings alone.
LEMMA AverageSame == temperatures' = temperatures => Average' = Average /\ Valid' = Valid
BY DEF Average, Valid, MapThenSumSet, MapThenFoldSet

\* Each step that changes a reading leaves the average to the sensor task.
LEMMA AverageStep == TypeTasks /\ PlaceInv /\ AverageInv /\ [Next]_vars => AverageInv'
<1> SUFFICES ASSUME TypeTasks, PlaceInv, AverageInv, [Next]_vars PROVE AverageInv'
  OBVIOUS
<1>1. CASE sensor_read_task
  BY <1>1, AverageSame DEF sensor_read_task, thermal_sensor_read, Acquire,
     StoreReading, thermals_recalculate_average, At, Lock, Unlock, data, queue, local,
     ghosts, TypeTasks, PlaceInv, AverageInv, Tasks, Periodic, Start
<1>2. CASE heater_set_task
  BY <1>2, AverageSame DEF heater_set_task, Acquire, get_thermal_data,
     heater_set_power, At, Lock, Unlock, data, queue, local, ghosts, TypeTasks,
     PlaceInv, AverageInv, Tasks, Periodic, Start
<1>3. CASE thermal_model_task
  BY <1>3, AverageSame DEF thermal_model_task, Acquire, get_applied_power,
     thermal_model_step, At, Lock, Unlock, data, queue, local, ghosts, TypeTasks,
     PlaceInv, AverageInv, Tasks, Periodic, Start
<1>4. CASE command_task
  BY <1>4, AverageSame DEF command_task, Receive, Take, Acquire, thermals_set_target,
     At, Lock, Unlock, data, queue, local, ghosts, TypeTasks, PlaceInv, AverageInv,
     Tasks, Periodic, Start
<1>5. CASE telemetry_task
  BY <1>5, AverageSame DEF telemetry_task, xTaskNotifyWait, Acquire, get_thermal_data,
     telemetry_send_thermal_values, At, Lock, Unlock, data, queue, local, ghosts,
     TypeTasks, PlaceInv, AverageInv, Tasks, Periodic, Start
<1>6. CASE vTaskSwitchContext \/ UNCHANGED vars
  BY <1>6, AverageSame DEF vTaskSwitchContext, Highest, Ready, vars, data, queue,
     local, ghosts, TypeTasks, PlaceInv, AverageInv, Tasks, Periodic, Start
<1>7. CASE Period
  BY <1>7, AverageSame DEF Period, data, queue, local, ghosts, TypeTasks, PlaceInv,
     AverageInv, Tasks, Periodic, Start
<1>8. CASE \E m \in Targets \cup {Request} : decode_command(m)
  BY <1>8, AverageSame DEF decode_command, data, queue, local, ghosts, TypeTasks,
     PlaceInv, AverageInv, Tasks, Periodic, Start
<1>9. CASE enqueue_command
  BY <1>9, AverageSame DEF enqueue_command, data, queue, local, ghosts, TypeTasks,
     PlaceInv, AverageInv, Tasks, Periodic, Start
<1> QED BY <1>1, <1>2, <1>3, <1>4, <1>5, <1>6, <1>7, <1>8, <1>9 DEF Next

\* Each step but the reception of a command leaves a quiet board quiet.
LEMMA QuietStep == TypeTasks /\ PlaceInv /\ TypeCommands /\ QuietInv /\ [Next]_vars => QuietInv'
<1> SUFFICES ASSUME TypeTasks, PlaceInv, TypeCommands, QuietInv, [Next]_vars PROVE QuietInv'
  OBVIOUS
<1>1. CASE sensor_read_task
  BY <1>1, CountAssumption DEF sensor_read_task, thermal_sensor_read, Acquire,
     StoreReading, thermals_recalculate_average, At, Lock, Unlock, data, queue, local,
     ghosts, TypeTasks, PlaceInv, TypeCommands, QuietInv, Tasks, Periodic, Start,
     Nothing
<1>2. CASE heater_set_task
  BY <1>2, CountAssumption DEF heater_set_task, Acquire, get_thermal_data,
     heater_set_power, At, Lock, Unlock, data, queue, local, ghosts, TypeTasks,
     PlaceInv, TypeCommands, QuietInv, Tasks, Periodic, Start, Nothing
<1>3. CASE thermal_model_task
  BY <1>3, CountAssumption DEF thermal_model_task, Acquire, get_applied_power,
     thermal_model_step, At, Lock, Unlock, data, queue, local, ghosts, TypeTasks,
     PlaceInv, TypeCommands, QuietInv, Tasks, Periodic, Start, Nothing
<1>4. CASE command_task
  BY <1>4, CountAssumption DEF command_task, Receive, Take, Acquire,
     thermals_set_target, At, Lock, Unlock, data, queue, local, ghosts, TypeTasks,
     PlaceInv, TypeCommands, QuietInv, Tasks, Periodic, Start, Nothing
<1>5. CASE telemetry_task
  BY <1>5, CountAssumption DEF telemetry_task, xTaskNotifyWait, Acquire,
     get_thermal_data, telemetry_send_thermal_values, At, Lock, Unlock, data, queue,
     local, ghosts, TypeTasks, PlaceInv, TypeCommands, QuietInv, Tasks, Periodic,
     Start, Nothing
<1>6. CASE vTaskSwitchContext \/ UNCHANGED vars
  BY <1>6, CountAssumption DEF vTaskSwitchContext, Highest, Ready, vars, data, queue,
     local, ghosts, TypeTasks, PlaceInv, TypeCommands, QuietInv, Tasks, Periodic,
     Start, Nothing
<1>7. CASE Period
  BY <1>7, CountAssumption DEF Period, data, queue, local, ghosts, TypeTasks,
     PlaceInv, TypeCommands, QuietInv, Tasks, Periodic, Start, Nothing
<1>8. CASE \E m \in Targets \cup {Request} : decode_command(m)
  BY <1>8, CountAssumption DEF decode_command, data, queue, local, ghosts, TypeTasks,
     PlaceInv, TypeCommands, QuietInv, Tasks, Periodic, Start, Nothing
<1>9. CASE enqueue_command
  BY <1>9, CountAssumption DEF enqueue_command, data, queue, local, ghosts, TypeTasks,
     PlaceInv, TypeCommands, QuietInv, Tasks, Periodic, Start, Nothing
<1> QED BY <1>1, <1>2, <1>3, <1>4, <1>5, <1>6, <1>7, <1>8, <1>9 DEF Next

\* Each step keeps a blind heater off.
LEMMA BlindStep == TypeTasks /\ PlaceInv /\ TypeControl /\ BlindInv /\ [Next]_vars => BlindInv'
<1> SUFFICES ASSUME TypeTasks, PlaceInv, TypeControl, BlindInv, [Next]_vars PROVE BlindInv'
  OBVIOUS
<1>1. CASE sensor_read_task
  <2>1. CASE StoreReading
    <3>1. currentTemp = Nothing => Valid' \subseteq Valid
      BY <2>1 DEF StoreReading, Valid, TypeControl
    <3>2. UNCHANGED <<applied_power, requested_power>> /\ pc'["heater"] = pc["heater"]
          /\ blind' = IF currentTemp = Nothing THEN blind ELSE 0
      BY <2>1 DEF StoreReading, At, TypeTasks, Tasks
    <3> QED BY <3>1, <3>2 DEF BlindInv, TypeControl
  <2>2. CASE ~StoreReading
    BY <1>1, <2>2, AverageSame
       DEF sensor_read_task, thermal_sensor_read, Acquire, thermals_recalculate_average,
           At, data, local, ghosts, TypeTasks, BlindInv, Tasks
  <2> QED BY <2>1, <2>2
<1>2. CASE heater_set_task
  <2>1. blind >= 1 => prop_int_controller_update = 0
    BY DEF prop_int_controller_update, BlindInv
  <2>2. Valid' = Valid /\ UNCHANGED blind
    BY <1>2, AverageSame
       DEF heater_set_task, Acquire, get_thermal_data, heater_set_power, data, ghosts
  <2> QED BY <1>2, <2>1, <2>2
          DEF heater_set_task, Acquire, get_thermal_data, heater_set_power, At, local,
              TypeTasks, TypeControl, PlaceInv, BlindInv, Tasks
<1>3. CASE thermal_model_task
  BY <1>3, AverageSame DEF thermal_model_task, Acquire, get_applied_power,
     thermal_model_step, At, Lock, Unlock, data, queue, local, ghosts, TypeTasks,
     PlaceInv, TypeControl, BlindInv, Tasks, Periodic, Start
<1>4. CASE command_task
  BY <1>4, AverageSame DEF command_task, Receive, Take, Acquire, thermals_set_target,
     At, Lock, Unlock, data, queue, local, ghosts, TypeTasks, PlaceInv, TypeControl,
     BlindInv, Tasks, Periodic, Start
<1>5. CASE telemetry_task
  BY <1>5, AverageSame DEF telemetry_task, xTaskNotifyWait, Acquire, get_thermal_data,
     telemetry_send_thermal_values, At, Lock, Unlock, data, queue, local, ghosts,
     TypeTasks, PlaceInv, TypeControl, BlindInv, Tasks, Periodic, Start
<1>6. CASE vTaskSwitchContext \/ UNCHANGED vars
  BY <1>6, AverageSame DEF vTaskSwitchContext, Highest, Ready, vars, data, queue,
     local, ghosts, TypeTasks, PlaceInv, TypeControl, BlindInv, Tasks, Periodic, Start
<1>7. CASE Period
  BY <1>7, AverageSame DEF Period, data, queue, local, ghosts, TypeTasks, PlaceInv,
     TypeControl, BlindInv, Tasks, Periodic, Start
<1>8. CASE \E m \in Targets \cup {Request} : decode_command(m)
  BY <1>8, AverageSame DEF decode_command, data, queue, local, ghosts, TypeTasks,
     PlaceInv, TypeControl, BlindInv, Tasks, Periodic, Start
<1>9. CASE enqueue_command
  BY <1>9, AverageSame DEF enqueue_command, data, queue, local, ghosts, TypeTasks,
     PlaceInv, TypeControl, BlindInv, Tasks, Periodic, Start
<1> QED BY <1>1, <1>2, <1>3, <1>4, <1>5, <1>6, <1>7, <1>8, <1>9 DEF Next

-----------------------------------------------------------------------------
\* The invariant holds at the start and every step keeps it.
LEMMA Inductive == Spec => []IInv
<1>1. Init => IInv
  <2> SUFFICES ASSUME Init PROVE IInv
    OBVIOUS
  <2>a. /\ S \in Nat /\ S > 0 /\ QueueLength \in Nat /\ QueueLength > 0
        /\ MaxCommands \in Nat /\ MaxTemp \in Nat /\ Targets \subseteq 1..MaxTemp
    BY CountAssumption, TempAssumption
  <2>1. TypeTasks /\ PlaceInv /\ MutexInv /\ QuietInv
    BY DEF Init, TypeTasks, PlaceInv, MutexInv, QuietInv, Inside, Tasks, Mutexes, Start,
           Periodic, Free
  <2>2. TypeControl
    BY <2>a DEF Init, TypeControl, Sensors, Temps
  <2>3. TypeCommands
    <3>1. notified \in BOOLEAN /\ raced \in BOOLEAN
      BY DEF Init
    <3>2. 0 \in Slots /\ 0 \in 0..QueueLength /\ 0 \in 0..MaxCommands
      BY <2>a DEF Slots
    <3> QED BY <3>1, <3>2 DEF Init, TypeCommands, Message
  <2>4. CountInv
    BY DEF Init, CountInv, Nothing, Start, Tasks
  <2>5. Valid = {}
    BY DEF Init, Valid
  <2>6. AverageInv
    BY <2>2, <2>5, AverageFacts DEF Init, AverageInv, TypeControl
  <2>7. BlindInv
    BY DEF Init, BlindInv
  <2> QED BY <2>1, <2>2, <2>3, <2>4, <2>6, <2>7 DEF IInv, TypeOK
<1>2. IInv /\ [Next]_vars => IInv'
  BY TasksStep, MutexStep, ControlStep, CommandsStep, AverageStep, QuietStep, BlindStep
     DEF IInv, TypeOK
<1> QED BY <1>1, <1>2, PTL DEF Spec

\* A ready task of the highest priority waits for nobody, or the task it waits for
\* is of lower priority, which takes a command to get there.
LEMMA SomebodyCan == IInv => SomebodyRuns
<1> SUFFICES ASSUME IInv, Ready # {}, \A t \in Highest : \E m \in Mutexes : Waits(t, m)
             PROVE  LockedUp /\ received > 0
  BY DEF SomebodyRuns
<1>a. TypeTasks /\ TypeCommands /\ PlaceInv /\ MutexInv /\ QuietInv
  BY DEF IInv, TypeOK
<1>b. \A t \in Tasks : Prio[t] \in 1..3
  BY DEF Prio
<1>1. PICK t \in Highest : TRUE
  <2>1. CASE \E t \in Ready : Prio[t] = 3
    BY <1>b, <2>1 DEF Highest, Ready
  <2>2. CASE \E t \in Ready : Prio[t] = 2 /\ \A u \in Ready : Prio[u] # 3
    BY <1>b, <2>2 DEF Highest, Ready
  <2>3. CASE \A t \in Ready : Prio[t] = 1
    BY <1>b, <2>3 DEF Highest, Ready
  <2> QED BY <1>b, <2>1, <2>2, <2>3 DEF Ready
<1>2. PICK m \in Mutexes : Waits(t, m)
  OBVIOUS
<1>3. t \in Tasks /\ owner[m] \in Tasks
  BY <1>a, <1>2 DEF Highest, Ready, Waits, TypeTasks
<1>4. pc[owner[m]] \in {"power", "store", "average", "copy"}
  BY <1>a, <1>3 DEF MutexInv, Inside
<1>5. owner[m] \in Ready /\ \A n \in Mutexes : ~Waits(owner[m], n)
  BY <1>3, <1>4 DEF Ready, Waits
<1>6. owner[m] \notin Highest
  BY <1>5
<1>7. Prio[owner[m]] < Prio[t]
  BY <1>1, <1>3, <1>5, <1>6, <1>b DEF Highest, Ready
<1>8. LockedUp
  BY <1>2, <1>3, <1>7 DEF LockedUp
<1>9. received > 0
  <2>1. t = "command" \/ owner[m] = "telemetry"
    BY <1>3, <1>7 DEF Prio, Tasks
  <2>2. t = "command" => pc[t] \in {"dataLock", "heaterLock"}
    BY <1>2 DEF Waits
  <2> QED BY <1>4, <1>a, <2>1, <2>2 DEF QuietInv, TypeCommands
<1> QED BY <1>8, <1>9

\* The board stays able to run, and the heater off without sensors, whenever ticks
\* switch its tasks (thermal_data.c, heater_set_task.c, port.c).
THEOREM BoardTheorem == Spec => []BoardInv
<1>1. IInv => BoardInv
  BY SomebodyCan DEF IInv, BoardInv, BlindInv, BlindHeaterIsOff
<1> QED BY <1>1, Inductive, PTL

\* get_thermal_data never returns a torn snapshot: the average that is copied is
\* that of the readings copied with it (thermal_data.c).
THEOREM SnapshotTheorem == Spec => SnapshotIsWhole
<1>1. ASSUME IInv, NEW t \in {"heater", "telemetry"}, pc[t] = "copy"
      PROVE  average_temp = Average
  <2>1. owner["thermal_data_lock"] = t /\ pc["sensor"] # "average"
    BY <1>1 DEF IInv, MutexInv, Inside, Mutexes, Tasks
  <2> QED BY <1>1, <2>1 DEF IInv, AverageInv
<1>2. IInv /\ [Next]_vars =>
        [\A t \in {"heater", "telemetry"} :
           pc[t] = "copy" /\ pc'[t] # "copy" => average_temp = Average]_vars
  BY <1>1
<1> QED BY <1>2, Inductive, PTL DEF Spec, SnapshotIsWhole

-----------------------------------------------------------------------------
\* Each step keeps the highest target above every other.
LEMMA TargetStep == TypeTasks /\ TypeCommands /\ CountInv /\ TypeControl /\ TargetInv /\ [Next]_vars => TargetInv'
<1> SUFFICES ASSUME TypeTasks, TypeCommands, CountInv, TypeControl, TargetInv, [Next]_vars PROVE TargetInv'
  OBVIOUS
<1>a. MaxTemp \in Nat /\ Targets \subseteq 1..MaxTemp /\ highest \in Int
      /\ \A x \in Targets : x \in Int
  BY TempAssumption DEF TypeCommands, Nothing
<1>1. CASE sensor_read_task
  BY <1>1, <1>a DEF sensor_read_task, thermal_sensor_read, Acquire, StoreReading,
     thermals_recalculate_average, At, Lock, Unlock, data, queue, local, ghosts,
     TypeTasks, TypeCommands, TypeControl, TargetInv, Nothing, Request
<1>2. CASE heater_set_task
  BY <1>2, <1>a DEF heater_set_task, Acquire, get_thermal_data, heater_set_power, At,
     Lock, Unlock, data, queue, local, ghosts, TypeTasks, TypeCommands, TypeControl,
     TargetInv, Nothing, Request
<1>3. CASE thermal_model_task
  BY <1>3, <1>a DEF thermal_model_task, Acquire, get_applied_power,
     thermal_model_step, At, Lock, Unlock, data, queue, local, ghosts, TypeTasks,
     TypeCommands, TypeControl, TargetInv, Nothing, Request
<1>4. CASE command_task
  <2>1. CASE Receive
    BY <1>4, <1>a, <2>1 DEF Receive, TypeCommands, TargetInv, data, ghosts
  <2>2. CASE Take
    BY <1>4, <1>a, <2>2 DEF Take, TypeCommands, TargetInv, data, Nothing
  <2>3. CASE ~Receive /\ ~Take
    BY <1>4, <1>a, <2>3
       DEF command_task, Acquire, thermals_set_target, At, TypeCommands, CountInv,
           TargetInv, data, local, queue, ghosts, Nothing
  <2> QED BY <2>1, <2>2, <2>3
<1>5. CASE telemetry_task
  BY <1>5, <1>a DEF telemetry_task, xTaskNotifyWait, Acquire, get_thermal_data,
     telemetry_send_thermal_values, At, Lock, Unlock, data, queue, local, ghosts,
     TypeTasks, TypeCommands, TypeControl, TargetInv, Nothing, Request
<1>6. CASE vTaskSwitchContext \/ UNCHANGED vars
  BY <1>6, <1>a DEF vTaskSwitchContext, Highest, Ready, vars, data, queue, local,
     ghosts, TypeTasks, TypeCommands, TypeControl, TargetInv, Nothing, Request
<1>7. CASE Period
  BY <1>7, <1>a DEF Period, data, queue, local, ghosts, TypeTasks, TypeCommands,
     TypeControl, TargetInv, Nothing, Request
<1>8. CASE \E m \in Targets \cup {Request} : decode_command(m)
  <2>1. PICK m \in Targets \cup {Request} : decode_command(m)
    BY <1>8
  <2>2. highest <= highest' /\ (m \in Targets => m <= highest') /\ highest' \in Int
    BY <1>a, <2>1 DEF decode_command
  <2>3. \A k \in Slots : slots'[k] \in {slots[k], m}
    BY <2>1 DEF decode_command, TypeCommands
  <2>4. ASSUME NEW x \in Int, x <= highest PROVE x <= highest'
    BY <1>a, <2>2, <2>4
  <2>5. \A k \in Slots : slots'[k] \in Targets => slots'[k] <= highest'
    BY <1>a, <2>2, <2>3, <2>4 DEF TargetInv
  <2>6. target_temp \in Int /\ UNCHANGED <<target_temp, message>>
    BY <1>a, <2>1 DEF decode_command, TypeControl, data, local, Nothing
  <2> QED BY <1>a, <2>4, <2>5, <2>6 DEF TargetInv
<1>9. CASE enqueue_command
  BY <1>9, <1>a DEF enqueue_command, data, queue, local, ghosts, TypeTasks,
     TypeCommands, TypeControl, TargetInv, Nothing, Request
<1> QED BY <1>1, <1>2, <1>3, <1>4, <1>5, <1>6, <1>7, <1>8, <1>9 DEF Next

\* Each step keeps a reading at most a step behind for each period since it was taken.
LEMMA WarmStep == TypeTasks /\ PlaceInv /\ TypeControl /\ WarmInv /\ [Next]_vars => WarmInv'
<1> SUFFICES ASSUME TypeTasks, PlaceInv, TypeControl, WarmInv, [Next]_vars PROVE WarmInv'
  OBVIOUS
<1>a. S \in Nat /\ S > 0 /\ MaxTemp \in Nat /\ i \in 1..S
  BY CountAssumption, TempAssumption DEF TypeControl, Sensors
<1>b. \A s \in Valid : temperatures[s] \in Nat
  BY DEF Valid, TypeControl, Temps
<1>c. temperature \in Nat
  BY DEF TypeControl, Temps
<1>1. CASE sensor_read_task
  <2>a. temperature' = temperature /\ Stepped' = Stepped
    BY <1>1
       DEF sensor_read_task, thermal_sensor_read, Acquire, StoreReading,
           thermals_recalculate_average, At, TypeTasks, Tasks, Stepped
  <2>1. CASE thermal_sensor_read
    <3>1. ReadNow' = ReadNow /\ Valid' = Valid
      BY <2>1, AverageSame DEF thermal_sensor_read, At, TypeTasks, Tasks, ReadNow, data
    <3>2. currentTemp' # Nothing => temperature <= currentTemp' + Stepped
      <4>1. currentTemp' = temperature \/ currentTemp' = Nothing
        BY <2>1 DEF thermal_sensor_read
      <4>2. Stepped \in Nat
        BY DEF Stepped
      <4> QED BY <1>c, <4>1, <4>2
    <3> QED BY <2>1, <2>a, <3>1, <3>2
            DEF thermal_sensor_read, At, TypeTasks, Tasks, WarmInv, data
  <2>2. CASE Acquire("sensor", "thermal_data_lock", "dataLock", "store")
    <3>1. ReadNow' = ReadNow /\ Valid' = Valid
      BY <2>2, AverageSame DEF Acquire, At, TypeTasks, Tasks, ReadNow, data, local
    <3> QED BY <2>2, <2>a, <3>1 DEF Acquire, At, TypeTasks, Tasks, WarmInv, data, local
  <2>3. CASE StoreReading
    <3>1. ReadNow' = ReadNow \cup {i}
      BY <2>3, <1>a DEF StoreReading, At, TypeTasks, Tasks, ReadNow, Sensors
    <3>2. \A s \in Valid' : \/ s = i /\ temperatures'[s] = currentTemp /\ currentTemp # Nothing
                            \/ s # i /\ s \in Valid /\ temperatures'[s] = temperatures[s]
      BY <2>3 DEF StoreReading, TypeControl, Valid
    <3>3. \A s \in Valid' : temperature <= temperatures'[s] + Stepped
                                           + (IF s \in ReadNow' THEN 0 ELSE 1)
      <4> SUFFICES ASSUME NEW s \in Valid'
                   PROVE  temperature <= temperatures'[s] + Stepped
                                         + (IF s \in ReadNow' THEN 0 ELSE 1)
        OBVIOUS
      <4>1. CASE s = i /\ temperatures'[s] = currentTemp /\ currentTemp # Nothing
        BY <3>1, <4>1 DEF WarmInv, TypeControl, Temps, Stepped
      <4>2. CASE s # i /\ s \in Valid /\ temperatures'[s] = temperatures[s]
        BY <3>1, <4>2 DEF WarmInv
      <4> QED BY <3>2, <4>1, <4>2
    <3> QED BY <2>3, <2>a, <3>3 DEF StoreReading, At, TypeTasks, Tasks, WarmInv
  <2>4. CASE thermals_recalculate_average
    <3>1. ReadNow' = ReadNow
      BY <2>4, <1>a
         DEF thermals_recalculate_average, At, TypeTasks, Tasks, ReadNow, Sensors
    <3>2. Valid' = Valid /\ UNCHANGED <<temperatures, currentTemp>>
      BY <2>4, AverageSame DEF thermals_recalculate_average
    <3>3. currentTemp = Nothing
      BY <2>4 DEF thermals_recalculate_average, At, WarmInv
    <3> QED BY <1>a, <2>4, <2>a, <3>1, <3>2, <3>3
            DEF thermals_recalculate_average, At, TypeTasks, Tasks, WarmInv
  <2> QED BY <1>1, <2>1, <2>2, <2>3, <2>4 DEF sensor_read_task
<1>2. CASE heater_set_task
  BY <1>2, <1>a, AverageSame DEF heater_set_task, Acquire, get_thermal_data,
     heater_set_power, At, Lock, Unlock, data, queue, local, ghosts, TypeTasks,
     PlaceInv, TypeControl, WarmInv, ReadNow, Stepped, Tasks
<1>3. CASE thermal_model_task
  <2>1. /\ Valid' = Valid /\ UNCHANGED <<temperatures, currentTemp, i>>
        /\ pc'["sensor"] = pc["sensor"]
    BY <1>3, AverageSame
       DEF thermal_model_task, Acquire, get_applied_power, thermal_model_step, At,
           TypeTasks, Tasks, data, local
  <2>2. ReadNow' = ReadNow
    BY <2>1 DEF ReadNow
  <2>3. temperature' \in Nat /\ Stepped' \in Int /\ Stepped \in Int
        /\ temperature' - Stepped' <= temperature - Stepped
    BY <1>3, <1>c
       DEF thermal_model_task, Acquire, get_applied_power, thermal_model_step, At,
           TypeTasks, TypeControl, Tasks, Temps, Stepped
  <2>a. \A a, b, c, d, x \in Int : a - b <= c - d /\ c <= x + d => a <= x + b
    OBVIOUS
  <2>4. ASSUME NEW x \in Int, temperature <= x + Stepped PROVE temperature' <= x + Stepped'
    <3>1. temperature' \in Int /\ temperature \in Int
      BY <1>c, <2>3
    <3> QED BY <2>3, <2>4, <2>a, <3>1
  <2>5. \A s \in Valid : temperature' <= temperatures[s] + Stepped'
                                         + (IF s \in ReadNow THEN 0 ELSE 1)
    <3> SUFFICES ASSUME NEW s \in Valid
                 PROVE  temperature' <= temperatures[s] + Stepped'
                                        + (IF s \in ReadNow THEN 0 ELSE 1)
      OBVIOUS
    <3>1. temperatures[s] \in Int /\ temperatures[s] + 1 \in Int
      BY <1>b
    <3>2. CASE s \in ReadNow
      <4>1. temperature <= temperatures[s] + Stepped
        BY <1>b, <2>3, <3>2 DEF WarmInv
      <4>2. temperature' <= temperatures[s] + Stepped'
        BY <2>4, <3>1, <4>1
      <4> QED BY <1>b, <2>3, <3>2, <4>2
    <3>3. CASE s \notin ReadNow
      <4>1. temperature <= (temperatures[s] + 1) + Stepped
        BY <1>b, <2>3, <3>3 DEF WarmInv
      <4>2. temperature' <= (temperatures[s] + 1) + Stepped'
        BY <2>4, <3>1, <4>1
      <4> QED BY <1>b, <2>3, <3>3, <4>2
    <3> QED BY <3>2, <3>3
  <2>6. currentTemp # Nothing => temperature' <= currentTemp + Stepped'
    BY <2>4 DEF WarmInv, TypeControl, Temps
  <2> QED BY <2>1, <2>2, <2>5, <2>6 DEF WarmInv
<1>4. CASE command_task
  BY <1>4, <1>a, AverageSame DEF command_task, Receive, Take, Acquire,
     thermals_set_target, At, Lock, Unlock, data, queue, local, ghosts, TypeTasks,
     PlaceInv, TypeControl, WarmInv, ReadNow, Stepped, Tasks
<1>5. CASE telemetry_task
  BY <1>5, <1>a, AverageSame DEF telemetry_task, xTaskNotifyWait, Acquire,
     get_thermal_data, telemetry_send_thermal_values, At, Lock, Unlock, data, queue,
     local, ghosts, TypeTasks, PlaceInv, TypeControl, WarmInv, ReadNow, Stepped, Tasks
<1>6. CASE vTaskSwitchContext \/ UNCHANGED vars
  BY <1>6, <1>a, AverageSame DEF vTaskSwitchContext, Highest, Ready, vars, data,
     queue, local, ghosts, TypeTasks, PlaceInv, TypeControl, WarmInv, ReadNow,
     Stepped, Tasks
<1>7. CASE Period
  <2>1. /\ Valid' = Valid /\ UNCHANGED <<temperatures, temperature, currentTemp, i>>
        /\ pc["sensor"] = "asleep" /\ pc'["sensor"] = "read" /\ Stepped = 1 /\ Stepped' = 0
    BY <1>7, AverageSame
       DEF Period, TypeTasks, Tasks, Periodic, Start, Stepped, data, local
  <2>2. ReadNow = Sensors /\ ReadNow' = {} /\ Valid \subseteq Sensors
    BY <1>a, <2>1 DEF ReadNow, WarmInv, Sensors, Valid
  <2> QED BY <1>b, <1>c, <2>1, <2>2 DEF WarmInv
<1>8. CASE \E m \in Targets \cup {Request} : decode_command(m)
  BY <1>8, <1>a, AverageSame DEF decode_command, data, queue, local, ghosts,
     TypeTasks, PlaceInv, TypeControl, WarmInv, ReadNow, Stepped, Tasks
<1>9. CASE enqueue_command
  BY <1>9, <1>a, AverageSame DEF enqueue_command, data, queue, local, ghosts,
     TypeTasks, PlaceInv, TypeControl, WarmInv, ReadNow, Stepped, Tasks
<1> QED BY <1>1, <1>2, <1>3, <1>4, <1>5, <1>6, <1>7, <1>8, <1>9 DEF Next

\* The controller only asks for power while the bed is at most as warm as the
\* highest target, and a cell more when it made its step after the reading.
LEMMA Cold ==
  ASSUME IInv, WarmInv, TargetInv, pc["heater"] = "copy", prop_int_controller_update = 1
  PROVE  highest # Nothing /\ temperature <= highest + Stepped
<1>a. /\ MaxTemp \in Nat /\ Targets \subseteq 1..MaxTemp /\ TypeControl /\ TypeCommands
      /\ temperatures \in [Sensors -> Temps \cup {Nothing}]
  BY TempAssumption DEF IInv, TypeOK, TypeControl
<1>b. temperature \in Nat /\ Stepped \in Nat /\ highest \in Int
      /\ \A s \in Valid : temperatures[s] \in Nat
  BY <1>a DEF TypeControl, TypeCommands, Temps, Stepped, Nothing, Valid
<1>1. average_temp = Average
  <2>1. owner["thermal_data_lock"] = "heater" /\ pc["sensor"] # "average"
    BY DEF IInv, MutexInv, Inside, Mutexes, Tasks
  <2> QED BY <2>1 DEF IInv, AverageInv
<1>2. target_temp \in Nat /\ target_temp > 0 /\ average_temp[1] < target_temp * average_temp[2]
  BY <1>a DEF prop_int_controller_update, TypeControl
<1>3. average_temp[1] \in Nat /\ average_temp[2] \in Nat /\ target_temp * average_temp[2] \in Nat
  BY <1>a, <1>2, CountAssumption DEF TypeControl
<1>4. PICK s \in Valid : ~(target_temp <= temperatures[s])
  <2>1. ~(target_temp * Average[2] <= Average[1])
    BY <1>1, <1>2, <1>3
  <2> QED BY <1>a, <1>2, <2>1, AverageFacts
<1>5. temperatures[s] + 1 <= highest
  BY <1>2, <1>4, <1>b DEF TargetInv
<1>6. temperature <= temperatures[s] + Stepped + 1
  BY <1>4, <1>b DEF WarmInv
<1>7. temperature <= highest + Stepped
  BY <1>5, <1>6, <1>4, <1>b
<1>8. highest # Nothing
  BY <1>4, <1>5, <1>b DEF Nothing
<1> QED BY <1>7, <1>8

\* Each step keeps the bed at most two cells above the highest target.
LEMMA HeatStep == IInv /\ WarmInv /\ TargetInv /\ HeatInv /\ [Next]_vars => HeatInv'
<1> SUFFICES ASSUME IInv, WarmInv, TargetInv, HeatInv, [Next]_vars PROVE HeatInv'
  OBVIOUS
<1>a. /\ MaxTemp \in Nat /\ Targets \subseteq 1..MaxTemp /\ TypeTasks /\ TypeControl
      /\ TypeCommands /\ PlaceInv /\ BlindInv
  BY TempAssumption DEF IInv, TypeOK
<1>b. temperature \in Nat /\ highest \in Int
  BY <1>a DEF TypeControl, TypeCommands, Temps, Nothing
<1>1. CASE sensor_read_task
  BY <1>1, <1>a, <1>b DEF sensor_read_task, thermal_sensor_read, Acquire,
     StoreReading, thermals_recalculate_average, At, Lock, Unlock, data, queue, local,
     ghosts, TypeTasks, PlaceInv, TypeControl, TypeCommands, BlindInv, HeatInv,
     OvershootIsBounded, Stepped, Tasks, Nothing
<1>2. CASE heater_set_task
  <2>a. UNCHANGED <<temperature, highest, heater_power>> /\ Stepped' = Stepped
        /\ pc'["model"] = pc["model"]
    BY <1>2, <1>a
       DEF heater_set_task, Acquire, get_thermal_data, heater_set_power, At, TypeTasks,
           Tasks, Stepped, local, ghosts
  <2>1. CASE get_thermal_data("heater")
    <3>1. requested_power' = 1 => highest # Nothing /\ temperature <= highest + Stepped
      BY <2>1, Cold DEF get_thermal_data, At
    <3>2. UNCHANGED applied_power /\ pc'["heater"] # "asleep" /\ pc["heater"] # "asleep"
      BY <1>a, <2>1 DEF get_thermal_data, At, TypeTasks, Tasks
    <3> QED BY <2>a, <3>1, <3>2 DEF HeatInv, OvershootIsBounded
  <2>2. CASE heater_set_power
    <3>1. /\ applied_power' = requested_power /\ requested_power' = 0
          /\ pc'["heater"] = "asleep"
      BY <1>a, <2>2 DEF heater_set_power, At, TypeTasks, Tasks
    <3>2. Stepped \in Nat /\ highest + Stepped + 0 = highest + Stepped
      BY <1>b DEF Stepped
    <3> QED BY <2>a, <3>1, <3>2 DEF HeatInv, OvershootIsBounded
  <2>3. CASE ~get_thermal_data("heater") /\ ~heater_set_power
    BY <1>2, <1>a, <2>3, <2>a
       DEF heater_set_task, Acquire, At, TypeTasks, Tasks, HeatInv, OvershootIsBounded,
           local
  <2> QED BY <2>1, <2>2, <2>3
<1>3. CASE thermal_model_task
  BY <1>3, <1>a, <1>b DEF thermal_model_task, Acquire, get_applied_power,
     thermal_model_step, At, Lock, Unlock, data, queue, local, ghosts, TypeTasks,
     PlaceInv, TypeControl, TypeCommands, BlindInv, HeatInv, OvershootIsBounded,
     Stepped, Tasks, Nothing
<1>4. CASE command_task
  BY <1>4, <1>a, <1>b DEF command_task, Receive, Take, Acquire, thermals_set_target,
     At, Lock, Unlock, data, queue, local, ghosts, TypeTasks, PlaceInv, TypeControl,
     TypeCommands, BlindInv, HeatInv, OvershootIsBounded, Stepped, Tasks, Nothing
<1>5. CASE telemetry_task
  BY <1>5, <1>a, <1>b DEF telemetry_task, xTaskNotifyWait, Acquire, get_thermal_data,
     telemetry_send_thermal_values, At, Lock, Unlock, data, queue, local, ghosts,
     TypeTasks, PlaceInv, TypeControl, TypeCommands, BlindInv, HeatInv,
     OvershootIsBounded, Stepped, Tasks, Nothing
<1>6. CASE vTaskSwitchContext \/ UNCHANGED vars
  BY <1>6, <1>a, <1>b DEF vTaskSwitchContext, Highest, Ready, vars, data, queue,
     local, ghosts, TypeTasks, PlaceInv, TypeControl, TypeCommands, BlindInv, HeatInv,
     OvershootIsBounded, Stepped, Tasks, Nothing
<1>7. CASE Period
  <2>1. /\ UNCHANGED <<temperature, highest, heater_power, applied_power, requested_power>>
        /\ pc["model"] = "asleep" /\ pc["heater"] = "asleep"
        /\ pc'["model"] # "asleep" /\ pc'["heater"] # "asleep"
    BY <1>7, <1>a DEF Period, TypeTasks, Tasks, Periodic, Start, local
  <2>2. requested_power = 0 /\ heater_power # 1
    BY <1>a, <2>1 DEF BlindInv, HeatInv
  <2> QED BY <1>b, <2>1, <2>2 DEF HeatInv, OvershootIsBounded, Stepped
<1>8. CASE \E m \in Targets \cup {Request} : decode_command(m)
  BY <1>8, <1>a, <1>b DEF decode_command, data, queue, local, ghosts, TypeTasks,
     PlaceInv, TypeControl, TypeCommands, BlindInv, HeatInv, OvershootIsBounded,
     Stepped, Tasks, Nothing
<1>9. CASE enqueue_command
  BY <1>9, <1>a, <1>b DEF enqueue_command, data, queue, local, ghosts, TypeTasks,
     PlaceInv, TypeControl, TypeCommands, BlindInv, HeatInv, OvershootIsBounded,
     Stepped, Tasks, Nothing
<1> QED BY <1>1, <1>2, <1>3, <1>4, <1>5, <1>6, <1>7, <1>8, <1>9 DEF Next

\* The bed never gets more than two cells warmer than the highest target, although
\* reading, power and step are as old as the order of the three tasks makes them
\* (thermal_sensor_task.c, heater_set_task.c, thermal_model.c).
THEOREM OvershootTheorem == Spec => []OvershootIsBounded
<1>1. Init => WarmInv /\ TargetInv /\ HeatInv
  <2> SUFFICES ASSUME Init PROVE WarmInv /\ TargetInv /\ HeatInv
    OBVIOUS
  <2>1. Valid = {}
    BY DEF Init, Valid
  <2>2. WarmInv
    BY <2>1 DEF Init, WarmInv, Start, Periodic, Tasks
  <2>3. TargetInv
    <3>1. Nothing \notin Targets
      BY TempAssumption DEF Nothing
    <3> QED BY <3>1 DEF Init, TargetInv, Nothing
  <2>4. HeatInv
    BY DEF Init, HeatInv, OvershootIsBounded
  <2> QED BY <2>2, <2>3, <2>4
<1>2. IInv /\ WarmInv /\ TargetInv /\ HeatInv /\ [Next]_vars => (WarmInv /\ TargetInv /\ HeatInv)'
  BY WarmStep, TargetStep, HeatStep DEF IInv, TypeOK
<1>3. HeatInv => OvershootIsBounded
  BY DEF HeatInv
<1> QED BY <1>1, <1>2, <1>3, Inductive, PTL DEF Spec

-----------------------------------------------------------------------------
(***************************************************************************)
(* The command queue.                                                      *)
(***************************************************************************)
\* The distance from the head tells the places of the queue apart.
LEMMA DistFacts ==
  ASSUME TypeCommands
  PROVE  /\ QueueLength \in Nat /\ QueueLength > 0 /\ head \in 0..(QueueLength - 1)
         /\ \A k \in Slots : Dist(k) \in 0..(QueueLength - 1) /\ k \in Int
         /\ \A j, k \in Slots : Dist(j) = Dist(k) => j = k
         /\ head \in Slots /\ Dist(head) = 0
<1>1. QueueLength \in Nat /\ QueueLength > 0 /\ head \in 0..(QueueLength - 1)
  BY CountAssumption DEF TypeCommands, Slots
<1>2. \A k \in Slots : k \in 0..(QueueLength - 1)
  BY DEF Slots
<1>3. \A k \in Slots : Dist(k) \in 0..(QueueLength - 1) /\ k \in Int
  BY <1>1, <1>2 DEF Dist
<1>4. \A j, k \in Slots : Dist(j) = Dist(k) => j = k
  BY <1>1, <1>2 DEF Dist
<1>5. head \in Slots /\ Dist(head) = 0
  BY <1>1 DEF Slots, Dist
<1> QED BY <1>1, <1>3, <1>4, <1>5

\* The requests in the queue can be counted.
LEMMA RequestsFinite ==
  ASSUME TypeCommands
  PROVE  IsFiniteSet(Requests) /\ Cardinality(Requests) \in Nat
<1>1. QueueLength - 1 \in Int /\ 0 \in Int
  BY DistFacts
<1>2. IsFiniteSet(Slots)
  BY <1>1, FS_Interval DEF Slots
<1>3. Requests \in SUBSET Slots
  BY DEF Requests, Window
<1> QED BY <1>2, <1>3, FS_Subset, FS_CardinalityType

\* What the other tasks leave alone.
LEMMA Others ==
  ASSUME TypeTasks,
         \/ sensor_read_task \/ heater_set_task \/ thermal_model_task \/ telemetry_task
         \/ vTaskSwitchContext \/ Period \/ UNCHANGED vars
  PROVE  /\ UNCHANGED <<raced, rx, waiting, seen, head, end, slots, message, target_temp>>
         /\ UNCHANGED <<last, asked, handled>> /\ pc'["command"] = pc["command"]
<1>1. CASE sensor_read_task
  BY <1>1 DEF sensor_read_task, thermal_sensor_read, Acquire, StoreReading,
     thermals_recalculate_average, At, data, queue, local, ghosts, TypeTasks, Tasks
<1>2. CASE heater_set_task
  BY <1>2 DEF heater_set_task, Acquire, get_thermal_data, heater_set_power, At, data,
     queue, local, ghosts, TypeTasks, Tasks
<1>3. CASE thermal_model_task
  BY <1>3 DEF thermal_model_task, Acquire, get_applied_power, thermal_model_step, At,
     data, queue, local, ghosts, TypeTasks, Tasks
<1>4. CASE telemetry_task
  BY <1>4 DEF telemetry_task, xTaskNotifyWait, Acquire, get_thermal_data,
     telemetry_send_thermal_values, At, data, queue, local, ghosts, TypeTasks, Tasks
<1>5. CASE vTaskSwitchContext \/ Period \/ UNCHANGED vars
  BY <1>5 DEF vTaskSwitchContext, Period, vars, data, queue, local, ghosts, TypeTasks,
     Tasks, Periodic
<1> QED BY <1>1, <1>2, <1>3, <1>4, <1>5

\* Once the two ends of the queue have met at its count, they are found out.
LEMMA GoodBack ==
  ASSUME TypeTasks, TypeCommands, CountInv, [Next]_vars, Good'
  PROVE  Good
<1>a. QueueLength \in Nat
  BY DistFacts
<1>1. CASE Take
  <2>1. ~raced /\ waiting = seen
    BY <1>1 DEF Take, Good
  <2>2. /\ waiting' = seen - 1 /\ rx' = rx /\ pc["command"] = "take"
        /\ waiting \in Nat /\ (rx # Nothing => rx \in Nat)
    BY <1>1, <1>a DEF Take, At, TypeCommands
  <2>3. rx # Nothing => waiting' = rx
    BY <2>2 DEF Good
  <2>4. rx = Nothing
    BY <2>1, <2>2, <2>3 DEF CountInv
  <2> QED BY <2>1, <2>4 DEF Good
<1>2. CASE enqueue_command
  <2>1. ~raced /\ waiting = rx
    BY <1>2 DEF enqueue_command, Good
  <2>2. /\ waiting' = rx + 1 /\ seen' = seen /\ waiting \in Nat /\ seen \in Nat
        /\ pc["command"] = "take" => pc'["command"] = "take"
    BY <1>2, <1>a DEF enqueue_command, TypeTasks, TypeCommands, local
  <2>3. pc["command"] = "take" => waiting' = seen
    BY <2>2 DEF Good
  <2>4. pc["command"] # "take"
    BY <2>1, <2>2, <2>3 DEF CountInv
  <2> QED BY <2>1, <2>4 DEF Good
<1>3. CASE Receive
  BY <1>3 DEF Receive, At, Good, TypeTasks, Tasks, ghosts
<1>4. CASE \E m \in Targets \cup {Request} : decode_command(m)
  BY <1>4 DEF decode_command, Good, local
<1>5. ASSUME UNCHANGED <<raced, rx, waiting, seen>>,
             pc'["command"] = "take" <=> pc["command"] = "take"
      PROVE  Good
  BY <1>5 DEF Good
<1>6. CASE ~Take /\ ~Receive /\ command_task
  <2>1. UNCHANGED <<raced, rx, waiting, seen>>
        /\ (pc'["command"] = "take" <=> pc["command"] = "take")
    BY <1>6
       DEF command_task, Acquire, thermals_set_target, At, TypeTasks, Tasks, local, queue,
           ghosts
  <2> QED BY <1>5, <2>1
<1>7. CASE \/ sensor_read_task \/ heater_set_task \/ thermal_model_task \/ telemetry_task
           \/ vTaskSwitchContext \/ Period \/ UNCHANGED vars
  <2>1. UNCHANGED <<raced, rx, waiting, seen>> /\ pc'["command"] = pc["command"]
    BY <1>7, Others
  <2> QED BY <1>5, <2>1
<1> QED BY <1>1, <1>2, <1>3, <1>4, <1>6, <1>7 DEF Next

\* The parts of QueueInv depend on a few variables only.
LEMMA QueueFrame ==
  ASSUME QueueInv, Good' => Good, Stored' = Stored,
         UNCHANGED <<rx, head, end, slots, message, target_temp, last, asked, handled>>,
         pc'["command"] = "take" <=> pc["command"] = "take"
  PROVE  QueueInv'
<1>1. Window' = Window
  BY DEF Window, Dist
<1>2. Requests' = Requests /\ Wanted' = Wanted
  BY <1>1 DEF Requests, Wanted
<1>3. EndInv'
  BY DEF QueueInv, EndInv
<1>4. RequestInv'
  BY <1>2 DEF QueueInv, RequestInv
<1>5. LastInv'
  BY <1>2 DEF QueueInv, LastInv, Dist
<1> QED BY <1>3, <1>4, <1>5 DEF QueueInv

\* xQueueReceive takes the first command.
LEMMA ReceiveQueue ==
  ASSUME TypeTasks, TypeCommands, CountInv, QueueInv, Good' => Good, Receive, waiting # 0
  PROVE  QueueInv'
<1>a. /\ QueueLength \in Nat /\ QueueLength > 0 /\ head \in 0..(QueueLength - 1)
      /\ \A k \in Slots : Dist(k) \in 0..(QueueLength - 1) /\ k \in Int
      /\ \A j, k \in Slots : Dist(j) = Dist(k) => j = k
      /\ head \in Slots /\ Dist(head) = 0
  BY DistFacts
<1>b. /\ pc["command"] = "receive" /\ pc'["command"] = "take"
      /\ message = Nothing /\ message' = slots[head] /\ head' = After(head)
      /\ UNCHANGED <<slots, end, waiting, rx, raced, last, asked, handled, target_temp>>
      /\ waiting \in 1..QueueLength
  BY DEF Receive, At, CountInv, TypeTasks, TypeCommands, Tasks, data, ghosts
<1>c. head' = IF head = QueueLength - 1 THEN 0 ELSE head + 1
  BY <1>a, <1>b, AfterFacts
<1>d. Stored = waiting /\ Stored' = waiting - 1
  BY <1>b DEF Stored, InHand
<1>1. \A k \in Slots : k # head => Dist(k)' = Dist(k) - 1
  BY <1>a, <1>c DEF Dist, Slots
<1>2. \A k \in Slots : k = head => Dist(k)' = QueueLength - 1
  BY <1>a, <1>c DEF Dist
<1>3. Window' = Window \ {head} /\ head \in Window
  <2>1. ASSUME NEW k \in Slots PROVE k \in Window' <=> k \in Window /\ k # head
    <3>1. CASE k = head
      <4>1. Dist(k)' = QueueLength - 1
        BY <1>2, <3>1
      <4>2. ~(Dist(k)' < Stored')
        BY <1>a, <1>b, <1>d, <4>1
      <4> QED BY <3>1, <4>2 DEF Window
    <3>2. CASE k # head
      <4>1. Dist(k)' < Stored' <=> Dist(k) < Stored
        BY <1>a, <1>b, <1>d, <1>1, <3>2
      <4> QED BY <3>2, <4>1 DEF Window
    <3> QED BY <3>1, <3>2
  <2>2. head \in Window
    BY <1>a, <1>b, <1>d DEF Window
  <2>3. Window \subseteq Slots /\ Window' \subseteq Slots
    BY DEF Window
  <2> QED BY <2>1, <2>2, <2>3
<1>4. Requests' = Requests \ {head} /\ Wanted' = Wanted \ {head}
  BY <1>b, <1>3 DEF Requests, Wanted
<1>5. EndInv'
  <2> SUFFICES ASSUME Good'
               PROVE  LET n == Stored' + (IF rx' = Nothing THEN 0 ELSE 1) IN
                      end' = IF head' + n < QueueLength THEN head' + n
                             ELSE head' + n - QueueLength
    BY DEF EndInv
  <2>1. LET n == waiting + (IF rx = Nothing THEN 0 ELSE 1) IN
        end = IF head + n < QueueLength THEN head + n ELSE head + n - QueueLength
    BY <1>d DEF QueueInv, EndInv
  <2> DEFINE n == waiting + (IF rx = Nothing THEN 0 ELSE 1)
  <2>2. n \in 1..QueueLength
    BY <1>a, <1>b DEF Good, CountInv
  <2>3. end = IF head + n < QueueLength THEN head + n ELSE head + n - QueueLength
    BY <2>1
  <2>4. Stored' + (IF rx' = Nothing THEN 0 ELSE 1) = n - 1
    BY <1>b, <1>d
  <2> HIDE DEF n
  <2>5. end = IF head' + (n - 1) < QueueLength THEN head' + (n - 1)
              ELSE head' + (n - 1) - QueueLength
    BY <1>a, <1>c, <2>2, <2>3
  <2> QED BY <1>b, <2>4, <2>5
<1>6. RequestInv'
  <2> SUFFICES ASSUME Good'
               PROVE  asked = handled + Cardinality(Requests') + (IF message' = Request THEN 1 ELSE 0)
    BY <1>b DEF RequestInv
  <2>1. asked = handled + Cardinality(Requests) + 0
    BY <1>b DEF QueueInv, RequestInv
  <2>2. /\ IsFiniteSet(Requests) /\ Cardinality(Requests) \in Nat
        /\ handled \in Nat /\ (head \in Requests <=> slots[head] = Request)
    BY <1>3, RequestsFinite DEF Requests, TypeCommands
  <2>3. Cardinality(Requests') = IF head \in Requests THEN Cardinality(Requests) - 1
                                 ELSE Cardinality(Requests)
    BY <1>4, <2>2, FS_RemoveElement
  <2> QED BY <1>b, <2>1, <2>2, <2>3
<1>7. LastInv'
  <2> SUFFICES ASSUME Good'
               PROVE  IF Wanted' # {}
                      THEN \E k \in Wanted' : slots[k] = last
                                              /\ \A j \in Wanted' : Dist(j)' <= Dist(k)'
                      ELSE last = IF message' \in Targets THEN message' ELSE target_temp
    BY <1>b DEF LastInv
  <2>0. Wanted \subseteq Slots /\ (head \in Wanted <=> slots[head] \in Targets)
    BY <1>3 DEF Wanted, Window
  <2>1. CASE Wanted = {}
    <3>1. Nothing \notin Targets
      BY TempAssumption DEF Nothing
    <3>2. last = target_temp
      BY <1>b, <2>1, <3>1 DEF QueueInv, LastInv
    <3> QED BY <1>4, <1>b, <2>0, <2>1, <3>2
  <2>2. CASE Wanted # {}
    <3>1. PICK k \in Wanted : slots[k] = last /\ \A j \in Wanted : Dist(j) <= Dist(k)
      BY <2>2 DEF QueueInv, LastInv
    <3>2. CASE k = head
      <4>1. \A j \in Wanted : j = head
        BY <1>a, <2>0, <3>1, <3>2
      <4>2. Wanted' = {}
        BY <1>4, <4>1
      <4> QED BY <1>b, <2>0, <3>1, <3>2, <4>2
    <3>3. CASE k # head
      <4>1. k \in Wanted'
        BY <1>4, <3>1, <3>3
      <4>2. \A j \in Wanted' : Dist(j)' <= Dist(k)'
        BY <1>1, <1>4, <1>a, <2>0, <3>1, <3>3
      <4> QED BY <3>1, <4>1, <4>2
    <3> QED BY <3>2, <3>3
  <2> QED BY <2>1, <2>2
<1> QED BY <1>5, <1>6, <1>7 DEF QueueInv

\* xQueueSendFromISR writes a command behind the others.
LEMMA DecodeQueue ==
  ASSUME TypeTasks, TypeCommands, CountInv, QueueInv, Good' => Good,
         NEW m \in Targets \cup {Request}, decode_command(m)
  PROVE  QueueInv'
<1>a. /\ QueueLength \in Nat /\ QueueLength > 0 /\ head \in 0..(QueueLength - 1)
      /\ \A k \in Slots : Dist(k) \in 0..(QueueLength - 1) /\ k \in Int
      /\ end \in 0..(QueueLength - 1) /\ end \in Slots
  BY DistFacts DEF TypeCommands, Slots
<1>b. /\ rx = Nothing /\ rx' = waiting /\ waiting < QueueLength /\ waiting \in Nat
      /\ UNCHANGED <<pc, head, waiting, message, target_temp, last, asked, handled>>
      /\ slots' = [slots EXCEPT ![end] = m] /\ end' = After(end)
      /\ slots \in [Slots -> Message]
  BY DEF decode_command, TypeCommands, data, local
<1>c. end' = IF end = QueueLength - 1 THEN 0 ELSE end + 1
  BY <1>a, <1>b, AfterFacts
<1>d. Stored' = Stored /\ Window' = Window /\ \A k \in Slots : Dist(k)' = Dist(k)
  BY <1>b DEF Stored, InHand, Window, Dist
<1>e. Stored \in 0..(QueueLength - 1)
  <2>1. pc["command"] = "take" => waiting >= 1
    BY <1>a, <1>b DEF CountInv, TypeCommands
  <2> QED BY <1>a, <1>b, <2>1 DEF Stored, InHand
<1> SUFFICES ASSUME Good' PROVE QueueInv'
  BY DEF QueueInv, EndInv, RequestInv, LastInv
<1>1. end = IF head + Stored < QueueLength THEN head + Stored ELSE head + Stored - QueueLength
  BY <1>b, <1>e, <1>a DEF QueueInv, EndInv
<1>2. Dist(end) = Stored
  BY <1>1, <1>a, <1>e DEF Dist
<1>3. end \notin Window
  BY <1>2, <1>e DEF Window
<1>4. \A k \in Window : slots'[k] = slots[k]
  BY <1>3, <1>b DEF Window
<1>5. Requests' = Requests /\ Wanted' = Wanted
  BY <1>4, <1>d DEF Requests, Wanted
<1>6. EndInv'
  <2>1. rx' # Nothing
    BY <1>b DEF Nothing
  <2>2. end' = IF head + (Stored + 1) < QueueLength THEN head + (Stored + 1)
               ELSE head + (Stored + 1) - QueueLength
    BY <1>1, <1>a, <1>c, <1>e
  <2> QED BY <1>b, <1>d, <2>1, <2>2 DEF EndInv
<1>7. RequestInv'
  BY <1>5, <1>b DEF QueueInv, RequestInv
<1>8. LastInv'
  <2>1. Wanted \subseteq Window /\ Wanted \subseteq Slots
    BY DEF Wanted, Window
  <2> QED BY <1>4, <1>5, <1>b, <1>d, <2>1 DEF QueueInv, LastInv
<1> QED BY <1>6, <1>7, <1>8 DEF QueueInv

\* It counts the command; from now on the command task can find it.
LEMMA EnqueueQueue ==
  ASSUME TypeTasks, TypeCommands, CountInv, QueueInv, Good' => Good, enqueue_command
  PROVE  QueueInv'
<1> SUFFICES ASSUME Good' PROVE QueueInv'
  BY DEF QueueInv, EndInv, RequestInv, LastInv
<1>a. /\ QueueLength \in Nat /\ QueueLength > 0 /\ head \in 0..(QueueLength - 1)
      /\ \A k \in Slots : Dist(k) \in 0..(QueueLength - 1) /\ k \in Int
      /\ \A j, k \in Slots : Dist(j) = Dist(k) => j = k
      /\ end \in 0..(QueueLength - 1) /\ end \in Slots
  BY DistFacts DEF TypeCommands, Slots
<1>2. PICK new \in Slots : new = IF end = 0 THEN QueueLength - 1 ELSE end - 1
  BY <1>a DEF Slots
<1>b. /\ rx # Nothing /\ rx' = Nothing /\ waiting' = rx + 1 /\ waiting = rx
      /\ UNCHANGED <<head, end, slots, seen, message, target_temp, handled>>
      /\ asked' = asked + (IF slots[new] = Request THEN 1 ELSE 0)
      /\ last' = IF slots[new] \in Targets THEN slots[new] ELSE last
      /\ waiting \in Nat /\ waiting < QueueLength
  <2>1. (end + QueueLength - 1) % QueueLength = new
    BY <1>2, <1>a, BeforeFacts
  <2>2. waiting = rx
    BY DEF enqueue_command, Good
  <2> QED BY <2>1, <2>2 DEF enqueue_command, CountInv, TypeCommands, data, local
<1>c. pc["command"] # "take" /\ pc'["command"] # "take"
  <2>1. pc["command"] = "take" <=> pc'["command"] = "take"
    BY DEF enqueue_command, TypeTasks, Tasks
  <2>2. pc["command"] = "take" => waiting = seen /\ waiting' = seen
    BY <1>b, <2>1 DEF Good
  <2> QED BY <1>b, <2>1, <2>2
<1>d. Stored = waiting /\ Stored' = waiting + 1
  BY <1>b, <1>c DEF Stored, InHand
<1>1. end = IF head + (waiting + 1) < QueueLength THEN head + (waiting + 1)
            ELSE head + (waiting + 1) - QueueLength
  BY <1>b, <1>d DEF QueueInv, EndInv
<1>3. Dist(new) = waiting
  BY <1>1, <1>2, <1>a, <1>b DEF Dist
<1>4. \A k \in Slots : Dist(k)' = Dist(k)
  BY <1>b DEF Dist
<1>5. Window' = Window \cup {new} /\ new \notin Window
  <2>1. ASSUME NEW k \in Slots PROVE Dist(k) < waiting + 1 <=> Dist(k) < waiting \/ k = new
    BY <1>2, <1>3, <1>a, <1>b
  <2>2. Window = {k \in Slots : Dist(k) < waiting}
    BY <1>d DEF Window
  <2>3. Window' = {k \in Slots : Dist(k) < waiting + 1}
    BY <1>4, <1>d DEF Window
  <2>4. new \notin Window
    BY <1>3, <1>b, <2>2
  <2> QED BY <1>2, <2>1, <2>2, <2>3, <2>4
<1>6. /\ Requests' = IF slots[new] = Request THEN Requests \cup {new} ELSE Requests
      /\ Wanted' = IF slots[new] \in Targets THEN Wanted \cup {new} ELSE Wanted
      /\ new \notin Requests
  BY <1>5, <1>b DEF Requests, Wanted
<1>7. EndInv'
  <2>1. Stored' + 0 = waiting + 1 /\ head' = head /\ end' = end /\ rx' = Nothing
    BY <1>b, <1>d
  <2> QED BY <1>1, <2>1 DEF EndInv
<1>8. RequestInv'
  <2>1. asked = handled + Cardinality(Requests) + 0
    BY <1>c DEF QueueInv, RequestInv
  <2>2. IsFiniteSet(Requests) /\ Cardinality(Requests) \in Nat /\ handled \in Nat
    BY RequestsFinite DEF TypeCommands
  <2>3. Cardinality(Requests') = Cardinality(Requests) + (IF slots[new] = Request THEN 1 ELSE 0)
    <3>1. Cardinality(Requests \cup {new}) = Cardinality(Requests) + 1
      BY <1>6, <2>2, FS_AddElement
    <3>2. CASE slots[new] = Request
      BY <1>6, <3>1, <3>2
    <3>3. CASE slots[new] # Request
      <4>1. Requests' = Requests
        BY <1>6, <3>3
      <4> QED BY <2>2, <3>3, <4>1
    <3> QED BY <3>2, <3>3
  <2>4. asked' = handled + Cardinality(Requests') + 0
    BY <1>b, <2>1, <2>2, <2>3
  <2> QED BY <1>b, <1>c, <2>4 DEF RequestInv
<1>9. LastInv'
  <2>0. Wanted \subseteq Window /\ Wanted \subseteq Slots
        /\ \A k \in Wanted : Dist(k) < waiting
    BY <1>d DEF Wanted, Window
  <2>1. CASE slots[new] \in Targets
    <3>1. new \in Wanted' /\ slots'[new] = last'
      BY <1>6, <1>b, <2>1
    <3>2. \A j \in Wanted' : Dist(j)' <= Dist(new)'
      BY <1>2, <1>3, <1>4, <1>6, <1>a, <1>b, <2>0, <2>1
    <3> QED BY <3>1, <3>2 DEF LastInv
  <2>2. CASE slots[new] \notin Targets
    BY <1>4, <1>6, <1>b, <2>0, <2>2 DEF QueueInv, LastInv
  <2> QED BY <2>1, <2>2
<1> QED BY <1>7, <1>8, <1>9 DEF QueueInv

\* Each step keeps the queue in order.
LEMMA QueueStep == TypeOK /\ CountInv /\ QueueInv /\ [Next]_vars => QueueInv'
<1> SUFFICES ASSUME TypeOK, CountInv, QueueInv, [Next]_vars PROVE QueueInv'
  OBVIOUS
<1>a. TypeTasks /\ TypeCommands /\ (Good' => Good)
  BY GoodBack DEF TypeOK
<1>b. QueueLength \in Nat
  BY <1>a, DistFacts
<1>1. CASE \/ sensor_read_task \/ heater_set_task \/ thermal_model_task \/ telemetry_task
           \/ vTaskSwitchContext \/ Period \/ UNCHANGED vars
  <2>1. /\ UNCHANGED <<rx, waiting, head, end, slots, message, target_temp, last, asked,
                       handled>>
        /\ pc'["command"] = pc["command"]
    BY <1>1, <1>a, Others
  <2> QED BY <1>a, <2>1, QueueFrame DEF Stored, InHand
<1>2. CASE Receive
  <2>1. CASE waiting # 0
    BY <1>2, <1>a, <2>1, ReceiveQueue
  <2>2. CASE waiting = 0
    <3>1. /\ UNCHANGED <<rx, waiting, head, end, slots, message, target_temp, last, asked,
                         handled>>
          /\ pc["command"] = "receive" /\ pc'["command"] = "asleep"
      BY <1>2, <1>a, <2>2 DEF Receive, At, TypeTasks, Tasks, data, ghosts
    <3> QED BY <1>a, <3>1, QueueFrame DEF Stored, InHand
  <2> QED BY <2>1, <2>2
<1>3. CASE Take
  <2> SUFFICES ASSUME Good' PROVE QueueInv'
    BY DEF QueueInv, EndInv, RequestInv, LastInv
  <2>1. /\ pc["command"] = "take" /\ pc'["command"] # "take" /\ waiting = seen
        /\ waiting' = seen - 1 /\ waiting \in Nat
        /\ UNCHANGED <<rx, head, end, slots, target_temp, last, asked>>
        /\ handled' = IF message = Request THEN handled + 1 ELSE handled
        /\ message' = IF message \in Targets THEN message ELSE Nothing
    <3>1. waiting = seen
      BY <1>3 DEF Take, Good
    <3> QED BY <1>3, <1>a, <1>b, <3>1
            DEF Take, At, TypeTasks, TypeCommands, Tasks, data
  <2>2. Stored' = Stored
    BY <2>1 DEF Stored, InHand
  <2>3. Window' = Window /\ \A k \in Slots : Dist(k)' = Dist(k)
    BY <2>1, <2>2 DEF Window, Dist
  <2>4. Requests' = Requests /\ Wanted' = Wanted /\ Wanted \subseteq Slots
    BY <2>1, <2>3 DEF Requests, Wanted, Window
  <2>5. EndInv'
    BY <1>a, <2>1, <2>2 DEF QueueInv, EndInv
  <2>6. RequestInv'
    <3>1. handled \in Nat /\ Cardinality(Requests) \in Nat
      BY <1>a, RequestsFinite DEF TypeCommands
    <3>2. asked = handled + Cardinality(Requests) + (IF message = Request THEN 1 ELSE 0)
      BY <1>a, <2>1 DEF QueueInv, RequestInv
    <3>3. asked' = handled' + Cardinality(Requests') + 0
      BY <2>1, <2>4, <3>1, <3>2
    <3> QED BY <2>1, <3>3 DEF RequestInv
  <2>7. LastInv'
    <3>1. Nothing \notin Targets
      BY TempAssumption DEF Nothing
    <3> QED BY <1>a, <2>1, <2>3, <2>4, <3>1 DEF QueueInv, LastInv
  <2> QED BY <2>5, <2>6, <2>7 DEF QueueInv
<1>4. CASE Acquire("command", "thermal_data_lock", "dataLock", "store")
  <2>1. /\ UNCHANGED <<rx, waiting, head, end, slots, message, target_temp, last, asked,
                       handled>>
        /\ pc["command"] # "take" /\ pc'["command"] # "take"
    BY <1>4, <1>a DEF Acquire, At, TypeTasks, Tasks, data, local, queue, ghosts
  <2> QED BY <1>a, <2>1, QueueFrame DEF Stored, InHand
<1>5. CASE thermals_set_target
  <2>1. /\ UNCHANGED <<rx, waiting, head, end, slots, last, asked, handled>>
        /\ pc["command"] = "store" /\ pc'["command"] # "take"
        /\ target_temp' = message /\ message' = Nothing /\ message \in Targets
    BY <1>5, <1>a DEF thermals_set_target, At, TypeTasks, Tasks, queue, ghosts, CountInv
  <2>2. Stored' = Stored
    BY <2>1 DEF Stored, InHand
  <2>3. Window' = Window /\ \A k \in Slots : Dist(k)' = Dist(k)
    BY <2>1, <2>2 DEF Window, Dist
  <2>4. Requests' = Requests /\ Wanted' = Wanted /\ Wanted \subseteq Slots
    BY <2>1, <2>3 DEF Requests, Wanted, Window
  <2>5. EndInv'
    BY <1>a, <2>1, <2>2 DEF QueueInv, EndInv
  <2>6. RequestInv'
    BY <1>a, <2>1, <2>4 DEF QueueInv, RequestInv
  <2>7. LastInv'
    <3>1. Nothing \notin Targets
      BY TempAssumption DEF Nothing
    <3> QED BY <1>a, <2>1, <2>3, <2>4, <3>1 DEF QueueInv, LastInv
  <2> QED BY <2>5, <2>6, <2>7 DEF QueueInv
<1>6. CASE \E m \in Targets \cup {Request} : decode_command(m)
  BY <1>6, <1>a, DecodeQueue
<1>7. CASE enqueue_command
  BY <1>7, <1>a, EnqueueQueue
<1> QED BY <1>1, <1>2, <1>3, <1>4, <1>5, <1>6, <1>7 DEF Next, command_task

\* A handled request wakes the telemetry task until it has sampled.
LEMMA SampleStep == TypeTasks /\ PlaceInv /\ TypeCommands /\ SampleInv /\ [Next]_vars => SampleInv'
<1> SUFFICES ASSUME TypeTasks, PlaceInv, TypeCommands, SampleInv, [Next]_vars PROVE SampleInv'
  OBVIOUS
<1>1. CASE telemetry_task
  BY <1>1 DEF telemetry_task, xTaskNotifyWait, Acquire, get_thermal_data,
     telemetry_send_thermal_values, At, local, ghosts, TypeTasks, PlaceInv, SampleInv, Tasks
<1>2. CASE Take
  <2>1. \/ notified' = TRUE
        \/ /\ notified' = notified /\ UNCHANGED <<handled, sampled>>
           /\ pc'["telemetry"] = pc["telemetry"]
    BY <1>2 DEF Take, At, TypeTasks, Tasks
  <2> QED BY <2>1 DEF SampleInv
<1>3. CASE command_task /\ ~Take
  <2>1. UNCHANGED <<handled, sampled, notified>> /\ pc'["telemetry"] = pc["telemetry"]
    BY <1>3 DEF command_task, Receive, Acquire, thermals_set_target, At, ghosts, TypeTasks,
                Tasks
  <2> QED BY <2>1 DEF SampleInv
<1>4. CASE sensor_read_task \/ heater_set_task \/ thermal_model_task
  <2>1. UNCHANGED <<handled, sampled, notified>> /\ pc'["telemetry"] = pc["telemetry"]
    BY <1>4 DEF sensor_read_task, thermal_sensor_read, Acquire, StoreReading,
       thermals_recalculate_average, heater_set_task, get_thermal_data, heater_set_power,
       thermal_model_task, get_applied_power, thermal_model_step, At, ghosts, TypeTasks, Tasks
  <2> QED BY <2>1 DEF SampleInv
<1>5. CASE \/ vTaskSwitchContext \/ Period \/ UNCHANGED vars \/ enqueue_command
           \/ \E m \in Targets \cup {Request} : decode_command(m)
  <2>1. UNCHANGED <<handled, sampled, notified>> /\ pc'["telemetry"] = pc["telemetry"]
    BY <1>5 DEF vTaskSwitchContext, Period, vars, enqueue_command, decode_command, ghosts,
                TypeTasks, Tasks, Periodic
  <2> QED BY <2>1 DEF SampleInv
<1> QED BY <1>1, <1>2, <1>3, <1>4, <1>5 DEF Next

\* When the board has come to rest, what it answered with ACK is done, unless its two
\* threads were at the queue's count at the same time (command_handler.c,
\* command_task.c, telemetry_task.c).
THEOREM AcceptedTheorem == Spec => []AcceptedIsDone
<1>1. Init => QueueInv /\ SampleInv
  <2> SUFFICES ASSUME Init PROVE QueueInv /\ SampleInv
    OBVIOUS
  <2>a. pc["command"] = "receive" /\ waiting = 0
    BY DEF Init, Tasks
  <2>1. Stored = 0 /\ pc["command"] # "take"
    BY <2>a DEF Stored, InHand
  <2>2. \A k \in Slots : ~(Dist(k) < 0)
    BY CountAssumption DEF Init, Dist, Slots
  <2>3. Window = {}
    BY <2>1, <2>2 DEF Window
  <2>4. Requests = {} /\ Wanted = {}
    BY <2>3 DEF Requests, Wanted
  <2>5. EndInv
    BY <2>1, CountAssumption DEF Init, EndInv
  <2>6. RequestInv
    BY <2>1, <2>4, FS_EmptySet DEF Init, RequestInv
  <2>7. LastInv
    BY <2>4, TempAssumption DEF Init, LastInv, Nothing
  <2> QED BY <2>5, <2>6, <2>7 DEF Init, QueueInv, SampleInv
<1>2. IInv /\ QueueInv /\ SampleInv /\ [Next]_vars => (QueueInv /\ SampleInv)'
  BY QueueStep, SampleStep DEF IInv, TypeOK
<1>3. IInv /\ QueueInv /\ SampleInv => AcceptedIsDone
  <2> SUFFICES ASSUME IInv, QueueInv, SampleInv, pc["command"] = "asleep", rx = Nothing,
                      pc["telemetry"] = "asleep", ~notified, ~raced
               PROVE  target_temp = last /\ sampled = asked
    BY DEF AcceptedIsDone
  <2>1. Good /\ waiting = 0 /\ message = Nothing /\ TypeCommands /\ handled \in Nat
    BY DEF Good, IInv, CountInv, TypeOK, TypeCommands
  <2>2. Stored = 0
    BY <2>1 DEF Stored, InHand
  <2>3. Window = {}
    BY <2>1, <2>2, DistFacts DEF Window
  <2>4. Requests = {} /\ Wanted = {}
    BY <2>3 DEF Requests, Wanted
  <2>5. asked = handled + 0 + 0
    BY <2>1, <2>4, FS_EmptySet DEF QueueInv, RequestInv
  <2>6. Nothing \notin Targets
    BY TempAssumption DEF Nothing
  <2>7. last = target_temp
    BY <2>1, <2>4, <2>6 DEF QueueInv, LastInv
  <2>8. sampled = handled
    BY DEF SampleInv
  <2> QED BY <2>1, <2>5, <2>7, <2>8
<1> QED BY <1>1, <1>2, <1>3, Inductive, PTL DEF Spec

=============================================================================
