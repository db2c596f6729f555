----------------------------- MODULE CapSensor -----------------------------
(***************************************************************************)
(* The capacitive sensor task: a running average over a pool of readings,  *)
(* compared with the average of the first full pool                        *)
(* (capacitive_sensor_task of main/vetta_main.c, components/sensors/       *)
(* touch.c).                                                               *)
(*                                                                         *)
(* One step is one turn of the task's loop, its delay included: nothing    *)
(* that another task writes is read after the delay.  Time is counted in   *)
(* FreeRTOS ticks (10 ms), and a delay takes its length at least.          *)
(***************************************************************************)
EXTENDS Integers, Functions

CONSTANTS
    PoolSize,          \* READING_SAMPLES_POOL_SIZE (20)
    ReadingDelay,      \* READING_DELAY_MILLIS, in ticks (1)
    CalibrationDelay,  \* READING_DELAY_MILLIS_CALIBRATION, in ticks (4)
    UpdateDelay,       \* CAPACITIVE_SENSOR_LED_UPDATE_DELAY, in ticks (50)
    Threshold,         \* TOUCH_DETECTION_TRESHOLD (18)
    Reading,           \* what the converter may read; 0 is a failed reading
    Width              \* number of values of a uint16_t

ASSUME PoolAssumption == PoolSize \in Nat \ {0}
ASSUME DelayAssumption ==
    /\ ReadingDelay \in Nat \ {0} /\ CalibrationDelay \in Nat \ {0}
    /\ UpdateDelay \in Nat
ASSUME ReadingAssumption ==
    /\ Threshold \in Nat
    /\ Width \in Nat \ {0}
    /\ Reading \subseteq Nat
    /\ \A r \in Reading : PoolSize * r < Width

VARIABLES
    samples,            \* the last readings, by place in the pool
    ix,                 \* the place of the next reading
    total,              \* sum of the pool, kept up to date
    idle_read,          \* average of the first full pool, 0 before
    time_offset,        \* ticks counted since the last touch
    can_update_led,     \* a touch may be notified
    cap_sensor_active,  \* cleared and set by the network task
    notified,           \* history: the last turn notified a touch
    sinceTouch          \* history: ticks since a touch (or boot), capped

vars == <<samples, ix, total, idle_read, time_offset, can_update_led,
          cap_sensor_active, notified, sinceTouch>>

-----------------------------------------------------------------------------
Place == 0 .. PoolSize - 1
Last == PoolSize - 1
SinceBound == UpdateDelay + 2  \* cap of the history of elapsed time

Capped(n) == IF n > SinceBound THEN SinceBound ELSE n

Init ==
    /\ samples = [k \in Place |-> 0]
    /\ ix = 0
    /\ total = 0
    /\ idle_read = 0
    /\ time_offset = 0
    /\ can_update_led = FALSE
    /\ cap_sensor_active = TRUE
    /\ notified = FALSE
    /\ sinceTouch = 0

-----------------------------------------------------------------------------
(* uint16_t arithmetic: the reading at ix leaves the total, r enters it (a *)
(* failed reading enters as 0).                                            *)
ReplacedIfRead(r) ==  \* mutant: a failed reading leaves the total alone
    IF r = 0 THEN total ELSE (total - samples[ix] + r) % Width
Replaced(r) == (total - samples[ix] + r) % Width

(* A failed reading keeps its place: it is read again the next turn.       *)
NextPlaceAlways(r) == (ix + 1) % PoolSize  \* mutant: it does not
NextPlace(r) == IF r = 0 THEN ix ELSE (ix + 1) % PoolSize

(* The first full pool calibrates the idle value.                          *)
Idle(r, sum) ==
    IF r # 0 /\ ix = Last /\ idle_read = 0 THEN sum \div PoolSize
    ELSE idle_read

(* is_touch(value, idle): the distance from the idle value counts.         *)
IsTouchBelow(value, idle) ==  \* mutant: the difference without abs, swapped
    /\ value > Threshold
    /\ idle - value >= Threshold
IsTouch(value, idle) ==
    /\ value > Threshold
    /\ value - idle >= Threshold \/ idle - value >= Threshold

Touch(r, pool, sum, idle) ==
    /\ r # 0
    /\ pool[Last] # 0
    /\ idle # 0
    /\ can_update_led
    /\ IsTouch(sum \div PoolSize, idle)

TurnDelay(idle) == IF idle = 0 THEN CalibrationDelay ELSE ReadingDelay

(* What a touch, or no touch, leaves for the time until the next.          *)
OffsetKept(touch) == time_offset  \* mutant: the offset is not reset
OffsetAfter(touch) == IF touch THEN 0 ELSE time_offset

(* The update delay is over once the offset has reached it.                *)
DelayNeverOver(offset) == FALSE  \* mutant: the else branch is always taken
DelayIsOver(offset) == offset >= UpdateDelay

(* A turn of the loop that takes the reading r.                            *)
Turn(r) ==
    LET pool == [samples EXCEPT ![ix] = r]
        sum == Replaced(r)
        idle == Idle(r, sum)
        touch == Touch(r, pool, sum, idle)
        offset == OffsetAfter(touch)
    IN  /\ cap_sensor_active
        /\ samples' = pool
        /\ total' = sum
        /\ ix' = NextPlace(r)
        /\ idle_read' = idle
        /\ notified' = touch
        /\ can_update_led' = (DelayIsOver(offset) \/ (can_update_led /\ ~touch))
        /\ time_offset' =
              IF DelayIsOver(offset) THEN offset ELSE offset + TurnDelay(idle)
        /\ sinceTouch' =
              Capped((IF touch THEN 0 ELSE sinceTouch) + TurnDelay(idle))
        /\ UNCHANGED cap_sensor_active

(* A turn of the loop while the sensor is switched off.                    *)
IdleTurn ==
    /\ ~cap_sensor_active
    /\ sinceTouch' = Capped(sinceTouch + ReadingDelay)
    /\ notified' = FALSE
    /\ UNCHANGED <<samples, ix, total, idle_read, time_offset, can_update_led,
                   cap_sensor_active>>

(* The network task switches the sensor off before the station starts, and *)
(* on again after the outcome (NetworkLifecycle says when).                *)
Switch ==
    /\ cap_sensor_active' = ~cap_sensor_active
    /\ UNCHANGED <<samples, ix, total, idle_read, time_offset, can_update_led,
                   notified, sinceTouch>>

SensorStep == IdleTurn \/ \E r \in Reading : Turn(r)

Next == SensorStep \/ Switch

Spec == Init /\ [][Next]_vars

(* The sensor task has the highest priority, shared with the LED updater,  *)
(* and both block in every turn: each delay it waits for ends.             *)
FairSpec == Spec /\ WF_vars(SensorStep)

-----------------------------------------------------------------------------
(* Type invariant.                                                         *)
TypeOK ==
    /\ samples \in [Place -> 0 .. Width - 1]
    /\ ix \in Place
    /\ total \in 0 .. Width - 1
    /\ idle_read \in 0 .. Width - 1
    /\ time_offset \in 0 .. UpdateDelay + ReadingDelay + CalibrationDelay
    /\ can_update_led \in BOOLEAN
    /\ cap_sensor_active \in BOOLEAN
    /\ notified \in BOOLEAN
    /\ sinceTouch \in 0 .. SinceBound

(* The running total is the sum of the pool after every turn, however      *)
(* failed and good readings alternate: it is updated by differences and    *)
(* never recomputed, so one mistake would shift every later average.       *)
TotalIsSum == total = SumFunction(samples)

(* Once the pool has been filled, only the place about to be read again    *)
(* can hold a failed reading: failed readings never enter an average.      *)
NoGapInPool ==
    idle_read # 0 => \A k \in Place : k # ix => samples[k] # 0

(* Two touches, and boot and the first one, are at least the LED update    *)
(* delay apart (in time, also when the sensor is switched off between).    *)
Debounce == [][(SensorStep /\ notified') => sinceTouch >= UpdateDelay]_vars

(* Every reading of the pool exceeds the idle value by the threshold.      *)
Held ==
    /\ cap_sensor_active
    /\ idle_read # 0
    /\ \A k \in Place : samples[k] > Threshold
                        /\ samples[k] - idle_read >= Threshold

(* A finger that stays on the plate is notified again and again: neither   *)
(* flag of the update delay can lock the sensor.                           *)
HeldTouchSeen == <>[]Held => []<>notified
=============================================================================
