-------------------------- MODULE CapSensor_proofs --------------------------
(***************************************************************************)
(* Proofs about CapSensor, for every pool size, delay, threshold and set   *)
(* of readings: the types, the running total as the sum of the pool, no    *)
(* failed reading in an average, and the time between two touches.         *)
(***************************************************************************)
EXTENDS CapSensor, FoldTheorems, TLAPS

(* The places read since the pool was last begun hold good readings: a     *)
(* failed one is not passed.                                               *)
Filled == \A k \in Place : k < ix => samples[k] # 0

(* The task's count of ticks never runs ahead of the time that has passed. *)
OffsetWithinTime == sinceTouch < SinceBound => time_offset <= sinceTouch

(* A touch may be notified only when the update delay has passed.          *)
ReadyAfterDelay == can_update_led => sinceTouch >= UpdateDelay

(* The whole pool may hold this reading and its sum fits 16 bits; the type *)
(* alone would let a sum wrap, and the total with it.                      *)
ReadingsFit == \A k \in Place : PoolSize * samples[k] < Width

IInv ==
    /\ TypeOK
    /\ ReadingsFit /\ TotalIsSum
    /\ Filled /\ NoGapInPool
    /\ OffsetWithinTime /\ ReadyAfterDelay

-----------------------------------------------------------------------------
(* The arithmetic.                                                         *)

(* A reading fits the 16 bits that PoolSize of them fit.                   *)
LEMMA ReadingFits == \A r \in Reading : r \in 0 .. Width - 1
<1> SUFFICES ASSUME NEW r \in Reading PROVE r \in 0 .. Width - 1
    OBVIOUS
<1>1. r \in Nat /\ PoolSize \in Nat \ {0} /\ PoolSize * r < Width
    BY PoolAssumption, ReadingAssumption
<1>2. r <= PoolSize * r
    BY <1>1
<1> QED  BY <1>1, <1>2, ReadingAssumption

(* What is assigned to total fits its 16 bits.                             *)
LEMMA ModuloFits == \A n \in Int : n % Width \in 0 .. Width - 1
BY ReadingAssumption

(* The pool's average is no greater than its sum, so it fits too.          *)
LEMMA AverageFits ==
    ASSUME NEW n \in 0 .. Width - 1
    PROVE  n \div PoolSize \in 0 .. Width - 1
BY PoolAssumption, ReadingAssumption

(* The index of the next sample wraps after the last one.                  *)
LEMMA NextPlaceIs ==
    ASSUME NEW n \in Place
    PROVE  (n + 1) % PoolSize = IF n = Last THEN 0 ELSE n + 1
BY PoolAssumption DEF Place, Last

-----------------------------------------------------------------------------
(* A turn of the loop.                                                     *)

LEMMA TurnType ==
    ASSUME TypeOK, NEW r \in Reading, Turn(r)
    PROVE  TypeOK'
<1> USE PoolAssumption, DelayAssumption, ReadingAssumption
<1>1. samples' \in [Place -> 0 .. Width - 1] /\ samples[ix] \in 0 .. Width - 1
    BY ReadingFits DEF TypeOK, Turn
<1>2. total' \in 0 .. Width - 1
  <2>1. total - samples[ix] + r \in Int
      BY <1>1 DEF TypeOK
  <2> QED
      BY <2>1, ModuloFits DEF Turn, Replaced
<1>3. ix' \in Place
    BY NextPlaceIs DEF TypeOK, Turn, NextPlace, Place, Last
<1>4. idle_read' \in 0 .. Width - 1
    BY <1>2, AverageFits DEF TypeOK, Turn, Idle
<1>5. /\ TurnDelay(idle_read') \in Nat
      /\ TurnDelay(idle_read') <= ReadingDelay + CalibrationDelay
    BY DEF TurnDelay
<1>6. time_offset' \in 0 .. UpdateDelay + ReadingDelay + CalibrationDelay
  <2> DEFINE touch == notified'
  <2>1. OffsetAfter(touch)
            \in 0 .. UpdateDelay + ReadingDelay + CalibrationDelay
      BY DEF OffsetAfter, TypeOK
  <2>2. time_offset' =
            IF DelayIsOver(OffsetAfter(touch)) THEN OffsetAfter(touch)
            ELSE OffsetAfter(touch) + TurnDelay(idle_read')
      BY DEF Turn
  <2> QED  BY <1>5, <2>1, <2>2 DEF DelayIsOver
<1>7. sinceTouch' \in 0 .. SinceBound
  <2>1. sinceTouch' = Capped((IF notified' THEN 0 ELSE sinceTouch)
                                 + TurnDelay(idle_read'))
      BY DEF Turn
  <2> QED  BY <1>5, <2>1 DEF Capped, TypeOK, SinceBound
<1>8. /\ notified' \in BOOLEAN
      /\ can_update_led' \in BOOLEAN
      /\ cap_sensor_active' \in BOOLEAN
    BY DEF Turn, Touch, TypeOK
<1> QED  BY <1>1, <1>2, <1>3, <1>4, <1>6, <1>7, <1>8 DEF TypeOK

(* A failed reading stays where it is read again; the pool is full of good *)
(* ones when the idle value is taken from it.                              *)
LEMMA TurnPool ==
    ASSUME TypeOK, Filled, NoGapInPool, NEW r \in Reading, Turn(r)
    PROVE  Filled' /\ NoGapInPool'
<1>1. /\ samples' = [samples EXCEPT ![ix] = r]
      /\ samples \in [Place -> 0 .. Width - 1]
    BY DEF Turn, TypeOK
<1>2. ix \in Place /\ ix' \in Int
    BY NextPlaceIs, PoolAssumption DEF TypeOK, Turn, NextPlace, Place, Last
<1>3. CASE r = 0
  <2>1. ix' = ix /\ idle_read' = idle_read
      BY <1>3 DEF Turn, NextPlace, Idle
  <2> QED  BY <1>1, <1>2, <2>1 DEF Filled, NoGapInPool, Place
<1>4. CASE r # 0
  <2>1. ix' = IF ix = Last THEN 0 ELSE ix + 1
      BY <1>2, <1>4, NextPlaceIs DEF Turn, NextPlace
  <2>2. Filled'
      BY <1>1, <1>2, <1>4, <2>1 DEF Filled, Place
  <2>3. idle_read' # 0 => \A k \in Place : k # ix => samples[k] # 0
    <3>1. CASE idle_read # 0
        BY <3>1 DEF NoGapInPool
    <3>2. CASE idle_read' = idle_read
        BY <3>2 DEF NoGapInPool
    <3>3. CASE ix = Last
        BY <1>2, <3>3, PoolAssumption DEF Filled, Place, Last
    <3> QED  BY <3>1, <3>2, <3>3 DEF Turn, Idle
  <2>4. NoGapInPool'
      BY <1>1, <1>2, <1>4, <2>3 DEF NoGapInPool
  <2> QED  BY <2>2, <2>4
<1> QED  BY <1>3, <1>4

(* A turn counts no more ticks since a touch than it lets pass.            *)
LEMMA TurnTime ==
    ASSUME TypeOK, OffsetWithinTime, ReadyAfterDelay, NEW r \in Reading,
           Turn(r)
    PROVE  /\ OffsetWithinTime'
           /\ ReadyAfterDelay'
           /\ notified' => can_update_led
<1> DEFINE delay == TurnDelay(idle_read')
           offset == OffsetAfter(notified')
           since == IF notified' THEN 0 ELSE sinceTouch
<1>1. delay \in Nat \ {0}
    BY DelayAssumption DEF TurnDelay
<1>2. /\ time_offset' = IF DelayIsOver(offset) THEN offset ELSE offset + delay
      /\ can_update_led' =
             (DelayIsOver(offset) \/ (can_update_led /\ ~notified'))
      /\ sinceTouch' = Capped(since + delay)
      /\ notified' => can_update_led
    BY DEF Turn, Touch
<1>3. /\ offset \in Nat /\ since \in 0 .. SinceBound
      /\ since < SinceBound => offset <= since
      /\ ~notified' /\ can_update_led => since >= UpdateDelay
    BY DelayAssumption
    DEF TypeOK, OffsetAfter, OffsetWithinTime, ReadyAfterDelay, SinceBound
<1> HIDE DEF delay, offset, since
<1>4. OffsetWithinTime'
    BY <1>1, <1>2, <1>3, DelayAssumption
    DEF OffsetWithinTime, Capped, SinceBound
<1>5. ReadyAfterDelay'
  <2> SUFFICES ASSUME can_update_led' PROVE sinceTouch' >= UpdateDelay
      BY DEF ReadyAfterDelay
  <2>1. offset >= UpdateDelay \/ (can_update_led /\ ~notified')
      BY <1>2 DEF DelayIsOver
  <2>2. since >= UpdateDelay
      BY <1>3, <2>1, DelayAssumption DEF SinceBound
  <2> QED
      BY <1>1, <1>2, <1>3, <2>2, DelayAssumption DEF Capped, SinceBound
<1> QED  BY <1>2, <1>4, <1>5

-----------------------------------------------------------------------------
(* The sum of the pool.                                                    *)

(* The pool has PoolSize places.                                           *)
LEMMA PlaceIs == IsFiniteSet(Place) /\ Cardinality(Place) = PoolSize
<1>1. 0 \in Int /\ PoolSize - 1 \in Int /\ ~(0 > PoolSize - 1)
    BY PoolAssumption
<1> QED  BY <1>1, PoolAssumption, FS_Interval DEF Place

(* The sum of a pool is the sum over its places.                           *)
LEMMA SumIs ==
    ASSUME NEW f, DOMAIN f = Place
    PROVE  SumFunction(f) = SumFunctionOnSet(f, Place)
BY Zenon DEF SumFunction

(* The sum of a pool of readings that fit does not wrap.                   *)
LEMMA SumFits ==
    ASSUME NEW f \in [Place -> Nat], \A k \in Place : PoolSize * f[k] < Width
    PROVE  SumFunctionOnSet(f, Place) \in 0 .. Width - 1
<1> DEFINE B == (Width - 1) \div PoolSize
<1>1. B \in Nat /\ PoolSize * B <= Width - 1
    BY PoolAssumption, ReadingAssumption
<1>2. \A n \in Nat : PoolSize * n < Width => n <= B
  <2> SUFFICES ASSUME NEW n \in Nat, n > B
               PROVE  PoolSize * n >= Width
      BY <1>1, PoolAssumption, ReadingAssumption
  <2>1. PoolSize * (B + 1) >= Width
      BY PoolAssumption, ReadingAssumption
  <2> HIDE DEF B
  <2>2. PoolSize * n >= PoolSize * (B + 1)
      BY <1>1, PoolAssumption
  <2> QED  BY <1>1, <2>1, <2>2, PoolAssumption, ReadingAssumption
<1> HIDE DEF B
<1>3. f \in [Place -> 0 .. B]
    BY <1>1, <1>2
<1>4. /\ SumFunctionOnSet(f, Place) \in Nat
      /\ SumFunctionOnSet(f, Place) <= Cardinality(Place) * B
    BY <1>1, <1>3, PlaceIs, SumWithin
<1>5. Cardinality(Place) * B = PoolSize * B
    BY PlaceIs, Zenon
<1>6. SumFunctionOnSet(f, Place) <= Width - 1
  <2>1. PoolSize * B \in Nat
      BY <1>1, PoolAssumption
  <2> QED  BY <1>1, <1>4, <1>5, <2>1, ReadingAssumption
<1> QED  BY <1>4, <1>6, ReadingAssumption

(* Taking the old reading out of the total and the new one in, modulo the  *)
(* width, gives the sum of the new pool.                                   *)
LEMMA SumTurn ==
    ASSUME TypeOK, TotalIsSum, ReadingsFit, NEW r \in Reading, Turn(r)
    PROVE  TotalIsSum' /\ ReadingsFit'
<1> DEFINE pool == [samples EXCEPT ![ix] = r]
<1>1. /\ samples \in [Place -> Nat] /\ ix \in Place
      /\ r \in Nat /\ PoolSize * r < Width
      /\ samples \in [Place -> Int] /\ r \in Int
    BY ReadingAssumption DEF TypeOK
<1>2. pool \in [Place -> Nat] /\ DOMAIN pool = Place /\ DOMAIN samples = Place
    BY <1>1
<1>3. ReadingsFit' /\ \A k \in Place : PoolSize * pool[k] < Width
    BY <1>1 DEF Turn, ReadingsFit
<1>4. SumFunctionOnSet(pool, Place)
          = SumFunctionOnSet(samples, Place) - samples[ix] + r
  <2>1. /\ pool \in [Place -> Int] /\ pool[ix] = r
        /\ \A k \in Place : k # ix => pool[k] = samples[k]
      BY <1>1
  <2> HIDE DEF pool
  <2> QED  BY <1>1, <2>1, PlaceIs, SumOfChange
<1> HIDE DEF pool
<1>5. SumFunctionOnSet(pool, Place) \in 0 .. Width - 1
    BY <1>2, <1>3, SumFits
<1>6. total - samples[ix] + r = SumFunctionOnSet(pool, Place)
    BY <1>2, <1>4, SumIs, Zenon DEF TotalIsSum
<1>7. \A n \in 0 .. Width - 1 : n % Width = n
    BY ReadingAssumption
<1>8. total' = SumFunctionOnSet(pool, Place) /\ samples' = pool
    BY <1>5, <1>6, <1>7 DEF Turn, Replaced, pool
<1> QED  BY <1>2, <1>3, <1>8, SumIs DEF TotalIsSum

(* The empty pool sums to 0.                                               *)
LEMMA SumInit == Init => TotalIsSum /\ ReadingsFit
<1> SUFFICES ASSUME Init PROVE TotalIsSum /\ ReadingsFit
    OBVIOUS
<1>1. samples \in [Place -> 0 .. 0] /\ total = 0 /\ DOMAIN samples = Place
    BY DEF Init
<1>2. /\ SumFunctionOnSet(samples, Place) \in Nat
      /\ SumFunctionOnSet(samples, Place) <= Cardinality(Place) * 0
    BY <1>1, PlaceIs, SumWithin
<1>3. SumFunctionOnSet(samples, Place) = 0
    BY <1>2, PlaceIs, PoolAssumption
<1>4. ReadingsFit
    BY <1>1, PoolAssumption, ReadingAssumption DEF ReadingsFit
<1> QED  BY <1>1, <1>3, <1>4, SumIs DEF TotalIsSum

-----------------------------------------------------------------------------
(* The inductive invariant.                                                *)

LEMMA InitIInv == Init => IInv
<1> USE PoolAssumption, DelayAssumption, ReadingAssumption
<1> SUFFICES ASSUME Init PROVE IInv
    OBVIOUS
<1>1. TypeOK
  <2>1. samples \in [Place -> 0 .. Width - 1] /\ 0 \in Place
      BY DEF Init, Place
  <2>2. /\ can_update_led \in BOOLEAN
        /\ cap_sensor_active \in BOOLEAN
        /\ notified \in BOOLEAN
      BY Zenon DEF Init
  <2> QED  BY <2>1, <2>2 DEF Init, TypeOK, SinceBound
<1>2. Filled /\ NoGapInPool /\ OffsetWithinTime /\ ReadyAfterDelay
    BY DEF Init, Filled, NoGapInPool, OffsetWithinTime, ReadyAfterDelay, Place
<1> QED  BY <1>1, <1>2, SumInit DEF IInv

(* Every step keeps the invariant: a turn, an idle one, and a switch.      *)
LEMMA StepIInv == IInv /\ [Next]_vars => IInv'
<1> SUFFICES ASSUME IInv, [Next]_vars PROVE IInv'
    OBVIOUS
<1> USE DEF IInv
<1>1. CASE \E r \in Reading : Turn(r)
    BY <1>1, TurnType, TurnPool, TurnTime, SumTurn
<1>2. CASE IdleTurn
  <2>1. /\ UNCHANGED <<samples, ix, total, idle_read, time_offset,
                        can_update_led, cap_sensor_active>>
        /\ notified' = FALSE
        /\ sinceTouch' = Capped(sinceTouch + ReadingDelay)
      BY <1>2 DEF IdleTurn
  <2>2. /\ sinceTouch \in 0 .. SinceBound /\ sinceTouch' \in 0 .. SinceBound
        /\ sinceTouch' >= sinceTouch
      BY <2>1, DelayAssumption DEF TypeOK, SinceBound, Capped
  <2>3. TypeOK'
      BY <2>1, <2>2 DEF TypeOK
  <2>4. (Filled /\ NoGapInPool /\ ReadingsFit /\ TotalIsSum)'
      BY <2>1 DEF Filled, NoGapInPool, ReadingsFit, TotalIsSum
  <2>5. (OffsetWithinTime /\ ReadyAfterDelay)'
      BY <2>1, <2>2, DelayAssumption
      DEF TypeOK, OffsetWithinTime, ReadyAfterDelay, SinceBound
  <2> QED  BY <2>3, <2>4, <2>5
<1>3. CASE Switch
  <2>1. TypeOK'
      BY <1>3 DEF Switch, TypeOK
  <2> QED
      BY <1>3, <2>1
      DEF Switch, Filled, NoGapInPool, ReadingsFit, TotalIsSum,
          OffsetWithinTime, ReadyAfterDelay
<1>4. CASE UNCHANGED vars
    BY <1>4
    DEF vars, TypeOK, Filled, NoGapInPool, ReadingsFit, TotalIsSum,
        OffsetWithinTime, ReadyAfterDelay
<1> QED  BY <1>1, <1>2, <1>3, <1>4 DEF Next, SensorStep

(* The invariant holds in every reachable state.                           *)
LEMMA Inductive == Spec => []IInv
BY InitIInv, StepIInv, PTL DEF Spec

-----------------------------------------------------------------------------
(* Theorems.                                                               *)

(* Pool, total and averages fit their 16 bits, and the offset has an end.  *)
THEOREM TypeCorrect == Spec => []TypeOK
<1>1. IInv => TypeOK
    BY DEF IInv
<1> QED  BY <1>1, Inductive, PTL

(* The running total never drifts from the sum of the pool.                *)
THEOREM TotalIsSumHolds == Spec => []TotalIsSum
<1>1. IInv => TotalIsSum
    BY DEF IInv
<1> QED  BY <1>1, Inductive, PTL

(* Failed readings never enter an average.                                 *)
THEOREM NoGapInPoolHolds == Spec => []NoGapInPool
<1>1. IInv => NoGapInPool
    BY DEF IInv
<1> QED  BY <1>1, Inductive, PTL

(* Touches keep the LED update delay apart.                                *)
THEOREM DebounceHolds == Spec => Debounce
<1>1. IInv /\ [Next]_vars
          => [(SensorStep /\ notified') => sinceTouch >= UpdateDelay]_vars
  <2> SUFFICES ASSUME IInv, SensorStep, notified'
               PROVE  sinceTouch >= UpdateDelay
      OBVIOUS
  <2>1. PICK r \in Reading : Turn(r)
      BY DEF SensorStep, IdleTurn
  <2> QED  BY <2>1, TurnTime DEF IInv, ReadyAfterDelay
<1> QED  BY <1>1, Inductive, PTL DEF Spec, Debounce
=============================================================================
