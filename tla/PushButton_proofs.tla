------------------------- MODULE PushButton_proofs -------------------------
(***************************************************************************)
(* Proofs about PushButton, for all delays and every period of the clock   *)
(* longer than they are: the types, that no press counts for more than it  *)
(* was, and that a steady one counts for what it was.                      *)
(***************************************************************************)
EXTENDS PushButton, TLAPS

(* A press that the task has seen began within the time held.              *)
TakenWhilePressed == is_pressed => taskPc = "wait"
PressedIsHigh == is_pressed /\ ~pending => level
PressIsHeld == is_pressed => Elapsed <= held

PressInv == TakenWhilePressed /\ PressedIsHigh /\ PressIsHeld

(* A steady press: none while the reset handler delays the task; taken in  *)
(* the tick it began in, it is as old as the clock says until it is        *)
(* released; two edges within one tick leave no time between.              *)
SteadyDelay == steady /\ taskPc = "delay" => ~pending /\ ~level
SteadyTaken ==
    steady /\ ~pending /\ level /\ held < Modulus
        => is_pressed /\ Elapsed = held
SteadyPressed == steady /\ pending /\ level => held = 0
SteadyReleased ==
    steady /\ pending /\ ~level /\ held < Modulus
        => held = 0 \/ (is_pressed /\ Elapsed = held)

SteadyInv == SteadyDelay /\ SteadyTaken /\ SteadyPressed /\ SteadyReleased

IInv == TypeOK /\ PressInv /\ SteadyInv

-----------------------------------------------------------------------------
(* Arithmetic modulo the clock's period.                                   *)

LEMMA ModulusPositive ==
    /\ Modulus \in Nat \ {0}
    /\ HeldBound \in Nat /\ Modulus <= HeldBound
BY DelayAssumption DEF HeldBound

(* A difference of clock values, across a wrap of the clock or not.        *)
LEMMA ElapsedIs ==
    ASSUME NEW a \in 0 .. Modulus - 1, NEW b \in 0 .. Modulus - 1
    PROVE  (a - b) % Modulus = IF a >= b THEN a - b ELSE a - b + Modulus
<1> Modulus \in Nat \ {0}
    BY ModulusPositive
<1> QED OBVIOUS

(* The clock's next value.                                                 *)
LEMMA ClockIs ==
    ASSUME NEW a \in 0 .. Modulus - 1
    PROVE  (a + 1) % Modulus = IF a = Modulus - 1 THEN 0 ELSE a + 1
BY ModulusPositive

(* What the task takes for the time held is less than the period.          *)
LEMMA ElapsedType == TypeOK => Elapsed \in 0 .. Modulus - 1
BY ElapsedIs, ModulusPositive DEF Elapsed, TypeOK

(* A tick adds one to the time since start, until the clock comes around.  *)
LEMMA TickElapses ==
    ASSUME TypeOK, Tick
    PROVE  Elapsed' = IF Elapsed = Modulus - 1 THEN 0 ELSE Elapsed + 1
<1>1. now' = (now + 1) % Modulus /\ start' = start
    BY DEF Tick, ClockAfterTick
<1>2. /\ now \in 0 .. Modulus - 1 /\ now' \in 0 .. Modulus - 1
      /\ start \in 0 .. Modulus - 1
    BY <1>1, ClockIs, ModulusPositive DEF TypeOK
<1>3. Elapsed = IF now >= start THEN now - start ELSE now - start + Modulus
    BY <1>2, ElapsedIs DEF Elapsed
<1>4. Elapsed' = IF now' >= start THEN now' - start ELSE now' - start + Modulus
    BY <1>1, <1>2, ElapsedIs DEF Elapsed
<1> QED  BY <1>1, <1>2, <1>3, <1>4, ClockIs, ModulusPositive

-----------------------------------------------------------------------------
(* The steps.                                                              *)

LEMMA TypeStep == TypeOK /\ [Next]_vars => TypeOK'
<1> SUFFICES ASSUME TypeOK, [Next]_vars PROVE TypeOK'
    OBVIOUS
<1>1. CASE Edge
    BY <1>1 DEF Edge, TypeOK
<1>2. CASE Tick
  <2>1. now' \in 0 .. Modulus - 1
      BY <1>2, ClockIs, ModulusPositive DEF Tick, ClockAfterTick, TypeOK
  <2>2. held' \in 0 .. HeldBound
      BY <1>2, ModulusPositive DEF Tick, TypeOK
  <2> QED  BY <1>2, <2>1, <2>2 DEF Tick, TypeOK
<1>3. CASE Serve
  <2>1. pending' \in BOOLEAN /\ is_pressed' \in BOOLEAN
      BY <1>3, Zenon DEF Serve, PressedAfter, TypeOK
  <2> QED
      BY <1>3, <2>1, ModulusPositive DEF Serve, StartAfter, TypeOK
<1>4. CASE ResetDelayOver
    BY <1>4 DEF ResetDelayOver, TypeOK
<1>5. CASE UNCHANGED vars
    BY <1>5 DEF vars, TypeOK
<1> QED  BY <1>1, <1>2, <1>3, <1>4, <1>5 DEF Next

(* An edge sets the event; a press begins steady if the task waits for it. *)
LEMMA EdgeInv ==
    ASSUME TypeOK, PressInv, SteadyInv, Edge
    PROVE  PressInv' /\ SteadyInv'
<1>1. Elapsed' = Elapsed
    BY DEF Edge, Elapsed
<1>2. PressInv'
    BY <1>1 DEF Edge, PressInv, TakenWhilePressed, PressedIsHigh, PressIsHeld
<1>3. CASE level
    BY <1>1, <1>2, <1>3
    DEF Edge, SteadyInv, SteadyDelay, SteadyTaken, SteadyPressed,
        SteadyReleased
<1>4. CASE ~level
    BY <1>2, <1>4
    DEF Edge, SteadyInv, SteadyDelay, SteadyTaken, SteadyPressed,
        SteadyReleased
<1> QED  BY <1>3, <1>4

(* A tick: the clock and the time held advance together.                   *)
LEMMA TickInv ==
    ASSUME TypeOK, PressInv, SteadyInv, Tick
    PROVE  PressInv' /\ SteadyInv'
<1>1. /\ Elapsed' = IF Elapsed = Modulus - 1 THEN 0 ELSE Elapsed + 1
      /\ Elapsed \in 0 .. Modulus - 1
    BY TickElapses, ElapsedType
<1>2. /\ ~pending \/ taskPc = "delay"
      /\ UNCHANGED <<level, pending, taskPc, is_pressed, steady>>
      /\ held' = IF ~level THEN 0
                 ELSE IF held < HeldBound THEN held + 1 ELSE held
      /\ held \in 0 .. HeldBound
    BY DEF Tick, TypeOK
<1>3. is_pressed => ~pending /\ level
    BY <1>2 DEF PressInv, TakenWhilePressed, PressedIsHigh
<1>4. PressInv'
    BY <1>1, <1>2, <1>3, ModulusPositive
    DEF PressInv, TakenWhilePressed, PressedIsHigh, PressIsHeld
<1>5. steady => ~pending
    BY <1>2 DEF SteadyInv, SteadyDelay
<1>6. SteadyInv'
    BY <1>1, <1>2, <1>5, ModulusPositive
    DEF SteadyInv, SteadyDelay, SteadyTaken, SteadyPressed, SteadyReleased
<1> QED  BY <1>4, <1>6

(* The task takes the edge, and begins or ends the press.                  *)
LEMMA ServeInv ==
    ASSUME TypeOK, TypeOK', PressInv, SteadyInv, Serve
    PROVE  PressInv' /\ SteadyInv'
<1>1. /\ taskPc = "wait" /\ pending /\ ~pending'
      /\ is_pressed' = level
      /\ UNCHANGED <<level, now, steady>>
      /\ level => start' = now /\ taskPc' = "wait" /\ held' = held
    BY DEF Serve, PressedAfter, StartAfter, PressEvent
<1>2. level => Elapsed' = 0
    BY <1>1, ElapsedIs, ModulusPositive DEF TypeOK, Elapsed
<1>3. held \in Nat
    BY ModulusPositive DEF TypeOK
<1>4. PressInv'
    BY <1>1, <1>2, <1>3
    DEF PressInv, TakenWhilePressed, PressedIsHigh, PressIsHeld
<1>5. SteadyInv'
    BY <1>1, <1>2, <1>3
    DEF SteadyInv, SteadyDelay, SteadyTaken, SteadyPressed, SteadyReleased
<1> QED  BY <1>4, <1>5

(* The end of the delay after a reset, and a step of nobody.               *)
LEMMA OtherInv ==
    ASSUME PressInv, SteadyInv, ResetDelayOver \/ UNCHANGED vars
    PROVE  PressInv' /\ SteadyInv'
<1>1. /\ UNCHANGED <<level, pending, is_pressed, start, now, held, steady>>
      /\ taskPc' \in {taskPc, "wait"}
    BY DEF ResetDelayOver, vars
<1>2. Elapsed' = Elapsed
    BY <1>1 DEF Elapsed
<1> QED
    BY <1>1, <1>2
    DEF PressInv, TakenWhilePressed, PressedIsHigh, PressIsHeld, SteadyInv,
        SteadyDelay, SteadyTaken, SteadyPressed, SteadyReleased

-----------------------------------------------------------------------------
(* The inductive invariant.                                                *)

LEMMA InitIInv == Init => IInv
<1> SUFFICES ASSUME Init PROVE IInv
    OBVIOUS
<1>1. pending \in BOOLEAN /\ is_pressed \in BOOLEAN /\ steady \in BOOLEAN
    BY Zenon DEF Init
<1>2. TypeOK
    BY <1>1, ModulusPositive DEF Init, TypeOK
<1>3. PressInv /\ SteadyInv
    BY DEF Init, PressInv, TakenWhilePressed, PressedIsHigh, PressIsHeld,
        SteadyInv, SteadyDelay, SteadyTaken, SteadyPressed, SteadyReleased
<1> QED  BY <1>2, <1>3 DEF IInv

(* Every step keeps the inductive invariant.                               *)
LEMMA StepIInv == IInv /\ [Next]_vars => IInv'
BY TypeStep, EdgeInv, TickInv, ServeInv, OtherInv DEF IInv, Next

(* It holds in every reachable state.                                      *)
LEMMA Inductive == Spec => []IInv
BY InitIInv, StepIInv, PTL DEF Spec

-----------------------------------------------------------------------------
(* Theorems.                                                               *)

(* Clock, times and flags keep their types.                                *)
THEOREM TypeCorrect == Spec => []TypeOK
<1>1. IInv => TypeOK
    BY DEF IInv
<1> QED  BY <1>1, Inductive, PTL

(* No press counts for a longer one than it was, whatever bounces, delays  *)
(* of the task and wraps of the clock lie in between.                      *)
THEOREM NeverOverReportedHolds == Spec => []NeverOverReported
<1>1. IInv => NeverOverReported
  <2> SUFFICES ASSUME IInv, Serving PROVE NeverOverReported
      BY DEF NeverOverReported
  <2>1. /\ Elapsed \in Nat /\ held \in Nat
        /\ is_pressed => Elapsed <= held
      BY ElapsedType, ModulusPositive DEF IInv, TypeOK, PressInv, PressIsHeld
  <2>2. PressEvent # "ERROR" => is_pressed /\ Elapsed > DiscoveryDelay
      BY <2>1, DelayAssumption DEF PressEvent
  <2>3. PressEvent = "RESET" => Elapsed > ResetDelay
      BY DEF PressEvent
  <2> QED  BY <2>1, <2>2, <2>3, DelayAssumption DEF NeverOverReported
<1> QED  BY <1>1, Inductive, PTL

(* A steady press is reported as what it was, also across a wrap.          *)
THEOREM SteadyPressReportedHolds == Spec => []SteadyPressReported
<1>1. IInv => SteadyPressReported
  <2> SUFFICES ASSUME IInv, Serving, ~level, steady, held < Modulus
               PROVE  PressEvent = HeldEvent
      BY DEF SteadyPressReported
  <2>1. /\ Elapsed \in Nat /\ held \in Nat
        /\ is_pressed => Elapsed <= held
        /\ held = 0 \/ (is_pressed /\ Elapsed = held)
      BY ElapsedType, ModulusPositive
      DEF IInv, TypeOK, PressInv, PressIsHeld, Serving, SteadyInv,
          SteadyReleased
  <2>2. CASE held = 0
      BY <2>1, <2>2, DelayAssumption DEF PressEvent, HeldEvent
  <2>3. CASE is_pressed /\ Elapsed = held
      BY <2>1, <2>3, DelayAssumption DEF PressEvent, HeldEvent
  <2> QED  BY <2>1, <2>2, <2>3
<1> QED  BY <1>1, Inductive, PTL
=============================================================================
