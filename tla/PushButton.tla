----------------------------- MODULE PushButton -----------------------------
(***************************************************************************)
(* The push button: the interrupt on both edges of its pin, the button     *)
(* task, and the length of a press (components/sensors/push_button.c,      *)
(* button_isr_handler and button_task of main/vetta_main.c).               *)
(*                                                                         *)
(* Scheduling.  The interrupt sets a bit; edges that come before the task  *)
(* takes it are one notification, and the level is read when it is taken.  *)
(* Only LED updater and sensor preempt the task, for less than a tick: it  *)
(* takes a notification in the tick of the edge, except while it waits in  *)
(* the reset handler.  What it posts to the network is NetworkLifecycle's. *)
(*                                                                         *)
(* Time is counted in ticks; the millisecond clock wraps at 2^32.          *)
(***************************************************************************)
EXTENDS Integers

CONSTANTS
    DiscoveryDelay,  \* DISCOVERY_REASON_PRESS_DELAY_MILLIS, in ticks (100)
    ResetDelay,      \* RESET_REASON_PRESS_DELAY_MILLIS, in ticks (500)
    Modulus          \* ticks after which the clock wraps

ASSUME DelayAssumption ==
    /\ DiscoveryDelay \in Nat /\ ResetDelay \in Nat /\ Modulus \in Nat
    /\ DiscoveryDelay < ResetDelay /\ ResetDelay < Modulus

VARIABLES
    level,       \* the pin: TRUE while the button is pressed
    pending,     \* BUTTON_INTR_EVENT is set and not yet taken
    taskPc,      \* "wait", or "delay" inside the reset handler
    is_pressed,
    start,       \* clock when the level was last read high
    now,         \* the clock
    held,        \* history: ticks of level high, no tick low among them,
                 \* that no reported press accounts for yet (capped)
    steady       \* history: this press began with one edge, taken at once

vars == <<level, pending, taskPc, is_pressed, start, now, held, steady>>

-----------------------------------------------------------------------------
HeldBound == 2 * Modulus  \* cap of the history of the time held

(* The button may be pressed already when the interrupt is installed.      *)
Init ==
    /\ level \in BOOLEAN
    /\ pending = FALSE
    /\ taskPc = "wait"
    /\ is_pressed = FALSE
    /\ start = 0
    /\ now = 0
    /\ held = 0
    /\ steady = FALSE

(* An edge, a bounce of the contact included.                              *)
Edge ==
    /\ level' = ~level
    /\ pending' = TRUE
    /\ steady' = IF level THEN steady
                 ELSE taskPc = "wait" /\ held = 0 /\ ~pending
    /\ UNCHANGED <<taskPc, is_pressed, start, now, held>>

(* getTickMillis wraps with the tick count.                                *)
ClockWithoutWrap == now + 1  \* mutant
ClockAfterTick == (now + 1) % Modulus

Tick ==
    /\ ~pending \/ taskPc = "delay"
    /\ now' = ClockAfterTick
    /\ held' = IF ~level THEN 0 ELSE IF held < HeldBound THEN held + 1 ELSE held
    /\ UNCHANGED <<level, pending, taskPc, is_pressed, start, steady>>

-----------------------------------------------------------------------------
(* end - start, in unsigned arithmetic.                                    *)
ElapsedSigned == IF now > start THEN now - start ELSE start - now \* mutant
Elapsed == (now - start) % Modulus

(* What get_press_event returns.                                           *)
PressEvent ==
    CASE level \/ ~is_pressed \/ Elapsed <= DiscoveryDelay -> "ERROR"
      [] OTHER -> IF Elapsed > ResetDelay THEN "RESET" ELSE "DISCOVERY"

(* What it leaves in start: the clock whenever the level is read high.     *)
StartAfter == IF level THEN now ELSE start

StillPressed == level \/ is_pressed  \* mutant: a release leaves the flag
PressedAfter == level

(* The task takes the notification.                                        *)
Serve ==
    /\ taskPc = "wait"
    /\ pending
    /\ pending' = FALSE
    /\ is_pressed' = PressedAfter
    /\ start' = StartAfter
    /\ taskPc' = IF PressEvent = "RESET" THEN "delay" ELSE "wait"
    /\ held' = IF PressEvent = "ERROR" THEN held ELSE 0
    /\ UNCHANGED <<level, now, steady>>

(* The second between the LED event and the shutdown event is over.        *)
ResetDelayOver ==
    /\ taskPc = "delay"
    /\ taskPc' = "wait"
    /\ UNCHANGED <<level, pending, is_pressed, start, now, held, steady>>

Next == Edge \/ Tick \/ Serve \/ ResetDelayOver

Spec == Init /\ [][Next]_vars

-----------------------------------------------------------------------------
(* Type invariant.                                                         *)
TypeOK ==
    /\ level \in BOOLEAN
    /\ pending \in BOOLEAN
    /\ taskPc \in {"wait", "delay"}
    /\ is_pressed \in BOOLEAN
    /\ start \in 0 .. Modulus - 1
    /\ now \in 0 .. Modulus - 1
    /\ held \in 0 .. HeldBound
    /\ steady \in BOOLEAN

Serving == taskPc = "wait" /\ pending

(* No press is taken for a longer one than it was, whatever bounces,       *)
(* presses during the reset handler and wraps of the clock lie in between, *)
(* and no stretch of holding the button is reported twice.                 *)
NeverOverReported ==
    Serving =>
        /\ PressEvent = "RESET" => held > ResetDelay
        /\ PressEvent = "DISCOVERY" => held > DiscoveryDelay

HeldEvent ==
    CASE held <= DiscoveryDelay -> "ERROR"
      [] held > DiscoveryDelay /\ held <= ResetDelay -> "DISCOVERY"
      [] OTHER -> "RESET"

(* A press that begins with a single edge outside the reset handler and is *)
(* shorter than the clock's period is reported as what it was when it      *)
(* ends, also if the clock wraps while the button is held.                 *)
SteadyPressReported ==
    (Serving /\ ~level /\ steady /\ held < Modulus) => PressEvent = HeldEvent
=============================================================================
