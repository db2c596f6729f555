---------------------------- MODULE LedAnimation ----------------------------
(***************************************************************************)
(* The LED updater task, the animation it plays, and the handshake by      *)
(* which the network task stops an animation (components/sensors/led.c and *)
(* the parts of main/vetta_main.c that post LED events).                   *)
(*                                                                         *)
(* Scheduling.  FreeRTOS runs one task at a time, always the ready task of *)
(* the highest priority: LED updater and sensor (7), button (6), network   *)
(* (5).  Button and network steps are therefore guarded by ~LedReady.  The *)
(* sensor has the updater's own priority and may be sliced in at any time. *)
(*                                                                         *)
(* Abstractions.  Delays have no length: a delay that is being waited for  *)
(* may end at any step.  A task notification value is the set of its bits. *)
(* WiFi itself is not here: the network task is seen from the LED.  The    *)
(* PWM calls of set_duty are taken to succeed, as they do on a channel     *)
(* that led_init has set up; what a led_off that failed after the step     *)
(* past the buffer would leave in current_state is not looked at.          *)
(***************************************************************************)
EXTENDS Integers

CONSTANTS
    StepCount,  \* steps of a blink animation (2 in the code)
    FastReps,   \* repetitions of the fast blink (1 in the code)
    NetworkCommand  \* the LED events that network commands can post

ASSUME BlinkAssumption == StepCount \in Nat \ {0} /\ FastReps \in Nat
ASSUME CommandAssumption ==
    NetworkCommand \subseteq {"NEXT_NETWORK", "OFF", "LOW", "MEDIUM", "HIGH"}

VARIABLES
    ledNotification,  \* LED events posted and not yet taken by the updater
    ledPc,            \* where the updater is: see LedPc
    i,                \* index of the animation step being played
    animation,        \* current_led_animation
    current_state,    \* duty cycle last written to the PWM channel
    ledStopSem,       \* binary semaphore: 1 asks the animation to stop
    ledAnimationSem,  \* binary semaphore: 1 says the animation has ended
    netNotification,  \* network events posted and not yet taken
    netPc,            \* where the network task is: see NetPc
    buttonPc,         \* "idle", or "delay" inside the reset handler
    victim            \* history: the animation seen by the stop is not over

ledVars == <<ledNotification, ledPc, i, animation, current_state>>
semVars == <<ledStopSem, ledAnimationSem>>
netVars == <<netNotification, netPc>>
vars == <<ledVars, semVars, netVars, buttonPc, victim>>

-----------------------------------------------------------------------------
(* LED events, in the order in which the updater's else-if chain looks for *)
(* them: lower rank first.                                                 *)
Rank == [NEXT |-> 1, NEXT_NETWORK |-> 1, BLINK_START |-> 2, BLINK_LOOP |-> 3,
         OFF |-> 4, LOW |-> 5, MEDIUM |-> 6, HIGH |-> 7]
LedEvent == {"NEXT", "NEXT_NETWORK", "BLINK_START", "BLINK_LOOP",
             "OFF", "LOW", "MEDIUM", "HIGH"}
BlinkEvent == {"BLINK_START", "BLINK_LOOP"}
DutyEvent == LedEvent \ BlinkEvent

(* Duty cycles with a name; "unknown" is any other number.                 *)
Duty == {"OFF", "LOW", "MEDIUM", "HIGH"}

(* led_set_next: an unknown duty cycle has no successor and is left alone. *)
NextDuty(d) ==
    CASE d = "OFF" -> "LOW" [] d = "LOW" -> "MEDIUM"
      [] d = "MEDIUM" -> "HIGH" [] d = "HIGH" -> "OFF" [] OTHER -> d

Forever == -1  \* the reps of an animation that only a stop ends

(* wait: in xTaskNotifyWait; start, end: in the xSemaphoreTake that waits  *)
(* for the start_delay or the end_delay of step i.                         *)
LedPc == {"wait", "start", "end"}

(* loop: anywhere no LED state is touched; ap: serving START_AP; shutdown: *)
(* serving SHUTDOWN; give, takeAnim, takeStop: the next call that          *)
(* stop_led_animation makes.                                               *)
NetPc == {"loop", "ap", "shutdown", "give", "takeAnim", "takeStop"}
Stopping == netPc \in {"give", "takeAnim", "takeStop"}

TypeOK ==
    /\ ledNotification \subseteq LedEvent
    /\ ledPc \in LedPc
    /\ i \in 0 .. StepCount
    /\ animation \in [is_playing : BOOLEAN, reps : Forever .. FastReps]
    /\ current_state \in Duty \cup {"unknown"}
    /\ ledStopSem \in {0, 1}
    /\ ledAnimationSem \in {0, 1}
    /\ netNotification \subseteq {"SHUTDOWN", "START_AP"}
    /\ netPc \in NetPc
    /\ buttonPc \in {"idle", "delay"}
    /\ victim \in BOOLEAN

Init ==
    /\ ledNotification = {}
    /\ ledPc = "wait"
    /\ i = 0
    /\ animation = [is_playing |-> FALSE, reps |-> 0]
    /\ current_state = "OFF"
    /\ ledStopSem = 0
    /\ ledAnimationSem = 0
    /\ netNotification = {}
    /\ netPc = "loop"
    /\ buttonPc = "idle"
    /\ victim = FALSE

-----------------------------------------------------------------------------
(* Scheduling.                                                             *)

(* Mutant: all tasks of one priority, the updater preempts nobody.         *)
LedReadyNever == FALSE

(* The updater can run: an event is pending, a stop token is there, or it  *)
(* is in a take that does not block because the step's start_delay is 0.   *)
LedReady ==
    \/ ledPc = "wait" /\ ledNotification # {}
    \/ ledPc # "wait" /\ ledStopSem = 1
    \/ ledPc = "start" /\ i < StepCount

PostLed(e) == ledNotification' = ledNotification \cup {e}
PostNetwork(e) == netNotification' = netNotification \cup {e}

-----------------------------------------------------------------------------
(* The LED updater task.                                                   *)

(* One event of the value is served, every other bit of it is dropped.     *)
Served(e) ==
    /\ ledPc = "wait"
    /\ e \in ledNotification
    /\ \A f \in ledNotification : Rank[e] <= Rank[f]
    /\ ledNotification' = {}

ServeDuty(e) ==
    /\ Served(e)
    /\ current_state' = IF e \in Duty THEN e ELSE NextDuty(current_state)
    /\ UNCHANGED <<ledPc, i, animation, semVars, netVars, buttonPc, victim>>

(* set_led_animation, then play_led_animation up to its first take.        *)
ServeBlink(e) ==
    /\ Served(e)
    /\ animation' = [is_playing |-> TRUE,
                     reps |-> IF e = "BLINK_LOOP" THEN Forever ELSE FastReps]
    /\ i' = 0
    /\ ledPc' = "start"
    /\ UNCHANGED <<current_state, semVars, netVars, buttonPc, victim>>

(* The duty of step j; one past the buffer it is whatever memory holds.    *)
StepDuty(j) ==
    IF j = StepCount THEN Duty \cup {"unknown"}
    ELSE {IF j % 2 = 0 THEN "HIGH" ELSE "OFF"}

StartDelayOver ==
    /\ ledPc = "start"
    /\ ledStopSem = 0
    /\ current_state' \in StepDuty(i)
    /\ ledPc' = "end"
    /\ UNCHANGED <<ledNotification, i, animation, semVars, netVars, buttonPc,
                   victim>>

(* ++i == step_size && (reps == -1 || reps-- > 0)                          *)
(* Mutants: reps-- >= 0; and the operands of || the other way round.       *)
LastStep == i + 1 = StepCount
RepeatsAtZero == LastStep /\ (animation.reps = Forever \/ animation.reps >= 0)
Repeats == LastStep /\ (animation.reps = Forever \/ animation.reps > 0)
NextStep == IF Repeats THEN 0 ELSE i + 1
RepsLeftAlways == IF LastStep THEN animation.reps - 1 ELSE animation.reps
RepsLeft ==
    IF LastStep /\ animation.reps # Forever THEN animation.reps - 1
    ELSE animation.reps

(* while (i <= step_size): the step at index step_size is played too.      *)
PlaysOn == NextStep <= StepCount

(* Mutants: no give at the end; the LED not switched off at the end.       *)
EndAnimationNoGive ==
    /\ current_state' = "OFF"
    /\ ledPc' = "wait"
    /\ victim' = FALSE
    /\ UNCHANGED <<ledNotification, netVars, buttonPc, ledAnimationSem>>
EndAnimationLit ==
    /\ ledAnimationSem' = 1
    /\ ledPc' = "wait"
    /\ victim' = FALSE
    /\ UNCHANGED <<ledNotification, netVars, buttonPc, current_state>>

(* The tail of play_led_animation, and the led_off of the updater.         *)
EndAnimation ==
    /\ current_state' = "OFF"
    /\ ledAnimationSem' = 1
    /\ ledPc' = "wait"
    /\ victim' = FALSE
    /\ UNCHANGED <<ledNotification, netVars, buttonPc>>

EndDelayOver ==
    /\ ledPc = "end"
    /\ ledStopSem = 0
    /\ PlaysOn
    /\ i' = NextStep
    /\ animation' = [animation EXCEPT !.reps = RepsLeft]
    /\ ledPc' = "start"
    /\ UNCHANGED <<ledNotification, current_state, semVars, netVars, buttonPc,
                   victim>>

PlayedOut ==
    /\ ledPc = "end"
    /\ ledStopSem = 0
    /\ ~PlaysOn
    /\ i' = 0
    /\ animation' = [is_playing |-> FALSE, reps |-> RepsLeft]
    /\ EndAnimation
    /\ UNCHANGED ledStopSem

(* Either take succeeds: the animation breaks out of its loop.             *)
Stopped ==
    /\ ledPc \in {"start", "end"}
    /\ ledStopSem = 1
    /\ ledStopSem' = 0
    /\ i' = 0
    /\ animation' = [animation EXCEPT !.is_playing = FALSE]
    /\ EndAnimation

LedStep ==
    \/ \E e \in DutyEvent : ServeDuty(e)
    \/ \E e \in BlinkEvent : ServeBlink(e)
    \/ StartDelayOver
    \/ EndDelayOver
    \/ PlayedOut
    \/ Stopped

-----------------------------------------------------------------------------
(* The tasks that post LED events.                                         *)

(* The sensor sleeps after it has posted, so an idle updater takes a NEXT  *)
(* before the sensor can post another.                                     *)
Touch ==
    /\ ~(ledPc = "wait" /\ "NEXT" \in ledNotification)
    /\ PostLed("NEXT")
    /\ UNCHANGED <<ledPc, i, animation, current_state, semVars, netVars,
                   buttonPc, victim>>

PressReset ==
    /\ ~LedReady
    /\ buttonPc = "idle"
    /\ PostLed("BLINK_START")
    /\ buttonPc' = "delay"
    /\ UNCHANGED <<ledPc, i, animation, current_state, semVars, netVars,
                   victim>>

ResetDelayOver ==
    /\ ~LedReady
    /\ buttonPc = "delay"
    /\ PostNetwork("SHUTDOWN")
    /\ buttonPc' = "idle"
    /\ UNCHANGED <<ledVars, semVars, netPc, victim>>

PressDiscovery ==
    /\ ~LedReady
    /\ buttonPc = "idle"
    /\ PostNetwork("START_AP")
    /\ UNCHANGED <<ledVars, semVars, netPc, buttonPc, victim>>

-----------------------------------------------------------------------------
(* The network task.                                                       *)

NetworkRuns(at, to) ==
    /\ ~LedReady
    /\ netPc = at
    /\ netPc' = to

ServeShutdown ==
    /\ NetworkRuns("loop", "shutdown")
    /\ "SHUTDOWN" \in netNotification
    /\ netNotification' = {}
    /\ UNCHANGED <<ledVars, semVars, buttonPc, victim>>

(* Mutant: START_AP looked for first, a SHUTDOWN in the same value lost.   *)
ServeStartApFirst ==
    /\ NetworkRuns("loop", "ap")
    /\ "START_AP" \in netNotification
    /\ netNotification' = {}
    /\ UNCHANGED <<ledVars, semVars, buttonPc, victim>>

ServeStartAp ==
    /\ NetworkRuns("loop", "ap")
    /\ "SHUTDOWN" \notin netNotification
    /\ "START_AP" \in netNotification
    /\ netNotification' = {}
    /\ UNCHANGED <<ledVars, semVars, buttonPc, victim>>

AccessPointUp ==
    /\ NetworkRuns("ap", "loop")
    /\ PostLed("BLINK_LOOP")
    /\ UNCHANGED <<ledPc, i, animation, current_state, semVars,
                   netNotification, buttonPc, victim>>

AccessPointFails ==
    /\ NetworkRuns("ap", "loop")
    /\ UNCHANGED <<ledVars, semVars, netNotification, buttonPc, victim>>

(* A LED command from the managing client.                                 *)
LedCommand(c) ==
    /\ NetworkRuns("loop", "loop")
    /\ PostLed(c)
    /\ UNCHANGED <<ledPc, i, animation, current_state, semVars,
                   netNotification, buttonPc, victim>>

(* A server failed, or provisioning is over: SHUTDOWN to itself.           *)
SelfShutdown ==
    /\ NetworkRuns("loop", "loop")
    /\ PostNetwork("SHUTDOWN")
    /\ UNCHANGED <<ledVars, semVars, buttonPc, victim>>

(* stop_led_animation, one action per call.                                *)
StopNotNeeded ==
    /\ NetworkRuns("shutdown", "loop")
    /\ ~animation.is_playing
    /\ UNCHANGED <<ledVars, semVars, netNotification, buttonPc, victim>>

StopNeeded ==
    /\ NetworkRuns("shutdown", "give")
    /\ animation.is_playing
    /\ victim' = TRUE
    /\ UNCHANGED <<ledVars, semVars, netNotification, buttonPc>>

(* A give to a full binary semaphore fails, and the function returns.      *)
GiveStop ==
    /\ NetworkRuns("give", IF ledStopSem = 0 THEN "takeAnim" ELSE "loop")
    /\ ledStopSem' = 1
    /\ UNCHANGED <<ledVars, ledAnimationSem, netNotification, buttonPc,
                   victim>>

TakeAnimation ==
    /\ NetworkRuns("takeAnim", "takeStop")
    /\ ledAnimationSem = 1
    /\ ledAnimationSem' = 0
    /\ UNCHANGED <<ledVars, ledStopSem, netNotification, buttonPc, victim>>

(* Mutant: without the last take.                                          *)
TakeStopSkipped ==
    /\ NetworkRuns("takeStop", "loop")
    /\ UNCHANGED <<ledVars, semVars, netNotification, buttonPc, victim>>

(* The last take gets the token if it is still there; else 10 ticks pass.  *)
TakeStop ==
    /\ NetworkRuns("takeStop", "loop")
    /\ ledStopSem' = 0
    /\ UNCHANGED <<ledVars, ledAnimationSem, netNotification, buttonPc,
                   victim>>

StopStep == StopNotNeeded \/ StopNeeded \/ GiveStop \/ TakeAnimation \/ TakeStop
NetStep ==
    \/ ServeShutdown
    \/ ServeStartAp
    \/ AccessPointUp
    \/ AccessPointFails
    \/ \E c \in NetworkCommand : LedCommand(c)
    \/ SelfShutdown
    \/ StopStep

ButtonStep == PressReset \/ ResetDelayOver \/ PressDiscovery

Next == LedStep \/ Touch \/ ButtonStep \/ NetStep

Spec == Init /\ [][Next]_vars

(* The updater has the highest priority and every delay ends: weak.  The   *)
(* tasks below it are set aside each time the updater is ready, which is   *)
(* never for long: strong.  Touches, presses and commands are never owed.  *)
(* A network task that a silent broker holds in the listener (see          *)
(* Listener and NetworkLifecycle) is left out: it serves no event.         *)
Fairness ==
    /\ WF_vars(LedStep)
    /\ SF_vars(ResetDelayOver)
    /\ SF_vars(ServeShutdown)
    /\ SF_vars(AccessPointUp \/ AccessPointFails)
    /\ SF_vars(StopStep)

FairSpec == Spec /\ Fairness

-----------------------------------------------------------------------------
(* Properties.                                                             *)

(* stop_led_animation takes its own token back: outside the handshake no   *)
(* stop token is left over to kill an animation nobody asked to stop.      *)
NoStrayStop == netPc \notin {"takeAnim", "takeStop"} => ledStopSem = 0

(* When the network task has been told that the animation is over, the     *)
(* animation it found playing really is, even though ledAnimationSem may   *)
(* hold the token of an earlier animation that ended by itself.            *)
StopEndsAnimation == netPc = "takeStop" => ~victim

(* The wait without timeout for ledAnimationSem cannot last: the token is  *)
(* there, or an animation holds the stop token's attention.                *)
StopNotStuck ==
    netPc = "takeAnim" =>
        ledAnimationSem = 1 \/ (animation.is_playing /\ ledStopSem = 1)

(* Whatever the step past the end of the step buffer wrote to the PWM      *)
(* channel, the led_off at the end leaves an idle updater with a duty      *)
(* cycle that led_set_next knows.                                          *)
IdleDutyKnown == ledPc = "wait" => current_state \in Duty

(* The network task's view of the handshake implements StopRequest.        *)
Request == INSTANCE StopRequest WITH
    playing <- animation.is_playing,
    request <- IF ~Stopping THEN "none" ELSE IF victim THEN "pending" ELSE "done"

(* A stop returns only when the animation it found playing has ended, and  *)
(* no animation counts as ended for a stop that did not ask for its end.   *)
ImplementsStopRequest == Request!Spec

(* The fast blink of the reset press ends by itself: it neither repeats    *)
(* for ever nor turns into the endless animation when reps reaches -1.     *)
FastBlinkEnds ==
    (animation.is_playing /\ animation.reps # Forever) ~> ~animation.is_playing

(* A SHUTDOWN that was posted ends the animation that plays, the endless   *)
(* one too, once the network task is back at its loop.                     *)
ShutdownEndsAnimation ==
    ("SHUTDOWN" \in netNotification /\ animation.is_playing)
        ~> ~animation.is_playing

(* vetta_main.c:285 speaks of "shutting down wifi and led animation": when *)
(* the handshake returns, no endless animation plays.  (It is not so: a    *)
(* blink loop requested while one was playing starts as soon as the stop   *)
(* has ended the first, and nothing is left to stop it.)                   *)
QuietAfterShutdown ==
    [][netPc = "takeStop" /\ netPc' = "loop"
        => ~(animation.is_playing /\ animation.reps = Forever)]_vars
=============================================================================
