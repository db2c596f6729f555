------------------------ MODULE LedAnimation_proofs -------------------------
(***************************************************************************)
(* Proofs about LedAnimation, for every StepCount, FastReps and            *)
(* NetworkCommand: the types, the safety of the stop handshake, and that   *)
(* it implements StopRequest.                                              *)
(***************************************************************************)
EXTENDS LedAnimation, TLAPS

(* What the handshake rests on.  A stop that saw an animation playing has  *)
(* it still playing, or the token that says it ended; once the stop token  *)
(* is given to an animation that has not ended, the token is there.        *)
PlayingFlag == animation.is_playing <=> ledPc # "wait"
VictimPlays == victim => Stopping /\ animation.is_playing
TokenForEnded == netPc \in {"give", "takeAnim"} /\ ~victim => ledAnimationSem = 1
TokenForVictim == netPc = "takeAnim" /\ victim => ledStopSem = 1

IInv ==
    /\ TypeOK
    /\ PlayingFlag
    /\ VictimPlays
    /\ TokenForEnded
    /\ TokenForVictim
    /\ NoStrayStop
    /\ StopEndsAnimation
    /\ IdleDutyKnown

(* led_set_next moves between the duty cycles that have a name.            *)
LEMMA NextDutyCloses ==
    ASSUME NEW d \in Duty \cup {"unknown"}
    PROVE  /\ NextDuty(d) \in Duty \cup {"unknown"}
           /\ d \in Duty => NextDuty(d) \in Duty
BY DEF NextDuty, Duty

(* Every write of play_led_animation is a duty cycle or the unknown one.   *)
LEMMA StepDutyType ==
    ASSUME NEW j \in 0 .. StepCount
    PROVE  StepDuty(j) \subseteq Duty \cup {"unknown"}
BY DEF StepDuty, Duty

(* ++i and reps-- stay in their ranges as long as the loop plays on.       *)
LEMMA StepArithmetic ==
    ASSUME TypeOK
    PROVE  /\ PlaysOn => NextStep \in 0 .. StepCount
           /\ RepsLeft \in Forever .. FastReps
BY BlinkAssumption DEF TypeOK, PlaysOn, NextStep, Repeats, LastStep, RepsLeft, Forever

(* The invariant holds when the tasks start.                               *)
LEMMA InitIInv == Init => IInv
<1> SUFFICES ASSUME Init PROVE IInv
    OBVIOUS
<1>1. /\ animation \in [is_playing : BOOLEAN, reps : Forever .. FastReps]
      /\ ~animation.is_playing
    BY BlinkAssumption DEF Init, Forever
<1>2. TypeOK
  <2>1. i \in 0 .. StepCount
      BY BlinkAssumption DEF Init
  <2>2. ledPc \in LedPc /\ netPc \in NetPc /\ current_state \in Duty
      BY DEF Init, LedPc, NetPc, Duty
  <2> QED  BY <1>1, <2>1, <2>2 DEF Init, TypeOK
<1>3. PlayingFlag /\ IdleDutyKnown
    BY <1>1 DEF Init, PlayingFlag, IdleDutyKnown, Duty
<1>4. /\ VictimPlays
      /\ TokenForEnded
      /\ TokenForVictim
      /\ NoStrayStop
      /\ StopEndsAnimation
    BY DEF Init, VictimPlays, TokenForEnded, TokenForVictim, NoStrayStop,
        StopEndsAnimation
<1> QED  BY <1>2, <1>3, <1>4 DEF IInv

(* It does not depend on anything outside the variables.                   *)
LEMMA StutterIInv == IInv /\ UNCHANGED vars => IInv'
BY DEF vars, ledVars, semVars, netVars, IInv, TypeOK, PlayingFlag, VictimPlays,
    Stopping, TokenForEnded, TokenForVictim, NoStrayStop, StopEndsAnimation,
    IdleDutyKnown

(* The updater's own steps.                                                *)
LEMMA LedStepIInv == IInv /\ LedStep => IInv'
<1> SUFFICES ASSUME IInv, LedStep PROVE IInv'
    OBVIOUS
<1> USE DEF IInv, TypeOK, PlayingFlag, VictimPlays, Stopping, TokenForEnded,
    TokenForVictim, NoStrayStop, StopEndsAnimation, IdleDutyKnown, semVars,
    netVars, LedPc, NetPc
<1>1. ASSUME NEW e \in DutyEvent, ServeDuty(e) PROVE IInv'
  <2>1. (IF e \in Duty THEN e ELSE NextDuty(current_state)) \in Duty
      BY <1>1, NextDutyCloses DEF ServeDuty, Served
  <2>2. current_state' \in Duty
      BY <2>1, <1>1 DEF ServeDuty
  <2> QED  BY <1>1, <2>2 DEF ServeDuty, Served
<1>2. ASSUME NEW e \in BlinkEvent, ServeBlink(e) PROVE IInv'
    BY <1>2, BlinkAssumption DEF ServeBlink, Served, Forever
<1>3. CASE StartDelayOver
  <2>1. current_state' \in Duty \cup {"unknown"}
      BY <1>3, StepDutyType DEF StartDelayOver
  <2> QED  BY <1>3, <2>1 DEF StartDelayOver
<1>4. CASE EndDelayOver
  <2>1. NextStep \in 0 .. StepCount /\ RepsLeft \in Forever .. FastReps
      BY <1>4, StepArithmetic DEF EndDelayOver
  <2>2. animation' = [is_playing |-> animation.is_playing, reps |-> RepsLeft]
      BY <1>4 DEF EndDelayOver
  <2> QED  BY <1>4, <2>1, <2>2 DEF EndDelayOver
<1>5. CASE PlayedOut
  <2>1. RepsLeft \in Forever .. FastReps
      BY StepArithmetic
  <2>2. /\ animation' \in [is_playing : BOOLEAN, reps : Forever .. FastReps]
        /\ ~animation'.is_playing
      BY <1>5, <2>1 DEF PlayedOut
  <2>3. i' \in 0 .. StepCount
      BY <1>5, BlinkAssumption DEF PlayedOut
  <2>4. TypeOK'
      BY <1>5, <2>2, <2>3 DEF PlayedOut, EndAnimation, Duty
  <2>5. (PlayingFlag /\ IdleDutyKnown)'
      BY <1>5, <2>2 DEF PlayedOut, EndAnimation, Duty
  <2>6. ~victim' /\ ledAnimationSem' = 1 /\ UNCHANGED <<netPc, ledStopSem>>
      BY <1>5 DEF PlayedOut, EndAnimation
  <2> QED  BY <2>4, <2>5, <2>6
<1>6. CASE Stopped
  <2>1. /\ animation' \in [is_playing : BOOLEAN, reps : Forever .. FastReps]
        /\ ~animation'.is_playing
      BY <1>6 DEF Stopped
  <2>2. i' \in 0 .. StepCount
      BY <1>6, BlinkAssumption DEF Stopped
  <2>3. TypeOK'
      BY <1>6, <2>1, <2>2 DEF Stopped, EndAnimation, Duty
  <2>4. (PlayingFlag /\ IdleDutyKnown)'
      BY <1>6, <2>1 DEF Stopped, EndAnimation, Duty
  <2>5. ~victim' /\ ledAnimationSem' = 1 /\ ledStopSem' = 0 /\ netPc' = netPc
      BY <1>6 DEF Stopped, EndAnimation
  <2> QED  BY <2>3, <2>4, <2>5
<1> QED  BY <1>1, <1>2, <1>3, <1>4, <1>5, <1>6 DEF LedStep

(* The tasks that only post events.                                        *)
LEMMA PostIInv == IInv /\ (Touch \/ ButtonStep) => IInv'
<1> SUFFICES ASSUME IInv, Touch \/ ButtonStep PROVE IInv'
    OBVIOUS
<1> USE DEF IInv, TypeOK, PlayingFlag, VictimPlays, Stopping, TokenForEnded,
    TokenForVictim, NoStrayStop, StopEndsAnimation, IdleDutyKnown, ledVars,
    semVars, PostLed, PostNetwork
<1>1. CASE Touch           BY <1>1 DEF Touch, LedEvent, netVars
<1>2. CASE PressReset      BY <1>2 DEF PressReset, LedEvent, netVars
<1>3. CASE ResetDelayOver  BY <1>3 DEF ResetDelayOver
<1>4. CASE PressDiscovery  BY <1>4 DEF PressDiscovery
<1> QED  BY <1>1, <1>2, <1>3, <1>4 DEF ButtonStep

(* The network task.  ~LedReady matters in TakeAnimation: a victim still   *)
(* playing would make the updater ready, and it would run first.           *)
LEMMA NetStepIInv == IInv /\ NetStep => IInv'
<1> SUFFICES ASSUME IInv, NetStep PROVE IInv'
    OBVIOUS
<1> USE DEF IInv, TypeOK, PlayingFlag, VictimPlays, Stopping, TokenForEnded,
    TokenForVictim, NoStrayStop, StopEndsAnimation, IdleDutyKnown, ledVars,
    semVars, NetPc, NetworkRuns
<1>1. CASE ServeShutdown     BY <1>1 DEF ServeShutdown
<1>2. CASE ServeStartAp      BY <1>2 DEF ServeStartAp
<1>3. CASE AccessPointUp     BY <1>3 DEF AccessPointUp, PostLed, LedEvent
<1>4. CASE AccessPointFails  BY <1>4 DEF AccessPointFails
<1>5. ASSUME NEW c \in NetworkCommand, LedCommand(c) PROVE IInv'
    BY <1>5, CommandAssumption DEF LedCommand, PostLed, LedEvent
<1>6. CASE SelfShutdown      BY <1>6 DEF SelfShutdown, PostNetwork
<1>7. CASE StopNotNeeded     BY <1>7 DEF StopNotNeeded
<1>8. CASE StopNeeded        BY <1>8 DEF StopNeeded
<1>9. CASE GiveStop          BY <1>9 DEF GiveStop
<1>10. CASE TakeAnimation    BY <1>10 DEF TakeAnimation, LedReady
<1>11. CASE TakeStop         BY <1>11 DEF TakeStop
<1> QED  BY <1>1, <1>2, <1>3, <1>4, <1>5, <1>6, <1>7, <1>8, <1>9, <1>10, <1>11
    DEF NetStep, StopStep

(* Every step of every task keeps it.                                      *)
LEMMA NextIInv == IInv /\ [Next]_vars => IInv'
BY StutterIInv, LedStepIInv, PostIInv, NetStepIInv DEF Next

(* It holds in every reachable state.                                      *)
LEMMA Inductive == Spec => []IInv
<1>1. IInv /\ [Next]_vars => IInv'
    BY NextIInv
<1> QED  BY InitIInv, <1>1, PTL DEF Spec

(* The variables have their types: i never leaves the step buffer by more  *)
(* than one step and reps, a signed char, never runs below -1.             *)
THEOREM TypeCorrect == Spec => []TypeOK
<1>1. IInv => TypeOK  BY DEF IInv
<1> QED  BY Inductive, <1>1, PTL

(* stop_led_animation leaves no stop token behind.                         *)
THEOREM NoStrayStopHolds == Spec => []NoStrayStop
<1>1. IInv => NoStrayStop  BY DEF IInv
<1> QED  BY Inductive, <1>1, PTL

(* The animation that the stop found playing has ended when the network    *)
(* task gets ledAnimationSem.                                              *)
THEOREM StopEndsAnimationHolds == Spec => []StopEndsAnimation
<1>1. IInv => StopEndsAnimation  BY DEF IInv
<1> QED  BY Inductive, <1>1, PTL

(* The take of ledAnimationSem without timeout never waits for nobody.     *)
THEOREM StopNotStuckHolds == Spec => []StopNotStuck
<1>1. IInv => StopNotStuck
    BY DEF IInv, StopNotStuck, VictimPlays, TokenForEnded, TokenForVictim
<1> QED  BY Inductive, <1>1, PTL

(* An idle updater finds a duty cycle led_set_next knows.                  *)
THEOREM IdleDutyKnownHolds == Spec => []IdleDutyKnown
<1>1. IInv => IdleDutyKnown  BY DEF IInv
<1> QED  BY Inductive, <1>1, PTL

(* Every step of the updater and of the network task is a step of          *)
(* StopRequest, or leaves its two variables alone.                         *)
LEMMA StepRefines == IInv /\ [Next]_vars => [Request!Next]_(Request!vars)
<1> SUFFICES ASSUME IInv, [Next]_vars PROVE [Request!Next]_(Request!vars)
    OBVIOUS
<1> USE DEF Request!vars, Request!Next, Stopping
<1>1. CASE UNCHANGED vars
    BY <1>1 DEF vars, ledVars, netVars
<1>2. ASSUME NEW e \in DutyEvent, ServeDuty(e) PROVE UNCHANGED Request!vars
    BY <1>2 DEF ServeDuty, netVars
<1>3. ASSUME NEW e \in BlinkEvent, ServeBlink(e) PROVE Request!Start
  <2>1. ~animation.is_playing
      BY <1>3 DEF ServeBlink, Served, IInv, PlayingFlag
  <2>2. animation'.is_playing = TRUE
      BY <1>3 DEF ServeBlink
  <2> QED  BY <1>3, <2>1, <2>2 DEF ServeBlink, netVars, Request!Start
<1>4. CASE StartDelayOver
    BY <1>4 DEF StartDelayOver, netVars
<1>5. CASE EndDelayOver
  <2>1. animation'.is_playing = animation.is_playing
      BY <1>5 DEF EndDelayOver, IInv, TypeOK
  <2> QED  BY <1>5, <2>1 DEF EndDelayOver, netVars
<1>6. CASE PlayedOut \/ Stopped
  <2>1. animation.is_playing
      BY <1>6 DEF PlayedOut, Stopped, IInv, PlayingFlag
  <2>2. animation'.is_playing = FALSE
      BY <1>6 DEF PlayedOut, Stopped, IInv, TypeOK
  <2>3. netPc' = netPc /\ ~victim'
      BY <1>6 DEF PlayedOut, Stopped, EndAnimation, netVars
  <2> QED  BY <2>1, <2>2, <2>3 DEF Request!End
<1>7. CASE Touch \/ ButtonStep
    BY <1>7 DEF Touch, ButtonStep, PressReset, ResetDelayOver, PressDiscovery,
        netVars, ledVars
<1>8. CASE ServeShutdown \/ ServeStartAp \/ AccessPointUp \/ AccessPointFails
           \/ SelfShutdown \/ StopNotNeeded
           \/ \E c \in NetworkCommand : LedCommand(c)
    BY <1>8 DEF ServeShutdown, ServeStartAp, AccessPointUp, AccessPointFails,
        SelfShutdown, StopNotNeeded, LedCommand, NetworkRuns, ledVars
<1>9. CASE StopNeeded
    BY <1>9 DEF StopNeeded, NetworkRuns, ledVars, Request!Ask
<1>10. CASE GiveStop
    BY <1>10 DEF GiveStop, NetworkRuns, ledVars, IInv, NoStrayStop
<1>11. CASE TakeAnimation
    BY <1>11 DEF TakeAnimation, NetworkRuns, ledVars
<1>12. CASE TakeStop
    BY <1>12 DEF TakeStop, NetworkRuns, ledVars, IInv, StopEndsAnimation,
        Request!Return
<1> QED
    BY <1>1, <1>2, <1>3, <1>4, <1>5, <1>6, <1>7, <1>8, <1>9, <1>10, <1>11, <1>12
    DEF Next, LedStep, NetStep, StopStep

(* The handshake implements its abstract specification.                    *)
THEOREM HandshakeImplementsStopRequest == Spec => ImplementsStopRequest
<1>1. Init => Request!Init
    BY DEF Init, Request!Init, Stopping
<1>2. IInv /\ [Next]_vars => [Request!Next]_(Request!vars)
    BY StepRefines
<1> QED  BY <1>1, <1>2, Inductive, PTL DEF Spec, ImplementsStopRequest, Request!Spec
=============================================================================
