----------------------------- MODULE StopRequest ----------------------------
(***************************************************************************)
(* What stop_led_animation promises the network task, whatever semaphores  *)
(* it uses: animations start and end; a caller that finds one playing may  *)
(* ask for its end, and it is let go only once that animation has ended.   *)
(* Another animation may well be playing by then.                          *)
(***************************************************************************)
VARIABLES
    playing,  \* an animation plays
    request   \* "none"; "pending": it has not ended yet; "done": it has

vars == <<playing, request>>

Init == playing = FALSE /\ request = "none"

Start == ~playing /\ playing' = TRUE /\ UNCHANGED request

End ==
    /\ playing
    /\ playing' = FALSE
    /\ request' = IF request = "pending" THEN "done" ELSE request

Ask == playing /\ request = "none" /\ request' = "pending" /\ UNCHANGED playing

Return == request = "done" /\ request' = "none" /\ UNCHANGED playing

Next == Start \/ End \/ Ask \/ Return

Spec == Init /\ [][Next]_vars
=============================================================================
