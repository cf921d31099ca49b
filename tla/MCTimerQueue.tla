---------------------------- MODULE MCTimerQueue ----------------------------
(* TimerQueue for TLC: timers are model values, delays one to three ticks. *)
EXTENDS TimerQueue, TLC

MCDelay == 1 .. 3
=============================================================================
