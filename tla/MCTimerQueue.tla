----------------------------- MODULE MCTimerQueue ------------------------------
(* The instance of TimerQueue that TLC explores: timers of half a second, one
   second and one and a half, which repeat with 0, one and one. *)
EXTENDS TimerQueue

CONSTANTS ontime, loading, third

MCTimers == {ontime, loading, third}
MCInterval == [t \in MCTimers |-> CASE t = ontime -> 1 [] t = loading -> 2 [] t = third -> 3]
===============================================================================
