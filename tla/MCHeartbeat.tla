---------------------------- MODULE MCHeartbeat ----------------------------
(* The heartbeat with intervals of one or two units, an option of three or  *)
(* none, a timeout of two, clocks that agree, differ about as much as the   *)
(* window and far beyond it.                                                *)
EXTENDS Heartbeat

CONSTANTS w1, w2

ClockSkews == {-4, 0, 1, 3}
============================================================================
