--------------------------- MODULE MCPollingClock ---------------------------
(***************************************************************************)
(* PollingClock with a fast and a slow group.  A second has four ticks.    *)
(***************************************************************************)
EXTENDS PollingClock

CONSTANTS fast, slow

OneFast == {fast}
OneSlow == {slow}

===============================================================================
