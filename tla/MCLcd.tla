-------------------------------- MODULE MCLcd --------------------------------
(***************************************************************************)
(* Lcd for TLC: two pictures, and a table of two callbacks that are called *)
(* every second tick.  The counter's range is no multiple of the interval, *)
(* as 2^32 is none of 25.                                                  *)
(***************************************************************************)
EXTENDS Lcd

MCTicks == [i \in Interval |-> 2]
==============================================================================
