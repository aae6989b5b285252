---- MODULE MCFlapDetector ----
(* One Node and two rule versions; 1..4 ticks of cooldown reach the cap    *)
(* after three flaps, and the clock runs past a whole flap window (8).     *)
EXTENDS FlapDetector
====
