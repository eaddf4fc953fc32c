----------------------------- MODULE LightCycle -----------------------------
(***************************************************************************)
(* What a player may count on of the traffic lights, whatever taps arrive  *)
(* and however their timers run: every light goes red, green, yellow, red  *)
(* and never backwards or past a colour, and a yellow light turns red.     *)
(***************************************************************************)
EXTENDS Integers

CONSTANT Lights

VARIABLE colour

Red    == -1
Yellow == 0
Green  == 1

After(col) == CASE col = Red -> Green [] col = Green -> Yellow [] col = Yellow -> Red

Init == colour = [l \in Lights |-> Red]

\* A tap moves two lights at once, a timer one.
Change(some) ==
  colour' = [l \in Lights |-> IF l \in some THEN After(colour[l]) ELSE colour[l]]

Expire(l) == colour[l] = Yellow /\ colour'[l] = Red

Next == \E some \in (SUBSET Lights) \ {{}} : Change(some)

Spec ==
  /\ Init /\ [][Next]_colour
  /\ \A l \in Lights : WF_colour(Next /\ Expire(l))
=============================================================================
