------------------------------- MODULE MCLane --------------------------------
EXTENDS Lane

\* A leader beyond the light, which may be a wreck, and two cars that queue behind it:
\* in the band or just before it, with more or less room, the first of the two being
\* the first or the second of carArray.
QueuePlaces ==
  {[c \in 1..3 |-> IF c = 3 THEN x + g[1] ELSE IF c = lead THEN x ELSE x - g[2]] :
     lead \in 1..2, x \in {-4470, -4100, -3900}, g \in {<<2200, 2300>>, <<3500, 2000>>}}

\* The second crossing of an up street, ten units after the first and nine before the
\* edge of the screen (that of right streets is seventeen units away).  A car comes out
\* of a left turn at the first crossing and another follows it, or it comes out of one
\* at the second and the other is about to be held there.
AfterLeftTurns == {<<-7039, -9039>>, <<2961, -4100>>}

\* On which side a left turn leaves a car on an up street.
LeftOfLane == {-2510}

NoWreck == {{}}
ThirdMayBeWreck == {{}, {3}}
=============================================================================
