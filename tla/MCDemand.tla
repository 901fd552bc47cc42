------------------------------- MODULE MCDemand -------------------------------
EXTENDS Demand

\* A window of four days with a slack of two, in weeks of two days, so that a
\* weekday is seen twice in a full window.  Seen from day 4 there is a figure of
\* the future; 8 is as late as the slack allows; from 9 the cutoff bites; by 12
\* no row is left.
MCDates == 1..5
MCTodays == {4, 5, 8, 9, 12}
MCUnits == {0, 1, 3}
MCAlpha == [n |-> 1, d |-> 3]
=============================================================================
