----------------------------- MODULE MCReplenish -----------------------------
EXTENDS Replenish

\* Half units.  Cases of 4 and minimums of 3 and 5 meet on neither side; a
\* shelf life of 0 is none; a review period of 0 is not valid.
MCProducts ==
  [lead : 0..2, review : 0..2, minimum : {0, 3, 5}, case : {0, 1, 4}, shelf : {0, 1, 3},
   position : 0..3]

MCSignals == [daily : 0..5, safety : {0, 1, 4}]
==============================================================================
