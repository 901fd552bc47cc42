----------------------------- MODULE MCGenerator -----------------------------
EXTENDS Generator

\* Gaps that put off one delivery, or several together, or beyond the last day;
\* cases of one and of more; less than a unit a day; a history cut short; lead
\* times below and above the days between two orders.
MCCatalog ==
  [lead : {1, 2, 4}, case : {1, 3}, base : {30, 100}, gapStart : {3, 4}, gapDays : {0, 1, 4, 9},
   history : {0}, finalOnHand : {-1}, finalOnOrder : {0}]
    \cup [lead : {1}, case : {3}, base : {100}, gapStart : {0}, gapDays : {0}, history : {2},
          finalOnHand : {-1, 2}, finalOnOrder : {0, 5}]
===============================================================================
