---------------------------- MODULE MCSalesService ----------------------------
EXTENDS SalesService, TLC

CONSTANTS s1, s2, d1, d2, q1, q2, q3, one, many

\* q2 corrects q1; q3 reports a stockout on the other day.
MCPostSku == [q \in Posts |-> s1]
MCPostDay == [q \in Posts |-> IF q = q3 THEN d2 ELSE d1]
MCRevises == [q \in Posts |-> IF q = q2 THEN {q1} \cap Posts ELSE {}]
MCCensored == {q3} \cap Posts

\* The single form asks for s1, the batch form for both, one of them twice.
MCAsked == [r \in Readers |-> IF r = one THEN <<s1>> ELSE <<s2, s1, s2>>]
MCBatch == Readers \ {one}

MCCatalog1 == <<s1>>
MCCatalog2 == <<s1, s2>>
==============================================================================
