------------------------------- MODULE MCServer -------------------------------
EXTENDS Server

Nothing == [s \in Settings |-> IF s = "databaseURL" THEN Given(1) ELSE Unset]

\* Every order of the four timeouts and of the header's, with ties.
Timed ==
  {[Nothing EXCEPT !.request = Given(t.request), !.write = Given(t.write),
                   !.read = Given(t.read), !.shutdown = Given(t.shutdown)] :
     t \in [request : 1..2, write : 1..3, read : 1..3, shutdown : {1, 2, 4}]}

\* Values on both sides of each limit; 17 connections wrap to -15, 34 to 2.
Values(s) ==
  CASE s \in Durations -> {Unset, Malformed, Given(-1), Given(0), Given(2)}
    [] s \in Counts -> {Unset, Malformed, Given(-1), Given(0), Given(3), Given(17), Given(34)}
    [] s = "window" -> {Unset, Malformed, Given(6), Given(7)}
    [] s = "alpha" -> {Unset, Malformed, NaN, Given(0), Given(100), Given(101)}
    [] OTHER -> {Unset, Malformed, Given(1)}

\* Any two settings wrong at once.
Configured ==
  UNION {{[Nothing EXCEPT ![s] = v, ![t] = w] : v \in Values(s), w \in Values(t)} :
           s, t \in Settings}

MCEnvs == Timed \cup Configured
=============================================================================
