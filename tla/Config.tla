--------------------------------- MODULE Config --------------------------------
(* cmd/server/config.go: what LoadConfig makes of the environment.  Durations *)
(* are in ticks of five seconds, DEMAND_ALPHA is in hundredths.               *)
EXTENDS Integers

CONSTANT Half  \* 2^31: DB_MAX_CONNS and DB_MIN_CONNS become an int32

ASSUME ConfigAssumption == Half \in Nat \ {0}

\* idle stands for the four durations that nothing else looks at.
Durations == {"request", "write", "read", "shutdown", "idle"}
Counts == {"maxConns", "minConns"}
Numbers == Durations \cup Counts \cup {"window", "alpha"}
\* Of bodyBytes only whether it parses: what is not positive falls back in NewRouter.
Settings == Numbers \cup {"databaseURL", "logLevel", "logFormat", "bodyBytes"}

\* A variable of the environment: "malformed" does not parse, or is not one of
\* the words there are; "nan" is DEMAND_ALPHA=NaN, which does parse.
Raw == [kind : {"unset", "malformed", "nan", "given"}, n : Int]

Unset == [kind |-> "unset", n |-> 0]
Given(n) == [kind |-> "given", n |-> n]
Malformed == [kind |-> "malformed", n |-> 0]
NaN == [kind |-> "nan", n |-> 0]

Environment ==
  {e \in [Settings -> Raw] : \A s \in Settings \ {"alpha"} : e[s].kind # "nan"}

Default ==
  [request |-> 2, write |-> 3, read |-> 2, shutdown |-> 4, idle |-> 12,
   maxConns |-> 10, minConns |-> 2, window |-> 28, alpha |-> 10]

\* The conversion to int32 keeps the low bits.
Int32(n) == ((n + Half) % (2 * Half)) - Half

EnvDuration(raw, fallback) == IF raw.kind = "given" /\ raw.n > 0 THEN raw.n ELSE fallback

\* envInt and envFloat.
EnvNumber(raw, fallback) == IF raw.kind = "given" THEN raw.n ELSE fallback

\* What LoadConfig works with, whether or not it accepts it in the end.
Loaded(e) ==
  [s \in Numbers |->
     IF s \in Durations THEN EnvDuration(e[s], Default[s])
     ELSE IF s \in Counts THEN Int32(EnvNumber(e[s], Default[s]))
     ELSE EnvNumber(e[s], Default[s])]

\* Mutant: what does not parse falls back without a word.
UnreadableSilently(e) ==
  {s \in {"databaseURL"} : e[s].kind = "unset"}
    \cup {s \in Durations : e[s].kind = "given" /\ e[s].n <= 0}

\* The problems of single settings.
Unreadable(e) ==
  {s \in {"databaseURL"} : e[s].kind = "unset"}
    \cup {s \in Settings \ {"databaseURL"} : e[s].kind = "malformed"}
    \cup {s \in Durations : e[s].kind = "given" /\ e[s].n <= 0}

\* Mutant: equal timeouts pass.
ConflictsEqual(e, c) ==
  {s \in {"maxConns"} : c.maxConns < 1}
    \cup {s \in {"minConns"} : c.minConns < 0 \/ c.minConns > c.maxConns}
    \cup {s \in {"write"} : c.write < c.request}
    \cup {s \in {"window"} : c.window < 7}
    \cup {s \in {"alpha"} : e.alpha.kind # "nan" /\ (c.alpha <= 0 \/ c.alpha > 100)}

\* The cross-field validation.  Every comparison with NaN is false.
Conflicts(e, c) ==
  {s \in {"maxConns"} : c.maxConns < 1}
    \cup {s \in {"minConns"} : c.minConns < 0 \/ c.minConns > c.maxConns}
    \cup {s \in {"write"} : c.write <= c.request}
    \cup {s \in {"window"} : c.window < 7}
    \cup {s \in {"alpha"} : e.alpha.kind # "nan" /\ (c.alpha <= 0 \/ c.alpha > 100)}

Problems(e) == Unreadable(e) \cup Conflicts(e, Loaded(e))

-------------------------------------------------------------------------------
(* The requirement: what the operator wrote, or the default where nothing was  *)
(* written, without a limit on integers and without a fallback for errors.     *)

Written(e, s) == IF e[s].kind = "given" THEN e[s].n ELSE Default[s]

Usable(e) ==
  /\ e.databaseURL.kind # "unset"
  /\ \A s \in Settings \ {"databaseURL"} : e[s].kind \in {"unset", "given"}
  /\ \A s \in Durations : Written(e, s) > 0
  /\ Written(e, "write") > Written(e, "request")
  /\ Written(e, "minConns") \in 0..Written(e, "maxConns") /\ Written(e, "maxConns") > 0
  /\ Written(e, "window") >= 7
  /\ Written(e, "alpha") \in 1..100

Wraps(e) == \E s \in Counts : Written(e, s) \notin -Half .. Half - 1
===============================================================================
