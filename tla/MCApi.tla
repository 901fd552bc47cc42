------------------------------- MODULE MCApi -------------------------------
EXTENDS Api

\* A request with nothing wrong on it.
Right(p) ==
  [path |-> p, method |-> IF p \in {"sales", "batch"} THEN "POST" ELSE "GET", preflight |-> FALSE,
   sku |-> "known", type |-> "json", body |-> "object", date |-> "day", units |-> "count",
   skus |-> "some"]

\* Every method on every path, a preflight or not.
Called ==
  {[Right(r.path) EXCEPT !.method = r.method, !.preflight = r.preflight] :
     r \in [path : {"healthz", "readyz", "products", "product", "sales", "recommendation",
                    "batch", "nowhere"}, method : Methods, preflight : BOOLEAN]}

\* Everything that may be wrong with a sale, and with a batch, at once.
Posted ==
  {r \in Request : r.path = "sales" /\ r.method = "POST" /\ ~r.preflight /\ r.skus = "some"}
    \cup
  {r \in Request : /\ r.path = "batch" /\ r.method = "POST" /\ ~r.preflight
                   /\ r.sku = "known" /\ r.date = "day" /\ r.units = "count"}

Asked == {[Right(p) EXCEPT !.sku = s] :
            p \in {"product", "recommendation"},
            s \in {"known", "unknown", "blank", "long", "unstorable"}}

MCSent == Called \cup Posted \cup Asked
============================================================================
