------------------------------ MODULE Metrics ------------------------------
(***************************************************************************)
(* The arithmetic of scripts/aggregate.py and of its auditor,              *)
(* scripts/postprocess-v4.py: a row per run directory, the metrics of a    *)
(* route over its rows, and the cost coverage added for publication.       *)
(*                                                                         *)
(* One token category stands for the four priced ones, at price 1; sums    *)
(* stand for means, beside the number of rows they are over.  Score,       *)
(* median, completion rates and tool counts are left out: they are         *)
(* aggregated as resolved, p95 and calls are.                              *)
(***************************************************************************)
EXTENDS Naturals, FiniteSets, FiniteSetsExt

CONSTANTS Tasks, Repeats, Routes,  \* of suite.json
          Null                     \* Python's None

ASSUME SuiteOK == Repeats \subseteq Tasks /\ IsFiniteSet(Tasks) /\ IsFiniteSet(Routes)

\* The experimental cells of the suite.
Attempts(t) == IF t \in Repeats THEN 1..3 ELSE {1}
Plan == UNION {{<<t, a, r>> : a \in Attempts(t), r \in Routes} : t \in Tasks}

Of(row, route) == row.identity[3] = route
Primary(rows, route) == {row \in rows : row.identity[2] = 1 /\ Of(row, route)}

\* money() of a count that may be None.
OrZero(value) == IF value = Null THEN 0 ELSE value
EquivalentCost(tokens) == OrZero(tokens)

\* What row() makes of a run directory that it can read: rows of a set are told apart by
\* their directory.
Row(dir, identity, found) ==
    [dir |-> dir, identity |-> identity, verified |-> found.verified,
     resolved |-> found.verified /\ found.success,
     wall |-> found.wall, calls |-> found.calls, tokens |-> found.tokens,
     status |-> found.status, cost |-> EquivalentCost(found.tokens)]

Sum(rows, Value(_)) == MapThenSumSet(Value, rows)
Cost(row) == row.cost
Calls(row) == row.calls
Resolved(rows) == {row \in rows : row.resolved}
Timed(rows) == {row \in rows : row.wall # Null}
Counted(rows) == {row \in rows : row.calls # Null}

\* The k-th of the wall times in order, from 1; Null when there are none.
Ranked(rows, k) ==
    IF Timed(rows) = {} THEN Null
    ELSE CHOOSE w \in {row.wall : row \in Timed(rows)} :
            /\ Cardinality({row \in Timed(rows) : row.wall < w}) < k
            /\ k <= Cardinality({row \in Timed(rows) : row.wall <= w})

\* int((n - 1) * 0.95), an index from 0.
P95(rows) == Ranked(rows, ((Cardinality(Timed(rows)) - 1) * 95) \div 100 + 1)

\* The repeated tasks whose three attempts are all resolved.
Consistent(rows, route) ==
    {t \in Repeats :
        LET items == {row \in rows : row.identity[1] = t /\ Of(row, route)}
        IN  Cardinality(items) = 3 /\ items = Resolved(items)}

\* aggregate() of one route.
RouteMetrics(rows, route) ==
    LET selected == Primary(rows, route) IN
    [runs |-> Cardinality(selected), resolved |-> Cardinality(Resolved(selected)),
     cost |-> Sum(selected, Cost),
     \* cost_per_resolved_task_usd, the cost to be divided by resolved
     perResolved |-> IF Resolved(selected) = {} THEN Null ELSE Sum(selected, Cost),
     p95 |-> P95(selected),
     calls |-> Sum(Counted(selected), Calls), counted |-> Cardinality(Counted(selected)),
     consistent |-> Cardinality(Consistent(rows, route))]

\* statistics.mean raises on no data, and is asked whenever the route has rows.
MeanRaises(rows) ==
    \E route \in Routes : Primary(rows, route) # {} /\ Counted(Primary(rows, route)) = {}

Metrics(rows) == [route \in Routes |-> RouteMetrics(rows, route)]

-----------------------------------------------------------------------------
(* The auditor.                                                            *)

\* load_inputs renames the status Hermes leaves empty.
Labelled(rows) ==
    {[row EXCEPT !.status = IF @ = Null THEN "usage_unavailable" ELSE @] : row \in rows}

\* load_inputs, of a row on its own; an empty status must come with no tokens and calls.
Loadable(row) ==
    /\ row.verified
    /\ row.status = Null => row.tokens = Null /\ row.cost = 0 /\ OrZero(row.calls) >= 1

\* audit_summary: the metrics again, and telemetry in every route.
AuditPasses(metrics, rows) ==
    \A route \in Routes :
        LET selected == Primary(rows, route) IN
        /\ Cardinality(selected) = Cardinality(Tasks)
        /\ Timed(selected) # {} /\ Counted(selected) # {}
        /\ metrics[route] = RouteMetrics(rows, route)

\* annotate_cost_coverage: the rows a route's mean cost is over.
Covered(rows, route) ==
    {row \in Primary(Labelled(rows), route) : row.status # "usage_unavailable"}
CoveragePasses(metrics, rows) ==
    \A route \in Routes :
        /\ Covered(rows, route) # {}
        /\ Sum(Covered(rows, route), Cost) = metrics[route].cost
Annotated(metrics, rows) ==
    [route \in Routes |->
        IF Cardinality(Covered(rows, route)) = Cardinality(Primary(rows, route)) THEN metrics[route]
        ELSE [metrics[route] EXCEPT !.perResolved = Null]]
=============================================================================
