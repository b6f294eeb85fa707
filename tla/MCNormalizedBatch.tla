-------------------------- MODULE MCNormalizedBatch --------------------------
EXTENDS NormalizedBatch

Row(s, k, p, q, i, o) == [stream |-> s, kind |-> k, prev |-> p, seq |-> q, id |-> i, ok |-> o]

\* A stream with a book and trades and a stream of trades; with Factor 3, update 1
\* has the levels 4 and 5, update 2 the levels 7 and 8.
SmallRows ==
  {Row("s", "snapshot", 0, 3, i, TRUE) : i \in {Unique, "x"}}
    \union {Row("s", "snapshot", 0, 6, Unique, TRUE)}
    \union {Row("s", "delta", p[1], p[2], i, TRUE) :
              p \in {<<3, 4>>, <<4, 5>>, <<4, 7>>}, i \in {Unique, "x"}}
    \union {Row("s", "delta", 5, 7, Unique, TRUE), Row("s", "delta", 5, 4, Unique, TRUE), Row("s", "delta", 3, 4, Unique, FALSE)}
    \union {Row("s", "trade", 0, 1, "x", TRUE), Row("t", "trade", 0, 1, "x", TRUE),
            Row("t", "trade", 0, 2, Unique, TRUE)}

SmallExpectations ==
  {{}, {[stream |-> "s", seq |-> n, right |-> TRUE] : n \in {4, 5}},
       {[stream |-> "s", seq |-> 5, right |-> FALSE]}}
===============================================================================
