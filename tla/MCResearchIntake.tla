--------------------------- MODULE MCResearchIntake ---------------------------
EXTENDS ResearchIntake, TLC

CONSTANTS a, b, c1, c2, bars, factors

TwoCallers == {c1, c2}
TwoNames == {bars, factors}
NamesAndCallers == Permutations(TwoCallers) \union Permutations(TwoNames)

Row(s, d) == [symbol |-> s, date |-> d]

Contract ==
  [kind |-> "table", formats |-> {"date"}, key |-> {"symbol", "date"}, timezone |-> TRUE,
   types |-> [symbol |-> "string", date |-> "date"], units |-> {}, declared |-> FALSE,
   pointInTime |-> FALSE]

Source(rows, flaw) == [contract |-> Contract, rows |-> rows, flaw |-> flaw]

\* A clean table, one with a date that is none, and one that exceeds its limits.
SmallSources ==
  {Source(<<Row(a, 10), Row(b, 10)>>, None), Source(<<Row(a, 10), Row(b, Bad)>>, None),
   Source(<<Row(a, 20)>>, "limits")}

SmallQueries == {Whole}
===============================================================================
