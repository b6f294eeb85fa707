-------------------------- MODULE MCNormalizedStore --------------------------
EXTENDS NormalizedStore, TLC
CONSTANTS p1, p2, old, b1, b2

\* b1 and b2 give one event id two contents, and b2 conflicts with nothing older.
TwoConflict == {<<b1, b2>>, <<b2, b1>>}
===============================================================================
