----------------------------- MODULE MCPerfPool -----------------------------
\* Small instances of PerfPool: two dumps per kind, one at a time; a long clock
\* without trouble, or one trouble and a short clock.
EXTENDS PerfPool

TwoEach == [k \in Kinds |-> 2]
LongOrTroubled == {<<0, 3>>, <<1, 1>>}
=============================================================================
