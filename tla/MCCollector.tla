---------------------------- MODULE MCCollector ----------------------------
EXTENDS CollectorInvariant
CONSTANTS o1, o2
MCObjects2 == {o1, o2}
MCObjects1 == {o1}
=============================================================================
