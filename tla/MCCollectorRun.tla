--------------------------- MODULE MCCollectorRun ---------------------------
EXTENDS CollectorRun, TLC
CONSTANTS s1, s2, s3
MCStreams == {s1, s2, s3}
MCSymmetry == Permutations(MCStreams)
=============================================================================
