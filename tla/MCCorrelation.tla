--------------------------- MODULE MCCorrelation ---------------------------
EXTENDS Correlation

CONSTANTS r1
OneReader == {r1}
=============================================================================
