-------------------------- MODULE MCCanboatDecoder --------------------------
EXTENDS CanboatDecoder

CONSTANT health
OneChecker == {health}
NoChecker == {}
=============================================================================
