------------------------- MODULE MCVesselTelemetry -------------------------
EXTENDS VesselTelemetry

CONSTANT health
OneChecker == {health}

Fix == [pgn |-> 129025, fields |-> {"Latitude", "Longitude"}]
HalfFix == [pgn |-> 129025, fields |-> {"Latitude"}]

AtSea == { <<Fix, Fix, HalfFix>> }
=============================================================================
