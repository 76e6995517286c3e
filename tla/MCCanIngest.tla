---------------------------- MODULE MCCanIngest ----------------------------
EXTENDS CanIngest

\* A PGN that telemetry reads, that or an identifier without a PGN, and that or
\* a PGN that telemetry does not read.
Traffic == <<{"rpm"}, {"rpm", "foreign"}, {"rpm", "other"}>>
=============================================================================
