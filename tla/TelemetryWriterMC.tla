------------------------- MODULE TelemetryWriterMC -------------------------
(* The telemetry service on a topic of a few readings.                       *)
EXTENDS TelemetryWriter

CONSTANT s1
=============================================================================
