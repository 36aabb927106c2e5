---------------------------- MODULE MCTelemetry ----------------------------
(* Telemetry for TLC. *)
EXTENDS Telemetry
=============================================================================
