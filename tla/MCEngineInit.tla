---------------------------- MODULE MCEngineInit ----------------------------
(* Three callers, each calling twice, asynchronously or synchronously.     *)
EXTENDS EngineInit

CONSTANTS a, b, c

MCCallers == {a, b, c}
=============================================================================
