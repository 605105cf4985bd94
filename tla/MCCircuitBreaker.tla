--------------------------- MODULE MCCircuitBreaker ----------------------------
(***************************************************************************)
(* CircuitBreaker for TLC, with the periods of resilience.go in ticks.     *)
(***************************************************************************)
EXTENDS CircuitBreaker

TickSeconds == 30
MCWindow == 60 \div TickSeconds
MCOpenPeriod == 30 \div TickSeconds
================================================================================
