------------------------------ MODULE MCSerial ------------------------------
(* Two threads on a port.  The main thread makes any two calls; the other  *)
(* makes one of those that move bytes, take both locks or change the port. *)
EXTENDS Serial

MCThread    == {"main", "other"}
MCPlatforms == {"unix", "windows"}
MCCalls     == [main |-> Ops, other |-> {"read", "write", "setPort"}]
MCMaxCalls  == [main |-> 2, other |-> 1]
==============================================================================
