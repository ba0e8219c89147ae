----------------------------- MODULE MCLifecycle -----------------------------
(* The commands, and which of them a run is about.                         *)
EXTENDS Lifecycle

AllCommands == {"start", "stop", "status", "login", "get"}
StartStop   == {"start", "stop"}
StartGet    == {"start", "get"}
=============================================================================
