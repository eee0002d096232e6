---------------------------- MODULE MCSupervisor ----------------------------
(* Instances of Supervisor for TLC. *)
EXTENDS SupervisorProps

CONSTANTS c1, c2   \* configurations

MCConfig == {c1, c2}
=============================================================================
