--------------------------- MODULE MCKeeneticCLI ---------------------------
(* Instances of KeeneticCLI for TLC. *)
EXTENDS KeeneticCLIProps
=============================================================================
