----------------------------- MODULE MCUiClient -----------------------------
(* Instances of UiClient for TLC. *)
EXTENDS UiClientProps
=============================================================================
