--------------------------- MODULE MCManagerMode ---------------------------
(* The code's thresholds, and more urgent llm-heavy tasks than one claim takes. *)
EXTENDS ManagerMode
=============================================================================
