-------------------------- MODULE MCSettleTrigger --------------------------
(* One account over two days with three restarts.                          *)
EXTENDS SettleTrigger
=============================================================================
