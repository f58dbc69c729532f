----------------------------- MODULE MCToolCalls -----------------------------
(* TLC instance of ToolCalls: three runs against either store. *)
EXTENDS ToolCalls

MCStores == {"memory", "redis"}
=============================================================================
