------------------------- MODULE MCToolCallExecution -------------------------
(* Small instances of ToolCallExecution for TLC.                           *)
EXTENDS ToolCallExecution
=============================================================================
