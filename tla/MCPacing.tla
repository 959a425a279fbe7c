------------------------------- MODULE MCPacing -------------------------------
(* Small numbers for microseconds; see pacing.cfg.                         *)
EXTENDS Pacing
===============================================================================
