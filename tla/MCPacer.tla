------------------------------ MODULE MCPacer -------------------------------
(* TLC instance of Pacer: every constant gets its value in the cfg.        *)
EXTENDS Pacer
=============================================================================
