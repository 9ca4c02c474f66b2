-------------------------- MODULE MCHeliosExecution -------------------------
(* HeliosExecution for TLC.                                                *)
EXTENDS HeliosExecution

=============================================================================
