------------------------------- MODULE MCHIL -------------------------------
(* Instances of HIL for TLC.                                               *)
EXTENDS HIL
=============================================================================
