------------------------ MODULE MCCreditScheduler ------------------------
(* Instances of CreditScheduler for TLC.                                   *)
EXTENDS CreditScheduler

CONSTANTS u1, u2

MCUserOrder == <<u1, u2>>

=============================================================================
