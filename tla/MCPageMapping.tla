--------------------------- MODULE MCPageMapping ---------------------------
(* Instances of PageMapping for TLC; the configurations give the geometry, *)
(* the policies and the commands.                                          *)
EXTENDS PageMapping
=============================================================================
