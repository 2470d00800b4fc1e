------------------------------- MODULE Names --------------------------------
(***************************************************************************)
(* What a manifest, a roster row and a transcript all speak of: models and *)
(* efforts, by their names.                                                *)
(***************************************************************************)
CONSTANTS Model, Effort, NoEffort   \* what stands for an effort that is not named
=============================================================================
