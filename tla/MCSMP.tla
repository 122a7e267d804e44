-------------------------------- MODULE MCSMP --------------------------------
(***************************************************************************)
(* Instances of SMP for TLC.                                               *)
(***************************************************************************)
EXTENDS SMP
=============================================================================
