-------------------------- MODULE MCPrekeyManager --------------------------
(***************************************************************************)
(* Instances of PrekeyManager for TLC.                                     *)
(***************************************************************************)
EXTENDS PrekeyManager

\* The prekey profile outlives the client profile.
MCLife == [k \in Kinds |-> IF k = "client" THEN 2 ELSE 3]
=============================================================================
