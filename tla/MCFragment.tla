----------------------------- MODULE MCFragment -----------------------------
(***************************************************************************)
(* Instances of Fragment for TLC: an encoded message and a plain one with  *)
(* a comma, sent whole or in two pieces.                                   *)
(***************************************************************************)
EXTENDS Fragment

MCTexts == {<<"a", "b", "c">>, <<"a", ",", "b">>}
=============================================================================
