------------------------------ MODULE MCProfile ------------------------------
(***************************************************************************)
(* Instances of Profile for TLC.                                           *)
(***************************************************************************)
EXTENDS Profile

\* One amount tells every counted receipt from one that is not.
MCAmounts == {1}

=============================================================================
