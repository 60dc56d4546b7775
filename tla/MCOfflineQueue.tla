---------------------------- MODULE MCOfflineQueue ----------------------------
(***************************************************************************)
(* Instances of OfflineQueue for TLC.                                      *)
(***************************************************************************)
EXTENDS OfflineQueue

\* A sale and a credit note.
MCAmounts == {2, -1}

=============================================================================
