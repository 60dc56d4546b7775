---------------------------- MODULE MCFiscalDevice ----------------------------
(***************************************************************************)
(* Instances of FiscalDevice for TLC.                                      *)
(***************************************************************************)
EXTENDS FiscalDevice

\* A sale and a credit note.
MCAmounts == {2, -1}

=============================================================================
