---------------------------- MODULE MCFileJournal ----------------------------
(***************************************************************************)
(* An instance of FileJournal for TLC.                                     *)
(***************************************************************************)
EXTENDS FileJournal

=============================================================================
