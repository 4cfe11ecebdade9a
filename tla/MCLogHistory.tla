---------------------------- MODULE MCLogHistory ----------------------------
(***************************************************************************)
(* LogHistory for TLC.                                                     *)
(***************************************************************************)
EXTENDS LogHistory
=============================================================================
