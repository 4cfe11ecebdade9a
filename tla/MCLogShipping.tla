---------------------------- MODULE MCLogShipping ----------------------------
(***************************************************************************)
(* LogShipping for TLC.                                                    *)
(***************************************************************************)
EXTENDS LogShipping
=============================================================================
