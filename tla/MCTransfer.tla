----------------------------- MODULE MCTransfer -----------------------------
(***************************************************************************)
(* Small instances of Transfer and RangeRead for TLC.                      *)
(***************************************************************************)
EXTENDS RangeReadProperties
=============================================================================
