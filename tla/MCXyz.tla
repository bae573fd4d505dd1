------------------------------- MODULE MCXyz -------------------------------
(***************************************************************************)
(* TLC instances of the serial download.                                   *)
(***************************************************************************)
EXTENDS XyzLoad
=============================================================================
