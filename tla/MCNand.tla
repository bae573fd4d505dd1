------------------------------- MODULE MCNand -------------------------------
(***************************************************************************)
(* TLC instances of the nand commands.                                     *)
(***************************************************************************)
EXTENDS NandUtil
=============================================================================
