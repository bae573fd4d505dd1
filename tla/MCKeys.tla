------------------------------ MODULE MCKeys ------------------------------
(***************************************************************************)
(* TLC instances of the input driver of the board keys.                    *)
(***************************************************************************)
EXTENDS Tq2440Keys
=============================================================================
