------------------------------ MODULE MCTouch ------------------------------
(***************************************************************************)
(* TLC instance of the touch screen and ADC drivers.                       *)
(***************************************************************************)
EXTENDS TouchAdc
=============================================================================
