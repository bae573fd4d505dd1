------------------------------- MODULE MCIrq -------------------------------
(***************************************************************************)
(* TLC instance of the key driver.  No symmetry: the run checks liveness.  *)
(***************************************************************************)
EXTENDS EmbedSkyIrq
=============================================================================
