------------------------------- MODULE MCTftp -------------------------------
(***************************************************************************)
(* TLC instances of the TFTP download.  Ports and server sessions are      *)
(* interchangeable, so their permutations are a symmetry of the model.     *)
(***************************************************************************)
EXTENDS TftpInv, TLC

Symmetry == Permutations(Ports) \cup Permutations(Sessions)
=============================================================================
