------------------------------- MODULE MCBoot -------------------------------
(***************************************************************************)
(* A boot image of five sectors: five pages of a small chip, two and a half*)
(* of a large one with two sectors to the page, in blocks of two pages.    *)
(***************************************************************************)
EXTENDS BootCopy
=============================================================================
