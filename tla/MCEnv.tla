------------------------------- MODULE MCEnv -------------------------------
(***************************************************************************)
(* TLC instances of the environment in NAND.                               *)
(***************************************************************************)
EXTENDS EnvNand

SetOf(lens) == {[len |-> l, text |-> t] : l \in lens, t \in {"x", "y"}}
OneAndTwo == SetOf({1, 2})
\* bootcmd in the default environment.
DefaultEnv == "bootcmd" :> [len |-> 1, text |-> "x"]
=============================================================================
