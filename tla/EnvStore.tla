------------------------------ MODULE EnvStore ------------------------------
(***************************************************************************)
(* What U-Boot promises of its environment: variables in RAM that can be   *)
(* changed and saved, and one saved copy that a boot loads.  A save that   *)
(* is under way may lose the saved copy, and the defaults then stand for   *)
(* it; it never leaves anything but the old copy, the defaults or what is  *)
(* being saved.                                                            *)
(***************************************************************************)
CONSTANTS Envs, Default

VARIABLES env, stored, saving

StoreInit == env = stored /\ stored \in Envs /\ saving = "no"

\* setenv, while nothing is being saved.
Change ==
    /\ saving = "no"
    /\ env' \in Envs
    /\ UNCHANGED <<stored, saving>>

Begin == saving = "no" /\ saving' = "yes" /\ UNCHANGED <<env, stored>>

\* The saved copy is lost; the save may end with that.
Lose ==
    /\ saving = "yes"
    /\ stored' = Default
    /\ UNCHANGED env
    /\ saving' \in {"yes", "no"}

GiveUp == saving = "yes" /\ saving' = "no" /\ UNCHANGED <<env, stored>>

Commit ==
    /\ saving = "yes"
    /\ stored' = env
    /\ saving' = "no"
    /\ UNCHANGED env

\* The power fails or the board is reset, and the board boots.
Boot ==
    /\ stored' \in {stored} \cup (IF saving = "yes" THEN {Default, env} ELSE {})
    /\ env' = stored'
    /\ saving' = "no"

StoreNext == Change \/ Begin \/ Lose \/ GiveUp \/ Commit \/ Boot

StoreSpec == StoreInit /\ [][StoreNext]_<<env, stored, saving>>
=============================================================================
