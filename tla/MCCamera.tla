------------------------------ MODULE MCCamera ------------------------------
(***************************************************************************)
(* TLC instance of the camera driver: one process, or two that share it.   *)
(***************************************************************************)
EXTENDS Ov9650Camif

ASSUME UserAssumption == "p" \in Procs

VARIABLES
    users,          \* the processes that use the camera in a behaviour
    crossed         \* history: an open has started the line anew since the first of
                    \* the copies under way began

MCInit == CamInit /\ users \in {{"p"}, Procs} /\ crossed = FALSE
MCNext ==
    /\ CamNext
    /\ \A p \in Procs \ users : pc'[p] = "closed"
    /\ crossed' = (Copying' /\ (crossed \/ (~irqs /\ irqs')))
    /\ UNCHANGED users

MCVars == <<vars, users, crossed>>
MCSpec ==
    /\ MCInit /\ [][MCNext]_MCVars
    /\ CamFairness

\* While processes copy, no buffer becomes valid under their hands, however their
\* copies overlap: disable_irq and enable_irq count.  Unless, that is, an open has
\* started the line anew in the meantime (OffWhileCopying).
CopyUndisturbed == [][Copying /\ ~crossed => valid' \subseteq valid]_MCVars

\* One process has the camera, and no signal has cut a read short.
Alone == users = {"p"} /\ signals = 0

\* A read gives a picture that was taken after it began, wherever the interrupt
\* falls between the start of the capture and the command to stop it.
ReadIsFresh == Alone => got["p"] \in {"none", "reading", "fresh"}

\* The engine writes only to buffers that are allocated, and none is freed twice,
\* whatever opens fail for want of memory.
BuffersLive ==
    Alone =>
        /\ capture => \A b \in Buffers : base[b] = "live"
        /\ ~doublefree

\* A read comes to its end if request_irq has succeeded: the command to stop is
\* always seen by an interrupt.
ReadEnds ==
    [](Alone /\ (Reading("p") => irqs)) => (Reading("p") ~> ~Reading("p"))
-----------------------------------------------------------------------------
(***************************************************************************)
(* The inductive invariant of a process that has the camera alone.  The    *)
(* engine runs exactly from the start of the capture until the interrupt   *)
(* has seen the command to stop, so that no interrupt, no valid buffer and *)
(* no picture of one read is left for the next.                            *)
(***************************************************************************)
EngineFollowsRead ==
    /\ cmdcode = "stop" => pc["p"] = "wait"
    /\ capture <=> pc["p"] = "armed" \/ cmdcode = "stop"
    /\ pc["p"] \in {"start", "armed"} \/ cmdcode = "stop" => state = "previewing"
    /\ pc["p"] \in {"buffers", "irqs", "reset"} => state = "ready"
    /\ pend => capture /\ "p" \in picture[Frame]

BuffersFollowOpen ==
    /\ pc["p"] \notin {"closed", "buffers"} => \A b \in Buffers : base[b] = "live"
    /\ ~doublefree

\* The interrupt has stopped the capture for the read that waits or copies.
Stopped == pc["p"] = "copy" \/ (pc["p"] = "wait" /\ cmdcode = "none")

ValidIsFresh ==
    /\ ~Stopped => valid = {}
    /\ \A b \in valid : "p" \in picture[b]
    /\ pc["p"] = "copy" => \A b \in valid : b >= at["p"]
    /\ Stopped /\ got["p"] # "fresh" => valid # {}
    /\ pc["p"] \in {"start", "armed", "wait"} => got["p"] = "reading"
    /\ got["p"] = "reading" => Reading("p")
    /\ got["p"] \in {"none", "fresh", "reading"}
    /\ pc["p"] = "copy" => got["p"] # "none"

AloneInv ==
    Alone =>
        /\ \A q \in Procs \ {"p"} : pc[q] = "closed"
        /\ pc["p"] # "config"
        /\ EngineFollowsRead /\ BuffersFollowOpen /\ ValidIsFresh
=============================================================================
