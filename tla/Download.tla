------------------------------ MODULE Download ------------------------------
(***************************************************************************)
(* What a network download promises its caller, whatever the wire does:    *)
(* the image in RAM only ever is a beginning of the file, it may grow or   *)
(* be started afresh, and success is reported only for the whole file.     *)
(***************************************************************************)
EXTENDS Integers

CONSTANT FileLen

VARIABLES status,   \* "idle", "loading"
          image,    \* function from 0..n-1: the image received so far
          returned  \* what the last call returned, -1 for a failure

Prefix(n) == [u \in 0..(n - 1) |-> u]

Init ==
    /\ status = "idle"
    /\ image = Prefix(0)
    /\ returned = -1

Begin ==
    /\ status' = "loading"
    /\ image' = Prefix(0)
    /\ UNCHANGED returned

Extend ==
    /\ status = "loading"
    /\ \E n \in 0..FileLen :
          /\ DOMAIN image \subseteq 0..(n - 1)
          /\ image' = Prefix(n)
    /\ UNCHANGED <<status, returned>>

Succeed ==
    /\ status = "loading"
    /\ image = Prefix(FileLen)
    /\ status' = "idle"
    /\ returned' = FileLen
    /\ UNCHANGED image

Fail ==
    /\ status' = "idle"
    /\ returned' = -1
    /\ UNCHANGED image

Next == Begin \/ Extend \/ Succeed \/ Fail

Spec == Init /\ [][Next]_<<status, image, returned>>
=============================================================================
