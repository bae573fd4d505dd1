---------------------------- MODULE Ov9650Camif ----------------------------
(***************************************************************************)
(* The camera driver (linux-2.6.30.4/drivers/media/video/tq2440/ov9650.c): *)
(* open, read and release of /dev/camera, the interrupt of the preview     *)
(* path and the capture engine that writes pictures to four buffers.       *)
(*                                                                         *)
(* The kernel has one CPU and no preemption: processes change only where   *)
(* one sleeps, an interrupt comes anywhere.  The codec path is never       *)
(* started, so on_camif_irq_c ends at its first test and its line is left  *)
(* out.  The engine writes nothing after CIIMGCPT has been cleared, and    *)
(* the last interrupt of a capture, which comes after that, finds          *)
(* capturing off.  A picture is known by the reads that had begun when it  *)
(* was taken.                                                              *)
(***************************************************************************)
EXTENDS Integers, FiniteSets

CONSTANTS
    Procs,
    NBuf,           \* number of image buffers, 4
    MaxSignals      \* bound on the signals

ASSUME CamAssumption ==
    IsFiniteSet(Procs) /\ NBuf \in Nat \ {0} /\ MaxSignals \in Nat

Buffers == 0 .. NBuf - 1

VARIABLES
    pc,             \* of a process: "closed", in open: "buffers", "irqs", "reset",
                    \* "config"; "open"; in read: "start", "armed", "wait", "copy"
    state,          \* pdev->state: "free", "ready", "previewing"
    cmdcode,        \* pdev->cmdcode: "none", "stop"
    base,           \* virt_base of a buffer: "null", "live", "freed" (stale)
    valid,          \* buffers whose state is CAMIF_BUFF_RGB565
    picture,        \* for every buffer the reads that began before its picture
    capture,        \* CIIMGCPT: capturing is on
    cnt,            \* FrameCnt: the buffer that is written next
    pend,           \* an interrupt is pending
    irqs,           \* on_camif_irq_p is installed
    irqoff,         \* depth of disable_irq on its line
    clk,            \* users of the clock
    at,             \* loop variable of camif_read
    got,            \* outcome of a read: "none", "reading", "nothing", "old",
                    \* "fresh", "freed"
    doublefree,     \* pages have been freed twice
    signals

engine == <<capture, cnt, pend>>
buffers == <<base, valid, picture, doublefree>>
driver == <<state, cmdcode, irqs, irqoff, clk>>
readers == <<at, got, signals>>
vars == <<pc, driver, buffers, engine, readers>>

\* Nobody is in a part of the driver that does not sleep.
CpuFree == \A p \in Procs : pc[p] \notin {"start", "armed"}
Goto(p, l) == pc' = [pc EXCEPT ![p] = l]
Reading(p) == pc[p] \in {"start", "armed", "wait", "copy"}

-----------------------------------------------------------------------------
(***************************************************************************)
(* The capture engine and the interrupt of the preview path.               *)
(***************************************************************************)
FrameDone ==
    /\ capture /\ clk > 0
    /\ picture' = [picture EXCEPT ![cnt] = {p \in Procs : Reading(p)}]
    /\ cnt' = (cnt + 1) % NBuf
    /\ pend' = TRUE
    /\ UNCHANGED <<pc, driver, base, valid, doublefree, capture, readers>>

\* The buffer that was written last.
Frame == (cnt + NBuf - 1) % NBuf

\* stop_capture.
StopCapture == capture' = (capture /\ state # "previewing")

\* Wrong on purpose: the picture is expected in the buffer that is written next.
IrqNextFrame ==
    /\ pend /\ irqs /\ irqoff = 0
    /\ pend' = FALSE
    /\ \/ ~capture /\ UNCHANGED <<valid, capture, state, cmdcode>>
       \/ /\ capture
          /\ cmdcode' = "none"
          /\ IF cmdcode = "stop"
             THEN valid' = valid \cup {cnt} /\ StopCapture /\ state' = "ready"
             ELSE valid' = {} /\ UNCHANGED <<capture, state>>
    /\ UNCHANGED <<pc, base, picture, doublefree, cnt, irqs, irqoff, clk, readers>>

\* Wrong on purpose: the command to stop is not recognised, and is kept.
IrqKeepsCommand ==
    /\ pend /\ irqs /\ irqoff = 0
    /\ pend' = FALSE
    /\ valid' = IF capture THEN {} ELSE valid
    /\ UNCHANGED <<pc, driver, base, picture, doublefree, capture, cnt, readers>>

\* on_camif_irq_p; while capturing is off the interrupt is not its own.
Irq ==
    /\ pend /\ irqs /\ irqoff = 0
    /\ pend' = FALSE
    /\ \/ ~capture /\ UNCHANGED <<valid, capture, state, cmdcode>>
       \/ /\ capture
          /\ cmdcode' = "none"
          /\ IF cmdcode = "stop"
             THEN valid' = valid \cup {Frame} /\ StopCapture /\ state' = "ready"
             ELSE valid' = {} /\ UNCHANGED <<capture, state>>
    /\ UNCHANGED <<pc, base, picture, doublefree, cnt, irqs, irqoff, clk, readers>>

-----------------------------------------------------------------------------
(***************************************************************************)
(* camif_open.                                                             *)
(***************************************************************************)

\* The registers are set directly, as the state is ready.
Open(p) ==
    /\ CpuFree
    /\ pc[p] = "closed"
    /\ state' = "ready"
    /\ Goto(p, "buffers")
    /\ UNCHANGED <<cmdcode, irqs, irqoff, clk, buffers, engine, readers>>

\* init_image_buffer and invalid_image_buffer.
InitImageBuffer(p) ==
    /\ CpuFree
    /\ pc[p] = "buffers"
    /\ base' = [b \in Buffers |-> "live"]
    /\ valid' = {}
    /\ Goto(p, "irqs")
    /\ UNCHANGED <<driver, picture, doublefree, engine, readers>>

\* Wrong on purpose: the result of init_image_buffer is not looked at.
NoMemoryIgnored(p, n) ==
    /\ CpuFree
    /\ pc[p] = "buffers"
    /\ base' = [b \in Buffers |-> IF b < n THEN "freed" ELSE IF b = n THEN "null" ELSE base[b]]
    /\ Goto(p, "irqs")
    /\ UNCHANGED <<driver, valid, picture, doublefree, engine, readers>>

\* There is no memory for buffer n: those before it are freed, and their virt_base
\* stays.
NoMemory(p, n) ==
    /\ CpuFree
    /\ pc[p] = "buffers"
    /\ base' = [b \in Buffers |-> IF b < n THEN "freed" ELSE IF b = n THEN "null" ELSE base[b]]
    /\ Goto(p, "closed")
    /\ UNCHANGED <<driver, valid, picture, doublefree, engine, readers>>

\* request_irq on a line without a handler starts the line, however often it was
\* disabled.  When there is one already, or no memory, it fails: the result is not
\* looked at.
RequestIrq(p) ==
    /\ CpuFree
    /\ pc[p] = "irqs"
    /\ \/ ~irqs /\ irqs' = TRUE /\ irqoff' = 0
       \/ UNCHANGED <<irqs, irqoff>>
    /\ Goto(p, "reset")
    /\ UNCHANGED <<state, cmdcode, clk, buffers, engine, readers>>

\* clk_enable, soft_reset_camif and update_camif_config, which waits when a
\* process is capturing.
SoftReset(p) ==
    /\ CpuFree
    /\ pc[p] = "reset"
    /\ clk' = clk + 1
    /\ capture' = FALSE
    /\ Goto(p, IF state = "previewing" THEN "config" ELSE "open")
    /\ UNCHANGED <<state, cmdcode, irqs, irqoff, buffers, cnt, pend, readers>>

Configured(p) ==
    /\ CpuFree
    /\ pc[p] = "config" /\ cmdcode = "none"
    /\ Goto(p, "open")
    /\ UNCHANGED <<driver, buffers, engine, readers>>

-----------------------------------------------------------------------------
(***************************************************************************)
(* camif_read and start_capture.                                           *)
(***************************************************************************)
ReadBegin(p) ==
    /\ CpuFree
    /\ pc[p] = "open"
    /\ state' = "previewing"
    /\ picture' = [b \in Buffers |-> picture[b] \ {p}]
    /\ got' = [got EXCEPT ![p] = "reading"]
    /\ Goto(p, "start")
    /\ UNCHANGED <<cmdcode, irqs, irqoff, clk, base, valid, doublefree, engine, at, signals>>

CaptureOn(p) ==
    /\ pc[p] = "start"
    /\ capture' = TRUE
    /\ Goto(p, "armed")
    /\ UNCHANGED <<driver, buffers, cnt, pend, readers>>

Command(p) ==
    /\ pc[p] = "armed"
    /\ cmdcode' = "stop"
    /\ Goto(p, "wait")
    /\ UNCHANGED <<state, irqs, irqoff, clk, buffers, engine, readers>>

\* wait_event_interruptible, then disable_irq of both interrupts.
Wake(p) ==
    /\ CpuFree
    /\ pc[p] = "wait" /\ cmdcode = "none"
    /\ irqoff' = irqoff + 1
    /\ at' = [at EXCEPT ![p] = 0]
    /\ Goto(p, "copy")
    /\ UNCHANGED <<state, cmdcode, irqs, clk, buffers, engine, got, signals>>

\* A signal: -ERESTARTSYS.
Signal(p) ==
    /\ CpuFree
    /\ pc[p] = "wait" /\ cmdcode # "none"
    /\ signals < MaxSignals
    /\ signals' = signals + 1
    /\ got' = [got EXCEPT ![p] = "none"]
    /\ Goto(p, "open")
    /\ UNCHANGED <<driver, buffers, engine, at>>

Copied(p, b) ==
    IF base[b] # "live" THEN "freed" ELSE IF p \in picture[b] THEN "fresh" ELSE "old"

\* One turn of the loop; every valid buffer is copied to the same place.
CopyBuffer(p) ==
    /\ CpuFree
    /\ pc[p] = "copy" /\ at[p] < NBuf
    /\ at' = [at EXCEPT ![p] = @ + 1]
    /\ valid' = valid \ {at[p]}
    /\ got' = IF at[p] \in valid THEN [got EXCEPT ![p] = Copied(p, at[p])] ELSE got
    /\ UNCHANGED <<pc, driver, base, picture, doublefree, engine, signals>>

\* Wrong on purpose: the interrupts are enabled whoever else has disabled them.
CopyEndEnables(p) ==
    /\ CpuFree
    /\ pc[p] = "copy" /\ at[p] = NBuf
    /\ irqoff' = 0
    /\ got' = [got EXCEPT ![p] = IF @ = "reading" THEN "nothing" ELSE @]
    /\ Goto(p, "open")
    /\ UNCHANGED <<state, cmdcode, irqs, clk, buffers, engine, at, signals>>

\* enable_irq; on a line that is enabled it only warns.
CopyEnd(p) ==
    /\ CpuFree
    /\ pc[p] = "copy" /\ at[p] = NBuf
    /\ irqoff' = IF irqoff = 0 THEN 0 ELSE irqoff - 1
    /\ got' = [got EXCEPT ![p] = IF @ = "reading" THEN "nothing" ELSE @]
    /\ Goto(p, "open")
    /\ UNCHANGED <<state, cmdcode, irqs, clk, buffers, engine, at, signals>>

-----------------------------------------------------------------------------
\* free_image_buffer; free_pages does nothing for a null address.
FreeImageBuffer ==
    /\ base' = [b \in Buffers |-> "null"]
    /\ doublefree' = (doublefree \/ \E b \in Buffers : base[b] = "freed")

\* camif_release.
Release(p) ==
    /\ CpuFree
    /\ pc[p] = "open"
    /\ clk' = clk - 1
    /\ irqs' = FALSE
    /\ FreeImageBuffer
    /\ got' = [got EXCEPT ![p] = "none"]
    /\ Goto(p, "closed")
    /\ UNCHANGED <<state, cmdcode, irqoff, valid, picture, engine, at, signals>>

-----------------------------------------------------------------------------
\* After camif_init, which keeps the clock on.
CamInit ==
    /\ pc = [p \in Procs |-> "closed"]
    /\ state = "free" /\ cmdcode = "none"
    /\ base = [b \in Buffers |-> "null"] /\ valid = {}
    /\ picture = [b \in Buffers |-> {}]
    /\ capture = FALSE /\ cnt = 0 /\ pend = FALSE
    /\ irqs = FALSE /\ irqoff = 0 /\ clk = 1
    /\ at = [p \in Procs |-> 0] /\ got = [p \in Procs |-> "none"]
    /\ doublefree = FALSE /\ signals = 0

GoOn(p) ==
    \/ InitImageBuffer(p) \/ (\E n \in Buffers : NoMemory(p, n))
    \/ RequestIrq(p) \/ SoftReset(p) \/ Configured(p)
    \/ CaptureOn(p) \/ Command(p) \/ Wake(p) \/ CopyBuffer(p) \/ CopyEnd(p)
Call(p) == Open(p) \/ ReadBegin(p) \/ Release(p) \/ Signal(p)

CamNext ==
    \/ FrameDone \/ Irq
    \/ \E p \in Procs : GoOn(p) \/ Call(p)

CamSpec == CamInit /\ [][CamNext]_vars

\* The camera delivers frames, interrupts are served, and a process that can go on
\* does.
CamFairness ==
    /\ WF_vars(FrameDone) /\ WF_vars(Irq)
    /\ \A p \in Procs : WF_vars(GoOn(p))

-----------------------------------------------------------------------------
CamTypeOK ==
    /\ pc \in [Procs -> {"closed", "buffers", "irqs", "reset", "config", "open", "start",
                         "armed", "wait", "copy"}]
    /\ state \in {"free", "ready", "previewing"} /\ cmdcode \in {"none", "stop"}
    /\ base \in [Buffers -> {"null", "live", "freed"}] /\ valid \subseteq Buffers
    /\ picture \in [Buffers -> SUBSET Procs]
    /\ {capture, pend, irqs, doublefree} \subseteq BOOLEAN
    /\ cnt \in Buffers
    /\ irqoff \in 0 .. Cardinality({p \in Procs : pc[p] = "copy"})
    /\ clk = 1 + Cardinality({p \in Procs : Reading(p) \/ pc[p] \in {"open", "config"}})
    /\ at \in [Procs -> 0 .. NBuf]
    /\ got \in [Procs -> {"none", "reading", "nothing", "old", "fresh", "freed"}]
    /\ signals \in 0 .. MaxSignals

Copying == \E p \in Procs : pc[p] = "copy"

\* What disable_irq around the copy (camif_read) is for: while processes copy, no
\* buffer becomes valid under their hands.
OffWhileCopying == [][Copying => valid' \subseteq valid]_vars

\* "setup ISRs" (camif_open): a process that reads has a handler.
ReaderHasHandler == \A p \in Procs : Reading(p) => irqs

\* "stop camif clock" (camif_release): when nobody has the camera open, the engine
\* does not run.
ClosedIsStopped == (\A p \in Procs : pc[p] = "closed") => ~(capture /\ clk > 0)

\* "free image buffers (only when the camif is latest close)": while the camera is
\* open for some process, the buffers are there.
BuffersWhileOpen ==
    \A p \in Procs : Reading(p) \/ pc[p] = "open" =>
        \A b \in Buffers : base[b] = "live"
=============================================================================
