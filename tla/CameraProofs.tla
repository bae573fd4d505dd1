---------------------------- MODULE CameraProofs ----------------------------
(***************************************************************************)
(* Proofs about the camera driver, for any finite set of processes and any *)
(* number of buffers: what disable_irq protects when several processes     *)
(* read, and what one process may rely on when it has the camera alone.    *)
(***************************************************************************)
EXTENDS MCCamera, FiniteSetTheorems, TLAPS

-----------------------------------------------------------------------------
(***************************************************************************)
(* Counting the processes at some labels.                                  *)
(***************************************************************************)
Labels == {"closed", "buffers", "irqs", "reset", "config", "open", "start", "armed",
           "wait", "copy"}
ClockLabels == {"start", "armed", "wait", "copy", "open", "config"}
In(f, L) == {q \in Procs : f[q] \in L}

LEMMA InFinite ==
    ASSUME NEW f, NEW L
    PROVE  IsFiniteSet(In(f, L)) /\ Cardinality(In(f, L)) \in Nat
  <1>1. In(f, L) \in SUBSET Procs
    BY DEF In
  <1>2. IsFiniteSet(In(f, L))
    BY <1>1, CamAssumption, FS_Subset
  <1> QED
    BY <1>2, FS_CardinalityType

\* What one process that goes from one label to another does to the count.
LEMMA InMoves ==
    ASSUME pc \in [Procs -> Labels], NEW p \in Procs, NEW l \in Labels,
           pc' = [pc EXCEPT ![p] = l], NEW L
    PROVE  Cardinality(In(pc', L)) =
              Cardinality(In(pc, L)) + (IF l \in L THEN 1 ELSE 0)
                                    - (IF pc[p] \in L THEN 1 ELSE 0)
  <1>1. IsFiniteSet(In(pc, L)) /\ Cardinality(In(pc, L)) \in Nat
    BY InFinite
  <1>2. CASE l \in L
    <2>1. In(pc', L) = In(pc, L) \cup {p}
      BY <1>2 DEF In
    <2>2. p \in In(pc, L) <=> pc[p] \in L
      BY DEF In
    <2>3. Cardinality(In(pc, L) \cup {p}) =
             IF p \in In(pc, L) THEN Cardinality(In(pc, L)) ELSE Cardinality(In(pc, L)) + 1
      BY <1>1, FS_AddElement
    <2>4. Cardinality(In(pc', L)) =
             IF pc[p] \in L THEN Cardinality(In(pc, L)) ELSE Cardinality(In(pc, L)) + 1
      BY <2>1, <2>2, <2>3
    <2> QED
      BY <1>1, <1>2, <2>4
  <1>3. CASE l \notin L
    <2>1. In(pc', L) = In(pc, L) \ {p}
      BY <1>3 DEF In
    <2>2. p \in In(pc, L) <=> pc[p] \in L
      BY DEF In
    <2>3. Cardinality(In(pc, L) \ {p}) =
             IF p \in In(pc, L) THEN Cardinality(In(pc, L)) - 1 ELSE Cardinality(In(pc, L))
      BY <1>1, FS_RemoveElement
    <2>4. Cardinality(In(pc', L)) =
             IF pc[p] \in L THEN Cardinality(In(pc, L)) - 1 ELSE Cardinality(In(pc, L))
      BY <2>1, <2>2, <2>3
    <2> QED
      BY <1>1, <1>3, <2>4
  <1> QED
    BY <1>2, <1>3

-----------------------------------------------------------------------------
(***************************************************************************)
(* The type invariant, with the depth of disable_irq and the users of the  *)
(* clock.                                                                  *)
(***************************************************************************)
Counts ==
    /\ irqoff \in 0 .. Cardinality(In(pc, {"copy"}))
    /\ clk = 1 + Cardinality(In(pc, ClockLabels))

Types ==
    /\ pc \in [Procs -> Labels]
    /\ state \in {"free", "ready", "previewing"} /\ cmdcode \in {"none", "stop"}
    /\ base \in [Buffers -> {"null", "live", "freed"}] /\ valid \subseteq Buffers
    /\ picture \in [Buffers -> SUBSET Procs]
    /\ capture \in BOOLEAN /\ pend \in BOOLEAN /\ irqs \in BOOLEAN
    /\ doublefree \in BOOLEAN
    /\ cnt \in Buffers
    /\ at \in [Procs -> 0 .. NBuf]
    /\ got \in [Procs -> {"none", "reading", "nothing", "old", "fresh", "freed"}]
    /\ signals \in 0 .. MaxSignals

LEMMA TypeParts == CamTypeOK <=> Types /\ Counts
  <1>1. {p \in Procs : pc[p] = "copy"} = In(pc, {"copy"})
    BY DEF In
  <1>2. {p \in Procs : Reading(p) \/ pc[p] \in {"open", "config"}} = In(pc, ClockLabels)
    BY DEF In, Reading, ClockLabels
  <1> QED
    BY <1>1, <1>2 DEF CamTypeOK, Types, Counts, Labels

LEMMA TypePartsNext == CamTypeOK' <=> Types' /\ Counts'
  BY TypeParts, PTL

\* FrameCnt goes round the buffers, and the buffer before it is the one that
\* was written.
LEMMA Wraps ==
    ASSUME NEW n \in Buffers
    PROVE  /\ (n + 1) % NBuf \in Buffers
           /\ (((n + 1) % NBuf) + NBuf - 1) % NBuf = n
           /\ (n + NBuf - 1) % NBuf \in Buffers
  <1> USE CamAssumption DEF Buffers
  <1>1. CASE n + 1 < NBuf
    <2>1. (n + 1) % NBuf = n + 1
      BY <1>1
    <2>2. (n + NBuf) % NBuf = n
      OBVIOUS
    <2> QED
      BY <2>1, <2>2
  <1>2. CASE n + 1 = NBuf
    <2>1. (n + 1) % NBuf = 0
      BY <1>2
    <2> QED
      BY <1>2, <2>1
  <1> QED
    BY <1>1, <1>2
LEMMA TypesStart == CamInit => CamTypeOK
  <1> SUFFICES ASSUME CamInit PROVE Types /\ Counts
    BY TypeParts
  <1>1. Types
    <2>1. 0 \in Buffers /\ 0 \in 0 .. NBuf /\ 0 \in 0 .. MaxSignals
      BY CamAssumption DEF Buffers
    <2>2. pc \in [Procs -> Labels] /\ base \in [Buffers -> {"null", "live", "freed"}]
      BY DEF CamInit, Labels
    <2>3. picture \in [Buffers -> SUBSET Procs] /\ at \in [Procs -> 0 .. NBuf]
      BY <2>1 DEF CamInit
    <2>4. got \in [Procs -> {"none", "reading", "nothing", "old", "fresh", "freed"}]
      BY DEF CamInit
    <2> QED
      BY <2>1, <2>2, <2>3, <2>4 DEF CamInit, Types
  <1>2. In(pc, {"copy"}) = {} /\ In(pc, ClockLabels) = {}
    BY DEF CamInit, In, ClockLabels
  <1>3. Cardinality({}) = 0
    BY FS_EmptySet
  <1> QED
    BY <1>1, <1>2, <1>3 DEF CamInit, Counts

\* The engine and the interrupt move no process.
LEMMA EngineTypes ==
    ASSUME CamTypeOK, FrameDone \/ Irq
    PROVE  CamTypeOK'
  <1> USE TypeParts, TypePartsNext
  <1>1. CASE FrameDone
    <2>1. Types'
      BY <1>1, Wraps DEF Types, FrameDone, driver, readers
    <2> QED
      BY <1>1, <2>1 DEF Counts, In, FrameDone, driver
  <1>2. CASE Irq
    <2>1. Frame \in Buffers
      BY Wraps DEF Types, Frame
    <2>2. Types'
      BY <1>2, <2>1 DEF Types, Irq, StopCapture, readers
    <2> QED
      BY <1>2, <2>2 DEF Counts, In, Irq
  <1> QED
    BY <1>1, <1>2

\* A process that opens, reads or closes.
LEMMA ProcTypes ==
    ASSUME CamTypeOK, NEW p \in Procs, GoOn(p) \/ Call(p)
    PROVE  Types'
  <1> USE TypeParts, CamAssumption DEF Types, Labels, Goto
  <1>1. CASE InitImageBuffer(p) \/ (\E n \in Buffers : NoMemory(p, n)) \/ RequestIrq(p)
    <2>1. CASE InitImageBuffer(p)
      BY <2>1 DEF InitImageBuffer, driver, buffers, engine, readers
    <2>2. CASE \E n \in Buffers : NoMemory(p, n)
      BY <2>2 DEF NoMemory, driver, buffers, engine, readers
    <2>3. CASE RequestIrq(p)
      BY <2>3 DEF RequestIrq, driver, buffers, engine, readers
    <2> QED
      BY <1>1, <2>1, <2>2, <2>3
  <1>2. CASE SoftReset(p) \/ Configured(p) \/ CaptureOn(p) \/ Command(p)
    BY <1>2 DEF SoftReset, Configured, CaptureOn, Command, driver, buffers, engine, readers
  <1>3. CASE Wake(p)
    BY <1>3 DEF Wake, buffers, engine
  <1>4. CASE CopyBuffer(p)
    BY <1>4 DEF CopyBuffer, Copied, driver, engine, Buffers
  <1>5. CASE CopyEnd(p)
    BY <1>5 DEF CopyEnd, buffers, engine
  <1>6. CASE Open(p) \/ ReadBegin(p)
    BY <1>6 DEF Open, ReadBegin, buffers, engine, readers
  <1>7. CASE Release(p)
    BY <1>7 DEF Release, FreeImageBuffer, engine
  <1>8. CASE Signal(p)
    BY <1>8 DEF Signal, driver, buffers, engine
  <1> QED
    BY <1>1, <1>2, <1>3, <1>4, <1>5, <1>6, <1>7, <1>8 DEF GoOn, Call

\* disable_irq and enable_irq go in pairs, unless the line is started anew.
LEMMA IrqDepth ==
    ASSUME CamTypeOK, NEW p \in Procs, GoOn(p) \/ Call(p)
    PROVE  \/ irqoff' = irqoff /\ (pc'[p] = "copy" <=> pc[p] = "copy")
           \/ irqoff' = irqoff + 1 /\ pc'[p] = "copy" /\ pc[p] # "copy"
           \/ /\ irqoff' = IF irqoff = 0 THEN 0 ELSE irqoff - 1
              /\ pc'[p] # "copy" /\ pc[p] = "copy"
           \/ irqoff' = 0 /\ ~irqs /\ irqs' /\ pc'[p] # "copy" /\ pc[p] # "copy"
  BY TypeParts
  DEF GoOn, Call, InitImageBuffer, NoMemory, RequestIrq, SoftReset, Configured,
      CaptureOn, Command, Wake, CopyBuffer, CopyEnd, Open, ReadBegin, Release, Signal,
      Goto, Types, driver

\* So do clk_enable and clk_disable.
LEMMA ProcCounts ==
    ASSUME CamTypeOK, NEW p \in Procs, GoOn(p) \/ Call(p)
    PROVE  Counts'
  <1> DEFINE one(b) == IF b THEN 1 ELSE 0
  <1>1. CASE CopyBuffer(p)
    BY <1>1, TypeParts DEF CopyBuffer, Counts, driver
  <1>2. CASE ~CopyBuffer(p)
    <2>1. PICK l \in Labels :
             /\ pc' = [pc EXCEPT ![p] = l]
             /\ clk' = clk + one(l \in ClockLabels) - one(pc[p] \in ClockLabels)
      BY <1>2, TypeParts, InFinite
      DEF GoOn, Call, InitImageBuffer, NoMemory, RequestIrq, SoftReset, Configured,
          CaptureOn, Command, Wake, CopyEnd, Open, ReadBegin, Release, Signal, Goto,
          Labels, ClockLabels, Types, Counts, driver
    <2>2. pc \in [Procs -> Labels]
      BY TypeParts DEF Types
    <2>3. Cardinality(In(pc', {"copy"})) =
             Cardinality(In(pc, {"copy"})) + one(l \in {"copy"}) - one(pc[p] \in {"copy"})
      BY <2>1, <2>2, InMoves
    <2>4. Cardinality(In(pc', ClockLabels)) =
             Cardinality(In(pc, ClockLabels)) + one(l \in ClockLabels)
                                              - one(pc[p] \in ClockLabels)
      BY <2>1, <2>2, InMoves
    <2>5. Counts /\ Cardinality(In(pc, {"copy"})) \in Nat
                 /\ Cardinality(In(pc, ClockLabels)) \in Nat
      BY TypeParts, InFinite
    <2>6. pc'[p] = l
      BY <2>1, <2>2
    <2>7. irqoff' \in 0 .. Cardinality(In(pc', {"copy"}))
      <3>1. Cardinality(In(pc', {"copy"})) \in Nat
        BY InFinite
      <3> QED
        BY <2>3, <2>5, <2>6, <3>1, IrqDepth DEF Counts
    <2> QED
      BY <2>1, <2>4, <2>5, <2>7 DEF Counts
  <1> QED
    BY <1>1, <1>2

LEMMA TypesStep ==
    ASSUME CamTypeOK, [CamNext]_vars
    PROVE  CamTypeOK'
  <1>1. CASE UNCHANGED vars
    BY <1>1, TypeParts, TypePartsNext DEF Types, Counts, In, vars, driver, buffers, engine, readers
  <1>2. CASE CamNext
    BY <1>2, EngineTypes, ProcTypes, ProcCounts, TypePartsNext DEF CamNext
  <1> QED
    BY <1>1, <1>2

\* The variables of the driver keep their types: disable_irq is at most as deep as
\* there are processes that copy, so nobody leaves the line disabled behind, and the
\* clock has one user for every open file.
THEOREM CameraTypes == CamSpec => []CamTypeOK
  BY TypesStart, TypesStep, PTL DEF CamSpec

-----------------------------------------------------------------------------
(***************************************************************************)
(* Copying with the interrupts off.                                        *)
(***************************************************************************)

LEMMA ProcKeepsValid ==
    ASSUME NEW p \in Procs, GoOn(p) \/ Call(p)
    PROVE  valid' \subseteq valid
  BY DEF GoOn, Call, InitImageBuffer, NoMemory, RequestIrq, SoftReset, Configured,
         CaptureOn, Command, Wake, CopyBuffer, CopyEnd, Open, ReadBegin, Release, Signal,
         buffers

\* The instance for a chosen set of users is an instance of the driver.
LEMMA MCIsCam == MCSpec => CamSpec
  <1>1. MCInit => CamInit
    BY DEF MCInit
  <1>2. [MCNext]_MCVars => [CamNext]_vars
    BY DEF MCNext, MCVars
  <1> QED
    BY <1>1, <1>2, PTL DEF MCSpec, CamSpec

\* Until the line is started anew, it is disabled as often as processes copy.
DepthIsCopiers ==
    /\ crossed \in BOOLEAN
    /\ ~crossed => irqoff = Cardinality(In(pc, {"copy"}))

LEMMA DepthStarts == MCInit => DepthIsCopiers
  <1>1. MCInit => In(pc, {"copy"}) = {}
    BY DEF MCInit, CamInit, In
  <1> QED
    BY <1>1, FS_EmptySet DEF MCInit, CamInit, DepthIsCopiers

LEMMA DepthStep ==
    ASSUME CamTypeOK, DepthIsCopiers, [MCNext]_MCVars
    PROVE  DepthIsCopiers'
  <1> DEFINE n == Cardinality(In(pc, {"copy"}))
             one(b) == IF b THEN 1 ELSE 0
  <1>1. CASE UNCHANGED MCVars
    BY <1>1 DEF MCVars, vars, driver, DepthIsCopiers, In
  <1>2. CASE MCNext
    <2>1. crossed' \in BOOLEAN /\ (crossed' <=> Copying' /\ (crossed \/ (~irqs /\ irqs')))
      BY <1>2 DEF MCNext
    <2>2. CASE ~Copying'
      <3>1. In(pc', {"copy"}) = {}
        BY <2>2 DEF Copying, In
      <3>2. CamTypeOK'
        BY <1>2, TypesStep DEF MCNext
      <3>3. irqoff' = 0
        BY <3>1, <3>2, TypePartsNext, FS_EmptySet DEF Counts
      <3> QED
        BY <2>1, <3>1, <3>3, FS_EmptySet DEF DepthIsCopiers
    <2>3. CASE Copying'
      <3> SUFFICES ASSUME ~crossed, ~(~irqs /\ irqs')
                   PROVE  irqoff' = Cardinality(In(pc', {"copy"}))
        BY <2>1, <2>3 DEF DepthIsCopiers
      <3>1. irqoff = n /\ n \in Nat
        BY InFinite DEF DepthIsCopiers
      <3>2. CASE FrameDone \/ Irq
        <4>1. irqoff' = irqoff /\ pc' = pc
          BY <3>2 DEF FrameDone, Irq, driver
        <4> QED
          BY <3>1, <4>1 DEF In
      <3>3. ASSUME NEW p \in Procs, GoOn(p) \/ Call(p)
            PROVE  irqoff' = Cardinality(In(pc', {"copy"}))
        <4>1. PICK l \in Labels : pc' = [pc EXCEPT ![p] = l]
          BY <3>3, TypeParts
          DEF GoOn, Call, InitImageBuffer, NoMemory, RequestIrq, SoftReset, Configured,
              CaptureOn, Command, Wake, CopyBuffer, CopyEnd, Open, ReadBegin, Release,
              Signal, Goto, Labels, Types
        <4>2. pc \in [Procs -> Labels] /\ pc'[p] = l
          BY <4>1, TypeParts DEF Types
        <4>3. Cardinality(In(pc', {"copy"})) =
                 n + one(l \in {"copy"}) - one(pc[p] \in {"copy"})
          BY <4>1, <4>2, InMoves
        <4>4. pc[p] = "copy" => n # 0
          <5>1. pc[p] = "copy" => In(pc, {"copy"}) # {}
            BY DEF In
          <5> QED
            BY <5>1, InFinite, FS_EmptySet
        <4> QED
          BY <3>1, <3>3, <4>2, <4>3, <4>4, IrqDepth
      <3> QED
        BY <1>2, <3>2, <3>3 DEF MCNext, CamNext
    <2> QED
      BY <2>2, <2>3
  <1> QED
    BY <1>1, <1>2

LEMMA CopyStep ==
    ASSUME CamTypeOK, DepthIsCopiers, [MCNext]_MCVars, Copying, ~crossed
    PROVE  valid' \subseteq valid
  <1>1. In(pc, {"copy"}) # {}
    BY DEF In, Copying
  <1>2. irqoff # 0
    BY <1>1, InFinite, FS_EmptySet DEF DepthIsCopiers
  <1> QED
    BY <1>2, ProcKeepsValid DEF MCNext, MCVars, CamNext, Irq, FrameDone, vars, buffers

\* While processes copy, no buffer becomes valid under their hands, however their
\* reads overlap, until an open starts the line anew: the interrupt is off until the
\* last enable_irq.
THEOREM CopiesUndisturbed == MCSpec => CopyUndisturbed
  <1>1. CamTypeOK /\ DepthIsCopiers /\ [MCNext]_MCVars => DepthIsCopiers'
    BY DepthStep
  <1>2. CamTypeOK /\ DepthIsCopiers /\ [MCNext]_MCVars =>
           [Copying /\ ~crossed => valid' \subseteq valid]_MCVars
    BY CopyStep
  <1> QED
    BY <1>1, <1>2, DepthStarts, MCIsCam, CameraTypes, PTL DEF MCSpec, CopyUndisturbed
-----------------------------------------------------------------------------
(***************************************************************************)
(* One process that has the camera alone.                                  *)
(***************************************************************************)
AloneParts == pc["p"] # "config" /\ EngineFollowsRead /\ BuffersFollowOpen /\ ValidIsFresh

LEMMA AloneStarts == MCInit => AloneInv
  BY UserAssumption
  DEF MCInit, CamInit, AloneInv, EngineFollowsRead, BuffersFollowOpen, ValidIsFresh,
      Stopped, Reading

\* A picture the engine takes while the process reads is a fresh one.
LEMMA FrameAlone ==
    ASSUME Types, AloneParts, FrameDone
    PROVE  AloneParts'
  <1> USE UserAssumption
  <1>1. Reading("p")
    BY DEF AloneParts, EngineFollowsRead, FrameDone, Reading
  <1>2. picture' = [picture EXCEPT ![cnt] = {p \in Procs : Reading(p)}]
    BY DEF FrameDone
  <1>3. "p" \in picture'[cnt] /\ \A b \in Buffers : "p" \in picture[b] => "p" \in picture'[b]
    BY <1>1, <1>2 DEF Types
  <1>4. Frame' = cnt
    BY Wraps DEF Types, FrameDone, Frame
  <1>5. pc' = pc /\ capture /\ UNCHANGED <<driver, base, valid, doublefree, capture, readers>>
    BY DEF FrameDone
  <1>6. EngineFollowsRead'
    BY <1>3, <1>4, <1>5 DEF AloneParts, EngineFollowsRead, driver
  <1>7. BuffersFollowOpen'
    BY <1>5 DEF AloneParts, BuffersFollowOpen
  <1>8. ValidIsFresh'
    BY <1>3, <1>5 DEF AloneParts, ValidIsFresh, Types, Stopped, Reading, driver, readers
  <1> QED
    BY <1>5, <1>6, <1>7, <1>8 DEF AloneParts

\* The interrupt that sees the command makes valid the picture taken last.
LEMMA IrqAlone ==
    ASSUME Types, AloneParts, Irq
    PROVE  AloneParts'
  <1> USE UserAssumption
  <1>1. capture /\ "p" \in picture[Frame]
    BY DEF AloneParts, EngineFollowsRead, Irq
  <1>2. /\ UNCHANGED <<pc, base, picture, doublefree, cnt, readers>>
        /\ ~pend' /\ cmdcode' = "none" /\ Frame' = Frame
    BY <1>1 DEF Irq, Frame
  <1>3. CASE cmdcode = "stop"
    <2>1. ~capture' /\ valid' = {Frame}
      BY <1>1, <1>3 DEF AloneParts, EngineFollowsRead, ValidIsFresh, Stopped, Irq, StopCapture
    <2>2. pc["p"] = "wait"
      BY <1>3 DEF AloneParts, EngineFollowsRead
    <2> QED
      BY <1>1, <1>2, <2>1, <2>2
      DEF AloneParts, EngineFollowsRead, BuffersFollowOpen, ValidIsFresh, Stopped, Reading,
          readers
  <1>4. CASE cmdcode # "stop"
    <2>1. capture' /\ state' = state /\ valid' = {} /\ cmdcode = "none"
      BY <1>1, <1>4 DEF Irq, Types
    <2> QED
      BY <1>1, <1>2, <2>1
      DEF AloneParts, EngineFollowsRead, BuffersFollowOpen, ValidIsFresh, Stopped, Reading,
          readers
  <1> QED
    BY <1>3, <1>4

\* camif_open gives every buffer before the file is open.
LEMMA OpenAlone ==
    ASSUME Types, AloneParts,
           \/ Open("p") \/ InitImageBuffer("p") \/ (\E n \in Buffers : NoMemory("p", n))
           \/ RequestIrq("p") \/ SoftReset("p") \/ Configured("p")
    PROVE  AloneParts'
  <1> USE UserAssumption DEF Types, AloneParts, EngineFollowsRead, BuffersFollowOpen,
              ValidIsFresh, Stopped, Reading, Frame, Goto
  <1>1. CASE Open("p")
    BY <1>1 DEF Open, buffers, engine, readers
  <1>2. CASE InitImageBuffer("p")
    BY <1>2 DEF InitImageBuffer, driver, engine, readers
  <1>3. CASE \E n \in Buffers : NoMemory("p", n)
    BY <1>3 DEF NoMemory, driver, engine, readers
  <1>4. CASE RequestIrq("p")
    BY <1>4 DEF RequestIrq, buffers, engine, readers
  <1>5. CASE SoftReset("p")
    BY <1>5 DEF SoftReset, buffers, readers
  <1>6. CASE Configured("p")
    BY <1>6 DEF Configured
  <1> QED
    BY <1>1, <1>2, <1>3, <1>4, <1>5, <1>6

\* camif_read finds no interrupt and no valid buffer of an earlier read, and
\* copies what the interrupt has made valid.
LEMMA ReadAlone ==
    ASSUME Types, AloneParts,
           \/ ReadBegin("p") \/ CaptureOn("p") \/ Command("p") \/ Wake("p")
           \/ CopyBuffer("p") \/ CopyEnd("p")
    PROVE  AloneParts'
  <1> USE UserAssumption DEF Types, AloneParts, EngineFollowsRead, BuffersFollowOpen,
              ValidIsFresh, Stopped, Reading, Frame, Goto
  <1>1. CASE ReadBegin("p")
    BY <1>1 DEF ReadBegin, engine
  <1>2. CASE CaptureOn("p")
    BY <1>2 DEF CaptureOn, driver, buffers, readers
  <1>3. CASE Command("p")
    BY <1>3 DEF Command, buffers, engine, readers
  <1>4. CASE Wake("p")
    BY <1>4 DEF Wake, Buffers, buffers, engine
  <1>5. CASE CopyBuffer("p")
    BY <1>5 DEF CopyBuffer, Copied, Buffers, driver, engine
  <1>6. CASE CopyEnd("p")
    <2>1. valid = {}
      BY <1>6, CamAssumption DEF CopyEnd, Buffers
    <2> QED
      BY <1>6, <2>1 DEF CopyEnd, buffers, engine
  <1> QED
    BY <1>1, <1>2, <1>3, <1>4, <1>5, <1>6

LEMMA ReleaseAlone ==
    ASSUME Types, AloneParts, Release("p")
    PROVE  AloneParts'
  BY UserAssumption
  DEF Types, AloneParts, EngineFollowsRead, BuffersFollowOpen, ValidIsFresh, Stopped,
      Reading, Frame, Goto, Release, FreeImageBuffer, engine
LEMMA AloneStep ==
    ASSUME CamTypeOK, AloneInv, [MCNext]_MCVars
    PROVE  AloneInv'
  <1> USE UserAssumption
  <1>1. CASE UNCHANGED MCVars
    BY <1>1 DEF AloneInv, Alone, EngineFollowsRead, BuffersFollowOpen, ValidIsFresh, Stopped,
       Reading, Frame, MCVars, vars, driver, buffers, engine, readers
  <1>2. CASE MCNext
    <2> SUFFICES ASSUME Alone'
                 PROVE  AloneParts' /\ \A q \in Procs \ {"p"} : pc'[q] = "closed"
      BY DEF AloneInv, AloneParts
    <2>1. users = {"p"} /\ CamNext /\ \A q \in Procs \ {"p"} : pc'[q] = "closed"
      BY <1>2 DEF MCNext, Alone
    <2>2. signals = 0 /\ \A p \in Procs : ~Signal(p)
      <3>1. signals' = 0 /\ signals \in Nat
        BY TypeParts, CamAssumption DEF Alone, Types
      <3>2. \A p \in Procs : ~Signal(p)
        BY <3>1 DEF Signal
      <3>3. signals' = signals
        BY <2>1, <3>2
        DEF CamNext, FrameDone, Irq, GoOn, Call, InitImageBuffer, NoMemory, RequestIrq,
            SoftReset, Configured, CaptureOn, Command, Wake, CopyBuffer, CopyEnd, Open,
            ReadBegin, Release, readers
      <3> QED
        BY <3>1, <3>2, <3>3
    <2>3. AloneParts /\ \A q \in Procs \ {"p"} : pc[q] = "closed"
      BY <2>1, <2>2 DEF AloneInv, Alone, AloneParts
    <2>4. Types
      BY TypeParts
    <2>5. \A q \in Procs \ {"p"} : ~GoOn(q) /\ ~Call(q)
      BY <2>1, <2>2, <2>3, <2>4
      DEF Types, GoOn, Call, InitImageBuffer, NoMemory, RequestIrq, SoftReset, Configured,
          CaptureOn, Command, Wake, CopyBuffer, CopyEnd, Open, ReadBegin, Release, Goto
    <2>6. FrameDone \/ Irq \/ GoOn("p") \/ Call("p")
      BY <2>1, <2>5 DEF CamNext
    <2> QED
      BY <2>1, <2>2, <2>3, <2>4, <2>6, FrameAlone, IrqAlone, OpenAlone, ReadAlone,
         ReleaseAlone DEF GoOn, Call
  <1> QED
    BY <1>1, <1>2

LEMMA AloneInvariant == MCSpec => []AloneInv
  <1>1. CamTypeOK /\ AloneInv /\ [MCNext]_MCVars => AloneInv'
    BY AloneStep
  <1> QED
    BY <1>1, AloneStarts, MCIsCam, CameraTypes, PTL DEF MCSpec

\* A process that has the camera alone, and whose reads no signal cuts short, never
\* gets an old picture, an empty read or freed memory, wherever the end of a frame
\* and its interrupt fall between the start of the capture and the command.
THEOREM AloneReadsFresh == MCSpec => []ReadIsFresh
  <1>1. AloneInv => ReadIsFresh
    BY DEF AloneInv, ValidIsFresh, ReadIsFresh
  <1> QED
    BY <1>1, AloneInvariant, PTL

\* For such a process the engine writes only to allocated buffers and no page is
\* freed twice, whatever opens fail for want of memory.
THEOREM AloneBuffersLive == MCSpec => []BuffersLive
  <1>1. AloneInv => BuffersLive
    BY DEF AloneInv, EngineFollowsRead, BuffersFollowOpen, BuffersLive
  <1> QED
    BY <1>1, AloneInvariant, PTL
=============================================================================
