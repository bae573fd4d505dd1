----------------------------- MODULE KeysProofs -----------------------------
(***************************************************************************)
(* Proofs about the two drivers of the board keys: the character device    *)
(* (EmbedSkyIrq), for any number of keys and processes, and the input      *)
(* driver (Tq2440Keys), for any number of keys and edges.                  *)
(***************************************************************************)
EXTENDS EmbedSkyIrq, Tq2440Keys, TLAPS

-----------------------------------------------------------------------------
(***************************************************************************)
(* The character device.                                                   *)
(***************************************************************************)

\* Every step of a process or an interrupt keeps the types.
LEMMA TypeStep == IrqTypeOK /\ OwnInv /\ EventInv /\ [Next]_vars => IrqTypeOK'
<1> SUFFICES ASSUME IrqTypeOK, OwnInv, EventInv, [Next]_vars PROVE IrqTypeOK'
  OBVIOUS
<1> USE IrqAssumption DEF irqVars, Using, Keys
<1>1. ASSUME NEW p \in Procs, Open(p) PROVE IrqTypeOK'
  BY <1>1 DEF Open, IrqTypeOK
<1>2. ASSUME NEW p \in Procs, RequestFails(p) PROVE IrqTypeOK'
  BY <1>2 DEF RequestFails, IrqTypeOK, OwnInv
<1>3. ASSUME NEW p \in Procs, OpenFailed(p) PROVE IrqTypeOK'
  BY <1>3 DEF OpenFailed, IrqTypeOK
<1>4. ASSUME NEW p \in Procs, Opened(p) PROVE IrqTypeOK'
  BY <1>4 DEF Opened, IrqTypeOK
<1>5. ASSUME NEW p \in Procs, RequestIrq(p) PROVE IrqTypeOK'
  <2>1. owner' \in [Keys -> Procs \cup {Nobody, Other}]
    BY <1>5 DEF RequestIrq, IrqTypeOK, OwnInv
  <2>2. i' \in [Procs -> 0..(NKeys + 1)]
    BY <1>5 DEF RequestIrq, IrqTypeOK, OwnInv
  <2> QED BY <1>5, <2>1, <2>2 DEF RequestIrq, IrqTypeOK
<1>6. ASSUME NEW p \in Procs, Undo(p) PROVE IrqTypeOK'
  BY <1>6 DEF Undo, IrqTypeOK, FreeIrq, OwnInv
<1>7. ASSUME NEW p \in Procs, CloseIrq(p) PROVE IrqTypeOK'
  BY <1>7 DEF CloseIrq, IrqTypeOK, FreeIrq, OwnInv
<1>8. ASSUME NEW p \in Procs, Read(p) PROVE IrqTypeOK'
  BY <1>8 DEF Read, IrqTypeOK
<1>9. ASSUME NEW p \in Procs, Wake(p) PROVE IrqTypeOK'
  BY <1>9 DEF Wake, IrqTypeOK
<1>10. ASSUME NEW p \in Procs, Signal(p) PROVE IrqTypeOK'
  BY <1>10 DEF Signal, IrqTypeOK
<1>11. ASSUME NEW p \in Procs, Clear(p) PROVE IrqTypeOK'
  BY <1>11 DEF Clear, IrqTypeOK
<1>12. ASSUME NEW p \in Procs, Copy(p) PROVE IrqTypeOK'
  BY <1>12 DEF Copy, IrqTypeOK, EventInv
<1>13. ASSUME NEW p \in Procs, ReadReturns(p) PROVE IrqTypeOK'
  BY <1>13 DEF ReadReturns, IrqTypeOK
<1>14. ASSUME NEW p \in Procs, ReadFaults(p) PROVE IrqTypeOK'
  BY <1>14 DEF ReadFaults, IrqTypeOK
<1>15. ASSUME NEW p \in Procs, Close(p) PROVE IrqTypeOK'
  BY <1>15 DEF Close, IrqTypeOK
<1>16. ASSUME NEW p \in Procs, Closed(p) PROVE IrqTypeOK'
  BY <1>16 DEF Closed, IrqTypeOK
<1>17. ASSUME NEW k \in Keys, Interrupt(k) PROVE IrqTypeOK'
  BY <1>17 DEF Interrupt, IrqTypeOK, Woken
<1>18. ASSUME NEW k \in Keys, Edge(k) PROVE IrqTypeOK'
  <2>1. pin' \in [Keys -> {0, 1}]
    <3>1. pin \in [Keys -> {0, 1}]
      BY DEF IrqTypeOK
    <3>2. pin[k] = 0 \/ pin[k] = 1
      BY <1>18, <3>1
    <3>3. 1 - pin[k] \in {0, 1}
      BY <3>2
    <3>4. pin' = [pin EXCEPT ![k] = 1 - pin[k]]
      BY <1>18 DEF Edge
    <3> QED BY <3>1, <3>3, <3>4
  <2>2. pending' \subseteq Keys
    BY <1>18 DEF Edge, IrqTypeOK
  <2> QED BY <1>18, <2>1, <2>2 DEF Edge, IrqTypeOK
<1>19. ASSUME NEW k \in Keys, OtherDriver(k) PROVE IrqTypeOK'
  <2>1. owner' \in [Keys -> Procs \cup {Nobody, Other}]
    BY <1>19 DEF OtherDriver, IrqTypeOK
  <2>2. pending' \subseteq Keys
    BY <1>19 DEF OtherDriver, IrqTypeOK
  <2> QED BY <1>19, <2>1, <2>2 DEF OtherDriver, IrqTypeOK
<1>20. CASE UNCHANGED vars
  BY <1>20 DEF vars, IrqTypeOK
<1> QED BY <1>1, <1>2, <1>3, <1>4, <1>5, <1>6, <1>7, <1>8, <1>9, <1>10,
           <1>11, <1>12, <1>13, <1>14, <1>15, <1>16, <1>17, <1>18, <1>19, <1>20
       DEF Next, Step, Run

\* Requesting, undoing and releasing touch only lines of the process itself.
LEMMA OwnStep == IrqTypeOK /\ OwnInv /\ [Next]_vars => OwnInv'
<1> SUFFICES ASSUME IrqTypeOK, OwnInv, [Next]_vars PROVE OwnInv'
  OBVIOUS
<1> USE IrqAssumption DEF irqVars, Using, Keys
<1>1. ASSUME NEW p \in Procs, Open(p) PROVE OwnInv'
  BY <1>1 DEF Open, IrqTypeOK, OwnInv
<1>12. ASSUME NEW p \in Procs, OpenFailed(p) PROVE OwnInv'
  BY <1>12 DEF OpenFailed, IrqTypeOK, OwnInv
<1>10. ASSUME NEW p \in Procs, RequestFails(p) PROVE OwnInv'
  BY <1>10 DEF RequestFails, IrqTypeOK, OwnInv
<1>11. ASSUME NEW p \in Procs, Opened(p) PROVE OwnInv'
  BY <1>11 DEF Opened, IrqTypeOK, OwnInv
<1>2. ASSUME NEW p \in Procs, RequestIrq(p)
      PROVE  OwnInv'
  BY <1>2 DEF RequestIrq, IrqTypeOK, OwnInv
<1>3. ASSUME NEW p \in Procs, Undo(p)
      PROVE  OwnInv'
  BY <1>3 DEF Undo, FreeIrq, IrqTypeOK, OwnInv
<1>4. ASSUME NEW p \in Procs, CloseIrq(p)
      PROVE  OwnInv'
  BY <1>4 DEF CloseIrq, FreeIrq, IrqTypeOK, OwnInv
<1>5. ASSUME NEW p \in Procs, Read(p) \/ Wake(p) \/ Signal(p) \/ Clear(p) \/ Copy(p)
                               \/ ReadReturns(p) \/ ReadFaults(p)
      PROVE  OwnInv'
  BY <1>5 DEF Read, Wake, Signal, Clear, Copy, ReadReturns, ReadFaults, IrqTypeOK, OwnInv
<1>6. ASSUME NEW p \in Procs, Close(p) \/ Closed(p)
      PROVE  OwnInv'
  BY <1>6 DEF Close, Closed, IrqTypeOK, OwnInv
<1>7. ASSUME NEW k \in Keys, Interrupt(k) \/ Edge(k)
      PROVE  OwnInv'
  BY <1>7 DEF Interrupt, Woken, Edge, IrqTypeOK, OwnInv
<1>8. ASSUME NEW k \in Keys, OtherDriver(k)
      PROVE  OwnInv'
  BY <1>8 DEF OtherDriver, IrqTypeOK, OwnInv
<1>9. CASE UNCHANGED vars
  BY <1>9 DEF vars, OwnInv
<1> QED BY <1>1, <1>2, <1>3, <1>4, <1>5, <1>6, <1>7, <1>8, <1>9, <1>10,
           <1>11, <1>12
       DEF Next, Step, Run

\* Lines of a process in the device are not lines of another one.
LEMMA OneUser ==
  ASSUME OwnInv, NEW p \in Procs, NEW q \in Procs, pc[p] \in Using, pc[q] \in Using
  PROVE  p = q
BY IrqAssumption DEF OwnInv, Keys

\* A line with a handler belongs to the one process in the device, so what a
\* process has copied is overtaken by an interrupt only if ev_press is set.
LEMMA EventStep == IrqTypeOK /\ OwnInv /\ EventInv /\ [Next]_vars => EventInv'
<1> SUFFICES ASSUME IrqTypeOK, OwnInv, EventInv, [Next]_vars PROVE EventInv'
  OBVIOUS
<1> USE IrqAssumption DEF irqVars, Using, Keys
<1>1. ASSUME NEW p \in Procs, Open(p) \/ RequestIrq(p) \/ RequestFails(p) \/ Undo(p)
                               \/ OpenFailed(p)
      PROVE  EventInv'
  BY <1>1 DEF Open, RequestIrq, RequestFails, Undo, OpenFailed, IrqTypeOK, EventInv
<1>2. ASSUME NEW p \in Procs, Opened(p) PROVE EventInv'
  BY <1>2 DEF Opened, IrqTypeOK, EventInv
<1>3. ASSUME NEW p \in Procs, Read(p) \/ Wake(p) \/ Signal(p) PROVE EventInv'
  BY <1>3 DEF Read, Wake, Signal, IrqTypeOK, EventInv
<1>4. ASSUME NEW p \in Procs, Clear(p) PROVE EventInv'
  <2>1. \A q \in Procs : pc[q] \in Using => q = p
    BY <1>4, OneUser DEF Clear
  <2> QED BY <1>4, <2>1 DEF Clear, IrqTypeOK, EventInv
<1>5. ASSUME NEW p \in Procs, Copy(p) PROVE EventInv'
  BY <1>5 DEF Copy, IrqTypeOK, EventInv
<1>6. ASSUME NEW p \in Procs, ReadReturns(p) PROVE EventInv'
  BY <1>6 DEF ReadReturns, IrqTypeOK, EventInv
<1>7. ASSUME NEW p \in Procs, ReadFaults(p) PROVE EventInv'
  BY <1>7 DEF ReadFaults, IrqTypeOK, EventInv
<1>8. ASSUME NEW p \in Procs, Close(p) \/ CloseIrq(p) \/ Closed(p) PROVE EventInv'
  <2>1. CASE Close(p)
    BY <2>1 DEF Close, IrqTypeOK, EventInv
  <2>2. CASE CloseIrq(p)
    BY <2>2 DEF CloseIrq, IrqTypeOK, EventInv
  <2>3. CASE Closed(p)
    BY <2>3 DEF Closed, IrqTypeOK, EventInv
  <2> QED BY <1>8, <2>1, <2>2, <2>3
<1>9. ASSUME NEW k \in Keys, Interrupt(k) PROVE EventInv'
  BY <1>9 DEF Interrupt, Woken, IrqTypeOK, EventInv
<1>10. ASSUME NEW k \in Keys, Edge(k) \/ OtherDriver(k) PROVE EventInv'
  BY <1>10 DEF Edge, OtherDriver, IrqTypeOK, EventInv
<1>11. CASE UNCHANGED vars
  BY <1>11 DEF vars, EventInv
<1> QED BY <1>1, <1>2, <1>3, <1>4, <1>5, <1>6, <1>7, <1>8, <1>9, <1>10, <1>11
       DEF Next, Step, Run

\* An edge of a requested line stays pending until the handler has read the level.
LEMMA FollowsStep == IrqTypeOK /\ OwnInv /\ FollowsPin /\ [Next]_vars => FollowsPin'
<1> SUFFICES ASSUME IrqTypeOK, OwnInv, FollowsPin, [Next]_vars PROVE FollowsPin'
  OBVIOUS
<1> USE IrqAssumption DEF irqVars, Keys
<1>1. ASSUME NEW p \in Procs, RequestIrq(p) PROVE FollowsPin'
  BY <1>1 DEF RequestIrq, IrqTypeOK, FollowsPin
<1>2. ASSUME NEW p \in Procs, Undo(p) \/ CloseIrq(p) PROVE FollowsPin'
  BY <1>2 DEF Undo, CloseIrq, FreeIrq, IrqTypeOK, FollowsPin
<1>3. ASSUME NEW p \in Procs,
             \/ Open(p) \/ RequestFails(p) \/ OpenFailed(p) \/ Opened(p) \/ Read(p)
             \/ Wake(p) \/ Signal(p) \/ Clear(p) \/ Copy(p) \/ ReadReturns(p)
             \/ ReadFaults(p) \/ Close(p) \/ Closed(p)
      PROVE  FollowsPin'
  BY <1>3 DEF Open, RequestFails, OpenFailed, Opened, Read, Wake, Signal, Clear, Copy,
              ReadReturns, ReadFaults, Close, Closed, FollowsPin
<1>4. ASSUME NEW k \in Keys, Interrupt(k) PROVE FollowsPin'
  BY <1>4 DEF Interrupt, IrqTypeOK, FollowsPin
<1>5. ASSUME NEW k \in Keys, Edge(k) PROVE FollowsPin'
  BY <1>5 DEF Edge, IrqTypeOK, FollowsPin
<1>6. ASSUME NEW k \in Keys, OtherDriver(k) PROVE FollowsPin'
  BY <1>6 DEF OtherDriver, IrqTypeOK, FollowsPin
<1>7. CASE UNCHANGED vars
  BY <1>7 DEF vars, FollowsPin
<1> QED BY <1>1, <1>2, <1>3, <1>4, <1>5, <1>6, <1>7 DEF Next, Step, Run

\* The inductive invariant holds in every reachable state.
LEMMA Invariant == Spec => []IrqInv
<1>1. Init => IrqInv
  BY IrqAssumption DEF Init, IrqInv, IrqTypeOK, OwnInv, EventInv, FollowsPin, Using, Keys
<1>2. IrqInv /\ [Next]_vars => IrqInv'
  BY TypeStep, OwnStep, EventStep, FollowsStep DEF IrqInv
<1> QED BY <1>1, <1>2, PTL DEF Spec

\* The state of the driver keeps its types, for any number of processes and keys.
THEOREM IrqTypeCorrect == Spec => []IrqTypeOK
<1>1. IrqInv => IrqTypeOK
  BY DEF IrqInv
<1> QED BY <1>1, Invariant, PTL

\* Whatever number of processes open and close the device, and whatever opens
\* fail half-way because a line is taken, free_irq never takes a line from the
\* process that is using the device.
THEOREM IrqExclusive == Spec => []OpenerHasAllIrqs
<1>1. IrqInv => OpenerHasAllIrqs
  BY DEF IrqInv, OwnInv, OpenerHasAllIrqs
<1> QED BY <1>1, Invariant, PTL

\* read() clears ev_press before it copies, so a change that comes during the
\* copy raises it again: with ev_press clear the reader has the current values.
THEOREM NoEventLost == Spec => []NoLostEvent
<1>1. IrqInv => NoLostEvent
  BY DEF IrqInv, EventInv, NoLostEvent, Using
<1> QED BY <1>1, Invariant, PTL

\* irq_interrupt reads the level, so key_values is right once the last edge of
\* a key is handled, however many edges share one interrupt.
THEOREM KeysFollow == Spec => []FollowsPin
<1>1. IrqInv => FollowsPin
  BY DEF IrqInv
<1> QED BY <1>1, Invariant, PTL

-----------------------------------------------------------------------------
(***************************************************************************)
(* The input driver.                                                       *)
(***************************************************************************)
LEMMA KeysStart == KeysInit => KeysInv
  BY KeysAssumption
  DEF KeysInit, KeysInv, KeysTypeOK, Requested, ReadingOk, ReportOnItsWay, Buttons

\* The worker, the interrupt handler and the pins.
LEMMA HandlerStep ==
    ASSUME KeysInv, NEW k \in Buttons, PinEdge(k) \/ Isr(k) \/ Work(k) \/ WorkReports
    PROVE  KeysInv'
<1> USE KeysAssumption DEF KeysInv, Buttons
<1>1. CASE PinEdge(k)
  <2>1. KeysTypeOK' /\ Requested'
    BY <1>1 DEF PinEdge, lists, KeysTypeOK, Requested
  <2>2. ReadingOk'
    BY <1>1 DEF PinEdge, KeysTypeOK, ReadingOk
  <2>3. ReportOnItsWay'
    BY <1>1 DEF PinEdge, KeysTypeOK, Requested, ReportOnItsWay
  <2> QED
    BY <2>1, <2>2, <2>3
<1>2. CASE Isr(k)
  BY <1>2 DEF Isr, hardware, lists, KeysTypeOK, Requested, ReadingOk, ReportOnItsWay
<1>3. CASE Work(k)
  <2>1. KeysTypeOK' /\ Requested'
    BY <1>3 DEF Work, hardware, lists, KeysTypeOK, Requested
  <2>2. ReadingOk'
    BY <1>3 DEF Work, hardware, lists, KeysTypeOK, ReadingOk
  <2>3. ReportOnItsWay'
    BY <1>3 DEF Work, hardware, lists, KeysTypeOK, ReportOnItsWay, CpuFree
  <2> QED
    BY <2>1, <2>2, <2>3
<1>4. CASE WorkReports
  <2>1. PICK r \in reading : r.by = "worker" /\ InputEvent(r)
    BY <1>4 DEF WorkReports
  <2>2. KeysTypeOK' /\ Requested' /\ ReadingOk'
    BY <1>4, <2>1 DEF WorkReports, InputEvent, hardware, lists, KeysTypeOK, Requested, ReadingOk
  <2>3. ReportOnItsWay'
    BY <1>4, <2>1
    DEF WorkReports, InputEvent, hardware, lists, KeysTypeOK, Requested, ReadingOk, ReportOnItsWay
  <2> QED
    BY <2>2, <2>3
<1> QED
  BY <1>1, <1>2, <1>3, <1>4

LEMMA BindStep ==
    ASSUME KeysInv, Bind
    PROVE  KeysInv'
<1> USE KeysAssumption DEF KeysInv, Buttons
<1>1. CASE Probe
  <2>1. gpios' = {} /\ irqs' = {} /\ 1 .. 0 = {} /\ idx' = 1 /\ stage' = "setup"
    BY <1>1 DEF Probe, Requested
  <2>2. Requested'
    BY <1>1, <2>1 DEF Probe, Requested
  <2>3. KeysTypeOK'
    BY <1>1, <2>1 DEF Probe, hardware, queues, KeysTypeOK
  <2>4. ReadingOk' /\ ReportOnItsWay'
    BY <1>1 DEF Probe, CpuFree, hardware, queues, ReadingOk, ReportOnItsWay
  <2> QED
    BY <2>2, <2>3, <2>4
<1>2. CASE SetupKey
  <2>1. gpios' = 1 .. idx /\ irqs' = gpios'
    BY <1>2 DEF SetupKey, Requested
  <2>2. KeysTypeOK' /\ Requested'
    BY <1>2, <2>1 DEF SetupKey, hardware, queues, lists, KeysTypeOK, Requested
  <2>3. ReadingOk' /\ ReportOnItsWay'
    BY <1>2 DEF SetupKey, CpuFree, hardware, queues, ReadingOk, ReportOnItsWay
  <2> QED
    BY <2>2, <2>3
<1>3. CASE SetupFails
  BY <1>3
  DEF SetupFails, CpuFree, hardware, queues, lists, KeysTypeOK, Requested, ReadingOk, ReportOnItsWay
<1>4. CASE Register
  BY <1>4
  DEF Register, CpuFree, hardware, queues, lists, KeysTypeOK, Requested, ReadingOk, ReportOnItsWay
<1>5. CASE RegisterFails
  BY <1>5
  DEF RegisterFails, CpuFree, hardware, queues, lists, KeysTypeOK, Requested, ReadingOk,
      ReportOnItsWay
<1>6. CASE ProbeReads
  <2>1. KeysTypeOK' /\ Requested'
    BY <1>6 DEF ProbeReads, hardware, lists, KeysTypeOK, Requested
  <2>2. ReadingOk'
    BY <1>6 DEF ProbeReads, hardware, lists, KeysTypeOK, Requested, ReadingOk
  <2>3. ReportOnItsWay'
    BY <1>6 DEF ProbeReads, hardware, lists, KeysTypeOK, ReportOnItsWay, CpuFree
  <2> QED
    BY <2>1, <2>2, <2>3
<1>7. CASE ProbeReports
  <2>1. PICK r \in reading : r.by = "probe" /\ InputEvent(r)
    BY <1>7 DEF ProbeReports
  <2>2. stage = "report" /\ r.key = idx /\ irqs = Buttons /\ \A s \in reading : s = r
    BY <2>1 DEF ReadingOk, Requested
  <2>3. KeysTypeOK' /\ Requested' /\ ReadingOk'
    BY <1>7, <2>1, <2>2
    DEF ProbeReports, InputEvent, hardware, lists, KeysTypeOK, Requested, ReadingOk
  <2>4. ReportOnItsWay'
    BY <1>7, <2>1, <2>2
    DEF ProbeReports, InputEvent, hardware, lists, KeysTypeOK, Requested, ReadingOk, ReportOnItsWay
  <2> QED
    BY <2>3, <2>4
<1> QED
  BY <1>1, <1>2, <1>3, <1>4, <1>5, <1>6, <1>7 DEF Bind

LEMMA UnbindStep ==
    ASSUME KeysInv, Unbind
    PROVE  KeysInv'
<1> USE KeysAssumption DEF KeysInv, Buttons
<1>1. CASE UndoFreeIrq
  BY <1>1
  DEF UndoFreeIrq, FreeKeyIrq, CpuFree, hardware, lists, KeysTypeOK, Requested, ReadingOk,
      ReportOnItsWay
<1>2. CASE UndoCancel
  BY <1>2
  DEF UndoCancel, CancelWork, CpuFree, hardware, lists, KeysTypeOK, Requested, ReadingOk,
      ReportOnItsWay
<1>3. CASE UndoDone
  BY <1>3
  DEF UndoDone, CpuFree, hardware, queues, lists, KeysTypeOK, Requested, ReadingOk, ReportOnItsWay
<1>4. CASE Remove
  BY <1>4
  DEF Remove, CpuFree, hardware, queues, lists, KeysTypeOK, Requested, ReadingOk, ReportOnItsWay
<1>5. CASE RemoveFreeIrq
  BY <1>5
  DEF RemoveFreeIrq, FreeKeyIrq, CpuFree, hardware, lists, KeysTypeOK, Requested, ReadingOk,
      ReportOnItsWay
<1>6. CASE RemoveCancel
  BY <1>6
  DEF RemoveCancel, CancelWork, CpuFree, hardware, lists, KeysTypeOK, Requested, ReadingOk,
      ReportOnItsWay
<1>7. CASE RemoveDone
  BY <1>7
  DEF RemoveDone, CpuFree, hardware, queues, lists, KeysTypeOK, Requested, ReadingOk,
      ReportOnItsWay
<1> QED
  BY <1>1, <1>2, <1>3, <1>4, <1>5, <1>6, <1>7 DEF Unbind

LEMMA KeysStep == KeysInv /\ [KeysNext]_keysVars => KeysInv'
<1> SUFFICES ASSUME KeysInv, [KeysNext]_keysVars PROVE KeysInv'
  OBVIOUS
<1>0. 1 \in Buttons
  BY KeysAssumption DEF Buttons
<1>1. CASE \E k \in Buttons : PinEdge(k)
  BY <1>1, HandlerStep
<1>2. CASE Handler
  BY <1>0, <1>2, HandlerStep DEF Handler
<1>3. CASE Bind
  BY <1>3, BindStep
<1>4. CASE Unbind
  BY <1>4, UnbindStep
<1>5. ASSUME NEW S \in SUBSET Buttons, DisabledKeys(S)
      PROVE  KeysInv'
  <2>1. 1 .. n_buttons = {}
    BY DEF n_buttons
  <2>2. disabled' = disabled
    BY <1>5, <2>1 DEF DisabledKeys
  <2> QED
    BY <1>5, <2>2
    DEF DisabledKeys, hardware, queues, KeysInv, KeysTypeOK, Requested, ReadingOk, ReportOnItsWay
<1>6. CASE UNCHANGED keysVars
  BY <1>6 DEF keysVars, KeysInv, KeysTypeOK, Requested, ReadingOk, ReportOnItsWay
<1> QED
  BY <1>1, <1>2, <1>3, <1>4, <1>5, <1>6 DEF KeysNext

LEMMA KeysInvariant == KeysSpec => []KeysInv
  BY KeysStart, KeysStep, PTL DEF KeysSpec

\* Probe, remove, the interrupt handler and the work items keep their types: an
\* interrupt or a queued work item belongs to a key whose pin is requested.
THEOREM KeysTypeCorrect == KeysSpec => []KeysTypeOK
<1>1. KeysInv => KeysTypeOK
  BY DEF KeysInv
<1> QED
  BY <1>1, KeysInvariant, PTL

\* A bound driver with nothing on its way has reported the pins as they are.
THEOREM QuietIsReported == KeysSpec => []ReportedIsPin
<1>1. KeysInv => ReportedIsPin
  BY DEF KeysInv, ReportOnItsWay, ReportedIsPin, CpuFree
<1> QED
  BY <1>1, KeysInvariant, PTL

\* A failed probe and a removal leave no interrupt, work item or pin behind.
THEOREM RemovalIsComplete == KeysSpec => []NothingLeft
<1>1. KeysInv => NothingLeft
  BY DEF KeysInv, KeysTypeOK, Requested, ReadingOk, NothingLeft
<1> QED
  BY <1>1, KeysInvariant, PTL
=============================================================================
