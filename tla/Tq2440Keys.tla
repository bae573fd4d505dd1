----------------------------- MODULE Tq2440Keys -----------------------------
(***************************************************************************)
(* The input driver of the board keys                                      *)
(* (linux-2.6.30.4/drivers/input/keyboard/tq2440_buttons.c): probe and     *)
(* remove, the interrupt handler, the work item that reports a key, and    *)
(* the attribute disabled_keys.                                            *)
(*                                                                         *)
(* The kernel is built for one CPU and without preemption: a thread gives  *)
(* the CPU away only between two steps here, an interrupt may come in      *)
(* between the reading of a pin and the event.  timer_debounce stays 0.    *)
(***************************************************************************)
EXTENDS Integers

CONSTANTS
    nbuttons,   \* pdata->nbuttons
    MaxEdges    \* bound on the edges of the pins

ASSUME KeysAssumption == nbuttons \in Nat \ {0} /\ MaxEdges \in Nat

Buttons == 1 .. nbuttons

VARIABLES
    level,      \* level of the key's pin, 1 when the key is down
    edges,      \* edges so far
    latched,    \* keys whose interrupt is pending
    gpios,      \* keys with gpio_request
    irqs,       \* keys with request_irq
    works,      \* keys whose work item is queued
    reading,    \* who is in tq2440_keys_report_event: {}, or {[by, key, val]}
    reported,   \* the state of the keys in the input device
    stage,      \* the driver: "absent", "setup", "register", "report", "bound",
                \* "undo", "remove"
    idx,        \* the loop variable of probe and remove
    disabled,   \* keys with bdata->disabled
    asked       \* the last list written to disabled_keys

keysVars == <<level, edges, latched, gpios, irqs, works, reading, reported, stage, idx,
          disabled, asked>>
hardware == <<level, edges>>
queues == <<latched, works, reading>>
lists == <<disabled, asked>>

\* Nobody is in the middle of tq2440_keys_report_event.
CpuFree == reading = {}

-----------------------------------------------------------------------------
(***************************************************************************)
(* The pins, the interrupt handler and the work item.                      *)
(***************************************************************************)
PinEdge(k) ==
    /\ edges < MaxEdges
    /\ edges' = edges + 1
    /\ level' = [level EXCEPT ![k] = 1 - @]
    /\ latched' = IF k \in irqs THEN latched \cup {k} ELSE latched
    /\ UNCHANGED <<gpios, irqs, works, reading, reported, stage, idx, lists>>

\* Wrong on purpose: the work item is queued only when it is not running.
IsrUnlessRunning(k) ==
    /\ k \in latched /\ k \notin disabled
    /\ latched' = latched \ {k}
    /\ works' = IF \E r \in reading : r.key = k THEN works ELSE works \cup {k}
    /\ UNCHANGED <<hardware, gpios, irqs, reading, reported, stage, idx, lists>>

\* tq2440_keys_isr.
Isr(k) ==
    /\ k \in latched /\ k \notin disabled
    /\ latched' = latched \ {k}
    /\ works' = works \cup {k}
    /\ UNCHANGED <<hardware, gpios, irqs, reading, reported, stage, idx, lists>>

\* Wrong on purpose: the item queues itself again until the pin is what it was.
WorkRequeues(k) ==
    /\ CpuFree
    /\ k \in works /\ level[k] = reported[k]
    /\ works' = works \ {k}
    /\ reading' = {[by |-> "worker", key |-> k, val |-> level[k]]}
    /\ UNCHANGED <<hardware, latched, gpios, irqs, reported, stage, idx, lists>>

\* tq2440_keys_work_func takes the key off the queue and reads the pin.
Work(k) ==
    /\ CpuFree
    /\ k \in works
    /\ works' = works \ {k}
    /\ reading' = {[by |-> "worker", key |-> k, val |-> level[k]]}
    /\ UNCHANGED <<hardware, latched, gpios, irqs, reported, stage, idx, lists>>

InputEvent(r) == reported' = [reported EXCEPT ![r.key] = r.val]

WorkReports ==
    /\ \E r \in reading : r.by = "worker" /\ InputEvent(r)
    /\ reading' = {}
    /\ UNCHANGED <<hardware, latched, gpios, irqs, works, stage, idx, lists>>

-----------------------------------------------------------------------------
(***************************************************************************)
(* tq2440_keys_probe.                                                      *)
(***************************************************************************)
Probe ==
    /\ CpuFree
    /\ stage = "absent"
    /\ stage' = "setup"
    /\ idx' = 1
    /\ reported' = [k \in Buttons |-> 0]
    /\ disabled' = {} /\ asked' = {}
    /\ UNCHANGED <<hardware, queues, gpios, irqs>>

\* tq2440_keys_setup_key.
SetupKey ==
    /\ CpuFree
    /\ stage = "setup"
    /\ gpios' = gpios \cup {idx} /\ irqs' = irqs \cup {idx}
    /\ IF idx = nbuttons THEN stage' = "register" /\ UNCHANGED idx
                         ELSE idx' = idx + 1 /\ UNCHANGED stage
    /\ UNCHANGED <<hardware, queues, reported, lists>>

\* gpio_request, gpio_direction_input or request_irq fails: fail3 in
\* tq2440_keys_setup_key has given the pin back.
SetupFails ==
    /\ CpuFree
    /\ stage = "setup"
    /\ stage' = "undo"
    /\ UNCHANGED <<hardware, gpios, irqs, queues, reported, idx, lists>>

\* sysfs_create_group and input_register_device.
Register ==
    /\ CpuFree
    /\ stage = "register"
    /\ stage' = "report"
    /\ idx' = 1
    /\ UNCHANGED <<hardware, gpios, irqs, queues, reported, lists>>

\* One of the two fails; all keys are undone.
RegisterFails ==
    /\ CpuFree
    /\ stage = "register"
    /\ stage' = "undo"
    /\ idx' = nbuttons + 1
    /\ UNCHANGED <<hardware, gpios, irqs, queues, reported, lists>>

ProbeReads ==
    /\ CpuFree
    /\ stage = "report"
    /\ reading' = {[by |-> "probe", key |-> idx, val |-> level[idx]]}
    /\ UNCHANGED <<hardware, latched, gpios, irqs, works, reported, stage, idx, lists>>

ProbeReports ==
    /\ \E r \in reading : r.by = "probe" /\ InputEvent(r)
    /\ reading' = {}
    /\ IF idx = nbuttons THEN stage' = "bound" /\ UNCHANGED idx ELSE idx' = idx + 1 /\ UNCHANGED stage
    /\ UNCHANGED <<hardware, latched, gpios, irqs, works, lists>>

-----------------------------------------------------------------------------
(***************************************************************************)
(* Undoing: free_irq, cancel_work_sync and gpio_free of one key.  Both may *)
(* sleep, so the worker may run before and after them.                     *)
(***************************************************************************)
FreeKeyIrq(k) ==
    /\ CpuFree
    /\ k \in irqs
    /\ irqs' = irqs \ {k}
    /\ latched' = latched \ {k}

\* Wrong on purpose: the work is not cancelled.
CancelNothing(k) == CpuFree /\ k \notin irqs /\ UNCHANGED works

CancelWork(k) == CpuFree /\ k \notin irqs /\ works' = works \ {k}

\* tq2440_keys_probe, fail2.
UndoFreeIrq ==
    /\ stage = "undo" /\ idx > 1
    /\ FreeKeyIrq(idx - 1)
    /\ UNCHANGED <<hardware, gpios, works, reading, reported, stage, idx, lists>>
UndoCancel ==
    /\ stage = "undo" /\ idx > 1
    /\ CancelWork(idx - 1)
    /\ gpios' = gpios \ {idx - 1}
    /\ idx' = idx - 1
    /\ UNCHANGED <<hardware, irqs, latched, reading, reported, stage, lists>>
UndoDone ==
    /\ CpuFree
    /\ stage = "undo" /\ idx = 1
    /\ stage' = "absent"
    /\ UNCHANGED <<hardware, gpios, irqs, queues, reported, idx, lists>>

\* tq2440_keys_remove.
Remove ==
    /\ CpuFree
    /\ stage = "bound"
    /\ stage' = "remove"
    /\ idx' = 1
    /\ UNCHANGED <<hardware, gpios, irqs, queues, reported, lists>>
RemoveFreeIrq ==
    /\ stage = "remove" /\ idx <= nbuttons
    /\ FreeKeyIrq(idx)
    /\ UNCHANGED <<hardware, gpios, works, reading, reported, stage, idx, lists>>
RemoveCancel ==
    /\ stage = "remove" /\ idx <= nbuttons
    /\ CancelWork(idx)
    /\ gpios' = gpios \ {idx}
    /\ idx' = idx + 1
    /\ UNCHANGED <<hardware, irqs, latched, reading, reported, stage, lists>>
RemoveDone ==
    /\ CpuFree
    /\ stage = "remove" /\ idx > nbuttons
    /\ stage' = "absent"
    /\ UNCHANGED <<hardware, gpios, irqs, queues, reported, idx, lists>>

-----------------------------------------------------------------------------
(***************************************************************************)
(* tq2440_keys_attr_store_helper.                                          *)
(***************************************************************************)

\* ddata->n_buttons: cleared by kzalloc, and probe does not set it.
n_buttons == 0

DisabledKeys(S) ==
    /\ CpuFree
    /\ stage \in {"report", "bound"}
    /\ asked' = S
    /\ disabled' = (disabled \ 1 .. n_buttons) \cup (S \cap 1 .. n_buttons)
    /\ UNCHANGED <<hardware, gpios, irqs, queues, reported, stage, idx>>

-----------------------------------------------------------------------------
KeysInit ==
    /\ level \in [Buttons -> {0, 1}] /\ edges = 0
    /\ latched = {} /\ gpios = {} /\ irqs = {} /\ works = {} /\ reading = {}
    /\ reported = [k \in Buttons |-> 0]
    /\ stage = "absent" /\ idx = 1
    /\ disabled = {} /\ asked = {}

Handler ==
    \/ \E k \in Buttons : Isr(k) \/ Work(k)
    \/ WorkReports

Bind == \/ Probe \/ SetupKey \/ SetupFails \/ Register \/ RegisterFails
        \/ ProbeReads \/ ProbeReports
Unbind == \/ UndoFreeIrq \/ UndoCancel \/ UndoDone
          \/ Remove \/ RemoveFreeIrq \/ RemoveCancel \/ RemoveDone

KeysNext ==
    \/ \E k \in Buttons : PinEdge(k)
    \/ Handler \/ Bind \/ Unbind
    \/ \E S \in SUBSET Buttons : DisabledKeys(S)

KeysSpec == KeysInit /\ [][KeysNext]_keysVars

\* Interrupts are served and the workqueue runs; a thread that is in
\* tq2440_keys_report_event goes on.
KeysLiveSpec ==
    /\ KeysSpec
    /\ \A k \in Buttons : WF_keysVars(Isr(k)) /\ SF_keysVars(Work(k))
    /\ WF_keysVars(WorkReports) /\ WF_keysVars(ProbeReports)

-----------------------------------------------------------------------------
KeysTypeOK ==
    /\ level \in [Buttons -> {0, 1}] /\ reported \in [Buttons -> {0, 1}]
    /\ edges \in 0 .. MaxEdges
    /\ latched \subseteq irqs /\ irqs \subseteq gpios /\ gpios \subseteq Buttons
    /\ works \subseteq gpios
    /\ reading \subseteq [by : {"worker", "probe"}, key : Buttons, val : {0, 1}]
    /\ stage \in {"absent", "setup", "register", "report", "bound", "undo", "remove"}
    /\ idx \in 1 .. nbuttons + 1
    /\ disabled \subseteq Buttons /\ asked \subseteq Buttons

\* When the driver is bound and nothing is on its way, the input device has the
\* state of the pins, whatever edges came during probe, in the interrupt handler
\* or while a report was being made.
ReportedIsPin ==
    stage = "bound" =>
        \A k \in Buttons : k \notin latched \cup works /\ CpuFree => reported[k] = level[k]

\* When probe has failed or the driver is gone, no interrupt, queued work or pin
\* of it is left: no report can touch the freed data.
NothingLeft ==
    stage = "absent" => irqs = {} /\ gpios = {} /\ works = {} /\ reading = {}

\* A key whose state differs from what was reported is reported, unless the driver
\* is removed.
ChangeIsReported ==
    \A k \in Buttons :
        (stage = "bound" /\ reported[k] # level[k]) ~> (reported[k] = level[k] \/ stage # "bound")

\* The inductive invariant.  What the loops of probe and remove have requested or
\* given back so far:
Requested ==
    /\ stage = "absent" => gpios = {} /\ irqs = {}
    /\ stage = "setup" => idx \in Buttons /\ gpios = 1 .. idx - 1 /\ irqs = gpios
    /\ stage \in {"register", "report", "bound"} => gpios = Buttons /\ irqs = Buttons
    /\ stage = "report" => idx \in Buttons
    /\ stage = "undo" => gpios = 1 .. idx - 1 /\ irqs \in {gpios, gpios \ {idx - 1}}
    /\ stage = "remove" => gpios = idx .. nbuttons /\ irqs \in {gpios, gpios \ {idx}}
    /\ disabled = {}
\* Whoever is in the middle of a report: its value is that of the pin, or another
\* report is to come.
ReadingOk ==
    /\ \A r, s \in reading : r = s
    /\ \A r \in reading :
          /\ r.key \in gpios
          /\ r.by = "probe" => stage = "report" /\ r.key = idx
          /\ r.key \in irqs => r.val = level[r.key] \/ r.key \in latched \cup works
\* The keys that probe has reported:
ReportOnItsWay ==
    \A k \in Buttons : (stage = "bound" \/ (stage = "report" /\ k < idx)) =>
        \/ reported[k] = level[k]
        \/ k \in latched \cup works
        \/ \E r \in reading : r.key = k
KeysInv == KeysTypeOK /\ Requested /\ ReadingOk /\ ReportOnItsWay

\* What tq2440_keys_attr_store_helper is documented to do: "disables/enables GPIO
\* buttons accordinly".
DisabledAsAsked == stage = "bound" => disabled = asked
=============================================================================
