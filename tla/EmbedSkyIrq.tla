---------------------------- MODULE EmbedSkyIrq ----------------------------
(***************************************************************************)
(* The key driver of the EmbedSky boards (Linux                            *)
(* drivers/char/EmbedSky_irq.c): an interrupt per key records the key's    *)
(* level in key_values and raises ev_press; read() waits for ev_press,     *)
(* clears it and copies key_values to the caller.                          *)
(*                                                                         *)
(* The board has one CPU: an interrupt runs between two steps of a         *)
(* process and is one step itself.  A process is interrupted anywhere, in  *)
(* particular between clearing ev_press and copying, and between two       *)
(* bytes of the copy.  open() runs under misc_mtx of the kernel, release   *)
(* does not.                                                               *)
(***************************************************************************)
EXTENDS Integers

CONSTANTS
    Procs,   \* processes that use the device
    NKeys,   \* keys of the board, button_irqs[1..NKeys]
    Counts,  \* buffer sizes given to read(), in bytes
    Nobody,  \* owner of a free interrupt line
    Other    \* another driver that holds an interrupt line

ASSUME IrqAssumption ==
    /\ NKeys \in Nat \ {0}
    /\ Counts \subseteq Nat
    /\ Nobody \notin Procs
    /\ Other \notin Procs
    /\ Other # Nobody

VARIABLES
    pc,          \* where each process is
    i,           \* its loop counter in open, release or the copy
    count,       \* bytes its read() copies
    user,        \* what its last reads have put into its buffer
    complete,    \* "yes": its last read() returned all keys
    misc_mtx,    \* "held" while an open() runs
    owner,       \* who has requested the interrupt of a key
    pin,         \* the keys: 1 pressed, 0 released
    pending,     \* keys with a latched edge, not handled yet
    edged,       \* keys with an edge handled since the line was requested
    key_values,  \* what the driver believes
    ev_press

vars == <<pc, i, count, user, complete, misc_mtx, owner, pin, pending, edged,
          key_values, ev_press>>
irqVars == <<pin, pending, key_values>>

Keys == 1..NKeys

-----------------------------------------------------------------------------
(***************************************************************************)
(* open.                                                                   *)
(***************************************************************************)
Open(p) ==
    /\ pc[p] = "closed"
    /\ misc_mtx = "free"
    /\ misc_mtx' = "held"
    /\ pc' = [pc EXCEPT ![p] = "opening"]
    /\ i' = [i EXCEPT ![p] = 1]
    /\ UNCHANGED <<count, user, complete, owner, edged, ev_press, irqVars>>

\* request_irq for the next key, granted if nobody has the line.
RequestIrq(p) ==
    /\ pc[p] = "opening"
    /\ i[p] <= NKeys
    /\ owner[i[p]] = Nobody
    /\ owner' = [owner EXCEPT ![i[p]] = p]
    /\ edged' = edged \ {i[p]}
    /\ i' = [i EXCEPT ![p] = @ + 1]
    /\ UNCHANGED <<pc, count, user, complete, misc_mtx, ev_press, irqVars>>

\* Wrong on purpose: undo from the key that failed.
RequestFailsNoDecrement(p) ==
    /\ pc[p] = "opening"
    /\ i[p] <= NKeys
    /\ owner[i[p]] # Nobody
    /\ pc' = [pc EXCEPT ![p] = "undo"]
    /\ UNCHANGED <<i, count, user, complete, misc_mtx, owner, edged, ev_press,
                   irqVars>>

\* request_irq fails: undo from the key before.
RequestFails(p) ==
    /\ pc[p] = "opening"
    /\ i[p] <= NKeys
    /\ owner[i[p]] # Nobody
    /\ pc' = [pc EXCEPT ![p] = "undo"]
    /\ i' = [i EXCEPT ![p] = @ - 1]
    /\ UNCHANGED <<count, user, complete, misc_mtx, owner, edged, ev_press,
                   irqVars>>

\* free_irq(irq, &button_irqs[k]): dev_id is the same for every opener, so
\* the line is freed whichever process has requested it.
FreeIrq(k) ==
    owner' = IF owner[k] \in Procs THEN [owner EXCEPT ![k] = Nobody] ELSE owner

\* disable_irq and free_irq, then the next key down.
Undo(p) ==
    /\ pc[p] = "undo"
    /\ i[p] >= 1
    /\ FreeIrq(i[p])
    /\ i' = [i EXCEPT ![p] = @ - 1]
    /\ UNCHANGED <<pc, count, user, complete, misc_mtx, edged, ev_press, irqVars>>

\* open returns -EBUSY.
OpenFailed(p) ==
    /\ pc[p] = "undo"
    /\ i[p] = 0
    /\ pc' = [pc EXCEPT ![p] = "closed"]
    /\ misc_mtx' = "free"
    /\ i' = [i EXCEPT ![p] = 0]
    /\ UNCHANGED <<count, user, complete, owner, edged, ev_press, irqVars>>

\* open returns 0; the first read will not wait.
Opened(p) ==
    /\ pc[p] = "opening"
    /\ i[p] > NKeys
    /\ pc' = [pc EXCEPT ![p] = "open"]
    /\ misc_mtx' = "free"
    /\ ev_press' = 1
    /\ i' = [i EXCEPT ![p] = 0]
    /\ UNCHANGED <<count, user, complete, owner, edged, irqVars>>

-----------------------------------------------------------------------------
(***************************************************************************)
(* read.                                                                   *)
(***************************************************************************)

\* The first test of ev_press: go on, or into wait_event.  With O_NONBLOCK and
\* no event read() returns -EAGAIN and changes nothing.
Read(p) ==
    /\ pc[p] = "open"
    /\ \E n \in Counts : count' = [count EXCEPT ![p] = IF n < NKeys THEN n ELSE NKeys]
    /\ pc' = [pc EXCEPT ![p] = IF ev_press = 1 THEN "clear" ELSE "wait"]
    /\ UNCHANGED <<i, user, complete, misc_mtx, owner, edged, ev_press, irqVars>>

\* wait_event_interruptible: queued on button_waitq, the process tests ev_press
\* and sleeps; woken, it tests again.
Wake(p) ==
    /\ pc[p] = "wait"
    /\ pc' = [pc EXCEPT ![p] = IF ev_press = 1 THEN "clear" ELSE "asleep"]
    /\ UNCHANGED <<i, count, user, complete, misc_mtx, owner, edged, ev_press,
                   irqVars>>

\* A signal ends the wait; its result is not looked at, so read() goes on as
\* if an event had come.
Signal(p) ==
    /\ pc[p] \in {"asleep", "wait"}
    /\ pc' = [pc EXCEPT ![p] = "clear"]
    /\ UNCHANGED <<i, count, user, complete, misc_mtx, owner, edged, ev_press,
                   irqVars>>

\* ev_press = 0, and copy_to_user begins.
Clear(p) ==
    /\ pc[p] = "clear"
    /\ ev_press' = 0
    /\ complete' = [complete EXCEPT ![p] = "no"]
    /\ pc' = [pc EXCEPT ![p] = "copy"]
    /\ i' = [i EXCEPT ![p] = 1]
    /\ UNCHANGED <<count, user, misc_mtx, owner, edged, irqVars>>

\* copy_to_user, byte by byte.
Copy(p) ==
    /\ pc[p] = "copy"
    /\ i[p] <= count[p]
    /\ user' = [user EXCEPT ![p] = [@ EXCEPT ![i[p]] = key_values[i[p]]]]
    /\ i' = [i EXCEPT ![p] = @ + 1]
    /\ UNCHANGED <<pc, count, complete, misc_mtx, owner, edged, ev_press, irqVars>>

\* Wrong on purpose: the event is cleared after the copy.
ReadReturnsClearing(p) ==
    /\ pc[p] = "copy"
    /\ i[p] > count[p]
    /\ ev_press' = 0
    /\ complete' = [complete EXCEPT ![p] = IF count[p] = NKeys THEN "yes" ELSE "no"]
    /\ pc' = [pc EXCEPT ![p] = "open"]
    /\ i' = [i EXCEPT ![p] = 0]
    /\ count' = [count EXCEPT ![p] = 0]
    /\ UNCHANGED <<user, misc_mtx, owner, edged, irqVars>>

\* read returns the number of bytes.
ReadReturns(p) ==
    /\ pc[p] = "copy"
    /\ i[p] > count[p]
    /\ complete' = [complete EXCEPT ![p] = IF count[p] = NKeys THEN "yes" ELSE "no"]
    /\ pc' = [pc EXCEPT ![p] = "open"]
    /\ i' = [i EXCEPT ![p] = 0]
    /\ count' = [count EXCEPT ![p] = 0]
    /\ UNCHANGED <<user, misc_mtx, owner, edged, ev_press, irqVars>>

\* The copy faults and read returns -EFAULT; the event is gone.
ReadFaults(p) ==
    /\ pc[p] = "copy"
    /\ i[p] <= count[p]
    /\ pc' = [pc EXCEPT ![p] = "open"]
    /\ i' = [i EXCEPT ![p] = 0]
    /\ count' = [count EXCEPT ![p] = 0]
    /\ UNCHANGED <<user, complete, misc_mtx, owner, edged, ev_press,
                   irqVars>>

-----------------------------------------------------------------------------
(***************************************************************************)
(* release.                                                                *)
(***************************************************************************)
Close(p) ==
    /\ pc[p] = "open"
    /\ pc' = [pc EXCEPT ![p] = "closing"]
    /\ i' = [i EXCEPT ![p] = 1]
    /\ UNCHANGED <<count, user, complete, misc_mtx, owner, edged, ev_press,
                   irqVars>>

CloseIrq(p) ==
    /\ pc[p] = "closing"
    /\ i[p] <= NKeys
    /\ FreeIrq(i[p])
    /\ i' = [i EXCEPT ![p] = @ + 1]
    /\ UNCHANGED <<pc, count, user, complete, misc_mtx, edged, ev_press, irqVars>>

Closed(p) ==
    /\ pc[p] = "closing"
    /\ i[p] > NKeys
    /\ pc' = [pc EXCEPT ![p] = "closed"]
    /\ i' = [i EXCEPT ![p] = 0]
    /\ user' = [user EXCEPT ![p] = [k \in Keys |-> 0]]
    /\ complete' = [complete EXCEPT ![p] = "no"]
    /\ UNCHANGED <<count, misc_mtx, owner, edged, ev_press, irqVars>>

-----------------------------------------------------------------------------
(***************************************************************************)
(* The keys and their interrupts.                                          *)
(***************************************************************************)

\* wake_up_interruptible.
Woken == [p \in Procs |-> IF pc[p] = "asleep" THEN "wait" ELSE pc[p]]

\* Wrong on purpose: without wake_up; and without reading the level.
InterruptNoWake(k) ==
    /\ k \in pending
    /\ owner[k] \in Procs
    /\ pending' = pending \ {k}
    /\ edged' = edged \cup {k}
    /\ key_values' = [key_values EXCEPT ![k] = pin[k]]
    /\ ev_press' = 1
    /\ UNCHANGED <<pc, i, count, user, complete, misc_mtx, owner, pin>>

InterruptToggles(k) ==
    /\ k \in pending
    /\ owner[k] \in Procs
    /\ pending' = pending \ {k}
    /\ edged' = edged \cup {k}
    /\ key_values' = [key_values EXCEPT ![k] = 1 - @]
    /\ ev_press' = 1
    /\ pc' = Woken
    /\ UNCHANGED <<i, count, user, complete, misc_mtx, owner, pin>>

\* irq_interrupt; the kernel has acknowledged the edge before.
Interrupt(k) ==
    /\ k \in pending
    /\ owner[k] \in Procs
    /\ pending' = pending \ {k}
    /\ edged' = edged \cup {k}
    /\ \/ /\ pin[k] # key_values[k]
          /\ key_values' = [key_values EXCEPT ![k] = pin[k]]
          /\ ev_press' = 1
          /\ pc' = Woken
       \/ /\ pin[k] = key_values[k]
          /\ UNCHANGED <<key_values, ev_press, pc>>
    /\ UNCHANGED <<i, count, user, complete, misc_mtx, owner, pin>>

\* A key goes down or up; both edges are latched if the line is requested.
Edge(k) ==
    /\ pin' = [pin EXCEPT ![k] = 1 - @]
    /\ \/ pending' = pending \cup {k}
       \/ owner[k] \notin Procs /\ UNCHANGED pending
    /\ UNCHANGED <<pc, i, count, user, complete, misc_mtx, owner, edged,
                   key_values, ev_press>>

\* Another driver requests or frees the line of a key, or handles an edge.
OtherDriver(k) ==
    /\ \/ /\ owner[k] = Nobody
          /\ owner' = [owner EXCEPT ![k] = Other]
          /\ UNCHANGED pending
       \/ /\ owner[k] = Other
          /\ owner' = [owner EXCEPT ![k] = Nobody]
          /\ pending' \in {pending, pending \ {k}}
    /\ UNCHANGED <<pc, i, count, user, complete, misc_mtx, edged, pin,
                   key_values, ev_press>>

-----------------------------------------------------------------------------
Init ==
    /\ pc = [p \in Procs |-> "closed"]
    /\ i = [p \in Procs |-> 0]
    /\ count = [p \in Procs |-> 0]
    /\ user = [p \in Procs |-> [k \in Keys |-> 0]]
    /\ complete = [p \in Procs |-> "no"]
    /\ misc_mtx = "free"
    /\ owner = [k \in Keys |-> Nobody]
    /\ pin \in [Keys -> {0, 1}]
    /\ pending = {}
    /\ edged = {}
    /\ key_values = [k \in Keys |-> 0]
    /\ ev_press = 0

\* What a process does once it runs.
Run(p) ==
    \/ RequestIrq(p) \/ RequestFails(p) \/ Undo(p) \/ OpenFailed(p) \/ Opened(p)
    \/ Wake(p) \/ Clear(p) \/ Copy(p) \/ ReadReturns(p)
    \/ CloseIrq(p) \/ Closed(p)

Step(p) == Run(p) \/ Open(p) \/ Read(p) \/ Signal(p) \/ ReadFaults(p) \/ Close(p)

Next ==
    \/ \E p \in Procs : Step(p)
    \/ \E k \in Keys : Interrupt(k) \/ Edge(k) \/ OtherDriver(k)

Spec == Init /\ [][Next]_vars

-----------------------------------------------------------------------------
(***************************************************************************)
(* Properties.                                                             *)
(***************************************************************************)
Using == {"open", "asleep", "wait", "clear", "copy"}

\* The values the driver's variables range over.
IrqTypeOK ==
    /\ pc \in [Procs -> {"closed", "opening", "undo", "closing"} \cup Using]
    /\ i \in [Procs -> 0..(NKeys + 1)]
    /\ count \in [Procs -> 0..NKeys]
    /\ user \in [Procs -> [Keys -> {0, 1}]]
    /\ complete \in [Procs -> {"yes", "no"}]
    /\ misc_mtx \in {"free", "held"}
    /\ owner \in [Keys -> Procs \cup {Nobody, Other}]
    /\ pin \in [Keys -> {0, 1}]
    /\ pending \subseteq Keys
    /\ edged \subseteq Keys
    /\ key_values \in [Keys -> {0, 1}]
    /\ ev_press \in {0, 1}

\* Whoever has the device open has all its interrupts, whatever opens and
\* closes of others fail or succeed meanwhile.
OpenerHasAllIrqs ==
    \A p \in Procs : pc[p] \in Using => \A k \in Keys : owner[k] = p

\* With ev_press clear a process back from a complete read() knows the
\* current key_values: no change of a key is lost between the test of
\* ev_press, its clearing and the copy.
NoLostEvent ==
    \A p \in Procs :
        pc[p] \in {"open", "asleep"} /\ complete[p] = "yes" /\ ev_press = 0
            => user[p] = key_values

\* Once a key has moved, key_values follows its level as soon as the edge is
\* handled, however the edges and the handler interleave.
FollowsPin ==
    \A k \in Keys : owner[k] \in Procs /\ k \in edged /\ k \notin pending
        => key_values[k] = pin[k]

\* A process the scheduler runs goes on; user mode is not forced to call.
FairSpec == Spec /\ \A p \in Procs : WF_vars(Run(p))

\* A reader that waits in read() is served when a key changes.
WaiterServed ==
    \A p \in Procs :
        pc[p] \in {"asleep", "wait"} /\ ev_press = 1 ~> pc[p] = "copy"

-----------------------------------------------------------------------------
(***************************************************************************)
(* The inductive invariant: which lines a process holds in the loops of    *)
(* open and release, and how far the copy has come.                        *)
(***************************************************************************)
OwnInv ==
    \A p \in Procs :
        /\ pc[p] \in Using => \A k \in Keys : owner[k] = p
        /\ pc[p] = "opening" => /\ i[p] \in 1..(NKeys + 1)
                               /\ \A k \in Keys : k < i[p] => owner[k] = p
        /\ pc[p] = "undo" => /\ i[p] \in 0..NKeys
                            /\ \A k \in Keys : k <= i[p] => owner[k] = p
        /\ pc[p] = "closing" => /\ i[p] \in 1..(NKeys + 1)
                               /\ \A k \in Keys : i[p] <= k => owner[k] = p

EventInv ==
    \A p \in Procs :
        /\ pc[p] \in Using \ {"copy"} /\ complete[p] = "yes" /\ ev_press = 0
              => user[p] = key_values
        /\ pc[p] = "copy" =>
              /\ complete[p] = "no"
              /\ i[p] \in 1..(count[p] + 1)
              /\ ev_press = 0 =>
                    \A k \in Keys : k < i[p] => user[p][k] = key_values[k]
        /\ pc[p] \in {"opening", "undo"} => complete[p] = "no"
        /\ pc[p] = "closed" => complete[p] = "no"

IrqInv == IrqTypeOK /\ OwnInv /\ EventInv /\ FollowsPin
=============================================================================
