------------------------------ MODULE TouchAdc ------------------------------
(***************************************************************************)
(* The touch screen driver (Linux drivers/input/touchscreen/tq2440_ts.c)   *)
(* and the ADC character driver (drivers/char/EmbedSky_adc.c), which share *)
(* one analog-digital converter through the semaphore ADC_LOCK.            *)
(*                                                                         *)
(* One CPU and no kernel preemption: a read() is cut by interrupts and by  *)
(* the timer softirq anywhere, but by another process only where it may    *)
(* sleep, in copy_to_user.  Both interrupt handlers run with interrupts    *)
(* on, so stylus_action can cut into stylus_updown and into the timer;     *)
(* stylus_updown cutting into stylus_action finds the lock taken or        *)
(* stylus_action with nothing to do, so stylus_action is one step.         *)
(***************************************************************************)
EXTENDS Integers

CONSTANTS
    Readers,     \* processes that read the ADC device
    MaxSamples   \* bound on count, which only late conversions of readers push
                 \* past 4

ASSUME TouchAssumption == MaxSamples \in Nat /\ MaxSamples > 4

VARIABLES
    ADC_LOCK,      \* the semaphore's count
    OwnADC,        \* 1: the touch driver has the converter
    count,         \* samples added up in xp, yp
    touch_timer,   \* "armed" or "off"
    reported,      \* the last BTN_TOUCH given to the input layer
    averaged,      \* samples in the last reported point, 0 before the first
    ADCTSC,        \* mode of the converter
    iSaveADCTSC,
    conv,          \* the conversion in flight: "none", "touch", "adc"
    adc_irq,       \* 1: end of conversion latched
    tc_irq,        \* 1: stylus interrupt latched
    pen,           \* "up" or "down"
    at,            \* where stylus_updown ("tc") and the timer ("timer") are
    pc,            \* where each reader is
    value          \* what its last read took: "none", "converted", "early"

touchVars == <<OwnADC, count, touch_timer, reported, averaged>>
hwVars == <<ADCTSC, conv, adc_irq, tc_irq, pen>>
readVars == <<iSaveADCTSC, pc, value>>
vars == <<ADC_LOCK, touchVars, hwVars, readVars, at>>

Contexts == {"tc", "timer"}

\* A hard interrupt goes before the softirq, both before processes.
MayRun(c) == at[c] # "idle" /\ (c = "timer" => at["tc"] = "idle")
Quiet == at["tc"] = "idle" /\ at["timer"] = "idle"
Goto(c, l) == at' = [at EXCEPT ![c] = l]

-----------------------------------------------------------------------------
(***************************************************************************)
(* The converter.                                                          *)
(***************************************************************************)

\* A write of ADCTSC.  Waiting for the stylus to come down may raise the
\* interrupt at once when it is down already.
SetTsc(mode) ==
    /\ ADCTSC' = mode
    /\ \/ UNCHANGED tc_irq
       \/ mode = "wait_down" /\ pen = "down" /\ tc_irq' = 1

\* The conversion ends and latches its interrupt.
ConversionEnds ==
    /\ conv # "none"
    /\ conv' = "none"
    /\ adc_irq' = 1
    /\ UNCHANGED <<ADC_LOCK, touchVars, readVars, at, ADCTSC, tc_irq, pen>>

\* The stylus moves; the waiting mode for this direction latches IRQ_TC.
Pen ==
    /\ pen' = IF pen = "up" THEN "down" ELSE "up"
    /\ tc_irq' = IF \/ pen = "up" /\ ADCTSC = "wait_down"
                    \/ pen = "down" /\ ADCTSC = "wait_up"
                 THEN 1 ELSE tc_irq
    /\ UNCHANGED <<ADC_LOCK, touchVars, readVars, at, ADCTSC, conv, adc_irq>>

-----------------------------------------------------------------------------
(***************************************************************************)
(* touch_timer_fire, run by the timer or called from stylus_updown.        *)
(***************************************************************************)
Fire(c) ==
    /\ MayRun(c)
    /\ at[c] = "fire"
    /\ Goto(c, IF pen = "down" THEN "down" ELSE "up")
    /\ UNCHANGED <<ADC_LOCK, touchVars, hwVars, readVars>>

\* Wrong on purpose: count goes on from the last point.
FireDownKeepsCount(c) ==
    /\ MayRun(c)
    /\ at[c] = "down"
    /\ \/ /\ count # 0
          /\ reported' = "down"
          /\ averaged' = count
       \/ /\ count = 0
          /\ UNCHANGED <<reported, averaged>>
    /\ Goto(c, "start")
    /\ UNCHANGED <<ADC_LOCK, OwnADC, count, touch_timer, hwVars, readVars>>

\* Report the average of the samples, if any, and begin again.
FireDown(c) ==
    /\ MayRun(c)
    /\ at[c] = "down"
    /\ \/ /\ count # 0
          /\ reported' = "down"
          /\ averaged' = count
       \/ /\ count = 0
          /\ UNCHANGED <<reported, averaged>>
    /\ count' = 0
    /\ Goto(c, "start")
    /\ UNCHANGED <<ADC_LOCK, OwnADC, touch_timer, hwVars, readVars>>

FireStart(c) ==
    /\ MayRun(c)
    /\ at[c] = "start"
    /\ SetTsc("autopst")
    /\ conv' = "touch"
    /\ Goto(c, "idle")
    /\ UNCHANGED <<ADC_LOCK, touchVars, readVars, adc_irq, pen>>

\* Wrong on purpose: the release is not reported.
FireUpSilent(c) ==
    /\ MayRun(c)
    /\ at[c] = "up"
    /\ count' = 0
    /\ Goto(c, "wait")
    /\ UNCHANGED <<ADC_LOCK, OwnADC, touch_timer, reported, averaged, hwVars, readVars>>

FireUp(c) ==
    /\ MayRun(c)
    /\ at[c] = "up"
    /\ count' = 0
    /\ reported' = "up"
    /\ Goto(c, "wait")
    /\ UNCHANGED <<ADC_LOCK, OwnADC, touch_timer, averaged, hwVars, readVars>>

FireWait(c) ==
    /\ MayRun(c)
    /\ at[c] = "wait"
    /\ SetTsc("wait_down")
    /\ Goto(c, "disown")
    /\ UNCHANGED <<ADC_LOCK, touchVars, readVars, conv, adc_irq, pen>>

FireDisown(c) ==
    /\ MayRun(c)
    /\ at[c] = "disown"
    /\ OwnADC' = 0
    /\ Goto(c, IF OwnADC = 1 THEN "unlock" ELSE "idle")
    /\ UNCHANGED <<ADC_LOCK, count, touch_timer, reported, averaged, hwVars,
                   readVars>>

FireUnlock(c) ==
    /\ MayRun(c)
    /\ at[c] = "unlock"
    /\ ADC_LOCK' = ADC_LOCK + 1
    /\ Goto(c, "idle")
    /\ UNCHANGED <<touchVars, hwVars, readVars>>

FireStep(c) ==
    \/ Fire(c) \/ FireDown(c) \/ FireStart(c) \/ FireUp(c) \/ FireWait(c)
    \/ FireDisown(c) \/ FireUnlock(c)

\* The timer softirq.
TimerExpires ==
    /\ touch_timer = "armed"
    /\ Quiet
    /\ touch_timer' = "off"
    /\ Goto("timer", "fire")
    /\ UNCHANGED <<ADC_LOCK, OwnADC, count, reported, averaged, hwVars, readVars>>

-----------------------------------------------------------------------------
(***************************************************************************)
(* stylus_updown (IRQ_TC).                                                 *)
(***************************************************************************)

\* Wrong on purpose: down_trylock's result is not looked at.
StylusUpdownAnyway ==
    /\ tc_irq = 1
    /\ at["tc"] = "idle"
    /\ tc_irq' = 0
    /\ ADC_LOCK' = 0
    /\ Goto("tc", "own")
    /\ UNCHANGED <<touchVars, readVars, ADCTSC, conv, adc_irq, pen>>

StylusUpdown ==
    /\ tc_irq = 1
    /\ at["tc"] = "idle"
    /\ tc_irq' = 0
    /\ \/ /\ ADC_LOCK > 0
          /\ ADC_LOCK' = ADC_LOCK - 1
          /\ Goto("tc", "own")
       \/ /\ ADC_LOCK = 0
          /\ UNCHANGED <<ADC_LOCK, at>>
    /\ UNCHANGED <<touchVars, readVars, ADCTSC, conv, adc_irq, pen>>

UpdownOwn ==
    /\ at["tc"] = "own"
    /\ OwnADC' = 1
    /\ Goto("tc", "test")
    /\ UNCHANGED <<ADC_LOCK, count, touch_timer, reported, averaged, hwVars,
                   readVars>>

\* Wrong on purpose: the lock is kept when the stylus has gone up again.
UpdownTestKeepsLock ==
    /\ at["tc"] = "test"
    /\ \/ /\ pen = "down"
          /\ Goto("tc", "fire")
          /\ UNCHANGED <<ADC_LOCK, OwnADC>>
       \/ /\ pen = "up"
          /\ Goto("tc", "idle")
          /\ UNCHANGED <<ADC_LOCK, OwnADC>>
    /\ UNCHANGED <<count, touch_timer, reported, averaged, hwVars, readVars>>

UpdownTest ==
    /\ at["tc"] = "test"
    /\ \/ /\ pen = "down"
          /\ Goto("tc", "fire")
          /\ UNCHANGED <<ADC_LOCK, OwnADC>>
       \/ /\ pen = "up"
          /\ OwnADC' = 0
          /\ ADC_LOCK' = ADC_LOCK + 1
          /\ Goto("tc", "idle")
    /\ UNCHANGED <<count, touch_timer, reported, averaged, hwVars, readVars>>

-----------------------------------------------------------------------------
(***************************************************************************)
(* stylus_action (IRQ_ADC), in whatever context it cuts into.              *)
(***************************************************************************)

\* The latch is cleared on entry: a conversion in flight may end, and latch
\* again, before the next one is started.
Sample(timer) ==
    /\ adc_irq = 1
    /\ \/ /\ OwnADC = 0
          /\ adc_irq' = 0
          /\ UNCHANGED <<count, touch_timer, ADCTSC, tc_irq, conv>>
       \/ /\ OwnADC = 1
          /\ count < MaxSamples
          /\ count' = count + 1
          /\ \/ adc_irq' = 0
             \/ conv # "none" /\ adc_irq' = 1
          /\ \/ /\ count' < 4
                /\ SetTsc("autopst")
                /\ conv' = "touch"
                /\ UNCHANGED touch_timer
             \/ /\ count' >= 4
                /\ touch_timer' = timer
                /\ SetTsc("wait_up")
                /\ conv' = IF adc_irq' = 1 THEN "none" ELSE conv
    /\ UNCHANGED <<ADC_LOCK, OwnADC, reported, averaged, readVars, at, pen>>

StylusAction == Sample("armed")

-----------------------------------------------------------------------------
(***************************************************************************)
(* tq2440_adc_read.                                                        *)
(***************************************************************************)

\* A process runs in the kernel until it returns or sleeps in the copy.
ReaderRuns(r) ==
    /\ Quiet
    /\ \A q \in Readers \ {r} : pc[q] \in {"user", "copy"}
At(r, l, next) == ReaderRuns(r) /\ pc[r] = l /\ pc' = [pc EXCEPT ![r] = next]

\* down_trylock succeeds.  When it fails read() returns -1 and changes nothing.
ReadLock(r) ==
    /\ At(r, "user", "start")
    /\ ADC_LOCK > 0
    /\ ADC_LOCK' = ADC_LOCK - 1
    /\ UNCHANGED <<touchVars, hwVars, at, iSaveADCTSC, value>>

ReadStart(r) ==
    /\ At(r, "start", "save")
    /\ conv' = "adc"
    /\ UNCHANGED <<ADC_LOCK, touchVars, at, iSaveADCTSC, value, ADCTSC, adc_irq,
                   tc_irq, pen>>

ReadSave(r) ==
    /\ At(r, "save", "select")
    /\ iSaveADCTSC' = ADCTSC
    /\ UNCHANGED <<ADC_LOCK, touchVars, hwVars, at, value>>

\* ADCTSC without its low bits, and start; the start bit clears itself when
\* the conversion begins.
ReadSelect(r) ==
    /\ At(r, "select", "take")
    /\ ADCTSC' = "adc"
    /\ conv' = "adc"
    /\ UNCHANGED <<ADC_LOCK, touchVars, at, iSaveADCTSC, value, adc_irq, tc_irq,
                   pen>>

\* while(!ADCCON&(0x1<<15)) is while((!ADCCON)&(0x1<<15)): it never waits.
ReadTake(r) ==
    /\ At(r, "take", "restore")
    /\ value' = [value EXCEPT ![r] = IF conv = "none" THEN "converted" ELSE "early"]
    /\ UNCHANGED <<ADC_LOCK, touchVars, hwVars, at, iSaveADCTSC>>

ReadRestore(r) ==
    /\ At(r, "restore", "copy")
    /\ SetTsc(iSaveADCTSC)
    /\ UNCHANGED <<ADC_LOCK, touchVars, at, iSaveADCTSC, value, conv, adc_irq, pen>>

\* copy_to_user, which may sleep, and up().
ReadUnlock(r) ==
    /\ At(r, "copy", "user")
    /\ ADC_LOCK' = ADC_LOCK + 1
    /\ UNCHANGED <<touchVars, hwVars, at, iSaveADCTSC, value>>

ReadStep(r) ==
    \/ ReadStart(r) \/ ReadSave(r) \/ ReadSelect(r) \/ ReadTake(r)
    \/ ReadRestore(r) \/ ReadUnlock(r)

-----------------------------------------------------------------------------
Init ==
    /\ ADC_LOCK = 1
    /\ OwnADC = 0
    /\ count = 0
    /\ touch_timer = "off"
    /\ reported = "up"
    /\ averaged = 0
    /\ ADCTSC = "wait_down"
    /\ iSaveADCTSC = "adc"
    /\ conv = "none"
    /\ adc_irq = 0
    /\ tc_irq = 0
    /\ pen = "up"
    /\ at = [c \in Contexts |-> "idle"]
    /\ pc = [r \in Readers |-> "user"]
    /\ value = [r \in Readers |-> "none"]

\* What the hardware and the kernel do once they can.
System ==
    \/ ConversionEnds \/ StylusAction
    \/ StylusUpdown \/ UpdownOwn \/ UpdownTest
    \/ TimerExpires
    \/ \E c \in Contexts : FireStep(c)

Next ==
    \/ System
    \/ Pen
    \/ \E r \in Readers : ReadLock(r) \/ ReadStep(r)

Spec == Init /\ [][Next]_vars

-----------------------------------------------------------------------------
(***************************************************************************)
(* Properties.                                                             *)
(***************************************************************************)
FireLabels == {"fire", "down", "start", "up", "wait", "disown", "unlock"}

\* The values the drivers' variables range over.
TouchTypeOK ==
    /\ ADC_LOCK \in {0, 1}
    /\ OwnADC \in {0, 1}
    /\ count \in 0..MaxSamples
    /\ touch_timer \in {"armed", "off"}
    /\ reported \in {"up", "down"}
    /\ averaged \in 0..MaxSamples
    /\ {ADCTSC, iSaveADCTSC} \subseteq {"wait_down", "wait_up", "autopst", "adc"}
    /\ conv \in {"none", "touch", "adc"}
    /\ {adc_irq, tc_irq} \subseteq {0, 1}
    /\ pen \in {"up", "down"}
    /\ at \in [Contexts -> {"idle", "own", "test"} \cup FireLabels]
    /\ pc \in [Readers -> {"user", "start", "save", "select", "take", "restore",
                           "copy"}]
    /\ value \in [Readers -> {"none", "converted", "early"}]

\* The touch driver has taken the lock, from the trylock to the up().
TouchHolds ==
    \/ OwnADC = 1
    \/ at["tc"] \in {"own", "unlock"}
    \/ at["timer"] = "unlock"

\* ADC_LOCK has one holder: the touch driver or one reader, whatever context
\* took it and whatever context gives it back.
ConverterHasOneUser ==
    /\ TouchHolds => ADC_LOCK = 0 /\ \A r \in Readers : pc[r] = "user"
    /\ \A r \in Readers : pc[r] # "user" =>
           ADC_LOCK = 0 /\ \A q \in Readers \ {r} : pc[q] = "user"
    /\ ADC_LOCK = 0 => TouchHolds \/ \E r \in Readers : pc[r] # "user"

\* While the touch driver has the converter something is on its way that will
\* make it go on: the chain of samples and timers does not break.
TouchNeverStalls ==
    OwnADC = 1 =>
        \/ conv # "none"
        \/ adc_irq = 1
        \/ touch_timer = "armed"
        \/ ~Quiet

\* No process has read the ADC so far; afterwards a conversion of a reader, which
\* does not wait for its end, may be counted as a sample.
NobodyHasRead == \A r \in Readers : pc[r] = "user" /\ value[r] = "none"

\* Every reported point is the average of four samples.
FourSamples == NobodyHasRead => averaged \in {0, 4}

\* A reader takes the value of a conversion that has ended.
EndOfConversion == \A r \in Readers : value[r] # "early"

\* Interrupts are served, timers expire and conversions end.
FairSpec ==
    Spec /\ WF_vars(System) /\ WF_vars(TimerExpires) /\ WF_vars(StylusUpdown)
         /\ WF_vars(StylusAction)

\* Once the stylus stays up, the input layer has been told so and the
\* converter is free for readers.
ReleaseReported ==
    <>[](pen = "up") /\ []NobodyHasRead => <>[](reported = "up" /\ OwnADC = 0)

-----------------------------------------------------------------------------
(***************************************************************************)
(* The inductive invariant: at most one context owes the lock an up().     *)
(***************************************************************************)
OneDebt ==
    /\ at["tc"] \in {"own", "unlock"} => OwnADC = 0
    /\ at["tc"] \in {"test"} \cup (FireLabels \ {"unlock"}) => OwnADC = 1
    /\ at["timer"] = "unlock" => OwnADC = 0 /\ at["tc"] = "idle"
    /\ at["timer"] \notin {"own", "test"}

TouchInv == TouchTypeOK /\ ConverterHasOneUser /\ OneDebt /\ TouchNeverStalls

(***************************************************************************)
(* While nobody has read the ADC there is one chain of conversion,         *)
(* interrupt, timer and handler, and only one link of it is alive at a     *)
(* time, so that every conversion is counted once.                         *)
(***************************************************************************)
OneLink ==
    /\ conv # "adc"
    /\ at["tc"] = "idle" \/ at["timer"] = "idle"
    /\ ~Quiet => conv = "none" /\ adc_irq = 0 /\ touch_timer = "off"
    /\ conv # "none" => adc_irq = 0
    /\ conv # "none" \/ adc_irq = 1 => OwnADC = 1 /\ touch_timer = "off" /\ count < 4
    /\ touch_timer = "armed" => OwnADC = 1 /\ count = 4
    /\ at["timer"] \in FireLabels \ {"unlock"} => OwnADC = 1
    /\ OwnADC = 0 => count = 0
    /\ \A c \in Contexts :
          /\ at[c] \in {"own", "test", "start", "wait", "disown", "unlock"} => count = 0
          /\ at[c] \in {"fire", "down", "up"} => count \in {0, 4}

SampleChain ==
    /\ \A r \in Readers : pc[r] \in {"restore", "copy"} => value[r] # "none"
    /\ NobodyHasRead => OneLink
=============================================================================
