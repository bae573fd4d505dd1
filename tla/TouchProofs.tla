---------------------------- MODULE TouchProofs ----------------------------
(***************************************************************************)
(* Proofs about the touch screen and ADC drivers, for any set of readers.  *)
(***************************************************************************)
EXTENDS TouchAdc, TLAPS

\* The drivers start with the lock free.
LEMMA InitInv == Init => TouchInv
  BY TouchAssumption
  DEF Init, TouchInv, TouchTypeOK, ConverterHasOneUser, OneDebt, TouchNeverStalls,
      TouchHolds, Contexts, FireLabels, Quiet

\* The converter and the stylus touch neither the lock nor the handlers.
LEMMA HardwareInv ==
    ASSUME TouchInv, ConversionEnds \/ Pen
    PROVE  TouchInv'
  BY DEF TouchInv, TouchTypeOK, ConverterHasOneUser, OneDebt, TouchNeverStalls,
         TouchHolds, Quiet, ConversionEnds, Pen, touchVars, readVars

\* touch_timer_fire up to the release: who holds the lock does not change, and
\* the handler ends only with a conversion started.
LEMMA FireInv ==
    ASSUME TouchInv, NEW c \in Contexts,
           Fire(c) \/ FireDown(c) \/ FireStart(c) \/ FireUp(c) \/ FireWait(c)
    PROVE  TouchInv'
  <1>1. CASE Fire(c)
    BY <1>1 DEF TouchInv, TouchTypeOK, ConverterHasOneUser, OneDebt,
         TouchNeverStalls, TouchHolds, Quiet, Fire, Goto, MayRun, Contexts,
         FireLabels, touchVars, hwVars, readVars
  <1>2. CASE FireDown(c)
    BY <1>2, TouchAssumption DEF TouchInv, TouchTypeOK, ConverterHasOneUser, OneDebt,
         TouchNeverStalls, TouchHolds, Quiet, FireDown, Goto, MayRun, Contexts,
         FireLabels, touchVars, hwVars, readVars
  <1>3. CASE FireStart(c)
    BY <1>3 DEF TouchInv, TouchTypeOK, ConverterHasOneUser, OneDebt,
         TouchNeverStalls, TouchHolds, Quiet, FireStart, SetTsc, Goto, MayRun,
         Contexts, FireLabels, touchVars, hwVars, readVars
  <1>4. CASE FireUp(c)
    BY <1>4, TouchAssumption DEF TouchInv, TouchTypeOK, ConverterHasOneUser, OneDebt,
         TouchNeverStalls, TouchHolds, Quiet, FireUp, Goto, MayRun, Contexts,
         FireLabels, touchVars, hwVars, readVars
  <1>5. CASE FireWait(c)
    BY <1>5 DEF TouchInv, TouchTypeOK, ConverterHasOneUser, OneDebt,
         TouchNeverStalls, TouchHolds, Quiet, FireWait, SetTsc, Goto, MayRun,
         Contexts, FireLabels, touchVars, hwVars, readVars
  <1> QED BY <1>1, <1>2, <1>3, <1>4, <1>5

\* The release: OwnADC = 0 turns the ownership into the debt of one up(),
\* which up() pays.
LEMMA ReleaseInv ==
    ASSUME TouchInv, NEW c \in Contexts, FireDisown(c) \/ FireUnlock(c)
    PROVE  TouchInv'
  <1>1. CASE FireDisown(c)
    BY <1>1 DEF TouchInv, TouchTypeOK, ConverterHasOneUser, OneDebt,
         TouchNeverStalls, TouchHolds, Quiet, FireDisown, Goto, MayRun, Contexts,
         FireLabels, touchVars, hwVars, readVars
  <1>2. CASE FireUnlock(c)
    BY <1>2 DEF TouchInv, TouchTypeOK, ConverterHasOneUser, OneDebt,
         TouchNeverStalls, TouchHolds, Quiet, FireUnlock, Goto, MayRun, Contexts,
         FireLabels, touchVars, hwVars, readVars
  <1> QED BY <1>1, <1>2

\* The softirq starts touch_timer_fire without taking the lock.
LEMMA TimerInv ==
    ASSUME TouchInv, TimerExpires
    PROVE  TouchInv'
  BY DEF TouchInv, TouchTypeOK, ConverterHasOneUser, OneDebt, TouchNeverStalls,
         TouchHolds, Quiet, TimerExpires, Goto, Contexts, FireLabels, hwVars,
         readVars

\* stylus_updown takes the lock or nothing, and gives it back when the stylus
\* has gone.
LEMMA UpdownInv ==
    ASSUME TouchInv, StylusUpdown \/ UpdownOwn \/ UpdownTest
    PROVE  TouchInv'
  <1>1. CASE StylusUpdown
    BY <1>1 DEF TouchInv, TouchTypeOK, ConverterHasOneUser, OneDebt,
         TouchNeverStalls, TouchHolds, Quiet, StylusUpdown, Goto, Contexts,
         FireLabels, touchVars, readVars
  <1>2. CASE UpdownOwn
    BY <1>2 DEF TouchInv, TouchTypeOK, ConverterHasOneUser, OneDebt,
         TouchNeverStalls, TouchHolds, Quiet, UpdownOwn, Goto, Contexts,
         FireLabels, hwVars, readVars
  <1>3. CASE UpdownTest
    BY <1>3 DEF TouchInv, TouchTypeOK, ConverterHasOneUser, OneDebt,
         TouchNeverStalls, TouchHolds, Quiet, UpdownTest, Goto, Contexts,
         FireLabels, hwVars, readVars
  <1> QED BY <1>1, <1>2, <1>3

\* stylus_action goes on with a conversion or arms the timer.
LEMMA ActionInv ==
    ASSUME TouchInv, StylusAction
    PROVE  TouchInv'
  <1>1. CASE OwnADC = 0
    BY <1>1 DEF TouchInv, TouchTypeOK, ConverterHasOneUser, OneDebt,
         TouchNeverStalls, TouchHolds, Quiet, StylusAction, Sample, readVars
  <1>2. CASE OwnADC = 1
    <2>1. TouchTypeOK'
      BY <1>2, TouchAssumption DEF TouchInv, TouchTypeOK, StylusAction, Sample,
         SetTsc, readVars
    <2>2. TouchNeverStalls'
      BY <1>2 DEF TouchInv, TouchNeverStalls, StylusAction, Sample, SetTsc
    <2>3. ConverterHasOneUser' /\ OneDebt'
      BY <1>2 DEF TouchInv, ConverterHasOneUser, OneDebt, TouchHolds, StylusAction,
         Sample, readVars
    <2> QED BY <2>1, <2>2, <2>3 DEF TouchInv
  <1> QED BY <1>1, <1>2 DEF TouchInv, TouchTypeOK

\* A reader takes the lock when nobody has it and is the one that gives it
\* back; it runs only while both handlers are idle.
LEMMA ReaderInv ==
    ASSUME TouchInv, NEW r \in Readers, ReadLock(r) \/ ReadStep(r)
    PROVE  TouchInv'
  <1>1. CASE ReadLock(r)
    BY <1>1 DEF TouchInv, TouchTypeOK, ConverterHasOneUser, OneDebt,
         TouchNeverStalls, TouchHolds, Quiet, ReadLock, At, ReaderRuns, Contexts,
         FireLabels, touchVars, hwVars
  <1>2. CASE ReadStart(r)
    BY <1>2 DEF TouchInv, TouchTypeOK, ConverterHasOneUser, OneDebt,
         TouchNeverStalls, TouchHolds, Quiet, ReadStart, At, ReaderRuns, touchVars
  <1>3. CASE ReadSave(r)
    BY <1>3 DEF TouchInv, TouchTypeOK, ConverterHasOneUser, OneDebt,
         TouchNeverStalls, TouchHolds, Quiet, ReadSave, At, ReaderRuns, touchVars,
         hwVars
  <1>4. CASE ReadSelect(r)
    BY <1>4 DEF TouchInv, TouchTypeOK, ConverterHasOneUser, OneDebt,
         TouchNeverStalls, TouchHolds, Quiet, ReadSelect, At, ReaderRuns, touchVars
  <1>5. CASE ReadTake(r)
    BY <1>5 DEF TouchInv, TouchTypeOK, ConverterHasOneUser, OneDebt,
         TouchNeverStalls, TouchHolds, Quiet, ReadTake, At, ReaderRuns, touchVars,
         hwVars
  <1>6. CASE ReadRestore(r)
    BY <1>6 DEF TouchInv, TouchTypeOK, ConverterHasOneUser, OneDebt,
         TouchNeverStalls, TouchHolds, Quiet, ReadRestore, SetTsc, At, ReaderRuns,
         touchVars
  <1>7. CASE ReadUnlock(r)
    BY <1>7 DEF TouchInv, TouchTypeOK, ConverterHasOneUser, OneDebt,
         TouchNeverStalls, TouchHolds, Quiet, ReadUnlock, At, ReaderRuns, Contexts,
         FireLabels, touchVars, hwVars
  <1> QED BY <1>1, <1>2, <1>3, <1>4, <1>5, <1>6, <1>7 DEF ReadStep

\* TouchInv is inductive.
LEMMA NextInv ==
    ASSUME TouchInv, [Next]_vars
    PROVE  TouchInv'
  <1>1. CASE UNCHANGED vars
    BY <1>1 DEF TouchInv, TouchTypeOK, ConverterHasOneUser, OneDebt,
         TouchNeverStalls, TouchHolds, Quiet, vars, touchVars, hwVars, readVars
  <1>2. CASE Next
    BY <1>2, HardwareInv, FireInv, ReleaseInv, TimerInv, UpdownInv, ActionInv,
       ReaderInv DEF Next, System, FireStep
  <1> QED BY <1>1, <1>2

LEMMA Invariant == Spec => []TouchInv
  BY InitInv, NextInv, PTL DEF Spec

\* The drivers' variables keep their types; in particular ADC_LOCK is a
\* binary semaphore, however late a timer or a conversion comes.
THEOREM TouchTypes == Spec => []TouchTypeOK
  BY Invariant, PTL DEF TouchInv

\* ADC_LOCK has one holder: the touch driver or one reader.
THEOREM OneUser == Spec => []ConverterHasOneUser
  BY Invariant, PTL DEF TouchInv

\* The touch driver never has the converter with nothing left to make it go on.
THEOREM NeverStalls == Spec => []TouchNeverStalls
  BY Invariant, PTL DEF TouchInv
-----------------------------------------------------------------------------
(***************************************************************************)
(* Four samples in every point.  The handlers of the touch driver keep one *)
(* link of the chain alive while there are no readers.                     *)
(***************************************************************************)
Chain == OneLink /\ averaged \in {0, 4}

LEMMA ChainStarts == Init => SampleChain /\ FourSamples
  BY DEF Init, SampleChain, FourSamples, NobodyHasRead, OneLink, Contexts, Quiet,
         FireLabels

\* A conversion hands over to its interrupt; the stylus changes no link.
LEMMA HardwareChain ==
    ASSUME TouchInv, Chain, ConversionEnds \/ Pen
    PROVE  Chain'
  BY DEF TouchInv, TouchTypeOK, Chain, OneLink, Quiet, Contexts, ConversionEnds, Pen,
         touchVars

\* The timer hands over to its handler.
LEMMA TimerChain ==
    ASSUME TouchInv, Chain, TimerExpires
    PROVE  Chain'
  BY DEF TouchInv, TouchTypeOK, Chain, OneLink, Quiet, Contexts, FireLabels,
         TimerExpires, Goto, hwVars

\* touch_timer_fire reports only where four samples or none have been taken,
\* and starts the next conversion with none.
LEMMA FireChain ==
    ASSUME TouchInv, Chain, NEW c \in Contexts, FireStep(c)
    PROVE  Chain'
  <1> USE DEF TouchInv, TouchTypeOK, OneDebt, Chain, OneLink, Quiet, Contexts,
              FireLabels, Goto, MayRun
  <1>1. CASE Fire(c)
    BY <1>1 DEF Fire, touchVars, hwVars
  <1>2. CASE FireDown(c)
    BY <1>2 DEF FireDown, hwVars
  <1>3. CASE FireStart(c)
    BY <1>3 DEF FireStart, touchVars
  <1>4. CASE FireUp(c)
    BY <1>4 DEF FireUp, hwVars
  <1>5. CASE FireWait(c)
    BY <1>5 DEF FireWait, touchVars
  <1>6. CASE FireDisown(c)
    BY <1>6 DEF FireDisown, hwVars
  <1>7. CASE FireUnlock(c)
    BY <1>7 DEF FireUnlock, touchVars, hwVars
  <1> QED
    BY <1>1, <1>2, <1>3, <1>4, <1>5, <1>6, <1>7 DEF FireStep

\* stylus_updown begins a chain only where there is none: the lock was free.
LEMMA UpdownChain ==
    ASSUME TouchInv, Chain, StylusUpdown \/ UpdownOwn \/ UpdownTest
    PROVE  Chain'
  <1> USE DEF TouchInv, TouchTypeOK, OneDebt, Chain, OneLink, Quiet, Contexts,
              FireLabels, Goto
  <1>1. CASE StylusUpdown
    BY <1>1 DEF StylusUpdown, ConverterHasOneUser, TouchHolds, touchVars
  <1>2. CASE UpdownOwn
    BY <1>2 DEF UpdownOwn, hwVars
  <1>3. CASE UpdownTest
    BY <1>3 DEF UpdownTest, hwVars
  <1> QED
    BY <1>1, <1>2, <1>3

\* stylus_action counts its sample, and starts a conversion or arms the timer,
\* never both.
LEMMA ActionChain ==
    ASSUME TouchInv, Chain, StylusAction
    PROVE  Chain'
  BY DEF TouchInv, TouchTypeOK, Chain, OneLink, Quiet, Contexts, FireLabels,
         StylusAction, Sample

\* A reader that has begun is seen in pc until it is seen in value.
LEMMA ReaderChain ==
    ASSUME TouchInv, SampleChain, NEW r \in Readers, ReadLock(r) \/ ReadStep(r)
    PROVE  SampleChain' /\ FourSamples'
  <1>1. ~NobodyHasRead'
    BY DEF TouchInv, TouchTypeOK, SampleChain, NobodyHasRead, ReadStep, ReadLock,
           ReadStart, ReadSave, ReadSelect, ReadTake, ReadRestore, ReadUnlock, At
  <1>2. \A q \in Readers : pc'[q] \in {"restore", "copy"} => value'[q] # "none"
    BY DEF TouchInv, TouchTypeOK, SampleChain, ReadStep, ReadLock, ReadStart,
           ReadSave, ReadSelect, ReadTake, ReadRestore, ReadUnlock, At
  <1> QED
    BY <1>1, <1>2 DEF SampleChain, FourSamples

LEMMA SampleChainStep ==
    ASSUME TouchInv, SampleChain, FourSamples, [Next]_vars
    PROVE  SampleChain' /\ FourSamples'
  <1>1. CASE System \/ Pen
    <2>1. UNCHANGED readVars
      BY <1>1 DEF System, Pen, ConversionEnds, StylusAction, Sample, StylusUpdown,
         UpdownOwn, UpdownTest, TimerExpires, FireStep, Fire, FireDown, FireStart,
         FireUp, FireWait, FireDisown, FireUnlock
    <2>2. NobodyHasRead' = NobodyHasRead
      BY <2>1 DEF NobodyHasRead, readVars
    <2>3. NobodyHasRead => Chain
      BY DEF SampleChain, FourSamples, Chain
    <2>4. Chain => Chain'
      BY <1>1, HardwareChain, TimerChain, FireChain, UpdownChain, ActionChain
      DEF System
    <2> QED
      BY <2>1, <2>2, <2>3, <2>4 DEF SampleChain, FourSamples, Chain, readVars
  <1>2. CASE \E r \in Readers : ReadLock(r) \/ ReadStep(r)
    BY <1>2, ReaderChain
  <1>3. CASE UNCHANGED vars
    BY <1>3 DEF SampleChain, FourSamples, NobodyHasRead, OneLink, Quiet, vars,
       touchVars, hwVars, readVars
  <1> QED
    BY <1>1, <1>2, <1>3 DEF Next

\* As long as no process has read the ADC, every point the touch driver reports is
\* the average of four samples, wherever the stylus, the interrupts and the timer
\* cut into each other.
THEOREM PointsHaveFourSamples == Spec => []FourSamples
  <1>1. Init => TouchInv /\ SampleChain /\ FourSamples
    BY InitInv, ChainStarts
  <1>2. TouchInv /\ SampleChain /\ FourSamples /\ [Next]_vars
            => (TouchInv /\ SampleChain /\ FourSamples)'
    BY NextInv, SampleChainStep
  <1> QED
    BY <1>1, <1>2, PTL DEF Spec
=============================================================================
