----------------------------- MODULE PowerProofs -----------------------------
(***************************************************************************)
(* Proofs about Power.  There are no constants to generalise over; what    *)
(* the proofs add to the run, which covers every state, is the reason: the *)
(* phase a suspend or a resume is in says which of the transceiver's bits, *)
(* of EXTI4 and of the clock are set, and when that fails one of three     *)
(* things has happened before, which the history variables remember.       *)
(***************************************************************************)
EXTENDS Power, TLAPS

ThreadAt == Steps \cup {"poll", "look", "secret"}
HandlerAt == Steps \cup {"none", "show", "clear", "look", "setup", "resume", "listen", "light"}

\* The thread is on its way to sleep.
Suspending == {"dark", "mask", "fsusp", "lp", "deep", "wfi"}

\* The host was early, or a second suspend was noticed while the first went on.
Excused == early \/ stale

\* Where a suspend and the resume that ends it are, by the bits they have set.
\* WFI is left only by a handler: that of the bus comes before that of the slot.
Phases ==
  /\ pc.isr \notin Steps
  /\ pc.thread \in {"poll", "look", "secret", "dark", "mask"} =>
       listening /\ ~fsusp /\ ~lp /\ ~wakeup /\ pc.isr \in {"none", "show", "clear"}
  /\ pc.thread = "fsusp" => ~listening /\ ~fsusp /\ ~lp /\ ~wakeup /\ pc.isr = "none"
  /\ pc.thread = "lp" => ~listening /\ fsusp /\ ~lp /\ ~wakeup /\ pc.isr = "none"
  /\ pc.thread \in {"deep", "wfi", "return"} =>
       \/ pc.isr = "none" /\ ~listening /\ fsusp /\ (lp <=> ~wakeup)
       \/ pc.isr \in {"look", "setup", "resume"} /\ ~listening /\ fsusp /\ ~lp /\ ~wakeup
       \/ pc.isr = "listen" /\ ~listening /\ ~fsusp /\ ~lp /\ ~wakeup
       \/ pc.isr \in {"light", "none", "show", "clear"} /\ listening /\ ~fsusp /\ ~lp /\ ~wakeup
  /\ asleep => pc.thread = "return" /\ pc.isr = "none"
  /\ pc.thread = "return" /\ pc.isr = "none" /\ ~asleep => listening

\* What the host does to a device that is not yet asleep leaves its mark.
Excuses ==
  /\ bus # "active" => ~early
  /\ susp /\ (bus = "active" \/ pc.thread # "poll") => Excused
  /\ pc.thread \in Suspending /\ bus = "active" => Excused
  /\ pc.thread \in {"deep", "wfi"} /\ (pc.isr \in {"setup", "resume"} \/ ~fsusp) => Excused
  /\ asleep /\ listening => Excused

\* SLEEPDEEP is on from Deep to Setup, and the oscillator from waking to Setup.
Clocks ==
  /\ deep => clock = "hsi" \/ pc.thread = "wfi" \/ asleep
  /\ pc.thread \notin {"wfi", "return"} => Excused \/ (~deep /\ clock = "pll")
  /\ pc.thread = "wfi" => Excused \/ clock = "pll"
  /\ pc.thread = "return" /\ ~asleep /\ pc.isr \notin {"look", "setup"} =>
       Excused \/ (~deep /\ clock = "pll")

\* The LED is out from Dark on, unless exti4_isr lit it before Mask.
Darkness ==
  /\ pc.thread = "mask" /\ pc.isr # "show" => ~led \/ relit
  /\ pc.thread \in {"fsusp", "lp"} => ~led \/ relit
  /\ pc.thread \in {"deep", "wfi"} /\ fsusp => ~led \/ relit \/ Excused
  /\ asleep => ~led \/ relit \/ Excused

\* A cartridge holds SO high but when it answers, and the pull holds it low.
Line ==
  /\ inserted /\ pc.thread # "secret" => so
  /\ ~inserted /\ pulled => ~so

\* Whoever shows the level of SO shows the one it has, or an edge is pending.
Lights ==
  /\ pc.isr = "show" => edge /\ (missed \/ level = so)
  /\ pc.isr = "clear" => edge /\ (missed \/ led = so)
  /\ listening /\ pc.isr # "light" /\ pc.thread # "mask" => edge \/ missed \/ led = so

\* A device that noise has woken suspends inside the handler and stays there:
\* EXTI18 cannot preempt it, and EXTI4 is masked.
Stuck ==
  /\ pc.isr \in Steps /\ ~listening
  /\ asleep <=> pc.isr = "return"
  /\ pc.isr # "dark" => ~led

\* The inductive invariant, relative to the types.
PowerInv ==
  /\ Line /\ Lights
  /\ noisy => Stuck
  /\ ~noisy => Phases /\ Excuses /\ Clocks /\ Darkness

----------------------------------------------------------------------------
(* The types.                                                              *)

PcType == pc \in [thread : ThreadAt, isr : HandlerAt]
PowerType == asleep \in BOOLEAN /\ deep \in BOOLEAN /\ clock \in {"pll", "hsi"}
UsbType == fsusp \in BOOLEAN /\ lp \in BOOLEAN /\ susp \in BOOLEAN /\ wakeup \in BOOLEAN
DetectType ==
  /\ listening \in BOOLEAN /\ edge \in BOOLEAN /\ led \in BOOLEAN /\ level \in BOOLEAN
  /\ so \in BOOLEAN /\ pulled \in BOOLEAN
WorldType == bus \in {"active", "idle", "noise"} /\ inserted \in BOOLEAN
HistoryType ==
  /\ early \in BOOLEAN /\ stale \in BOOLEAN /\ noisy \in BOOLEAN /\ missed \in BOOLEAN
  /\ relit \in BOOLEAN

Bits == PowerType /\ UsbType /\ DetectType /\ WorldType /\ HistoryType

LEMMA TypeParts == (TypeOK <=> PcType /\ Bits) /\ (TypeOK' <=> PcType' /\ Bits')
  BY Zenon
  DEF TypeOK, Bits, PcType, PowerType, UsbType, DetectType, WorldType, HistoryType,
    ThreadAt, HandlerAt

\* Where the two contexts may go.
LEMMA ThreadMoves ==
  ASSUME PcType, NEW from, NEW to \in ThreadAt, Goto("thread", from, to)
  PROVE  PcType'
  BY DEF PcType, Goto, ThreadAt, HandlerAt

LEMMA HandlerMoves ==
  ASSUME PcType, NEW from, NEW to \in HandlerAt, Goto("isr", from, to)
  PROVE  PcType'
  BY DEF PcType, Goto, ThreadAt, HandlerAt

LEMMA HandlerEnters ==
  ASSUME PcType, NEW first \in HandlerAt, Enter(first)
  PROVE  PcType'
  BY DEF PcType, Enter, ThreadAt, HandlerAt

LEMMA PcStep == PcType /\ Next => PcType'
<1> SUFFICES ASSUME PcType, Next PROVE PcType'
  OBVIOUS
<1> USE DEF ThreadAt, HandlerAt, Steps
<1>1. CASE Poll \/ NobodyThere \/ Listens \/ Shake
  BY <1>1, ThreadMoves DEF Poll, NobodyThere, Listens, Shake
<1>2. ASSUME NEW ok \in BOOLEAN, Verdict(ok) PROVE PcType'
  BY <1>2, ThreadMoves DEF Verdict
<1>3. CASE Suspend("thread")
  BY <1>3, ThreadMoves
  DEF Suspend, Dark, Mask, ForceSuspend, LowPower, Deep, WaitForInterrupt, Return
<1>4. CASE Suspend("isr")
  BY <1>4, HandlerMoves
  DEF Suspend, Dark, Mask, ForceSuspend, LowPower, Deep, WaitForInterrupt, Return
<1>5. CASE SlotChanged \/ WakeupSignalled
  BY <1>5, HandlerEnters DEF SlotChanged, WakeupSignalled
<1>6. CASE ShowLevel \/ ClearEdge \/ Look \/ Setup \/ Resume \/ Listen \/ Light
  BY <1>6, HandlerMoves DEF ShowLevel, ClearEdge, Look, Setup, Resume, Listen, Light
<1>7. CASE Environment
  BY <1>7 DEF PcType, Environment, HostSuspends, HostResumes, NoiseComes, NoiseGoes, Quiet,
    BusWakes, ChangeSlot, Wiggle
<1> QED
  BY <1>1, <1>2, <1>3, <1>4, <1>5, <1>6, <1>7 DEF Next, Thread, Handler

LEMMA PowerTypeStep == Bits /\ Next => PowerType'
  BY DEF Bits, PowerType, Enter, power, usb, detect, line, world, history,
    Next, Thread, Handler, Environment, Suspend, Poll, Dark, Mask, ForceSuspend, LowPower,
    Deep, WaitForInterrupt, Return, Shake, NobodyThere, Listens, Verdict, SlotChanged,
    ShowLevel, ClearEdge, WakeupSignalled, Look, Setup, Resume, Listen, Light, HostSuspends,
    HostResumes, NoiseComes, NoiseGoes, Quiet, BusWakes, ChangeSlot, Wiggle

LEMMA UsbTypeStep == Bits /\ Next => UsbType'
  BY DEF Bits, UsbType, power, usb, detect, line, world, history,
    Next, Thread, Handler, Environment, Suspend, Poll, Dark, Mask, ForceSuspend, LowPower,
    Deep, WaitForInterrupt, Return, Shake, NobodyThere, Listens, Verdict, SlotChanged,
    ShowLevel, ClearEdge, WakeupSignalled, Look, Setup, Resume, Listen, Light, HostSuspends,
    HostResumes, NoiseComes, NoiseGoes, Quiet, BusWakes, ChangeSlot, Wiggle

LEMMA WorldTypeStep == Bits /\ Next => WorldType'
  BY DEF Bits, WorldType, power, usb, detect, line, world, history,
    Next, Thread, Handler, Environment, Suspend, Poll, Dark, Mask, ForceSuspend, LowPower,
    Deep, WaitForInterrupt, Return, Shake, NobodyThere, Listens, Verdict, SlotChanged,
    ShowLevel, ClearEdge, WakeupSignalled, Look, Setup, Resume, Listen, Light, HostSuspends,
    HostResumes, NoiseComes, NoiseGoes, Quiet, BusWakes, ChangeSlot, Wiggle

LEMMA HistoryTypeStep == Bits /\ Next => HistoryType'
  BY DEF Bits, HistoryType, DetectType, SOMoves, power, usb, detect, line, world, history,
    Next, Thread, Handler, Environment, Suspend, Poll, Dark, Mask, ForceSuspend, LowPower,
    Deep, WaitForInterrupt, Return, Shake, NobodyThere, Listens, Verdict, SlotChanged,
    ShowLevel, ClearEdge, WakeupSignalled, Look, Setup, Resume, Listen, Light, HostSuspends,
    HostResumes, NoiseComes, NoiseGoes, Quiet, BusWakes, ChangeSlot, Wiggle

LEMMA DetectTypeStep == Bits /\ Next => DetectType'
<1>1. Bits /\ Next => /\ listening' \in BOOLEAN /\ led' \in BOOLEAN
                      /\ level' \in BOOLEAN /\ pulled' \in BOOLEAN
  BY DEF Bits, DetectType, power, usb, detect, line, world, history,
    Next, Thread, Handler, Environment, Suspend, Poll, Dark, Mask, ForceSuspend, LowPower,
    Deep, WaitForInterrupt, Return, Shake, NobodyThere, Listens, Verdict, SlotChanged,
    ShowLevel, ClearEdge, WakeupSignalled, Look, Setup, Resume, Listen, Light, HostSuspends,
    HostResumes, NoiseComes, NoiseGoes, Quiet, BusWakes, ChangeSlot, Wiggle
<1>2. Bits /\ Next => so' \in BOOLEAN
  BY DEF Bits, DetectType, WorldType, power, usb, detect, line, world, history, SOMoves,
    Next, Thread, Handler, Environment, Suspend, Poll, Dark, Mask, ForceSuspend, LowPower,
    Deep, WaitForInterrupt, Return, Shake, NobodyThere, Listens, Verdict, SlotChanged,
    ShowLevel, ClearEdge, WakeupSignalled, Look, Setup, Resume, Listen, Light, HostSuspends,
    HostResumes, NoiseComes, NoiseGoes, Quiet, BusWakes, ChangeSlot, Wiggle
<1>3. Bits /\ Next => edge' \in BOOLEAN
  BY DEF Bits, DetectType, WorldType, power, usb, detect, line, world, history, SOMoves,
    Next, Thread, Handler, Environment, Suspend, Poll, Dark, Mask, ForceSuspend, LowPower,
    Deep, WaitForInterrupt, Return, Shake, NobodyThere, Listens, Verdict, SlotChanged,
    ShowLevel, ClearEdge, WakeupSignalled, Look, Setup, Resume, Listen, Light, HostSuspends,
    HostResumes, NoiseComes, NoiseGoes, Quiet, BusWakes, ChangeSlot, Wiggle
<1> QED
  BY <1>1, <1>2, <1>3 DEF DetectType

LEMMA TypeStep == TypeOK /\ [Next]_vars => TypeOK'
<1> SUFFICES ASSUME PcType, Bits, [Next]_vars PROVE PcType' /\ Bits'
  BY TypeParts
<1>1. CASE Next
  BY <1>1, PcStep, PowerTypeStep, UsbTypeStep, DetectTypeStep, WorldTypeStep, HistoryTypeStep
  DEF Bits
<1>2. CASE UNCHANGED vars
  <2>1. /\ UNCHANGED <<pc, asleep, deep, clock, fsusp, lp, susp, wakeup>>
        /\ UNCHANGED <<listening, edge, led, level, so, pulled, bus, inserted>>
        /\ UNCHANGED <<early, stale, noisy, missed, relit>>
    BY <1>2 DEF vars, power, usb, detect, line, world, history
  <2>2. PcType' /\ PowerType' /\ UsbType'
    BY <2>1 DEF PcType, Bits, PowerType, UsbType
  <2>3. DetectType' /\ WorldType'
    BY <2>1 DEF Bits, DetectType, WorldType
  <2>4. HistoryType'
    BY <2>1 DEF Bits, HistoryType
  <2> QED
    BY <2>2, <2>3, <2>4 DEF Bits
<1> QED
  BY <1>1, <1>2

\* The types of the program counters, the bits of power, USB and detection, the
\* line, the world and the histories.
THEOREM PowerTypeCorrect == Spec => []TypeOK
<1>1. Init => PcType /\ Bits
  <2>1. Init => PcType
    BY DEF Init, PcType, ThreadAt, HandlerAt
  <2>4. Init => PowerType /\ UsbType /\ WorldType
    BY DEF Init, PowerType, UsbType, WorldType
  <2>2. Init => DetectType
    BY DEF Init, DetectType
  <2>3. Init => HistoryType
    BY DEF Init, HistoryType
  <2> QED
    BY <2>1, <2>2, <2>3, <2>4 DEF Bits
<1>2. Init => TypeOK
  BY <1>1, TypeParts
<1> QED
  BY <1>2, TypeStep, PTL DEF Spec
----------------------------------------------------------------------------
(* The invariant, one lemma for each part of a suspend and of a resume.    *)

LEMMA InitPower == Init => PowerInv
  BY DEF Init, PowerInv, Line, Lights, Phases, Excuses, Clocks, Darkness, Excused, Suspending,
    Steps

\* The thread on its way to sleep: each step reaches the next phase.
LEMMA SuspendStep == ASSUME TypeOK, PowerInv, Poll \/ Suspend("thread") PROVE PowerInv'
<1> USE DEF TypeOK, PowerInv, Line, Lights, Stuck, Phases, Excuses, Clocks, Darkness, Steps,
  Suspending, Excused, Goto, Pending, power, usb, detect, line, world, history
<1>1. CASE Poll
  BY <1>1 DEF Poll
<1>2. CASE Dark("thread")
  BY <1>2 DEF Dark
<1>3. CASE Mask("thread")
  BY <1>3 DEF Mask
<1>4. CASE ForceSuspend("thread")
  BY <1>4 DEF ForceSuspend
<1>5. CASE LowPower("thread")
  BY <1>5 DEF LowPower
<1>6. CASE Deep("thread")
  BY <1>6 DEF Deep
<1>7. CASE WaitForInterrupt("thread")
  BY <1>7 DEF WaitForInterrupt
<1>8. CASE Return("thread")
  BY <1>8 DEF Return
<1> QED
  BY <1>1, <1>2, <1>3, <1>4, <1>5, <1>6, <1>7, <1>8 DEF Suspend

\* The handler suspends only after noise: Stuck goes on.
LEMMA StrandedStep == ASSUME TypeOK, PowerInv, Suspend("isr") PROVE PowerInv'
<1> USE DEF TypeOK, PowerInv, Line, Lights, Stuck, Phases, Steps,
  Goto, power, usb, detect, line, world, history
<1>1. CASE Dark("isr")
  BY <1>1 DEF Dark
<1>2. CASE Mask("isr")
  BY <1>2 DEF Mask
<1>3. CASE ForceSuspend("isr")
  BY <1>3 DEF ForceSuspend
<1>4. CASE LowPower("isr")
  BY <1>4 DEF LowPower
<1>5. CASE Deep("isr")
  BY <1>5 DEF Deep
<1>6. CASE WaitForInterrupt("isr")
  BY <1>6 DEF WaitForInterrupt
<1>7. CASE Return("isr")
  BY <1>7 DEF Return
<1> QED
  BY <1>1, <1>2, <1>3, <1>4, <1>5, <1>6, <1>7 DEF Suspend

\* The handshake, during which nothing suspends.
LEMMA ShakeStep ==
  ASSUME TypeOK, PowerInv, Shake \/ NobodyThere \/ Listens \/ \E ok \in BOOLEAN : Verdict(ok)
  PROVE  PowerInv'
<1> USE DEF TypeOK, PowerInv, Line, Lights, Stuck, Phases, Excuses, Clocks, Darkness, Steps,
  Suspending, Excused, Goto, Pending, SOMoves, power, usb, detect, line, world, history
<1>1. CASE Shake
  BY <1>1 DEF Shake
<1>2. CASE NobodyThere
  BY <1>2 DEF NobodyThere
<1>3. CASE Listens
  BY <1>3 DEF Listens
<1>4. ASSUME NEW ok \in BOOLEAN, Verdict(ok) PROVE PowerInv'
  BY <1>4 DEF Verdict
<1> QED
  BY <1>1, <1>2, <1>3, <1>4

\* exti4_isr, and EXTI18 up to __usb_resume and cart_detect_enable.
LEMMA HandlerStep ==
  ASSUME TypeOK, PowerInv,
         \/ SlotChanged \/ ShowLevel \/ ClearEdge
         \/ WakeupSignalled \/ Look \/ Setup \/ Resume \/ Listen \/ Light
  PROVE  PowerInv'
<1> USE DEF TypeOK, PowerInv, Line, Lights, Stuck, Phases, Excuses, Clocks, Darkness, Steps,
  Suspending, Excused, Goto, Enter, SOMoves, power, usb, detect, line, world, history
<1>1. CASE SlotChanged
  BY <1>1 DEF SlotChanged
<1>2. CASE ShowLevel
  BY <1>2 DEF ShowLevel
<1>3. CASE ClearEdge
  BY <1>3 DEF ClearEdge
<1>4. CASE WakeupSignalled
  BY <1>4 DEF WakeupSignalled
<1>5. CASE Look
  BY <1>5 DEF Look
<1>6. CASE Setup
  BY <1>6 DEF Setup
<1>7. CASE Resume
  BY <1>7 DEF Resume
<1>8. CASE Listen
  BY <1>8 DEF Listen
<1>9. CASE Light
  BY <1>9 DEF Light
<1> QED
  BY <1>1, <1>2, <1>3, <1>4, <1>5, <1>6, <1>7, <1>8, <1>9

\* The bus: only the excuses speak of it.
LEMMA BusStep ==
  ASSUME TypeOK, PowerInv,
         HostSuspends \/ HostResumes \/ NoiseComes \/ NoiseGoes \/ Quiet \/ BusWakes
  PROVE  PowerInv'
<1> USE DEF TypeOK, PowerInv, Line, Lights, Stuck, Phases, Excuses, Clocks, Darkness, Steps,
  Suspending, Excused, power, usb, detect, line, world, history
<1>1. CASE HostSuspends
  BY <1>1 DEF HostSuspends, Up
<1>2. CASE HostResumes
  <2>1. Line' /\ Lights' /\ (noisy' => Stuck')
    BY <1>2 DEF HostResumes
  <2>2. ~noisy' => Phases' /\ Excuses'
    BY <1>2 DEF HostResumes
  <2>3. ~noisy' => Clocks' /\ Darkness'
    BY <1>2 DEF HostResumes
  <2> QED
    BY <2>1, <2>2, <2>3
<1>3. CASE NoiseComes
  BY <1>3 DEF NoiseComes
<1>4. CASE NoiseGoes
  BY <1>4 DEF NoiseGoes
<1>5. CASE Quiet
  <2>1. Line' /\ Lights' /\ (noisy' => Stuck')
    BY <1>5 DEF Quiet
  <2>2. ~noisy' => Phases' /\ Excuses'
    BY <1>5 DEF Quiet
  <2>3. ~noisy' => Clocks' /\ Darkness'
    BY <1>5 DEF Quiet
  <2> QED
    BY <2>1, <2>2, <2>3
<1>6. CASE BusWakes
  BY <1>6 DEF BusWakes
<1> QED
  BY <1>1, <1>2, <1>3, <1>4, <1>5, <1>6

\* The slot: an edge is kept, if EXTI4 is let through.
LEMMA SlotStep == ASSUME TypeOK, PowerInv, ChangeSlot \/ Wiggle PROVE PowerInv'
<1> USE DEF TypeOK, PowerInv, Line, Lights, SOMoves, power, usb, world
<1>1. CASE ChangeSlot
  <2>1. Line'
    BY <1>1 DEF ChangeSlot
  <2>2. Lights'
    BY <1>1 DEF ChangeSlot
  <2>3. (noisy' => Stuck') /\ (~noisy' => Phases' /\ Excuses' /\ Clocks' /\ Darkness')
    BY <1>1 DEF ChangeSlot, Stuck, Phases, Excuses, Clocks, Darkness, Excused
  <2> QED
    BY <2>1, <2>2, <2>3
<1>2. CASE Wiggle
  <2>1. Line'
    BY <1>2 DEF Wiggle
  <2>2. Lights'
    BY <1>2 DEF Wiggle
  <2>3. (noisy' => Stuck') /\ (~noisy' => Phases' /\ Excuses' /\ Clocks' /\ Darkness')
    BY <1>2 DEF Wiggle, Stuck, Phases, Excuses, Clocks, Darkness, Excused
  <2> QED
    BY <2>1, <2>2, <2>3
<1> QED
  BY <1>1, <1>2

LEMMA PowerStep == TypeOK /\ PowerInv /\ [Next]_vars => PowerInv'
<1> SUFFICES ASSUME TypeOK, PowerInv, [Next]_vars PROVE PowerInv'
  OBVIOUS
<1>1. CASE Next
  BY <1>1, SuspendStep, StrandedStep, ShakeStep, HandlerStep, BusStep, SlotStep
  DEF Next, Thread, Handler, Environment
<1>2. CASE UNCHANGED vars
  BY <1>2 DEF vars, power, usb, detect, line, world, history, PowerInv, Line, Lights, Stuck,
    Phases, Excuses, Clocks, Darkness, Excused
<1> QED
  BY <1>1, <1>2

LEMMA PowerCorrect == Spec => []PowerInv
  BY InitPower, PowerStep, PowerTypeCorrect, PTL DEF Spec

----------------------------------------------------------------------------

\* A core that sleeps is one that the bus wakes (__usb_suspend, plat_stop_mode,
\* usb_wakeup_isr), but for the three races that the histories record.
THEOREM WakeableCorrect == Spec => []Wakeable
<1>1. TypeOK /\ PowerInv => Wakeable
  BY DEF TypeOK, PowerInv, Wakeable, Phases, Excuses, Excused
<1> QED
  BY <1>1, PowerTypeCorrect, PowerCorrect, PTL

\* The main loop polls on the PLL, with SLEEPDEEP off (__usb_resume,
\* plat_setup).
THEOREM ClockRestoredCorrect == Spec => []ClockRestored
<1>1. TypeOK /\ PowerInv => ClockRestored
  BY DEF TypeOK, PowerInv, ClockRestored, Clocks, Excused, Stuck, Steps
<1> QED
  BY <1>1, PowerTypeCorrect, PowerCorrect, PTL

\* While the main loop runs and no edge is pending the LED shows the slot
\* (exti4_isr, cart_detect_enable), whatever came during a handshake or a sleep.
THEOREM LedTrueCorrect == Spec => []LedTrue
<1>1. TypeOK /\ PowerInv => LedTrue
  BY DEF TypeOK, PowerInv, LedTrue, Line, Lights, Phases, Stuck, Steps
<1> QED
  BY <1>1, PowerTypeCorrect, PowerCorrect, PTL

\* The LED is out while the device sleeps (cart_detect_disable).
THEOREM DarkAsleepCorrect == Spec => []DarkAsleep
<1>1. TypeOK /\ PowerInv => DarkAsleep
  BY DEF TypeOK, PowerInv, DarkAsleep, Darkness, Excused, Stuck
<1> QED
  BY <1>1, PowerTypeCorrect, PowerCorrect, PTL

\* The safety half of what noise does: a device that noise has woken is never
\* up again (usb.c 265-267), for the handler it suspends in never ends.
THEOREM NoiseStrands == Spec => [](noisy => ~Up)
<1>1. PowerInv => (noisy => ~Up)
  BY DEF PowerInv, Stuck, Steps, Up
<1> QED
  BY <1>1, PowerCorrect, PTL
=============================================================================
