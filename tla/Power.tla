------------------------------- MODULE Power --------------------------------
(***************************************************************************)
(* USB suspend and resume with STOP_MODE (usb.c, platform.c), and the LED  *)
(* that shows the cartridge (cartridge.c, led.c) by the level of the SO    *)
(* line, on which a handshake also receives the secret.                    *)
(*                                                                         *)
(* usbd_poll calls __usb_suspend in the main thread, which goes to sleep   *)
(* inside it.  The bus wakes the core with EXTI18, whose handler resumes,  *)
(* or suspends once more from within.  EXTI4 follows the slot.  No one     *)
(* gives an interrupt a priority, so handlers do not preempt each other,   *)
(* and a core that sleeps in a handler is woken by none of them.           *)
(***************************************************************************)
VARIABLES
  pc,          \* per context, the next step
  asleep,      \* the core waits in WFI
  deep,        \* SCB_SCR.SLEEPDEEP
  clock,       \* "pll", or "hsi" after stop mode
  fsusp, lp,   \* USB_CNTR.FSUSP and LP_MODE
  susp,        \* USB_ISTR.SUSP
  wakeup,      \* EXTI18 is pending
  listening,   \* EXTI4 is let through, at EXTI and NVIC
  edge,        \* EXTI4 is pending
  led,         \* the LED is on
  level,       \* the level of SO that exti4_isr read
  so, pulled,  \* the level of SO, and whether PB4 pulls it down
  bus,         \* the USB: "active", "idle", or "noise" on an idle bus
  inserted,    \* there is a cartridge
  early,       \* history: the host resumed before the device was asleep
  stale,       \* history: SUSP was set once more before FSUSP was
  noisy,       \* history: noise woke the device
  missed,      \* history: SO moved while exti4_isr ran
  relit        \* history: exti4_isr ran after the LED was put out for suspend

power == <<asleep, deep, clock>>
usb == <<fsusp, lp, susp, wakeup>>
detect == <<listening, edge, led, level>>
line == <<so, pulled>>
world == <<bus, inserted>>
history == <<early, stale, noisy, missed, relit>>
vars == <<pc, power, usb, detect, line, world, history>>

\* usb_run has set everything up.
Init ==
  /\ pc = [thread |-> "poll", isr |-> "none"]
  /\ asleep = FALSE /\ deep = FALSE /\ clock = "pll"
  /\ fsusp = FALSE /\ lp = FALSE /\ susp = FALSE /\ wakeup = FALSE
  /\ listening = TRUE /\ edge = FALSE
  /\ inserted \in BOOLEAN /\ led = inserted /\ level = inserted
  /\ so = inserted /\ pulled = TRUE
  /\ bus = "active"
  /\ early = FALSE /\ stale = FALSE /\ noisy = FALSE /\ missed = FALSE /\ relit = FALSE

\* The level of SO becomes l.  An edge on a masked line may or may not be kept.
SOMoves(l) ==
  /\ so' = l
  /\ IF l = so THEN UNCHANGED <<edge, missed>>
     ELSE /\ edge' \in {TRUE, edge \/ listening}
          /\ missed' = (missed \/ pc.isr \in {"show", "clear"})

Pending == wakeup \/ (listening /\ edge)

\* Context c runs, the thread only outside handlers and with none to enter.
Goto(c, from, to) ==
  /\ ~asleep /\ (c = "thread" => pc.isr = "none" /\ ~Pending)
  /\ pc[c] = from /\ pc' = [pc EXCEPT ![c] = to]

----------------------------------------------------------------------------
(* The thread, and __usb_suspend in either context.                        *)

\* usbd_poll finds the flag, clears it and calls back.
Poll ==
  /\ Goto("thread", "poll", "dark")
  /\ susp
  /\ susp' = FALSE
  /\ UNCHANGED <<power, fsusp, lp, wakeup, detect, line, world, history>>

\* cart_detect_disable
Dark(c) ==
  /\ Goto(c, "dark", "mask")
  /\ led' = FALSE /\ relit' = FALSE
  /\ UNCHANGED <<power, usb, listening, edge, level, line, world, early, stale, noisy, missed>>

\* Bug: EXTI4 is left enabled.
Bug_NotMasked(c) ==
  /\ Goto(c, "mask", "fsusp")
  /\ UNCHANGED <<power, usb, detect, line, world, history>>

Mask(c) ==
  /\ Goto(c, "mask", "fsusp")
  /\ listening' = FALSE
  /\ UNCHANGED <<power, usb, edge, led, level, line, world, history>>

ForceSuspend(c) ==
  /\ Goto(c, "fsusp", "lp")
  /\ fsusp' = TRUE
  /\ UNCHANGED <<power, lp, susp, wakeup, detect, line, world, history>>

\* Bug: LP_MODE is left out.
Bug_NoLowPower(c) ==
  /\ Goto(c, "lp", "deep")
  /\ UNCHANGED <<power, usb, detect, line, world, history>>

LowPower(c) ==
  /\ Goto(c, "lp", "deep")
  /\ lp' = TRUE
  /\ UNCHANGED <<power, fsusp, susp, wakeup, detect, line, world, history>>

\* plat_stop_mode
Deep(c) ==
  /\ Goto(c, "deep", "wfi")
  /\ deep' = TRUE
  /\ UNCHANGED <<asleep, clock, usb, detect, line, world, history>>

\* Bug: there is no WFI.
Bug_NoWait(c) ==
  /\ Goto(c, "wfi", "return")
  /\ UNCHANGED <<power, usb, detect, line, world, history>>

WaitForInterrupt(c) ==
  /\ Goto(c, "wfi", "return")
  /\ asleep' = TRUE
  /\ UNCHANGED <<deep, clock, usb, detect, line, world, history>>

\* Bug: the thread returns as a handler does.
Bug_ReturnAsHandler(c) ==
  /\ Goto(c, "return", "none")
  /\ UNCHANGED <<power, usb, detect, line, world, history>>

Return(c) ==
  /\ Goto(c, "return", IF c = "thread" THEN "poll" ELSE "none")
  /\ UNCHANGED <<power, usb, detect, line, world, history>>

----------------------------------------------------------------------------
(* cart_handshake, as far as SO is concerned, which it takes for itself    *)
(* while cartridge detection goes on.                                      *)

\* A request of the host: __gpio_setup.
Shake ==
  /\ Goto("thread", "poll", "look")
  /\ bus = "active" /\ clock = "pll" /\ ~fsusp
  /\ pulled' = TRUE /\ SOMoves(inserted)
  /\ UNCHANGED <<power, usb, listening, led, level, world, early, stale, noisy, relit>>

NobodyThere ==
  /\ Goto("thread", "look", "poll")
  /\ ~so
  /\ UNCHANGED <<power, usb, detect, line, world, history>>

Listens ==
  /\ Goto("thread", "look", "secret")
  /\ so
  /\ UNCHANGED <<power, usb, detect, line, world, history>>

\* The answer is over; __gpio_reset when it was wrong.
Verdict(ok) ==
  /\ Goto("thread", "secret", "poll")
  /\ pulled' = ok /\ SOMoves(inserted)
  /\ UNCHANGED <<power, usb, listening, led, level, world, early, stale, noisy, relit>>

----------------------------------------------------------------------------
(* The handlers.                                                           *)

\* A pending interrupt is taken and wakes a thread that sleeps; stop mode has
\* left the core on the internal oscillator.
Enter(first) ==
  /\ pc.isr = "none"
  /\ pc' = [pc EXCEPT !.isr = first]
  /\ asleep' = FALSE
  /\ clock' = IF asleep /\ deep THEN "hsi" ELSE clock
  /\ UNCHANGED deep

\* exti4_isr: the level, the LED, and only then the pending bit.
SlotChanged ==
  /\ Enter("show")
  /\ listening /\ edge
  /\ level' = so
  /\ missed' = FALSE
  /\ UNCHANGED <<usb, listening, edge, led, line, world, early, stale, noisy, relit>>

ShowLevel ==
  /\ Goto("isr", "show", "clear")
  /\ led' = level
  /\ relit' = (relit \/ pc.thread = "mask")
  /\ UNCHANGED <<power, usb, listening, edge, level, line, world, early, stale, noisy, missed>>

ClearEdge ==
  /\ Goto("isr", "clear", "none")
  /\ edge' = FALSE
  /\ UNCHANGED <<power, usb, listening, led, level, line, world, history>>

\* usb_wakeup_isr
WakeupSignalled ==
  /\ Enter("look")
  /\ wakeup
  /\ wakeup' = FALSE
  /\ UNCHANGED <<fsusp, lp, susp, detect, line, world, history>>

\* __usb_resume: D+ is high on an idle bus and low while the host resumes.
Look ==
  /\ Goto("isr", "look", IF bus = "active" THEN "setup" ELSE "dark")
  /\ noisy' = (noisy \/ bus # "active")
  /\ UNCHANGED <<power, usb, detect, line, world, early, stale, missed, relit>>

\* Bug: plat_setup is left out.
Bug_ClockLeft ==
  /\ Goto("isr", "setup", "resume")
  /\ deep' = FALSE
  /\ UNCHANGED <<asleep, clock, usb, detect, line, world, history>>

\* SLEEPDEEP off, and plat_setup
Setup ==
  /\ Goto("isr", "setup", "resume")
  /\ deep' = FALSE /\ clock' = "pll"
  /\ UNCHANGED <<asleep, usb, detect, line, world, history>>

\* Bug: FSUSP stays set.
Bug_StillForced ==
  /\ Goto("isr", "resume", "listen")
  /\ UNCHANGED <<power, usb, detect, line, world, history>>

Resume ==
  /\ Goto("isr", "resume", "listen")
  /\ fsusp' = FALSE
  /\ UNCHANGED <<power, lp, susp, wakeup, detect, line, world, history>>

\* cart_detect_enable
Listen ==
  /\ Goto("isr", "listen", "light")
  /\ pulled' = TRUE /\ listening' = TRUE
  /\ SOMoves(inserted)
  /\ UNCHANGED <<power, usb, led, level, world, early, stale, noisy, relit>>

\* Bug: the LED is left off, for EXTI4 to light.
Bug_NoLight ==
  /\ Goto("isr", "light", "none")
  /\ UNCHANGED <<power, usb, detect, line, world, history>>

Light ==
  /\ Goto("isr", "light", "none")
  /\ led' = so
  /\ missed' = FALSE
  /\ UNCHANGED <<power, usb, listening, edge, level, line, world, early, stale, noisy, relit>>

----------------------------------------------------------------------------
(* The bus and the slot.                                                   *)

\* The device answers the host.
Up == pc = [thread |-> "poll", isr |-> "none"] /\ ~asleep /\ clock = "pll" /\ ~fsusp

\* The host signals resume for 20 ms and then talks to the device: it does not
\* suspend one that is not up.
HostSuspends ==
  /\ bus = "active" /\ Up
  /\ bus' = "idle" /\ early' = FALSE /\ stale' = FALSE
  /\ UNCHANGED <<pc, power, usb, detect, line, inserted, noisy, missed, relit>>

HostResumes ==
  /\ bus = "idle"
  /\ bus' = "active" /\ early' = ~asleep
  /\ UNCHANGED <<pc, power, usb, detect, line, inserted, stale, noisy, missed, relit>>

NoiseComes ==
  /\ bus = "idle"
  /\ bus' = "noise"
  /\ UNCHANGED <<pc, power, usb, detect, line, inserted, history>>

NoiseGoes ==
  /\ bus = "noise"
  /\ bus' = "idle"
  /\ UNCHANGED <<pc, power, usb, detect, line, inserted, history>>

\* 3 ms of an idle bus, until FSUSP is set.
Quiet ==
  /\ bus = "idle" /\ ~fsusp /\ clock = "pll" /\ ~susp
  /\ susp' = TRUE
  /\ stale' = (stale \/ pc.thread # "poll")
  /\ UNCHANGED <<pc, power, fsusp, lp, wakeup, detect, line, world, early, noisy, missed, relit>>

\* A suspended transceiver sees the bus move and leaves low power.
BusWakes ==
  /\ fsusp /\ lp /\ bus # "idle"
  /\ wakeup' = TRUE /\ lp' = FALSE
  /\ UNCHANGED <<pc, power, fsusp, susp, detect, line, world, history>>

\* A cartridge is pushed in, which holds SO high, or pulled.
ChangeSlot ==
  /\ inserted' = ~inserted
  /\ SOMoves(inserted' \/ (so /\ ~pulled))
  /\ UNCHANGED <<pc, power, usb, listening, led, level, pulled, bus, early, stale, noisy, relit>>

\* A cartridge sends its answer, or a line that nobody holds picks up noise.
Wiggle ==
  /\ IF inserted THEN pc.thread = "secret" ELSE ~pulled
  /\ SOMoves(~so)
  /\ UNCHANGED <<pc, power, usb, listening, led, level, pulled, world, early, stale, noisy, relit>>

Suspend(c) ==
  Dark(c) \/ Mask(c) \/ ForceSuspend(c) \/ LowPower(c) \/ Deep(c) \/ WaitForInterrupt(c) \/ Return(c)

Thread ==
  Poll \/ Suspend("thread") \/ NobodyThere \/ Listens \/ (\E ok \in BOOLEAN : Verdict(ok))

Handler ==
  \/ SlotChanged \/ ShowLevel \/ ClearEdge
  \/ WakeupSignalled \/ Look \/ Setup \/ Resume \/ Listen \/ Light
  \/ Suspend("isr")

Environment ==
  HostSuspends \/ HostResumes \/ NoiseComes \/ NoiseGoes \/ Quiet \/ BusWakes
  \/ ChangeSlot \/ Wiggle

Next == Shake \/ Thread \/ Handler \/ Environment

\* The core and the transceiver go on.  A slot may change time and again, but
\* not so fast that the thread never gets to run between its interrupts.
Spec ==
  /\ Init /\ [][Next]_vars
  /\ SF_vars(Thread) /\ WF_vars(Handler) /\ WF_vars(Quiet) /\ WF_vars(BusWakes)

----------------------------------------------------------------------------
(* Properties.                                                             *)

Steps == {"dark", "mask", "fsusp", "lp", "deep", "wfi", "return"}

TypeOK ==
  /\ pc \in [thread : Steps \cup {"poll", "look", "secret"},
            isr : Steps \cup {"none", "show", "clear", "look", "setup", "resume", "listen", "light"}]
  /\ asleep \in BOOLEAN /\ deep \in BOOLEAN /\ clock \in {"pll", "hsi"}
  /\ fsusp \in BOOLEAN /\ lp \in BOOLEAN /\ susp \in BOOLEAN /\ wakeup \in BOOLEAN
  /\ listening \in BOOLEAN /\ edge \in BOOLEAN /\ led \in BOOLEAN /\ level \in BOOLEAN
  /\ so \in BOOLEAN /\ pulled \in BOOLEAN
  /\ bus \in {"active", "idle", "noise"} /\ inserted \in BOOLEAN
  /\ early \in BOOLEAN /\ stale \in BOOLEAN /\ noisy \in BOOLEAN /\ missed \in BOOLEAN
  /\ relit \in BOOLEAN

\* A core that sleeps is one that the bus wakes: in the thread, with the
\* transceiver suspended and either still in low power or with its signal
\* pending.  Not after an early resume, whose signal is spent before WFI, nor
\* after a second suspend with the bus awake, nor after noise.
Wakeable ==
  asleep => early \/ stale \/ noisy \/ (pc.isr = "none" /\ fsusp /\ (lp \/ wakeup))

\* The main loop never goes on polling on the oscillator that stop mode leaves,
\* at which the USB does not work, nor with SLEEPDEEP left on.
ClockRestored ==
  pc = [thread |-> "poll", isr |-> "none"] => early \/ stale \/ (clock = "pll" /\ ~deep)

\* When the main loop runs and no edge is pending, the LED shows the slot; and
\* so it does after a sleep in which the slot changed.  Not when an edge came
\* inside exti4_isr, which clears it with its own, nor while an empty slot
\* floats, as a handshake that failed at the secret leaves it.
LedTrue ==
  /\ pc = [thread |-> "poll", isr |-> "none"] /\ ~asleep /\ ~edge /\ ~missed
  /\ inserted \/ pulled
  => led = inserted

\* The LED is out while the device sleeps, its current being limited: unless
\* exti4_isr ran between led_off and the mask, or the device is not suspended.
DarkAsleep == asleep => ~led \/ relit \/ early \/ stale

\* A host that resumes a sleeping device gets it back.
Resumes == bus = "active" ~> Up \/ early \/ stale \/ noisy

\* A bus that falls silent sends the device to sleep, unless the host is back.
Suspends == bus = "idle" ~> asleep \/ bus # "idle"

\* "Remain suspended if there is noise on the bus", says __usb_resume: a device
\* that noise has woken is suspended again, and the host gets it back later.
NoiseTolerated == bus = "active" ~> Up \/ early \/ stale
=============================================================================
