------------------------------- MODULE Msleep -------------------------------
(***************************************************************************)
(* msleep with SLEEP_MODE (platform.c): the thread starts SysTick and      *)
(* waits for its interrupt in WFI, from which any other interrupt wakes it *)
(* too.  The counter runs beside the thread and keeps what it held when it *)
(* is stopped, for nothing clears it between two sleeps.                   *)
(***************************************************************************)
EXTENDS Naturals

CONSTANTS
  MS,        \* counts of SysTick in a millisecond (9000)
  Asks,      \* milliseconds that callers ask for (1 and 3)
  Late       \* bound on the history variable waited

ASSUME SleepAssumption ==
  /\ MS \in Nat /\ MS > 1
  /\ Asks \subseteq Nat \ {0}
  /\ Late \in Nat /\ \A n \in Asks : n * MS <= Late

VARIABLES
  pc,        \* where msleep is
  reload,    \* STK_RVR
  count,     \* STK_CVR
  on,        \* STK_CSR.ENABLE
  irq,       \* STK_CSR.TICKINT
  pending,   \* the SysTick exception is pending
  other,     \* so is another interrupt, of the slot or the bus
  millis,    \* sys_millis
  masked,    \* interrupts are held off by CM_ATOMIC_BLOCK
  asleep,    \* the core waits in WFI
  asked,     \* history: the milliseconds asked for
  held,      \* history: what the counter held when it was started
  waited     \* history: counts since then, up to Late

systick == <<reload, count, on, irq>>
core == <<pending, other, masked, asleep>>
history == <<asked, held, waited>>
vars == <<pc, systick, core, millis, history>>

\* plat_setup leaves SysTick off, and what it counts from is not known.
Init ==
  /\ pc = "idle"
  /\ reload = 0 /\ on = FALSE /\ irq = FALSE
  /\ count \in {0} \cup {n * MS - 1 : n \in Asks}
  /\ pending = FALSE /\ other = FALSE /\ masked = FALSE /\ asleep = FALSE
  /\ millis = 0
  /\ asked = 0 /\ held = 0 /\ waited = 0

\* The thread runs when no interrupt is to be taken.
Goto(from, to) ==
  /\ ~asleep /\ (masked \/ ~(pending \/ other))
  /\ pc = from /\ pc' = to

----------------------------------------------------------------------------
(* The thread.                                                             *)

\* Bug: a millisecond is taken off for the start.
Bug_MillisecondShort(n) ==
  /\ Goto("idle", "irq")
  /\ reload' = (n - 1) * MS - 1
  /\ asked' = n
  /\ UNCHANGED <<count, on, irq, core, millis, held, waited>>

\* __plat_sleep_begin: systick_set_reload
Call(n) ==
  /\ Goto("idle", "irq")
  /\ reload' = n * MS - 1
  /\ asked' = n
  /\ UNCHANGED <<count, on, irq, core, millis, held, waited>>

\* Bug: the interrupt stays off.
Bug_NoInterrupt ==
  /\ Goto("irq", "start")
  /\ UNCHANGED <<systick, core, millis, history>>

EnableIrq ==
  /\ Goto("irq", "start")
  /\ irq' = TRUE
  /\ UNCHANGED <<reload, count, on, core, millis, history>>

Start ==
  /\ Goto("start", "block")
  /\ on' = TRUE
  /\ held' = count /\ waited' = 0
  /\ UNCHANGED <<reload, count, irq, core, millis, asked>>

\* __plat_sleep
Block ==
  /\ Goto("block", "zero")
  /\ masked' = TRUE
  /\ UNCHANGED <<systick, pending, other, asleep, millis, history>>

\* Bug: sys_millis goes on from the sleep before.
Bug_NotZeroed ==
  /\ Goto("zero", "test")
  /\ masked' = FALSE
  /\ UNCHANGED <<systick, pending, other, asleep, millis, history>>

Zero ==
  /\ Goto("zero", "test")
  /\ millis' = 0
  /\ masked' = FALSE
  /\ UNCHANGED <<systick, pending, other, asleep, history>>

\* while (!sys_millis)
Test ==
  /\ \/ Goto("test", "wfi") /\ millis = 0
     \/ Goto("test", "stop") /\ millis > 0
  /\ UNCHANGED <<systick, core, millis, history>>

\* __WFI, which a tick since the test may have come too early for
WaitForInterrupt ==
  /\ Goto("wfi", "test")
  /\ asleep' = TRUE
  /\ UNCHANGED <<systick, pending, other, masked, millis, history>>

\* __plat_sleep_end
Stop ==
  /\ Goto("stop", "unirq")
  /\ on' = FALSE
  /\ UNCHANGED <<reload, count, irq, core, millis, history>>

DisableIrq ==
  /\ Goto("unirq", "idle")
  /\ irq' = FALSE
  /\ UNCHANGED <<reload, count, on, core, millis, history>>

Thread ==
  \/ EnableIrq \/ Start \/ Block \/ Zero \/ Test \/ WaitForInterrupt \/ Stop \/ DisableIrq

----------------------------------------------------------------------------
(* The handlers and the counter.                                           *)

\* Bug: SysTick is taken for a one-shot timer.
Bug_OneShot ==
  /\ pending /\ ~masked
  /\ pending' = FALSE /\ asleep' = FALSE
  /\ millis' = millis + 1
  /\ on' = FALSE
  /\ UNCHANGED <<pc, reload, count, irq, other, masked, history>>

\* sys_tick_handler.  No one looks beyond the first tick.
SysTick ==
  /\ pending /\ ~masked
  /\ pending' = FALSE /\ asleep' = FALSE
  /\ millis' = IF millis < 2 THEN millis + 1 ELSE millis
  /\ UNCHANGED <<pc, systick, other, masked, history>>

\* exti4_isr, or another handler that has nothing to do with the sleep
OtherHandler ==
  /\ other /\ ~masked
  /\ other' = FALSE /\ asleep' = FALSE
  /\ UNCHANGED <<pc, systick, pending, masked, millis, history>>

OtherComes ==
  /\ other' = TRUE
  /\ UNCHANGED <<pc, systick, pending, masked, asleep, millis, history>>

\* SysTick counts down, signals as it comes to 0, and starts again from reload.
Count ==
  /\ on
  /\ count' = IF count = 0 THEN reload ELSE count - 1
  /\ pending' = (pending \/ (irq /\ count = 1))
  /\ waited' = IF waited < Late THEN waited + 1 ELSE waited
  /\ UNCHANGED <<pc, reload, on, irq, other, masked, asleep, millis, asked, held>>

Next ==
  \/ \E n \in Asks : Call(n)
  \/ Thread
  \/ SysTick \/ OtherHandler \/ OtherComes
  \/ Count

\* Handlers are short: time and again no interrupt is pending.
Unhindered == []<>~(pending \/ other)

\* Thread, handlers and counter go on.
Spec ==
  /\ Init /\ [][Next]_vars
  /\ SF_vars(Thread) /\ WF_vars(SysTick) /\ WF_vars(OtherHandler) /\ WF_vars(Count)
  /\ Unhindered

----------------------------------------------------------------------------
(* Properties.                                                             *)

TypeOK ==
  /\ pc \in {"idle", "irq", "start", "block", "zero", "test", "wfi", "stop", "unirq"}
  /\ reload \in Nat /\ count \in Nat
  /\ on \in BOOLEAN /\ irq \in BOOLEAN
  /\ pending \in BOOLEAN /\ other \in BOOLEAN /\ masked \in BOOLEAN /\ asleep \in BOOLEAN
  /\ millis \in 0..2
  /\ asked \in Nat /\ held \in Nat /\ waited \in 0..Late

\* A sleep is over no sooner than the counter has gone through all it held; and
\* when that was 0, no sooner than the time asked for.  A caller that asks for
\* more than the one before gets less than it asked for.
SleepsItOut ==
  pc \in {"stop", "unirq"} => waited >= IF held = 0 THEN asked * MS ELSE held

\* The counts until SysTick signals.
Ahead == IF count = 0 THEN reload + 1 ELSE count

\* The core sleeps only while a tick is on its way to wake it: SysTick counts
\* with its interrupt on, and nothing sets the count back, though the tick for
\* which the loop on sys_millis waits may have come before WFI.
TickComes ==
  [][asleep => /\ on /\ irq
               /\ pending' \/ ~asleep' \/ Ahead' = IF count' = count THEN Ahead ELSE Ahead - 1]_vars

\* Every sleep ends, though a tick that comes between the test and WFI is lost:
\* the next one wakes the thread.
Wakes == pc # "idle" ~> pc = "idle"
=============================================================================
