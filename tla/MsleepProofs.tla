---------------------------- MODULE MsleepProofs ----------------------------
(***************************************************************************)
(* Proofs about Msleep, for every reload value and every sleep asked for.  *)
(***************************************************************************)
EXTENDS Msleep, Integers, TLAPS

\* SysTick counts while the thread is between __plat_sleep_begin and
\* __plat_sleep_end.
Counting == {"block", "zero", "test", "wfi", "stop"}

\* The counts after which the first tick comes.
Due == IF held = 0 THEN reload + 1 ELSE held

\* Where the counter is before that: on its way down from what it held, or, a
\* count later, from the reload value.
OnItsWay ==
  \/ held > 0 /\ waited < held /\ count = held - waited
  \/ held = 0 /\ waited = 0 /\ count = 0
  \/ held = 0 /\ waited > 0 /\ waited < reload + 1 /\ count = reload + 1 - waited

\* Nothing overflows the bound on waited.
Bounds ==
  /\ count <= Late /\ held <= Late /\ reload <= Late
  /\ pc # "idle" => reload + 1 = asked * MS /\ reload + 1 <= Late

\* A tick, pending or counted, is one that was due.
TickDue ==
  /\ on <=> pc \in Counting
  /\ masked => pc = "zero"
  /\ on => waited >= Due \/ OnItsWay
  /\ on /\ pending => waited >= Due
  /\ pc \in {"test", "wfi"} /\ millis > 0 => waited >= Due
  /\ pc \in {"stop", "unirq"} => waited >= Due

SleepInv == TypeOK /\ Bounds /\ TickDue

\* The milliseconds asked for in counts, linear from here on.
LEMMA ReloadValue ==
  ASSUME NEW n \in Asks
  PROVE  n * MS \in Nat /\ n * MS >= 1 /\ n * MS <= Late /\ n * MS - 1 \in Nat
<1>1. n \in Nat /\ n >= 1 /\ MS \in Nat /\ MS >= 1 /\ n * MS <= Late
  BY SleepAssumption
<1>2. n * MS \in Nat
  BY <1>1
<1>3. n * MS >= 1
  BY <1>1
<1> QED
  BY <1>1, <1>2, <1>3

LEMMA InitSleep == Init => SleepInv
<1> SUFFICES ASSUME Init PROVE SleepInv
  OBVIOUS
<1>1. Late \in Nat
  BY SleepAssumption
<1>2. count \in Nat /\ count <= Late
  <2>1. ASSUME NEW n \in Asks, count = n * MS - 1 PROVE count \in Nat /\ count <= Late
    BY <1>1, <2>1, ReloadValue
  <2> QED
    BY <1>1, <2>1 DEF Init
<1>3. /\ pc = "idle" /\ reload = 0 /\ ~on /\ ~irq /\ ~pending /\ ~masked /\ millis = 0
      /\ held = 0 /\ waited = 0 /\ ~other /\ ~asleep /\ asked = 0
      /\ pending \in BOOLEAN /\ other \in BOOLEAN /\ masked \in BOOLEAN /\ asleep \in BOOLEAN
      /\ on \in BOOLEAN /\ irq \in BOOLEAN
  BY DEF Init
<1>4. TypeOK
  BY <1>1, <1>2, <1>3 DEF TypeOK
<1>5. Bounds /\ TickDue
  BY <1>1, <1>2, <1>3 DEF Bounds, TickDue, Counting
<1> QED
  BY <1>4, <1>5 DEF SleepInv

----------------------------------------------------------------------------
(* One lemma for each kind of step.                                        *)

LEMMA CallStep == ASSUME SleepInv, NEW n \in Asks, Call(n) PROVE SleepInv'
<1>1. n * MS \in Nat /\ n * MS >= 1 /\ n * MS <= Late /\ n \in Nat /\ Late \in Nat
  BY ReloadValue, SleepAssumption
<1>2. reload' \in Nat /\ reload' + 1 = asked' * MS /\ reload' + 1 <= Late /\ asked' \in Nat
  BY <1>1 DEF Call
<1>3. TypeOK'
  BY <1>2 DEF SleepInv, TypeOK, Call, Goto, core, history
<1>4. Bounds'
  BY <1>1, <1>2 DEF SleepInv, TypeOK, Bounds, Call, Goto
<1>5. TickDue'
  BY DEF SleepInv, TypeOK, TickDue, Counting, Call, Goto, core
<1> QED
  BY <1>3, <1>4, <1>5 DEF SleepInv

\* A tick that is pending would be taken before the thread starts SysTick.
LEMMA StartStep == ASSUME SleepInv, Start PROVE SleepInv'
<1>1. ~pending'
  BY DEF SleepInv, TickDue, Start, Goto, core
<1>2. TypeOK'
  BY SleepAssumption DEF SleepInv, TypeOK, Start, Goto, core
<1>3. Bounds'
  BY DEF SleepInv, TypeOK, Bounds, Start, Goto, core
<1>4. on' /\ pc' = "block" /\ waited' = 0 /\ held' = count' /\ ~masked'
  BY DEF SleepInv, TickDue, Start, Goto, core
<1>5. OnItsWay'
  <2>1. held' \in Nat /\ count' \in Nat /\ held' = count' /\ waited' = 0
    BY <1>2, <1>4 DEF TypeOK
  <2>2. CASE held' = 0
    BY <2>1, <2>2 DEF OnItsWay
  <2>3. CASE held' > 0
    <3>1. \A h \in Nat : h > 0 => 0 < h /\ h = h - 0
      OBVIOUS
    <3>2. waited' < held' /\ count' = held' - waited'
      BY <2>1, <2>3, <3>1, Zenon
    <3> QED
      BY <2>3, <3>2 DEF OnItsWay
  <2> QED
    BY <2>1, <2>2, <2>3
<1>6. TickDue'
  BY <1>1, <1>4, <1>5 DEF TickDue, Counting
<1> QED
  BY <1>2, <1>3, <1>6 DEF SleepInv

\* The other steps of the thread change nothing that counts or is counted.
LEMMA ThreadStep ==
  ASSUME SleepInv, EnableIrq \/ Block \/ Zero \/ Test \/ WaitForInterrupt \/ Stop \/ DisableIrq
  PROVE  SleepInv'
<1> USE DEF SleepInv, TypeOK, Bounds, TickDue, Counting, Due, OnItsWay, Goto, systick, core, history
<1>1. CASE EnableIrq
  BY <1>1 DEF EnableIrq
<1>2. CASE Block
  BY <1>2 DEF Block
<1>3. CASE Zero
  <2>1. TypeOK' /\ Bounds'
    <3>1. pc' \in {"test"} /\ millis' \in 0..2
      BY <1>3 DEF Zero
    <3>2. TypeOK'
      BY <1>3, <3>1 DEF Zero
    <3>3. UNCHANGED <<count, held, reload, asked>> /\ pc # "idle"
      BY <1>3 DEF Zero
    <3> QED
      BY <3>2, <3>3
  <2>2. UNCHANGED <<on, waited, held, count, reload, pending>> /\ millis' = 0 /\ pc' = "test"
        /\ ~masked'
    BY <1>3 DEF Zero
  <2>3. TickDue'
    BY <1>3, <2>2 DEF Zero
  <2> QED
    BY <2>1, <2>3
<1>4. CASE Test
  BY <1>4 DEF Test
<1>5. CASE WaitForInterrupt
  BY <1>5 DEF WaitForInterrupt
<1>6. CASE Stop
  BY <1>6 DEF Stop
<1>7. CASE DisableIrq
  BY <1>7 DEF DisableIrq
<1> QED
  BY <1>1, <1>2, <1>3, <1>4, <1>5, <1>6, <1>7

\* The handlers: a tick that is counted was due.
LEMMA HandlerStep == ASSUME SleepInv, SysTick \/ OtherHandler \/ OtherComes PROVE SleepInv'
<1> USE DEF SleepInv, TypeOK, Bounds, TickDue, Counting, Due, OnItsWay, systick, core, history
<1>1. CASE SysTick
  <2>1. TypeOK' /\ Bounds'
    <3>1. millis' \in 0..2
      BY <1>1 DEF SysTick
    <3>2. TypeOK'
      BY <1>1, <3>1 DEF SysTick
    <3>3. UNCHANGED <<count, held, reload, asked, pc>>
      BY <1>1 DEF SysTick
    <3> QED
      BY <3>2, <3>3
  <2>2. /\ UNCHANGED <<on, waited, held, count, reload, pc, masked>> /\ ~pending'
        /\ pending /\ ~masked
    BY <1>1 DEF SysTick
  <2>3. on => waited >= Due
    BY <1>1 DEF SysTick
  <2>4. TickDue'
    BY <2>2, <2>3
  <2> QED
    BY <2>1, <2>4
<1>2. CASE OtherHandler
  BY <1>2 DEF OtherHandler
<1>3. CASE OtherComes
  BY <1>3 DEF OtherComes
<1> QED
  BY <1>1, <1>2, <1>3

\* The counter comes to 0 when it is due, and not before.
LEMMA CountStep == ASSUME SleepInv, Count PROVE SleepInv'
<1>1. TypeOK'
  BY SleepAssumption DEF SleepInv, TypeOK, Count
<1>2. Bounds'
  BY SleepAssumption DEF SleepInv, TypeOK, Bounds, Count
<1>3. Due \in Nat /\ Due <= Late /\ Due' = Due
  BY SleepAssumption DEF SleepInv, TypeOK, Bounds, TickDue, Counting, Due, Count
<1>4. CASE waited >= Due
  <2>1. waited' >= Due'
    BY <1>3, <1>4, SleepAssumption DEF SleepInv, TypeOK, Count
  <2> QED
    BY <1>1, <1>2, <2>1 DEF SleepInv, TickDue, Counting, Count
<1>5. CASE OnItsWay
  <2>1. waited' = waited + 1 /\ waited \in Nat
    BY <1>3, <1>5, SleepAssumption DEF SleepInv, TypeOK, Bounds, OnItsWay, Due, Count
  <2>2. waited' >= Due' \/ OnItsWay'
    BY <1>5, <2>1 DEF SleepInv, TypeOK, OnItsWay, Due, Count
  <2>3. count = 1 => waited' >= Due'
    BY <1>5, <2>1 DEF SleepInv, TypeOK, OnItsWay, Due, Count
  <2>4. waited >= Due => waited' >= Due'
    BY <1>3, <2>1
  <2> QED
    BY <1>1, <1>2, <2>2, <2>3, <2>4 DEF SleepInv, TypeOK, TickDue, Counting, Count
<1> QED
  BY <1>4, <1>5 DEF SleepInv, TickDue, Count

LEMMA NextSleep == SleepInv /\ [Next]_vars => SleepInv'
<1> SUFFICES ASSUME SleepInv, [Next]_vars PROVE SleepInv'
  OBVIOUS
<1>1. CASE \E n \in Asks : Call(n)
  BY <1>1, CallStep
<1>2. CASE Thread
  BY <1>2, StartStep, ThreadStep DEF Thread
<1>3. CASE SysTick \/ OtherHandler \/ OtherComes
  BY <1>3, HandlerStep
<1>4. CASE Count
  BY <1>4, CountStep
<1>5. CASE UNCHANGED vars
  BY <1>5 DEF SleepInv, TypeOK, Bounds, TickDue, Counting, Due, OnItsWay, vars, systick, core, history
<1> QED
  BY <1>1, <1>2, <1>3, <1>4, <1>5 DEF Next

LEMMA SleepCorrect == Spec => []SleepInv
<1>1. Init => SleepInv
  BY InitSleep
<1>2. SleepInv /\ [Next]_vars => SleepInv'
  BY NextSleep
<1> QED
  BY <1>1, <1>2, PTL DEF Spec

----------------------------------------------------------------------------

\* The types of msleep's state.
THEOREM SleepTypeCorrect == Spec => []TypeOK
<1>1. SleepInv => TypeOK
  BY DEF SleepInv
<1> QED
  BY <1>1, SleepCorrect, PTL

\* msleep never returns before the first tick that was due when it started
\* SysTick (__plat_sleep_begin, __plat_sleep, sys_tick_handler), whatever other
\* interrupts wake it, and with a counter at 0 never before the time asked for.
THEOREM SleepsItOutCorrect == Spec => []SleepsItOut
<1>1. SleepInv => SleepsItOut
  BY DEF SleepInv, TickDue, Bounds, Due, SleepsItOut
<1> QED
  BY <1>1, SleepCorrect, PTL
----------------------------------------------------------------------------
(* The tick that wakes the thread.                                         *)

\* SysTick's interrupt is on from EnableIrq to DisableIrq, and the thread sleeps
\* only between the two.
Armed ==
  /\ pc \notin {"idle", "irq"} => irq
  /\ asleep => pc = "test"

LEMMA ArmedStep == TypeOK /\ Armed /\ [Next]_vars => Armed'
<1> SUFFICES ASSUME TypeOK, Armed, [Next]_vars PROVE Armed'
  OBVIOUS
<1> USE DEF TypeOK, Armed, Goto, systick, core, history
<1>1. ASSUME NEW n \in Asks, Call(n) PROVE Armed'
  BY <1>1 DEF Call
<1>2. CASE Thread
  BY <1>2 DEF Thread, EnableIrq, Start, Block, Zero, Test, WaitForInterrupt, Stop, DisableIrq
<1>3. CASE SysTick \/ OtherHandler \/ OtherComes \/ Count
  BY <1>3 DEF SysTick, OtherHandler, OtherComes, Count
<1>4. CASE UNCHANGED vars
  BY <1>4 DEF vars
<1> QED
  BY <1>1, <1>2, <1>3, <1>4 DEF Next

LEMMA ArmedCorrect == Spec => []Armed
<1>1. Init => Armed
  BY DEF Init, Armed
<1>2. SleepInv => TypeOK
  BY DEF SleepInv
<1> QED
  BY <1>1, <1>2, ArmedStep, SleepCorrect, PTL DEF Spec

\* One count, with the interrupt on: it is nearer to the tick, or is the tick.
LEMMA CountNears ==
  ASSUME TypeOK, irq, Count
  PROVE  pending' \/ Ahead' = IF count' = count THEN Ahead ELSE Ahead - 1
<1>1. count \in Nat /\ reload \in Nat /\ reload' = reload
  BY DEF TypeOK, Count
<1>2. CASE count = 0
  BY <1>1, <1>2 DEF Ahead, Count
<1>3. CASE count = 1
  BY <1>3 DEF Count
<1>4. CASE count > 1
  BY <1>1, <1>4 DEF Ahead, Count
<1> QED
  BY <1>1, <1>2, <1>3, <1>4

\* While the core sleeps in msleep a tick is on its way, at most a reload value
\* away (__plat_sleep_begin, __plat_sleep), for every length of a sleep: what is
\* left for fairness is that SysTick counts.
THEOREM TickComesCorrect == Spec => TickComes
<1>1. TypeOK /\ TickDue /\ Armed /\ [Next]_vars =>
        [asleep => /\ on /\ irq
                   /\ \/ pending' \/ ~asleep'
                      \/ Ahead' = IF count' = count THEN Ahead ELSE Ahead - 1]_vars
  <2> SUFFICES ASSUME TypeOK, TickDue, Armed, Next, asleep
               PROVE  /\ on /\ irq
                      /\ \/ pending' \/ ~asleep'
                         \/ Ahead' = IF count' = count THEN Ahead ELSE Ahead - 1
    OBVIOUS
  <2>1. on /\ irq
    BY DEF TypeOK, TickDue, Counting, Armed
  <2>2. SysTick \/ OtherHandler \/ OtherComes \/ Count
    BY DEF Next, Thread, Call, EnableIrq, Start, Block, Zero, Test, WaitForInterrupt, Stop,
      DisableIrq, Goto
  <2>3. CASE SysTick \/ OtherHandler
    BY <2>1, <2>3 DEF SysTick, OtherHandler
  <2>4. CASE OtherComes
    BY <2>1, <2>4 DEF OtherComes, Ahead, systick
  <2>5. CASE Count
    BY <2>1, <2>5, CountNears
  <2> QED
    BY <2>2, <2>3, <2>4, <2>5
<1>2. SleepInv => TypeOK /\ TickDue
  BY DEF SleepInv
<1> QED
  BY <1>1, <1>2, SleepCorrect, ArmedCorrect, PTL DEF Spec, TickComes
=============================================================================
