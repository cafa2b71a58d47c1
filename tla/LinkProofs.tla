----------------------------- MODULE LinkProofs ------------------------------
(***************************************************************************)
(* Proofs about CartLink, for every width of the transfer and the secret,  *)
(* every delay and every cartridge: types, samples, drivers of the bus,    *)
(* the verdict, the loops, the early /RST, and that every step is a step   *)
(* of LinkService or none.                                                 *)
(***************************************************************************)
EXTENDS CartLink, Integers, WellFoundedInduction, TLAPS

BeforeXfer ==
  {"clk", "oe", "cen", "zero", "clear", "wait", "delay", "hold", "flip", "xfer"}
AfterRst == {"delay", "hold", "flip", "xfer", "sample", "decode"}
AfterFlip == {"xfer", "sample", "decode"}

\* How far the transfer is: DMA has taken all samples up to left.
Progress ==
  /\ pc \in {"idle", "settle"} => dma = "off"
  /\ pc \in BeforeXfer => dma = "ready" /\ left = XFER_WIDTH
  /\ pc = "sample" => dma = IF left = 0 THEN "done" ELSE "on"
  /\ pc = "decode" => dma = "off" /\ left = 0
  /\ pc \notin {"sample", "decode"} => ibuf = Empty
  /\ pc \in {"sample", "decode"} =>
       \A i \in 1..XFER_WIDTH : ibuf[i] = Unread <=> i > XFER_WIDTH - left

\* Which timers run, and who drives the lines.
Lines ==
  /\ fsmc <=> pins = "fsmc"
  /\ pc # "idle" => pins = "gpio"
  /\ pc \in BeforeXfer \ {"xfer"} => pattern = "5A"
  /\ pc \in AfterFlip => pattern = "A5"
  /\ cc2if => ref
  /\ pc = "settle" => ~clk
  /\ pc = "idle" /\ clk => oe /\ run /\ ref
  /\ pc \notin {"idle", "settle", "clk"} => clk
  /\ pc \notin {"idle", "settle", "clk", "oe"} => oe
  /\ pc \notin {"idle", "settle", "clk", "oe", "cen"} => run
  /\ pc \in AfterRst => ref
  /\ pc \notin {"idle", "settle"} /\ steady => cart # NoCart

\* The level cartridge c puts on SO in cycle h of the second pattern.
Level(c, h) == IF h > c.lag /\ h - c.lag <= SECRET_WIDTH THEN c.bits[h - c.lag] ELSE 1

\* The cycles heard when n samples have been taken, the first of them at p.
HeardAt(p, n) == IF p + n <= XFER_WIDTH + 1 THEN p + n ELSE XFER_WIDTH + 1

\* What a cartridge that stays in the slot has been shown, and what it has sent.
Hearing ==
  steady /\ cart # NoCart =>
    /\ pc \in {"settle", "flip"} \cup (BeforeXfer \ {"xfer"}) => heard = 0
    /\ pc = "hold" => seen = DELAY \/ seen >= cnt
    /\ pc \in {"flip"} \cup AfterFlip => seen = DELAY
    /\ pc = "sample" /\ left > 0 => heard = HeardAt(phase, XFER_WIDTH - left)
    /\ pc \in {"sample", "decode"} =>
         \A i \in 1..XFER_WIDTH - left :
           ibuf[i] = IF Level(cart, phase + i - 1) = 1 THEN High ELSE Low

LinkInv == TypeOK /\ Progress /\ Lines /\ Hearing

----------------------------------------------------------------------------
(* Constants, and the level of SO.                                         *)

LEMMA Constants ==
  /\ XFER_WIDTH \in Nat \ {0} /\ SECRET_WIDTH \in Nat \ {0} /\ SECRET_WIDTH <= XFER_WIDTH
  /\ DELAY \in Nat \ {0} /\ PERIOD \in Nat \ {0, 1} /\ DELAY < PERIOD
  /\ Empty \in [1..XFER_WIDTH -> {Unread, Low, High}]
  /\ 0 \in 0..DELAY /\ 0 \in 0..XFER_WIDTH + 1 /\ 0 \in 0..PERIOD - 1
  BY LinkAssumption DEF Empty

LEMMA LagType == \A l \in Lags : l \in Nat /\ l <= XFER_WIDTH - SECRET_WIDTH
<1>1. XFER_WIDTH - SECRET_WIDTH \in Int
  BY Constants
<1>2. Lags \subseteq 0..XFER_WIDTH - SECRET_WIDTH
  BY LinkAssumption
<1> QED
  BY <1>1, <1>2

\* The buffer that __cart_get_secret leaves has the type it had.
LEMMA ClearedType ==
  ASSUME NEW buf \in [1..XFER_WIDTH -> {Unread, Low, High}]
  PROVE  Cleared(buf) \in [1..XFER_WIDTH -> {Unread, Low, High}]
  BY DEF Cleared

\* The level of SO is one of the two.
LEMMA SOType == TypeOK => SO \in Bits
<1> SUFFICES ASSUME TypeOK PROVE SO \in Bits
  OBVIOUS
<1>1. CASE cart = NoCart
  BY <1>1 DEF SO, Bits
<1>2. CASE cart # NoCart
  <2>1. cart.bits \in [1..SECRET_WIDTH -> Bits] /\ cart.lag \in Nat /\ heard \in Nat
    <3>1. cart \in [bits : Answers, lag : Lags]
      BY <1>2 DEF TypeOK
    <3>2. cart.bits \in Answers /\ cart.lag \in Lags
      BY <3>1
    <3>3. cart.bits \in [1..SECRET_WIDTH -> Bits]
      BY <3>2, LinkAssumption
    <3>4. cart.lag \in Nat
      BY <3>2, LagType
    <3> QED
      BY <3>3, <3>4 DEF TypeOK
  <2>2. heard > cart.lag /\ heard - cart.lag <= SECRET_WIDTH => heard - cart.lag \in 1..SECRET_WIDTH
    BY <2>1, Constants
  <2> QED
    BY <1>2, <2>1, <2>2 DEF SO, Bits
<1> QED
  BY <1>1, <1>2

----------------------------------------------------------------------------
(* Types.                                                                  *)

\* The steps of the CPU keep the types.
LEMMA TypeOfCPU ==
  ASSUME LinkInv, CPU \/ TimSetup \/ Begin
  PROVE  TypeOK'
<1> USE DEF LinkInv, TypeOK, Goto, timers, xfer, bus, slot, history
<1>1. CASE TimSetup
  BY <1>1, Constants DEF TimSetup
<1>2. CASE Begin
  BY <1>2, Constants DEF Begin
<1>3. CASE NoneInserted
  BY <1>3, Constants DEF NoneInserted
<1>4. CASE Present
  BY <1>4, Constants DEF Present
<1>5. CASE StartClock
  BY <1>5, Constants DEF StartClock
<1>6. CASE EnableRst
  BY <1>6, Constants DEF EnableRst
<1>7. CASE EnableCounter
  BY <1>7, Constants DEF EnableCounter
<1>8. CASE ZeroCounter
  BY <1>8, Constants DEF ZeroCounter
<1>9. CASE ClearFlag
  <2>1. UNCHANGED <<clk, oe, ref, run, cnt, dma, ibuf, left, pins, pattern, fsmc, cart, seen,
                    heard, result, steady, phase>>
    BY <1>9 DEF ClearFlag
  <2>2. cc2if' \in BOOLEAN
    BY <1>9 DEF ClearFlag
  <2>3. pc' = "wait"
    BY <1>9 DEF ClearFlag
  <2> QED
    BY <2>1, <2>2, <2>3
<1>10. CASE RstSeen
  BY <1>10, Constants DEF RstSeen
<1>11. CASE StartDelay
  BY <1>11, Constants DEF StartDelay
<1>12. CASE Delayed
  BY <1>12, Constants DEF Delayed
<1>13. CASE FlipPattern
  BY <1>13, Constants DEF FlipPattern
<1>14. CASE BeginXfer
  BY <1>14, Constants DEF BeginXfer
<1>15. CASE EndXfer
  BY <1>15, Constants DEF EndXfer
<1>16. CASE Mismatch
  BY <1>16, ClearedType DEF Mismatch
<1>17. CASE Unlock
  BY <1>17, ClearedType DEF Unlock
<1> QED
  BY <1>1, <1>2, <1>3, <1>4, <1>5, <1>6, <1>7, <1>8, <1>9, <1>10, <1>11, <1>12, <1>13, <1>14, <1>15, <1>16, <1>17 DEF CPU

LEMMA TypeOfTick == ASSUME LinkInv, Tick PROVE TypeOK'
<1>1. cnt' \in 0..PERIOD - 1 /\ ref' \in BOOLEAN /\ cc2if' \in BOOLEAN
  <2>1. (cnt + 1) % PERIOD \in 0..PERIOD - 1
    BY Constants DEF LinkInv, TypeOK
  <2> QED
    BY <2>1 DEF Tick, LinkInv, TypeOK
<1>2. /\ dma' \in {"off", "ready", "on", "done"} /\ left' \in 0..XFER_WIDTH
      /\ ibuf' \in [1..XFER_WIDTH -> {Unread, Low, High}]
  <2>1. CASE dma = "on"
    <3>1. left \in 1..XFER_WIDTH
      BY <2>1, Constants DEF LinkInv, TypeOK, Progress, BeforeXfer
    <3> QED
      BY <2>1, <3>1, Constants DEF Tick, LinkInv, TypeOK
  <2>2. CASE dma # "on"
    BY <2>2 DEF Tick, LinkInv, TypeOK, xfer
  <2> QED
    BY <2>1, <2>2
<1>3. seen' \in 0..DELAY /\ heard' \in 0..XFER_WIDTH + 1
  BY Constants DEF Tick, LinkInv, TypeOK
<1>4. UNCHANGED <<pc, clk, oe, run, pins, pattern, fsmc, cart, result, steady, phase>>
  BY DEF Tick, bus, history
<1> QED
  BY <1>1, <1>2, <1>3, <1>4 DEF LinkInv, TypeOK

LEMMA TypeOfChange == ASSUME LinkInv, ChangeCart PROVE TypeOK'
<1>1. UNCHANGED <<pc, clk, oe, ref, run, cnt, cc2if, dma, ibuf, left, pins, pattern, fsmc,
                  result, phase>>
  BY DEF ChangeCart, timers, xfer, bus
<1>2. seen' \in 0..DELAY /\ heard' \in 0..XFER_WIDTH + 1
  BY Constants DEF ChangeCart
<1>3. steady' \in BOOLEAN
  BY DEF ChangeCart
<1>4. cart' \in {NoCart} \cup [bits : Answers, lag : Lags]
  BY DEF ChangeCart
<1> QED
  BY <1>1, <1>2, <1>3, <1>4 DEF LinkInv, TypeOK

----------------------------------------------------------------------------
(* The buffer.                                                             *)

\* A set of naturals that is not empty has a least element.
LEMMA LeastOf ==
  ASSUME NEW T \in SUBSET Nat, T # {}
  PROVE  \E x \in T : \A y \in T : x <= y
<1> DEFINE R == OpToRel(<, Nat)
<1>1. IsWellFoundedOn(R, Nat)
  BY NatLessThanWellFounded
<1>2. \A x, y \in Nat : <<y, x>> \in R <=> y < x
  BY DEF OpToRel
<1> HIDE DEF R
<1>3. PICK x \in T : \A y \in T : ~(<<y, x>> \in R)
  BY <1>1, WFMin, Zenon
<1>4. ASSUME NEW y \in T PROVE x <= y
  <2>1. x \in Nat /\ y \in Nat
    OBVIOUS
  <2>2. ~(y < x)
    BY <1>2, <1>3, <2>1, Zenon
  <2> QED
    BY <2>1, <2>2
<1> QED
  BY <1>4

\* The loop for the falling edge stops at the first low sample.
LEMMA EdgeFirst ==
  ASSUME NEW buf, NEW i \in 1..XFER_WIDTH, buf[i] = Low
  PROVE  /\ Edge(buf) \in 1..XFER_WIDTH /\ buf[Edge(buf)] = Low
         /\ \A k \in 1..XFER_WIDTH : buf[k] = Low => Edge(buf) <= k
<1> DEFINE lows == {k \in 1..XFER_WIDTH : buf[k] = Low}
<1>1. lows \in SUBSET Nat /\ lows # {}
  BY Constants
<1>2. \E x \in lows : \A y \in lows : x <= y
  <2> HIDE DEF lows
  <2> QED
    BY <1>1, LeastOf
<1>3. Edge(buf) = CHOOSE x \in lows : \A y \in lows : x <= y
  BY <1>1 DEF Edge
<1>4. Edge(buf) \in lows /\ \A y \in lows : Edge(buf) <= y
  <2> HIDE DEF lows
  <2> QED
    BY <1>2, <1>3
<1> QED
  BY <1>4

\* A buffer of samples alone is cleared whole.
LEMMA ClearedEmpty ==
  ASSUME NEW buf \in [1..XFER_WIDTH -> {Unread, Low, High}],
         \A i \in 1..XFER_WIDTH : buf[i] # Unread
  PROVE  Cleared(buf) = Empty
<1>1. ASSUME NEW i \in 1..XFER_WIDTH, buf[i] # High PROVE i >= Edge(buf)
  <2>1. buf[i] = Low
    BY <1>1
  <2>2. Edge(buf) \in 1..XFER_WIDTH /\ Edge(buf) <= i
    BY <2>1, EdgeFirst
  <2> QED
    BY <2>2, Constants
<1> QED
  BY <1>1 DEF Cleared, Empty

----------------------------------------------------------------------------
(* The transfer.                                                           *)

LEMMA ProgressOfCPU ==
  ASSUME LinkInv, CPU \/ TimSetup \/ Begin
  PROVE  Progress'
<1> USE DEF LinkInv, Progress, BeforeXfer, Goto, timers, xfer, bus, slot, history
<1>1. CASE TimSetup
  BY <1>1 DEF TimSetup
<1>2. CASE Begin
  BY <1>2 DEF Begin
<1>3. CASE NoneInserted
  BY <1>3 DEF NoneInserted
<1>4. CASE Present
  BY <1>4 DEF Present
<1>5. CASE StartClock
  BY <1>5 DEF StartClock
<1>6. CASE EnableRst
  BY <1>6 DEF EnableRst
<1>7. CASE EnableCounter
  BY <1>7 DEF EnableCounter
<1>8. CASE ZeroCounter
  BY <1>8 DEF ZeroCounter
<1>9. CASE ClearFlag
  BY <1>9 DEF ClearFlag
<1>10. CASE RstSeen
  BY <1>10 DEF RstSeen
<1>11. CASE StartDelay
  BY <1>11 DEF StartDelay
<1>12. CASE Delayed
  BY <1>12 DEF Delayed
<1>13. CASE FlipPattern
  BY <1>13 DEF FlipPattern
<1>14. CASE BeginXfer
  <2>1. /\ pc = "xfer" /\ pc' = "sample" /\ dma' = "on"
        /\ ibuf' = Empty /\ left' = XFER_WIDTH
    BY <1>14 DEF BeginXfer
  <2>2. \A i \in 1..XFER_WIDTH : ibuf'[i] = Unread <=> i > XFER_WIDTH - left'
    BY <2>1, Constants DEF Empty
  <2> QED
    BY <2>1, <2>2, Constants
<1>15. CASE EndXfer
  BY <1>15, Constants DEF EndXfer, TypeOK
<1>16. CASE Mismatch \/ Unlock
  <2>1. \A i \in 1..XFER_WIDTH : ibuf[i] # Unread
    BY <1>16, Constants DEF Mismatch, Unlock
  <2>2. Cleared(ibuf) = Empty
    BY <2>1, ClearedEmpty DEF TypeOK
  <2> QED
    BY <1>16, <2>2 DEF Mismatch, Unlock
<1> QED
  BY <1>1, <1>2, <1>3, <1>4, <1>5, <1>6, <1>7, <1>8, <1>9, <1>10, <1>11, <1>12, <1>13, <1>14,
     <1>15, <1>16 DEF CPU

\* A tick while DMA is on takes one sample.
LEMMA TickSamples ==
  ASSUME LinkInv, Tick, dma = "on"
  PROVE  /\ pc = "sample" /\ left \in 1..XFER_WIDTH
         /\ left' = left - 1 /\ pc' = pc
         /\ dma' = IF left' = 0 THEN "done" ELSE "on"
         /\ ibuf' = [ibuf EXCEPT ![XFER_WIDTH - left + 1] = IF SO = 1 THEN High ELSE Low]
<1>1. pc = "sample"
  BY DEF LinkInv, TypeOK, Progress, BeforeXfer
<1>2. left \in 1..XFER_WIDTH
  BY <1>1, Constants DEF LinkInv, TypeOK, Progress
<1> QED
  BY <1>1, <1>2, Constants DEF Tick

LEMMA ProgressOfTick == ASSUME LinkInv, Tick PROVE Progress'
<1>1. CASE dma = "on"
  <2>1. /\ pc = "sample" /\ left \in 1..XFER_WIDTH
        /\ left' = left - 1 /\ pc' = pc
        /\ dma' = IF left' = 0 THEN "done" ELSE "on"
        /\ ibuf' = [ibuf EXCEPT ![XFER_WIDTH - left + 1] = IF SO = 1 THEN High ELSE Low]
    BY <1>1, TickSamples
  <2>2. ibuf \in [1..XFER_WIDTH -> {Unread, Low, High}]
    BY DEF LinkInv, TypeOK
  <2>3. \A i \in 1..XFER_WIDTH : ibuf[i] = Unread <=> i > XFER_WIDTH - left
    BY <2>1 DEF LinkInv, Progress
  <2>4. \A i \in 1..XFER_WIDTH : ibuf'[i] = Unread <=> i > XFER_WIDTH - left'
    BY <2>1, <2>2, <2>3, Constants DEF Unread, Low, High
  <2> QED
    BY <2>1, <2>4 DEF Progress, BeforeXfer
<1>2. CASE dma # "on"
  BY <1>2 DEF Tick, xfer, LinkInv, Progress
<1> QED
  BY <1>1, <1>2

LEMMA ProgressOfChange == ASSUME LinkInv, ChangeCart PROVE Progress'
  BY DEF ChangeCart, xfer, LinkInv, Progress

----------------------------------------------------------------------------
(* The timers and the lines.                                               *)

LEMMA LinesOfCPU ==
  ASSUME LinkInv, CPU \/ TimSetup \/ Begin
  PROVE  Lines'
<1> USE DEF LinkInv, TypeOK, Lines, BeforeXfer, AfterRst, AfterFlip, Goto, timers, xfer, bus, slot, history
<1>1. CASE TimSetup
  BY <1>1, Constants DEF TimSetup
<1>2. CASE Begin
  BY <1>2, Constants DEF Begin
<1>3. CASE NoneInserted
  <2>1. pc = "settle" /\ pc' = "idle"
    BY <1>3 DEF NoneInserted
  <2>2. UNCHANGED <<clk, oe, run, ref, cc2if, pins, pattern, fsmc, cart, steady>>
    BY <1>3 DEF NoneInserted
  <2>3. ~clk
    BY <2>1
  <2> QED
    BY <2>1, <2>2, <2>3
<1>4. CASE Present
  <2>1. pc = "settle" /\ pc' = "clk" /\ pattern' = "5A"
    BY <1>4 DEF Present
  <2>2. UNCHANGED <<clk, oe, run, ref, cc2if, pins, fsmc, cart, steady>>
    BY <1>4 DEF Present
  <2>3. cart # NoCart
    BY <1>4 DEF Present, SO
  <2> QED
    BY <2>1, <2>2, <2>3
<1>5. CASE StartClock
  BY <1>5, Constants DEF StartClock
<1>6. CASE EnableRst
  BY <1>6, Constants DEF EnableRst
<1>7. CASE EnableCounter
  BY <1>7, Constants DEF EnableCounter
<1>8. CASE ZeroCounter
  BY <1>8, Constants DEF ZeroCounter
<1>9. CASE ClearFlag
  BY <1>9, Constants DEF ClearFlag
<1>10. CASE RstSeen
  BY <1>10, Constants DEF RstSeen
<1>11. CASE StartDelay
  BY <1>11, Constants DEF StartDelay
<1>12. CASE Delayed
  BY <1>12, Constants DEF Delayed
<1>13. CASE FlipPattern
  BY <1>13, Constants DEF FlipPattern
<1>14. CASE BeginXfer
  BY <1>14, Constants DEF BeginXfer
<1>15. CASE EndXfer
  BY <1>15, Constants DEF EndXfer
<1>16. CASE Mismatch
  BY <1>16, Constants DEF Mismatch
<1>17. CASE Unlock
  BY <1>17, Constants DEF Unlock
<1> QED
  BY <1>1, <1>2, <1>3, <1>4, <1>5, <1>6, <1>7, <1>8, <1>9, <1>10, <1>11, <1>12, <1>13, <1>14, <1>15, <1>16, <1>17 DEF CPU

LEMMA LinesOfTick == ASSUME LinkInv, Tick PROVE Lines'
<1>1. /\ UNCHANGED <<pc, clk, oe, run, pins, pattern, fsmc, cart, steady>>
      /\ ref => ref'
      /\ cc2if' => ref' \/ cc2if
  BY DEF Tick, bus, history, LinkInv, TypeOK
<1> QED
  BY <1>1 DEF Tick, LinkInv, TypeOK, Lines, BeforeXfer, AfterRst, AfterFlip

LEMMA LinesOfChange == ASSUME LinkInv, ChangeCart PROVE Lines'
  BY DEF ChangeCart, timers, bus, LinkInv, Lines

----------------------------------------------------------------------------
(* What the cartridge hears, and what it answers.                          *)

LEMMA HearingOfCPU ==
  ASSUME LinkInv, CPU \/ TimSetup \/ Begin
  PROVE  Hearing'
<1> USE DEF LinkInv, TypeOK, Progress, Hearing, Level, HeardAt, BeforeXfer, AfterFlip, Goto,
            timers, xfer, bus, slot, history
<1>1. CASE TimSetup
  BY <1>1, Constants DEF TimSetup
<1>2. CASE Begin
  BY <1>2, Constants DEF Begin
<1>3. CASE NoneInserted
  BY <1>3, Constants DEF NoneInserted
<1>4. CASE Present
  BY <1>4, Constants DEF Present
<1>5. CASE StartClock
  BY <1>5, Constants DEF StartClock
<1>6. CASE EnableRst
  BY <1>6, Constants DEF EnableRst
<1>7. CASE EnableCounter
  BY <1>7, Constants DEF EnableCounter
<1>8. CASE ZeroCounter
  BY <1>8, Constants DEF ZeroCounter
<1>9. CASE ClearFlag
  BY <1>9, Constants DEF ClearFlag
<1>10. CASE RstSeen
  BY <1>10, Constants DEF RstSeen
<1>11. CASE StartDelay
  BY <1>11, Constants DEF StartDelay
<1>12. CASE Delayed
  BY <1>12, Constants DEF Delayed
<1>13. CASE FlipPattern
  BY <1>13, Constants DEF FlipPattern
<1>14. CASE BeginXfer
  <2>1. /\ pc = "xfer" /\ pc' = "sample" /\ phase' = heard /\ left' = XFER_WIDTH
        /\ UNCHANGED <<cart, seen, heard, steady>>
    BY <1>14 DEF BeginXfer
  <2>2. heard \in 0..XFER_WIDTH + 1
    OBVIOUS
  <2>3. HeardAt(phase', 0) = heard' /\ XFER_WIDTH - left' = 0
    BY <2>1, <2>2, Constants
  <2>4. Hearing /\ steady' /\ cart' # NoCart => seen' = DELAY
    BY <2>1
  <2> QED
    BY <2>1, <2>3, <2>4, Constants
<1>15. CASE EndXfer
  BY <1>15, Constants DEF EndXfer
<1>16. CASE Mismatch
  BY <1>16, Constants DEF Mismatch
<1>17. CASE Unlock
  BY <1>17, Constants DEF Unlock
<1> QED
  BY <1>1, <1>2, <1>3, <1>4, <1>5, <1>6, <1>7, <1>8, <1>9, <1>10, <1>11, <1>12, <1>13, <1>14, <1>15, <1>16, <1>17 DEF CPU

\* The counter's next value is at most one more.
LEMMA NextCount == ASSUME TypeOK PROVE (cnt + 1) % PERIOD <= cnt + 1
<1>1. cnt \in 0..PERIOD - 1 /\ PERIOD \in Nat \ {0, 1}
  BY Constants DEF TypeOK
<1>2. CASE cnt + 1 < PERIOD
  BY <1>1, <1>2
<1>3. CASE cnt + 1 = PERIOD
  BY <1>1, <1>3
<1> QED
  BY <1>1, <1>2, <1>3

\* Past its answer a cartridge holds SO high, so the level tells the same when
\* the count of cycles stands at its bound.
LEMMA LevelHeard ==
  ASSUME TypeOK, cart # NoCart, NEW n \in 0..XFER_WIDTH
  PROVE  Level(cart, HeardAt(phase, n)) = Level(cart, phase + n)
<1>1. cart.lag \in Nat /\ cart.lag <= XFER_WIDTH - SECRET_WIDTH
  BY LagType DEF TypeOK
<1>2. phase \in Nat
  BY Constants DEF TypeOK
<1>3. CASE phase + n <= XFER_WIDTH + 1
  BY <1>3 DEF HeardAt
<1>4. CASE ~(phase + n <= XFER_WIDTH + 1)
  <2>1. HeardAt(phase, n) = XFER_WIDTH + 1
    BY <1>4 DEF HeardAt
  <2>2. XFER_WIDTH + 1 - cart.lag > SECRET_WIDTH
    BY <1>1, Constants
  <2>3. phase + n - cart.lag > SECRET_WIDTH
    BY <1>1, <1>2, <1>4, <2>2, Constants
  <2>4. Level(cart, XFER_WIDTH + 1) = 1 /\ Level(cart, phase + n) = 1
    BY <1>1, <1>2, <2>2, <2>3, Constants DEF Level
  <2> QED
    BY <2>1, <2>4
<1> QED
  BY <1>3, <1>4

LEMMA HearingOfTick ==
  ASSUME LinkInv, Tick, steady, cart # NoCart
  PROVE  Hearing'
<1>1. /\ UNCHANGED <<pc, steady, cart, phase, pins, pattern, oe, run>>
  BY DEF Tick, history, bus
<1>2. TypeOK /\ Lines /\ Progress
  BY DEF LinkInv
<1>3. pc # "settle"
  BY DEF Tick, LinkInv, Lines
<1>4. pc \in BeforeXfer \ {"xfer"} => heard' = 0
  <2>1. pc \in BeforeXfer \ {"xfer"} => heard = 0 /\ pattern = "5A"
    BY DEF LinkInv, Hearing, Lines
  <2> QED
    BY <2>1 DEF Tick, Shown
<1>5. pc = "hold" => seen' = DELAY \/ seen' >= cnt'
  <2> SUFFICES ASSUME pc = "hold" PROVE seen' = DELAY \/ seen' >= cnt'
    OBVIOUS
  <2>1. oe /\ run /\ ref /\ pins = "gpio" /\ pattern = "5A"
    BY DEF LinkInv, Lines, BeforeXfer, AfterRst
  <2>2. seen' = IF seen < DELAY THEN seen + 1 ELSE seen
    BY <2>1 DEF Tick, Shown, Rst
  <2>3. cnt' <= cnt + 1
    <3>1. cnt' = (cnt + 1) % PERIOD
      BY <2>1 DEF Tick
    <3> QED
      BY <1>2, <3>1, NextCount
  <2>4. seen \in 0..DELAY /\ cnt \in 0..PERIOD - 1
    BY <1>2 DEF TypeOK
  <2>5. seen = DELAY \/ seen >= cnt
    BY DEF LinkInv, Hearing
  <2>6. cnt' \in Int
    BY <2>1, <2>4, Constants DEF Tick
  <2> QED
    BY <2>2, <2>3, <2>4, <2>5, <2>6, Constants
<1>6. pc \in {"flip"} \cup AfterFlip => seen' = DELAY
  <2>1. pc \in {"flip"} \cup AfterFlip => seen = DELAY
    BY DEF LinkInv, Hearing
  <2> QED
    BY <2>1, Constants DEF Tick
<1>7. CASE pc = "sample" /\ left > 0
  <2>1. dma = "on"
    BY <1>2, <1>7, Constants DEF Progress, TypeOK
  <2>2. /\ left \in 1..XFER_WIDTH /\ left' = left - 1
        /\ ibuf' = [ibuf EXCEPT ![XFER_WIDTH - left + 1] = IF SO = 1 THEN High ELSE Low]
    BY <2>1, TickSamples
  <2> DEFINE n == XFER_WIDTH - left
  <2>3. n \in 0..XFER_WIDTH - 1 /\ n + 1 = XFER_WIDTH - left'
    BY <2>2, Constants
  <2>4. heard = HeardAt(phase, n)
    BY <1>7 DEF LinkInv, Hearing
  <2>5. SO = Level(cart, phase + n)
    <3>1. SO = Level(cart, heard)
      BY DEF SO, Level
    <3>2. n \in 0..XFER_WIDTH
      BY <2>3, Constants
    <3> HIDE DEF n
    <3> QED
      BY <1>2, <2>4, <3>1, <3>2, LevelHeard
  <2>6. heard' = HeardAt(phase, n + 1)
    <3>1. oe /\ ref /\ pins = "gpio" /\ pattern = "A5" /\ seen = DELAY
      BY <1>7 DEF LinkInv, Lines, Hearing, AfterRst, AfterFlip
    <3>2. heard' = IF heard <= XFER_WIDTH THEN heard + 1 ELSE heard
      BY <3>1 DEF Tick, Shown, Rst
    <3>3. phase \in 0..XFER_WIDTH + 1 /\ heard \in 0..XFER_WIDTH + 1
      BY <1>2 DEF TypeOK
    <3> HIDE DEF n
    <3> QED
      BY <2>3, <2>4, <3>2, <3>3, Constants DEF HeardAt
  <2>7. ASSUME NEW i \in 1..n + 1
        PROVE  ibuf'[i] = IF Level(cart, phase + i - 1) = 1 THEN High ELSE Low
    <3>1. i \in 1..XFER_WIDTH /\ n + 1 \in 1..XFER_WIDTH
      BY <2>3, Constants
    <3>2. ibuf \in [1..XFER_WIDTH -> {Unread, Low, High}]
      BY <1>2 DEF TypeOK
    <3>3. CASE i = n + 1
      <4>1. phase + i - 1 = phase + n
        BY <3>3, <2>3, <1>2, Constants DEF TypeOK
      <4>2. ibuf'[i] = IF SO = 1 THEN High ELSE Low
        BY <2>2, <3>1, <3>2, <3>3
      <4> QED
        BY <4>1, <4>2, <2>5
    <3>4. CASE i # n + 1
      <4>1. i \in 1..n
        BY <2>3, <3>4, Constants
      <4>2. ibuf'[i] = ibuf[i]
        BY <2>2, <3>1, <3>2, <3>4
      <4> QED
        BY <4>1, <4>2, <1>7 DEF LinkInv, Hearing
    <3> QED
      BY <3>3, <3>4
  <2>8. heard' = HeardAt(phase', XFER_WIDTH - left')
    BY <1>1, <2>3, <2>6
  <2>9. \A i \in 1..XFER_WIDTH - left' :
          ibuf'[i] = IF Level(cart', phase' + i - 1) = 1 THEN High ELSE Low
    BY <1>1, <2>3, <2>7
  <2>10. pc' = "sample"
    BY <1>1, <1>7
  <2> QED
    BY <1>6, <2>8, <2>9, <2>10, <1>1, <1>7 DEF Hearing, BeforeXfer, AfterFlip
<1>8. CASE ~(pc = "sample" /\ left > 0)
  <2>1. dma # "on"
    BY <1>8, TickSamples
  <2>2. UNCHANGED <<ibuf, left>>
    BY <2>1 DEF Tick, xfer
  <2>3. pc' \in {"sample", "decode"} =>
          \A i \in 1..XFER_WIDTH - left' :
            ibuf'[i] = IF Level(cart', phase' + i - 1) = 1 THEN High ELSE Low
    BY <1>1, <2>2 DEF LinkInv, Hearing
  <2>4. ~(pc' = "sample" /\ left' > 0) /\ pc' # "settle"
    BY <1>1, <1>3, <1>8, <2>2
  <2>5. pc' \in {"settle", "flip"} \cup (BeforeXfer \ {"xfer"}) => heard' = 0
    BY <1>1, <1>4, <2>4 DEF BeforeXfer
  <2> QED
    BY <1>1, <1>5, <1>6, <2>3, <2>4, <2>5 DEF Hearing
<1> QED
  BY <1>7, <1>8

----------------------------------------------------------------------------
(* The invariant, and what it implies.                                     *)

LEMMA InitLink == Init => LinkInv
<1> SUFFICES ASSUME Init PROVE LinkInv
  OBVIOUS
<1>1. TypeOK
  <2>1. /\ pc = "idle" /\ clk = FALSE /\ oe = TRUE /\ ref = FALSE /\ run = FALSE
        /\ cc2if = FALSE /\ dma = "off" /\ pins = "float" /\ pattern = "none"
        /\ fsmc = FALSE /\ result = "none" /\ steady = TRUE
    BY DEF Init
  <2>2. /\ cnt \in 0..PERIOD - 1 /\ left \in 0..XFER_WIDTH /\ seen \in 0..DELAY
        /\ heard \in 0..XFER_WIDTH + 1 /\ phase \in 0..XFER_WIDTH + 1
        /\ ibuf \in [1..XFER_WIDTH -> {Unread, Low, High}]
    BY Constants DEF Init
  <2>3. cart \in {NoCart} \cup [bits : Answers, lag : Lags]
    BY DEF Init
  <2> QED
    BY <2>1, <2>2, <2>3 DEF TypeOK
<1>2. Progress
  BY Constants DEF Init, Progress, BeforeXfer
<1>3. Lines
  BY DEF Init, Lines, BeforeXfer, AfterRst, AfterFlip
<1>4. Hearing
  BY DEF Init, Hearing, BeforeXfer, AfterFlip
<1> QED
  BY <1>1, <1>2, <1>3, <1>4 DEF LinkInv

LEMMA StepLink == LinkInv /\ [Next]_vars => LinkInv'
<1> SUFFICES ASSUME LinkInv, [Next]_vars PROVE LinkInv'
  OBVIOUS
<1>1. CASE CPU \/ TimSetup \/ Begin
  BY <1>1, TypeOfCPU, ProgressOfCPU, LinesOfCPU, HearingOfCPU DEF LinkInv
<1>2. CASE Tick
  <2>1. Hearing'
    <3>1. CASE steady /\ cart # NoCart
      BY <1>2, <3>1, HearingOfTick
    <3>2. CASE ~(steady /\ cart # NoCart)
      <4>1. UNCHANGED <<steady, cart>>
        BY <1>2 DEF Tick, history
      <4> QED
        BY <3>2, <4>1 DEF Hearing
    <3> QED
      BY <3>1, <3>2
  <2> QED
    BY <1>2, <2>1, TypeOfTick, ProgressOfTick, LinesOfTick DEF LinkInv
<1>3. CASE ChangeCart
  <2>1. Hearing'
    BY <1>3 DEF ChangeCart, Hearing
  <2> QED
    BY <1>3, <2>1, TypeOfChange, ProgressOfChange, LinesOfChange DEF LinkInv
<1>4. CASE UNCHANGED vars
  <2>1. UNCHANGED <<pc, clk, oe, ref, run, cnt, cc2if, dma, ibuf, left, pins, pattern, fsmc,
                    cart, seen, heard, result, steady, phase>>
    BY <1>4 DEF vars, timers, xfer, bus, slot, history
  <2>2. TypeOK'
    BY <2>1 DEF LinkInv, TypeOK
  <2>3. Progress'
    BY <2>1 DEF LinkInv, Progress
  <2>4. Lines'
    BY <2>1 DEF LinkInv, Lines
  <2>5. Hearing'
    BY <2>1 DEF LinkInv, Hearing, HeardAt, Level
  <2> QED
    BY <2>2, <2>3, <2>4, <2>5 DEF LinkInv
<1> QED
  BY <1>1, <1>2, <1>3, <1>4 DEF Next

LEMMA LinkInvariant == Spec => []LinkInv
  BY InitLink, StepLink, PTL DEF Spec

\* Every variable keeps its type: in particular no sample is written past the
\* end of __ibuf (left counts down to 0, where DMA stops).
THEOREM LinkTypeCorrect == Spec => []TypeOK
<1>1. LinkInv => TypeOK
  BY DEF LinkInv
<1> QED
  BY <1>1, LinkInvariant, PTL

\* __cart_get_secret decodes samples of this handshake alone, and leaves the
\* buffer as a first handshake finds it.
THEOREM FreshSamplesCorrect == Spec => []FreshSamples
<1>1. LinkInv => FreshSamples
  <2> SUFFICES ASSUME LinkInv PROVE FreshSamples
    OBVIOUS
  <2>1. pc = "idle" => ibuf = Empty
    BY DEF LinkInv, Progress
  <2>2. pc = "decode" => left = 0 /\ \A i \in 1..XFER_WIDTH : ibuf[i] # Unread
    BY Constants DEF LinkInv, Progress
  <2> QED
    BY <2>1, <2>2 DEF FreshSamples
<1> QED
  BY <1>1, LinkInvariant, PTL

\* The address lines have one driver, and the port is sampled only while the
\* second pattern is on them and the cartridge is out of reset.
THEOREM OneDriverCorrect == Spec => []OneDriver
<1>1. LinkInv => OneDriver
  <2> SUFFICES ASSUME LinkInv PROVE OneDriver
    OBVIOUS
  <2>1. dma \in {"on", "done"} => pc = "sample"
    BY DEF LinkInv, TypeOK, Progress, BeforeXfer
  <2>2. pc = "sample" => pins = "gpio" /\ pattern = "A5" /\ oe /\ ref /\ run
    BY DEF LinkInv, Lines, AfterRst, AfterFlip
  <2> QED
    BY <2>1, <2>2 DEF LinkInv, Lines, OneDriver, Rst
<1> QED
  BY <1>1, LinkInvariant, PTL

----------------------------------------------------------------------------
(* The verdict.                                                            *)

\* An answer within the samples begins and ends at samples that were taken.
LEMMA Window ==
  ASSUME NEW l \in Nat, NEW p \in Nat, p <= l + 1, l + SECRET_WIDTH < p + XFER_WIDTH
  PROVE  /\ l + 2 - p \in 1..XFER_WIDTH
         /\ \A j \in 1..SECRET_WIDTH :
              l + 2 - p + j - 1 \in 1..XFER_WIDTH /\ p + (l + 2 - p + j - 1) - 1 = l + j
         /\ \A i \in 1..XFER_WIDTH : p + i - 1 > l => l + 2 - p <= i
<1>1. SECRET_WIDTH \in Nat /\ XFER_WIDTH \in Nat /\ SECRET_WIDTH >= 1
  BY Constants
<1> QED
  BY <1>1

\* The falling edge is found where the cartridge began to send, and the secret
\* read from there is the one it sent.
LEMMA SecretHeard ==
  ASSUME LinkInv, pc = "decode", steady, cart # NoCart, cart.bits[1] = 0, InWindow
  PROVE  Secret(ibuf) = cart.bits
<1> DEFINE e == cart.lag + 2 - phase
<1>1. /\ cart.lag \in Nat /\ phase \in Nat /\ cart.bits \in [1..SECRET_WIDTH -> Bits]
      /\ phase <= cart.lag + 1 /\ cart.lag + SECRET_WIDTH < phase + XFER_WIDTH
  <2>1. cart.bits \in Answers /\ cart.lag \in Lags
    BY DEF LinkInv, TypeOK
  <2>2. phase \in 0..XFER_WIDTH + 1
    BY DEF LinkInv, TypeOK
  <2>3. cart.bits \in [1..SECRET_WIDTH -> Bits] /\ cart.lag \in Nat
    BY <2>1, LinkAssumption, LagType
  <2> QED
    BY <2>2, <2>3, Constants DEF InWindow
<1>2. ASSUME NEW i \in 1..XFER_WIDTH
      PROVE  ibuf[i] = IF Level(cart, phase + i - 1) = 1 THEN High ELSE Low
  BY Constants DEF LinkInv, Progress, Hearing
<1>3. /\ e \in 1..XFER_WIDTH
      /\ \A j \in 1..SECRET_WIDTH :
           e + j - 1 \in 1..XFER_WIDTH /\ phase + (e + j - 1) - 1 = cart.lag + j
      /\ \A i \in 1..XFER_WIDTH : phase + i - 1 > cart.lag => e <= i
  BY <1>1, Window
<1>4. ASSUME NEW j \in 1..SECRET_WIDTH
      PROVE  /\ e + j - 1 \in 1..XFER_WIDTH
             /\ ibuf[e + j - 1] = IF cart.bits[j] = 1 THEN High ELSE Low
  <2> HIDE DEF e
  <2>1. e + j - 1 \in 1..XFER_WIDTH /\ phase + (e + j - 1) - 1 = cart.lag + j
    BY <1>3
  <2>2. Level(cart, cart.lag + j) = cart.bits[j]
    <3>1. cart.lag \in Nat /\ j \in Nat /\ 1 <= j /\ j <= SECRET_WIDTH
      BY <1>1, Constants
    <3>2. cart.lag + j > cart.lag /\ cart.lag + j - cart.lag = j
      BY <3>1
    <3> QED
      BY <3>1, <3>2 DEF Level
  <2> QED
    BY <1>2, <2>1, <2>2
<1>5. ibuf[e] = Low
  <2> HIDE DEF e
  <2>1. 1 \in 1..SECRET_WIDTH /\ e + 1 - 1 = e
    BY <1>3, Constants
  <2> QED
    BY <1>4, <2>1
<1>6. ASSUME NEW i \in 1..XFER_WIDTH, ibuf[i] = Low PROVE e <= i
  <2>1. Level(cart, phase + i - 1) # 1
    BY <1>2, <1>6 DEF Low, High
  <2>2. phase + i - 1 > cart.lag
    BY <2>1 DEF Level
  <2> QED
    BY <1>3, <2>2
<1>7. Edge(ibuf) = e
  <2>1. e \in 1..XFER_WIDTH
    BY <1>3
  <2> HIDE DEF e
  <2>2. /\ Edge(ibuf) \in 1..XFER_WIDTH /\ ibuf[Edge(ibuf)] = Low
        /\ \A k \in 1..XFER_WIDTH : ibuf[k] = Low => Edge(ibuf) <= k
    BY <1>5, <2>1, EdgeFirst
  <2>3. Edge(ibuf) <= e /\ e <= Edge(ibuf)
    BY <1>5, <1>6, <2>1, <2>2
  <2> QED
    BY <2>1, <2>2, <2>3, Constants
<1>8. ASSUME NEW j \in 1..SECRET_WIDTH PROVE Secret(ibuf)[j] = cart.bits[j]
  <2> HIDE DEF e
  <2>1. e + j - 1 <= XFER_WIDTH /\ ibuf[e + j - 1] = IF cart.bits[j] = 1 THEN High ELSE Low
    BY <1>4, Constants
  <2>2. cart.bits[j] \in {0, 1}
    BY <1>1 DEF Bits
  <2> QED
    BY <1>7, <2>1, <2>2 DEF Secret, High, Low
<1>9. Secret(ibuf) = [j \in 1..SECRET_WIDTH |-> Secret(ibuf)[j]]
  BY DEF Secret
<1>10. cart.bits = [j \in 1..SECRET_WIDTH |-> cart.bits[j]]
  BY <1>1
<1> QED
  BY <1>8, <1>9, <1>10

\* cart_handshake succeeds exactly when the cartridge sends the secret, for
\* every secret, every answer and every delay, however clock and CPU interleave.
THEOREM VerdictCorrect == Spec => Verdict
<1>1. LinkInv /\ [Next]_vars =>
        [pc = "decode" /\ pc' = "idle" /\ steady /\ cart # NoCart /\ cart.bits[1] = 0 /\ InWindow
           => (result' = "success" <=> cart.bits = SECRET)]_vars
  <2> SUFFICES ASSUME LinkInv, Next, pc = "decode", pc' = "idle", steady, cart # NoCart,
                      cart.bits[1] = 0, InWindow
               PROVE  result' = "success" <=> cart.bits = SECRET
    OBVIOUS
  <2>1. Secret(ibuf) = cart.bits
    BY SecretHeard
  <2>2. Mismatch \/ Unlock
    BY DEF Next, CPU, TimSetup, Begin, NoneInserted, Present, StartClock, EnableRst, EnableCounter,
           ZeroCounter, ClearFlag, RstSeen, StartDelay, Delayed, FlipPattern, BeginXfer, EndXfer,
           Tick, ChangeCart, Goto
  <2> QED
    BY <2>1, <2>2 DEF Mismatch, Unlock
<1> QED
  BY <1>1, LinkInvariant, PTL DEF Spec, Verdict

----------------------------------------------------------------------------
(* The three loops of the handshake.                                       *)

\* In a loop only the clock and the hand on the slot move.
LEMMA LoopSteps ==
  ASSUME Next, pc \in {"wait", "hold", "sample"}, pc' = pc
  PROVE  Tick \/ ChangeCart
  BY DEF Next, CPU, TimSetup, Begin, NoneInserted, Present, StartClock, EnableRst, EnableCounter,
         ZeroCounter, ClearFlag, RstSeen, StartDelay, Delayed, FlipPattern, BeginXfer, EndXfer,
         Mismatch, Unlock, Goto

\* The counter counts, and wraps to 0.
LEMMA CountExact ==
  ASSUME TypeOK
  PROVE  /\ (cnt + 1) % PERIOD = IF cnt + 1 = PERIOD THEN 0 ELSE cnt + 1
         /\ (cnt + 1) % PERIOD # cnt
<1>1. cnt \in 0..PERIOD - 1 /\ PERIOD \in Nat \ {0, 1}
  BY Constants DEF TypeOK
<1>2. CASE cnt + 1 < PERIOD
  BY <1>1, <1>2
<1>3. CASE cnt + 1 = PERIOD
  BY <1>1, <1>3
<1> QED
  BY <1>1, <1>2, <1>3

\* A tick in a loop brings its end nearer.
LEMMA TickNears ==
  ASSUME LinkInv, Tick, pc \in {"wait", "hold", "sample"}, Awaited # 0
  PROVE  cnt' # cnt /\ Awaited' = Awaited - 1
<1>1. run /\ pc' = pc
  BY DEF LinkInv, Lines, Tick
<1>2. cnt' = (IF cnt + 1 = PERIOD THEN 0 ELSE cnt + 1) /\ cnt' # cnt
  BY <1>1, CountExact DEF LinkInv, Tick
<1>3. cnt \in Nat /\ cnt < PERIOD /\ PERIOD \in Nat \ {0, 1} /\ DELAY \in Nat /\ DELAY < PERIOD
  BY Constants DEF LinkInv, TypeOK
<1>4. CASE pc = "wait"
  <2>1. ~cc2if /\ (cc2if' <=> cnt' = 1)
    BY <1>1, <1>4 DEF Tick, Awaited
  <2> QED
    BY <1>1, <1>2, <1>3, <1>4, <2>1 DEF Awaited
<1>5. CASE pc = "hold"
  BY <1>1, <1>2, <1>3, <1>5 DEF Awaited
<1>6. CASE pc = "sample"
  <2>1. left # 0
    BY <1>6 DEF Awaited
  <2>2. dma = "on"
    BY <1>6, <2>1 DEF LinkInv, Progress
  <2>3. left' = left - 1
    BY <2>2 DEF Tick
  <2> QED
    BY <1>1, <1>2, <1>6, <2>3 DEF Awaited
<1> QED
  BY <1>4, <1>5, <1>6

\* The waits of cart_clock_start, cart_delay and cart_handshake end after at
\* most PERIOD, DELAY and XFER_WIDTH more cycles of a clock that runs, for all
\* of their values: what is left for fairness is that cycles go by, and that
\* the CPU looks while the counter is past DELAY.
THEOREM NothingDelaysCorrect == Spec => NothingDelays
<1>1. LinkInv /\ [Next]_vars =>
        [pc' = pc /\ pc \in {"wait", "hold", "sample"} =>
           /\ clk /\ run
           /\ Awaited = 0 \/ Awaited' = IF cnt' = cnt THEN Awaited ELSE Awaited - 1]_vars
  <2> SUFFICES ASSUME LinkInv, Next, pc' = pc, pc \in {"wait", "hold", "sample"}
               PROVE  /\ clk /\ run
                      /\ Awaited = 0 \/ Awaited' = IF cnt' = cnt THEN Awaited ELSE Awaited - 1
    OBVIOUS
  <2>1. clk /\ run
    BY DEF LinkInv, Lines
  <2>2. CASE Tick
    BY <2>1, <2>2, TickNears
  <2>3. CASE ChangeCart
    BY <2>1, <2>3 DEF ChangeCart, timers, xfer, Awaited
  <2> QED
    BY <2>1, <2>2, <2>3, LoopSteps
<1> QED
  BY <1>1, LinkInvariant, PTL DEF Spec, NothingDelays

----------------------------------------------------------------------------
(* When /RST rises before the count.                                       *)

\* Until cart_clock_start sets TIM3 counting it is stopped, and the reference
\* of its channel is that of an earlier handshake, which has had its result.
Earlier ==
  /\ pc \in {"settle", "clk", "oe", "cen"} => ~run
  /\ pc \in {"idle", "settle", "clk", "oe"} /\ ref => result # "none"

LEMMA EarlierStep == LinkInv /\ Earlier /\ [Next]_vars => Earlier'
<1> SUFFICES ASSUME LinkInv, Earlier, [Next]_vars PROVE Earlier'
  OBVIOUS
<1> USE DEF Earlier, Goto, timers, history
<1>1. CASE Begin \/ TimSetup
  BY <1>1 DEF Begin, TimSetup
<1>2. CASE NoneInserted \/ Present \/ StartClock \/ EnableRst \/ EnableCounter \/ ZeroCounter
  BY <1>2 DEF NoneInserted, Present, StartClock, EnableRst, EnableCounter, ZeroCounter
<1>3. CASE ClearFlag \/ RstSeen \/ StartDelay \/ Delayed \/ FlipPattern
  BY <1>3 DEF ClearFlag, RstSeen, StartDelay, Delayed, FlipPattern
<1>4. CASE BeginXfer \/ EndXfer \/ Mismatch \/ Unlock
  BY <1>4 DEF BeginXfer, EndXfer, Mismatch, Unlock
<1>5. CASE Tick
  <2>1. pc \in {"idle", "settle", "clk", "oe"} => ref' = ref
    BY <1>5 DEF Tick, LinkInv, Lines
  <2> QED
    BY <1>5, <2>1 DEF Tick
<1>6. CASE ChangeCart
  BY <1>6 DEF ChangeCart
<1>7. CASE UNCHANGED vars
  BY <1>7 DEF vars
<1> QED
  BY <1>1, <1>2, <1>3, <1>4, <1>5, <1>6, <1>7 DEF Next, CPU

\* A step in which /RST rises is the match in cycle 1, or the enabling of an
\* output whose channel has matched in an earlier handshake.
LEMMA RiseStep ==
  ASSUME LinkInv, Earlier, Next, ~Rst, Rst', cnt' # 1
  PROVE  pc = "oe" /\ ref /\ result # "none"
<1> USE DEF Rst, Goto, timers, history
<1>1. ~(Begin \/ TimSetup)
  BY DEF Begin, TimSetup
<1>2. ~(NoneInserted \/ Present \/ StartClock \/ EnableCounter \/ ZeroCounter \/ ClearFlag)
  BY DEF NoneInserted, Present, StartClock, EnableCounter, ZeroCounter, ClearFlag
<1>3. ~(RstSeen \/ StartDelay \/ Delayed \/ FlipPattern \/ BeginXfer \/ EndXfer)
  BY DEF RstSeen, StartDelay, Delayed, FlipPattern, BeginXfer, EndXfer
<1>4. ~(Mismatch \/ Unlock \/ Tick \/ ChangeCart)
  BY DEF Mismatch, Unlock, Tick, ChangeCart
<1>5. EnableRst
  BY <1>1, <1>2, <1>3, <1>4 DEF Next, CPU
<1> QED
  BY <1>5 DEF EnableRst, Earlier

\* What the run second_reset shows is all there is: /RST rises in cycle 1 of
\* every handshake, but for one that finds TIM3 as an earlier one has left it.
THEOREM RstEarlyOnlyAgain ==
  Spec => [][~Rst /\ Rst' /\ cnt' # 1 => pc = "oe" /\ ref /\ result # "none"]_vars
<1>1. Init => Earlier
  BY DEF Init, Earlier
<1>2. LinkInv /\ Earlier /\ [Next]_vars =>
        [~Rst /\ Rst' /\ cnt' # 1 => pc = "oe" /\ ref /\ result # "none"]_vars
  BY RiseStep
<1> QED
  BY <1>1, <1>2, EarlierStep, LinkInvariant, PTL DEF Spec

----------------------------------------------------------------------------
(* The refinement of LinkService.                                          *)

\* LinkServed without its fairness: every step is a step of the service.
LinkSteps == Service!Init /\ [][Service!Next]_(Service!vars)

\* While a handshake is under way the bus is down.
LEMMA BusDown == LinkInv /\ pc # "idle" => ~fsmc /\ ~Running
  BY DEF LinkInv, Lines, Running

\* Within a handshake nothing happens that the service tells apart.
LEMMA Within ==
  ASSUME LinkInv, LinkInv', pc # "idle", pc' # "idle", UNCHANGED <<cart, steady>>
  PROVE  UNCHANGED Service!vars
<1>1. ~fsmc /\ ~Running
  BY BusDown
<1>2. ~fsmc' /\ ~Running'
  BY DEF LinkInv, Lines, Running
<1>3. fsmc \in BOOLEAN /\ fsmc' \in BOOLEAN
  BY DEF LinkInv, TypeOK
<1> QED
  BY <1>1, <1>2, <1>3 DEF Service!vars, Running

\* The ends of a handshake.
LEMMA Ends ==
  ASSUME LinkInv, LinkInv', NoneInserted \/ Mismatch \/ Unlock
  PROVE  Service!Next
<1>1. pc # "idle" /\ pc' = "idle" /\ UNCHANGED <<cart, steady>>
  BY DEF NoneInserted, Mismatch, Unlock, Goto, slot, history
<1>2. CASE NoneInserted \/ Mismatch
  <2>1. fsmc' = FALSE
    BY <1>1, <1>2, BusDown DEF NoneInserted, Mismatch, bus, LinkInv, TypeOK
  <2>2. Running' = FALSE
    BY <2>1 DEF Running
  <2>3. Service!Finish(FALSE)
    BY <1>1, <2>1, <2>2 DEF Service!Finish
  <2> QED
    BY <2>3 DEF Service!Next
<1>3. CASE Unlock
  <2>1. fsmc' = TRUE /\ UNCHANGED <<clk, oe, ref, run>>
    BY <1>3 DEF Unlock, timers
  <2>2. clk /\ oe /\ ref /\ run /\ (steady => cart # NoCart)
    BY <1>3 DEF Unlock, Goto, LinkInv, Lines, AfterRst
  <2>3. Running' = (TRUE /\ steady)
    <3>1. steady \in BOOLEAN
      BY DEF LinkInv, TypeOK
    <3> QED
      BY <1>1, <2>1, <2>2, <3>1 DEF Running, Rst
  <2>4. Service!Finish(TRUE)
    BY <1>1, <2>1, <2>2, <2>3 DEF Service!Finish
  <2> QED
    BY <2>4 DEF Service!Next
<1> QED
  BY <1>2, <1>3

LEMMA LinkStep == LinkInv /\ LinkInv' /\ [Next]_vars => [Service!Next]_(Service!vars)
<1> SUFFICES ASSUME LinkInv, LinkInv', [Next]_vars PROVE Service!Next \/ UNCHANGED Service!vars
  OBVIOUS
<1>1. CASE Begin
  <2>1. /\ pc = "idle" /\ pc' # "idle" /\ fsmc' = FALSE /\ steady' = TRUE /\ UNCHANGED cart
    BY <1>1 DEF Begin, Goto
  <2>2. Running' = FALSE
    BY <2>1 DEF Running
  <2> QED
    BY <2>1, <2>2 DEF Service!Next, Service!Start
<1>2. CASE TimSetup
  <2>1. /\ pc = "idle" /\ clk' = FALSE /\ UNCHANGED <<pc, fsmc, cart, steady>>
    BY <1>2 DEF TimSetup, bus, history
  <2>2. Running' = FALSE
    BY <2>1 DEF Running
  <2> QED
    BY <2>1, <2>2 DEF Service!Next, Service!Reconfigure
<1>3. CASE NoneInserted \/ Mismatch \/ Unlock
  BY <1>3, Ends
<1>4. CASE CPU /\ ~(NoneInserted \/ Mismatch \/ Unlock)
  <2>1. pc # "idle" /\ pc' # "idle" /\ UNCHANGED <<cart, steady>>
    BY <1>4 DEF CPU, Present, StartClock, EnableRst, EnableCounter, ZeroCounter, ClearFlag, RstSeen,
                StartDelay, Delayed, FlipPattern, BeginXfer, EndXfer, Goto, slot, history
  <2> QED
    BY <2>1, Within
<1>5. CASE Tick
  <2>1. UNCHANGED <<pc, clk, oe, run, fsmc, cart, steady>> /\ clk
    BY <1>5 DEF Tick, bus, history
  <2>2. CASE pc # "idle"
    BY <2>1, <2>2, Within
  <2>3. CASE pc = "idle"
    <3>1. ref /\ ref'
      BY <2>1, <2>3 DEF LinkInv, Lines
    <3> QED
      BY <2>1, <3>1 DEF Service!vars, Running, Rst
  <2> QED
    BY <2>2, <2>3
<1>6. CASE ChangeCart
  <2>1. /\ cart' # cart /\ cart' \in [bits : Answers, lag : Lags] \cup {NoCart}
        /\ steady' = FALSE /\ UNCHANGED <<pc, fsmc>>
    BY <1>6 DEF ChangeCart, bus
  <2>2. Running' = FALSE
    BY <2>1 DEF Running
  <2>3. Service!Change(cart')
    BY <2>1, <2>2 DEF Service!Change
  <2> QED
    BY <2>1, <2>3 DEF Service!Next
<1>7. CASE UNCHANGED vars
  BY <1>7 DEF vars, timers, bus, slot, history, Service!vars, Running, Rst
<1> QED
  BY <1>1, <1>2, <1>3, <1>4, <1>5, <1>6, <1>7 DEF Next, CPU

LEMMA LinkInitMap == Init => Service!Init
<1> SUFFICES ASSUME Init PROVE Service!Init
  OBVIOUS
<1>1. pc = "idle" /\ fsmc = FALSE /\ steady = TRUE
      /\ cart \in [bits : Answers, lag : Lags] \cup {NoCart}
  BY DEF Init
<1> QED
  BY <1>1 DEF Service!Init, Running

\* cart_handshake in all its steps does what its one request is taken for, and
\* nothing else takes the bus down or stops the cartridge (the handshake's end
\* under fairness is model-checked).
THEOREM LinkRefines == Spec => LinkSteps
<1>1. LinkInv /\ [Next]_vars /\ LinkInv' => [Service!Next]_(Service!vars)
  BY LinkStep
<1> QED
  BY <1>1, LinkInitMap, LinkInvariant, PTL DEF Spec, LinkSteps

==============================================================================
