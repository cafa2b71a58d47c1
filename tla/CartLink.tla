------------------------------ MODULE CartLink ------------------------------
(***************************************************************************)
(* cart_handshake: how the dumper unlocks a cartridge (cartridge.c, with   *)
(* the timers of timer.c).  The steps of the CPU interleave with the       *)
(* cartridge clock, which drives TIM3, its DMA channel and the cartridge,  *)
(* and with the user's hand on the slot.  Tap takes the whole of it as the *)
(* one step Handshake.                                                     *)
(*                                                                         *)
(* TIM2 makes the clock and TIM3 counts its periods.  The /RST line is the *)
(* output of TIM3's channel 2, which goes active when the counter matches  *)
(* and is low while the output is disabled.  The SO line, PB4, carries the *)
(* secret, and tells by its level whether there is a cartridge at all.     *)
(***************************************************************************)
EXTENDS Naturals, Sequences

CONSTANTS
  XFER_WIDTH,    \* samples taken (24)
  SECRET_WIDTH,  \* bits of the secret (18)
  SECRET,        \* HANDSHAKE_SECRET, lowest bit first
  DELAY,         \* cycles the first pattern is held (4)
  PERIOD,        \* values of TIM3's counter (65536)
  Answers,       \* what cartridges send, lowest bit first
  Lags           \* cycles they take to begin

Bits == {0, 1}

ASSUME LinkAssumption ==
  /\ SECRET_WIDTH \in Nat \ {0} /\ XFER_WIDTH \in Nat /\ SECRET_WIDTH <= XFER_WIDTH
  /\ SECRET \in [1..SECRET_WIDTH -> Bits] /\ SECRET[1] = 0
  /\ DELAY \in Nat \ {0} /\ PERIOD \in Nat /\ DELAY < PERIOD /\ 1 < PERIOD
  /\ Answers \subseteq [1..SECRET_WIDTH -> Bits]
  /\ Lags \subseteq 0..XFER_WIDTH - SECRET_WIDTH

\* A byte of __ibuf: never sampled, or a port with SO low or high.  A sampled
\* byte is not 0, for the clock pin beside SO is high when DMA reads the port.
Unread == 0
Low    == 1
High   == 2

NoCart == [bits |-> <<>>, lag |-> 0]

VARIABLES
  pc,        \* where cart_handshake is
  clk,       \* TIM2 counts and drives the cartridge clock
  oe, ref,   \* TIM3 channel 2: output enabled, output reference
  run,       \* TIM3 counts
  cnt,       \* its counter
  cc2if,     \* its capture/compare flag
  dma,       \* DMA channel: "off", "ready", "on", "done"
  ibuf,      \* __ibuf
  left,      \* samples still to take
  pins,      \* who drives the bus pins: "float", "gpio" or "fsmc"
  pattern,   \* what the GPIO latches hold on the address lines
  fsmc,      \* the FSMC is set up
  cart,      \* what is in the slot, NoCart when it is empty
  seen,      \* cycles, up to DELAY, that it was shown pattern "5A"
  heard,     \* cycles that it was shown pattern "A5" after that
  result,    \* of the last handshake
  steady,    \* history: the slot is as it was when the handshake began
  phase      \* history: heard when the transfer began

timers == <<clk, oe, ref, run, cnt, cc2if>>
xfer == <<dma, ibuf, left>>
bus == <<pins, pattern, fsmc>>
slot == <<cart, seen, heard>>
history == <<steady, phase>>
vars == <<pc, timers, xfer, bus, slot, result, history>>

Empty == [i \in 1..XFER_WIDTH |-> Unread]

\* The level of /RST.
Rst == oe /\ ref

\* The level of SO: pulled down without a cartridge, which holds it high but
\* while it sends.
SO ==
  IF cart = NoCart THEN 0
  ELSE IF heard > cart.lag /\ heard - cart.lag <= SECRET_WIDTH
       THEN cart.bits[heard - cart.lag] ELSE 1

\* After tim2_3_setup and before the first handshake.
Init ==
  /\ pc = "idle"
  /\ clk = FALSE /\ oe = TRUE /\ ref = FALSE /\ run = FALSE /\ cnt = 0 /\ cc2if = FALSE
  /\ dma = "off" /\ ibuf = Empty /\ left = 0
  /\ pins = "float" /\ pattern = "none" /\ fsmc = FALSE
  /\ cart \in {NoCart} \cup [bits : Answers, lag : Lags] /\ seen = 0 /\ heard = 0
  /\ result = "none"
  /\ steady = TRUE /\ phase = 0

Goto(from, to) == pc = from /\ pc' = to

----------------------------------------------------------------------------
(* The CPU.                                                                *)

\* tim2_3_setup: a new configuration resets both timers.
TimSetup ==
  /\ pc = "idle"
  /\ clk' = FALSE /\ oe' = TRUE /\ ref' = FALSE /\ run' = FALSE /\ cnt' = 0 /\ cc2if' = FALSE
  /\ seen' = 0 /\ heard' = 0
  /\ UNCHANGED <<pc, xfer, bus, cart, result, history>>

\* Bug: fsmc_reset is left out.
Bug_FsmcKept ==
  /\ Goto("idle", "settle")
  /\ oe' = FALSE /\ run' = FALSE /\ clk' = FALSE
  /\ pins' = "gpio"
  /\ seen' = 0 /\ heard' = 0
  /\ steady' = TRUE /\ phase' = 0
  /\ UNCHANGED <<ref, cnt, cc2if, xfer, pattern, fsmc, cart, result>>

\* cart_clock_stop, fsmc_reset and __gpio_setup; the latches keep their levels.
\* The cartridge is in reset from here on.
Begin ==
  /\ Goto("idle", "settle")
  /\ oe' = FALSE /\ run' = FALSE /\ clk' = FALSE
  /\ fsmc' = FALSE /\ pins' = "gpio"
  /\ seen' = 0 /\ heard' = 0
  /\ steady' = TRUE /\ phase' = 0
  /\ UNCHANGED <<ref, cnt, cc2if, xfer, pattern, cart, result>>

\* msleep(3), and the look at SO for a cartridge.
NoneInserted ==
  /\ Goto("settle", "idle")
  /\ SO = 0
  /\ result' = "failure"
  /\ UNCHANGED <<timers, xfer, bus, slot, history>>

\* Bug: the cycle of setup is counted among the samples.
Bug_SetupSampled ==
  /\ Goto("settle", "clk")
  /\ SO = 1
  /\ dma' = "ready" /\ left' = XFER_WIDTH + 1
  /\ pattern' = "5A"
  /\ UNCHANGED <<timers, ibuf, pins, fsmc, slot, result, history>>

\* __dma_setup, and the levels of the bus lines.
Present ==
  /\ Goto("settle", "clk")
  /\ SO = 1
  /\ dma' = "ready" /\ left' = XFER_WIDTH
  /\ pattern' = "5A"
  /\ UNCHANGED <<timers, ibuf, pins, fsmc, slot, result, history>>

\* cart_clock_start, one step for each register that the clock races with.
StartClock ==
  /\ Goto("clk", "oe")
  /\ clk' = TRUE
  /\ UNCHANGED <<oe, ref, run, cnt, cc2if, xfer, bus, slot, result, history>>

EnableRst ==
  /\ Goto("oe", "cen")
  /\ oe' = TRUE
  /\ UNCHANGED <<clk, ref, run, cnt, cc2if, xfer, bus, slot, result, history>>

\* Bug: the counter is left stopped.
Bug_NotCounting ==
  /\ Goto("cen", "zero")
  /\ UNCHANGED <<timers, xfer, bus, slot, result, history>>

EnableCounter ==
  /\ Goto("cen", "zero")
  /\ run' = TRUE
  /\ UNCHANGED <<clk, oe, ref, cnt, cc2if, xfer, bus, slot, result, history>>

ZeroCounter ==
  /\ Goto("zero", "clear")
  /\ cnt' = 0
  /\ UNCHANGED <<clk, oe, ref, run, cc2if, xfer, bus, slot, result, history>>

ClearFlag ==
  /\ Goto("clear", "wait")
  /\ cc2if' = FALSE
  /\ UNCHANGED <<clk, oe, ref, run, cnt, xfer, bus, slot, result, history>>

RstSeen ==
  /\ Goto("wait", "delay")
  /\ cc2if
  /\ UNCHANGED <<timers, xfer, bus, slot, result, history>>

\* Bug: the delay goes on from the count of the wait for /RST.
Bug_DelayFromRst ==
  /\ Goto("delay", "hold")
  /\ UNCHANGED <<timers, xfer, bus, slot, result, history>>

\* cart_delay(4) on the counter
StartDelay ==
  /\ Goto("delay", "hold")
  /\ cnt' = 0
  /\ UNCHANGED <<clk, oe, ref, run, cc2if, xfer, bus, slot, result, history>>

Delayed ==
  /\ Goto("hold", "flip")
  /\ cnt >= DELAY
  /\ UNCHANGED <<timers, xfer, bus, slot, result, history>>

FlipPattern ==
  /\ Goto("flip", "xfer")
  /\ pattern' = "A5"
  /\ UNCHANGED <<timers, xfer, pins, fsmc, slot, result, history>>

\* __dma_xfer_begin
BeginXfer ==
  /\ Goto("xfer", "sample")
  /\ dma' = "on"
  /\ phase' = heard
  /\ UNCHANGED <<timers, ibuf, left, bus, slot, result, steady>>

\* Bug: the transfer is ended without waiting for it.
Bug_EndEarly ==
  /\ Goto("sample", "decode")
  /\ dma' = "off"
  /\ UNCHANGED <<timers, ibuf, left, bus, slot, result, history>>

\* The transfer is complete: __dma_xfer_end and __dma_reset.
EndXfer ==
  /\ Goto("sample", "decode")
  /\ dma = "done"
  /\ dma' = "off"
  /\ UNCHANGED <<timers, ibuf, left, bus, slot, result, history>>

----------------------------------------------------------------------------
(* __cart_get_secret: where the secret begins in the samples, the secret,  *)
(* and the buffer it leaves for the next time.                             *)

\* The loop for the first falling edge: the index of the first byte that is
\* neither unread nor high, or one past the end.
Edge(buf) ==
  LET lows == {i \in 1..XFER_WIDTH : buf[i] = Low}
  IN  IF lows = {} THEN XFER_WIDTH + 1 ELSE CHOOSE i \in lows : \A k \in lows : i <= k

\* The bits from there, and zeros for those past the end of the buffer.
Secret(buf) ==
  [j \in 1..SECRET_WIDTH |->
     LET i == Edge(buf) + j - 1
     IN  IF i <= XFER_WIDTH /\ buf[i] = High THEN 1 ELSE 0]

\* High bytes before the edge are cleared, and all from it on.
Cleared(buf) ==
  [i \in 1..XFER_WIDTH |-> IF buf[i] = High \/ i >= Edge(buf) THEN Unread ELSE buf[i]]

Mismatch ==
  /\ Goto("decode", "idle")
  /\ Secret(ibuf) # SECRET
  /\ ibuf' = Cleared(ibuf)
  /\ pins' = "float"
  /\ result' = "failure"
  /\ UNCHANGED <<timers, dma, left, pattern, fsmc, slot, history>>

\* Bug: the clock is stopped once the secret is in.
Bug_ClockStopped ==
  /\ Goto("decode", "idle")
  /\ Secret(ibuf) = SECRET
  /\ ibuf' = Cleared(ibuf)
  /\ fsmc' = TRUE /\ pins' = "fsmc" /\ oe' = FALSE /\ run' = FALSE /\ clk' = FALSE
  /\ result' = "success"
  /\ UNCHANGED <<ref, cnt, cc2if, dma, left, pattern, slot, history>>

\* fsmc_setup
Unlock ==
  /\ Goto("decode", "idle")
  /\ Secret(ibuf) = SECRET
  /\ ibuf' = Cleared(ibuf)
  /\ fsmc' = TRUE /\ pins' = "fsmc"
  /\ result' = "success"
  /\ UNCHANGED <<timers, dma, left, pattern, slot, history>>

CPU ==
  \/ NoneInserted \/ Present
  \/ StartClock \/ EnableRst \/ EnableCounter \/ ZeroCounter \/ ClearFlag \/ RstSeen
  \/ StartDelay \/ Delayed \/ FlipPattern
  \/ BeginXfer \/ EndXfer \/ Mismatch \/ Unlock

----------------------------------------------------------------------------
(* The clock and the slot.                                                 *)

\* The cartridge is out of reset and its bus shows pattern p.
Shown(p) == Rst /\ pins = "gpio" /\ pattern = p /\ cart # NoCart

\* One period of TIM2: DMA samples the port, TIM3 counts, and the cartridge,
\* when out of reset, looks at the pattern.
Tick ==
  /\ clk
  /\ IF run
     THEN /\ cnt' = (cnt + 1) % PERIOD
          /\ ref' = (ref \/ cnt' = 1)
          /\ cc2if' = (cc2if \/ cnt' = 1)
     ELSE UNCHANGED <<cnt, ref, cc2if>>
  /\ IF dma = "on"
     THEN /\ ibuf' = [ibuf EXCEPT ![XFER_WIDTH - left + 1] = IF SO = 1 THEN High ELSE Low]
          /\ left' = left - 1
          /\ dma' = IF left = 1 THEN "done" ELSE "on"
     ELSE UNCHANGED xfer
  /\ seen' = IF Shown("5A") /\ seen < DELAY THEN seen + 1 ELSE seen
  /\ heard' = IF Shown("A5") /\ seen = DELAY /\ heard <= XFER_WIDTH THEN heard + 1 ELSE heard
  /\ UNCHANGED <<pc, clk, oe, run, bus, cart, result, history>>

\* The user pulls the cartridge or pushes one in.
ChangeCart ==
  /\ cart' \in {NoCart} \cup [bits : Answers, lag : Lags]
  /\ (cart = NoCart) # (cart' = NoCart)
  /\ seen' = 0 /\ heard' = 0
  /\ steady' = FALSE
  /\ UNCHANGED <<pc, timers, xfer, bus, result, phase>>

Next == Begin \/ TimSetup \/ CPU \/ Tick \/ ChangeCart

\* The CPU runs on, and so does the clock.  TIM3's counter passes DELAY again
\* and again; the CPU polls it many times a period, so it does see that.
Spec == Init /\ [][Next]_vars /\ WF_vars(CPU) /\ SF_vars(Delayed) /\ WF_vars(Tick)

----------------------------------------------------------------------------
(* Properties.                                                             *)

TypeOK ==
  /\ pc \in {"idle", "settle", "clk", "oe", "cen", "zero", "clear", "wait", "delay",
             "hold", "flip", "xfer", "sample", "decode"}
  /\ clk \in BOOLEAN /\ oe \in BOOLEAN /\ ref \in BOOLEAN /\ run \in BOOLEAN
  /\ cnt \in 0..PERIOD - 1 /\ cc2if \in BOOLEAN
  /\ dma \in {"off", "ready", "on", "done"}
  /\ ibuf \in [1..XFER_WIDTH -> {Unread, Low, High}] /\ left \in 0..XFER_WIDTH
  /\ pins \in {"float", "gpio", "fsmc"} /\ pattern \in {"none", "5A", "A5"}
  /\ fsmc \in BOOLEAN
  /\ cart \in {NoCart} \cup [bits : Answers, lag : Lags]
  /\ seen \in 0..DELAY /\ heard \in 0..XFER_WIDTH + 1
  /\ result \in {"none", "success", "failure"}
  /\ steady \in BOOLEAN /\ phase \in 0..XFER_WIDTH + 1

\* The secret is decoded from samples of this handshake alone, all of them
\* taken, and the buffer is left as a first handshake finds it
\* (__cart_get_secret skips the bytes that are 0).
FreshSamples ==
  /\ pc = "decode" => left = 0 /\ \A i \in 1..XFER_WIDTH : ibuf[i] # Unread
  /\ pc = "idle" => ibuf = Empty

\* The address lines have one driver: the FSMC drives them when it is set up,
\* and never while the patterns are put on them; and the port is only sampled
\* while the second pattern is on the lines and the cartridge is out of reset.
OneDriver ==
  /\ fsmc <=> pins = "fsmc"
  /\ dma \in {"on", "done"} => pins = "gpio" /\ pattern = "A5" /\ Rst /\ run

\* All of the answer lies within the samples.
InWindow == phase <= cart.lag + 1 /\ cart.lag + SECRET_WIDTH < phase + XFER_WIDTH

\* With a cartridge that stays in the slot and whose answer begins with a
\* falling edge and lies within the samples, cart_handshake succeeds when the
\* answer is the secret and fails when it is not, however the clock and the CPU
\* interleave.
Verdict ==
  [][pc = "decode" /\ pc' = "idle" /\ steady /\ cart # NoCart /\ cart.bits[1] = 0 /\ InWindow
       => (result' = "success" <=> cart.bits = SECRET)]_vars

\* The cartridge of the last handshake is clocked, out of reset and on a bus
\* that is set up.
Running == fsmc /\ steady /\ cart # NoCart /\ clk /\ run /\ Rst

Service == INSTANCE LinkService WITH
  Cartridges <- [bits : Answers, lag : Lags],
  busy <- pc # "idle", bus <- fsmc, running <- Running, same <- steady

\* cart_handshake in all its steps is the one request that Tap takes it for,
\* and after SET_CONFIGURATION the bus is still set up while the cartridge is
\* in reset without a clock.
LinkServed == Service!Spec

\* The cycles until the loop that the CPU is in may end: cart_clock_start waits
\* for the match of /RST, cart_delay for the count, and cart_handshake for DMA.
Awaited ==
  IF pc = "wait" THEN IF cc2if THEN 0 ELSE IF cnt = 0 THEN 1 ELSE PERIOD + 1 - cnt
  ELSE IF pc = "hold" THEN IF cnt < DELAY THEN DELAY - cnt ELSE 0
  ELSE left

\* None of the three loops has a timeout, and none needs one: while the CPU is
\* in it the clock and the counter run, every count brings the end one cycle
\* nearer, and nothing puts it off, whatever is in the slot or is pulled from it.
NothingDelays ==
  [][pc' = pc /\ pc \in {"wait", "hold", "sample"} =>
       /\ clk /\ run
       /\ Awaited = 0 \/ Awaited' = IF cnt' = cnt THEN Awaited ELSE Awaited - 1]_vars

\* Every handshake returns: both loops on TIM3 and the loop on DMA end.
Terminates == pc # "idle" ~> pc = "idle"

\* timer.c says of TIM3 "/RST - deassert after 1 cycles", and cart_clock_start
\* waits for it: the line rises as the counter reaches 1.
RstAfterOneCycle == [][~Rst /\ Rst' => cnt' = 1]_vars
=============================================================================
