# A TLA+ model of the WonderSwan cartridge tap

The firmware under `Firmware/` turns an STM32F103 board into a USB device that
unlocks a WonderSwan cartridge, reads and writes its bus, and dumps its ROM and
save RAM at the request of a host. This directory holds TLA+ modules of it, TLC
configurations that check them on small instances, and proofs, checked by TLAPS,
of all that is checked but liveness, for every value of the constants.

    tlc -config MCTap_dumps.cfg MCTap        # likewise for the other runs below
    tlapm TapProofs.tla                      # likewise the other proof modules

Paths in this file are relative to `Firmware/`.

## 1. The system

| part | state | operations | talks to | modelled by |
|---|---|---|---|---|
| tap protocol, `src/tap.c` | `__ctx`: state, error, the cached header | the vendor requests, SET_CONFIGURATION | called by `usbd_poll`; calls cartridge, FSMC, timers | `Tap`; abstractly `DumpService` |
| FSMC bus, `src/fsmc.c` | clock, bus width, mode of PD10 | set-up, reset, width toggle | registers of the STM32 | `CartBus` |
| cartridge access, `src/cartridge.c` 41-205 | (the cartridge's bank registers) | peeks and pokes, each with a return code nobody reads | FSMC | `CartBus`, `Tap` |
| handshake, `src/cartridge.c` 235-482, `src/timer.c` | TIM2, TIM3, DMA, `__ibuf`, pins | `cart_handshake`, `tim2_3_setup` | timers count while the CPU sets them up; the cartridge answers on SO | `CartLink`; abstractly `LinkService` |
| cartridge detection, `src/cartridge.c` 484-524, `src/led.c` | EXTI4 mask and pending bit, the pull-down of SO, LED | enable, disable, `exti4_isr` | the slot, by interrupt; shares SO with the handshake | `Power` |
| suspend and resume, `src/usb.c` 246-278, 340-345, `src/platform.c` 146-162 | FSUSP, LP_MODE, SUSP, SLEEPDEEP, clock | `__usb_suspend`, `__usb_resume`, `usb_wakeup_isr` | thread, two handlers, the bus | `Power` |
| `msleep`, `src/platform.c` 44-97 | SysTick, `sys_millis` | sleep | handshake, re-enumeration; its handler and the others | `Msleep` |
| USB functions: registration in `src/usb.c` 280-324, control callbacks of `src/tap.c`, `src/winusb.c`, `src/cdcacm.c` | libopencm3's table of callbacks | set-up, SET_CONFIGURATION, dispatch | libopencm3, the host | `UsbDevice` |
| descriptors, UART set-up, `main` | constants | set-up | libopencm3 | no |

There is one thread. It polls USB for ever, and everything a host asks for is
done inside `usbd_poll`. The two handlers touch the LED, EXTI4, the power state
and the USB control register, and nothing of the tap. So the tap is a sequential
machine whose difficulty is the *order* of requests and the user's hand on the
slot; the handshake is a race of the CPU against a 384 kHz clock it has started
itself; and suspend is a race between thread, handlers and bus.

What makes each part correct:

* **Tap.** A dump whose chunks are asked for in order yields the medium, each
  chunk that of its index, and ends where the medium ends, whatever other
  requests, errors and refusals come in between. A pending error stops everything
  and can be seen. The header of a word-wide cartridge is read as it is. Once a
  handshake has succeeded, and until the cartridge is lost, no request faults the
  core; before that nothing in the code keeps one from it, and the model does reach
  `halted`. The bank registers are moved by whom they belong to.
* **Bus.** Width, pins and clock agree, and a word-wide cartridge always finds
  16 bits.
* **Handshake.** It ends; it succeeds exactly with the right answer; two drivers
  never meet on the address lines.
* **Power.** The device that sleeps can be woken; the device that is awake runs on
  the right clock; the LED tells the truth, and is dark in suspend.
* **Sleep.** It ends, by its own tick and by no other interrupt, and not too soon.
* **USB functions.** Every request reaches the one function it is for, in every
  state of the device.

The list of what is hard to test, each at its line, is `hazards` in
`PROJECT.json`.

## 2. The modules

### CartBus

Operators over one record, `[clk, width, d10]`, the part of the FSMC the firmware
depends on. Setup, reset and the toggle give the next record; `MbcRc`, `SramRc`
and `NorRc` are the return codes of the access routines in the order of the
code's checks (their `BADPTR` is left out: every caller passes a buffer). With
the clock off a register reads 0 and a write is lost, so `ToggleWidth` moves only
the pin. `Narrow` and `Widen` are the `#ifdef STRICT` brackets of `tap.c`.

### Tap

One action per request, one more for SET_CONFIGURATION, a change of the
cartridge and a power cycle. A request runs to its end within one step, since no
handler shares its state.

* `st8`, `err`, `hdr` are `__ctx`. Of the header only the bytes are kept that the
  code looks at (`HdrBytes`), but each with the parity of its offset, because the
  byte pass treats the two parities differently.
* `bus` is a record of `CartBus`. `halted`: an access without clock ends in the
  fault handler, which never returns. That is how a request before the first
  handshake, or after a failed one, ends: `OpenBusClocked` excludes it for a
  cartridge that answers, and for no other.
* `cart`, `open`, `regs` are the slot: a cartridge, whether it has been unlocked,
  the registers of its mapper. They are modelled from what the code expects of
  them: medium and registers are mirrored as `BANK * 64 KiB + offset` modulo the
  size.
* `reply` is the answer of the last request. Data is replaced by its *origin*,
  the address or the chunk index it was read from, or `Stale`, `Blank`,
  `Floating`. What is checked holds for every content.
* `walk` is a history variable: for each medium how many chunks of it have been
  delivered in order. A dump starts a walk at index 0; the next index, or the same
  again, continues it; any other index ends it. A poke of a medium's bank
  register ends its walk, because the host has moved the bank. **The end of one
  medium's dump ends both walks**: the code zeroes the header that both share
  (`tap.c` 150, 199), so a host must not alternate dumps past the end of one. That
  is a limit of the code the model states rather than hides.

Dumps are counted in chunks of `USB_CONTROL_BUF_SIZE`. A length other than that
is refused before anything happens, so it is one of two values, and so is the length
of a status request: none or some. A code from `TAP_HANDSHK` up that no case serves is
still subject to the error gate: it stalls without an error and gets an empty answer
with one. `"other"`, codes below it and requests of another type, always stalls. `PastTable` is
what a look-up past the end of a size table gives: any member, nondeterministically.

### DumpService and TapService

`DumpService` is the promise without the machinery: a cartridge is the sizes of its
media, and there is no bus, no bank register and no header. A dump in order
delivers its next chunk or ends where the medium does; a request that continues
nothing may be answered with anything but never lets a dump go on wrongly; while
an error stands every request is answered with nothing. `TapService` gives the
refinement mapping: `walk` is the position, `err` the failure, the reply of a dump
the answer, and the size of a medium the firmware cannot dump is `Unknown` (a blank
header, a size code outside the table, the ROM of a cartridge with `flags.bwidth`).
`DumpsServed` says that `Tap` without STRICT implements it. It has no liveness: the
tap only answers.

### CartLink

`cart_handshake`, a step for every register write that the clock races with, and
`Tick`, one period of TIM2: DMA takes a sample, TIM3 counts, and the cartridge,
if out of reset, looks at the pattern on its address lines. The order of the
writes is that of the code; in particular `ZeroCounter` comes before `ClearFlag`,
and a tick between the two makes the wait last a whole wrap of the counter.
`ref`, the output reference of TIM3's channel 2, goes high on the first match and
only a new configuration lowers it.

A cartridge is a string of bits and a lag. It answers after it has been shown the
first pattern for `DELAY` cycles and the second for `lag` cycles; that is how the
code uses it, and the model's assumption about it. A sampled byte is not 0, as
pins PB3 (the clock) and PB5 (/RST) beside SO are high when DMA reads the port.

`steady` and `phase` are history: whether the slot stayed as it was since the
handshake began, and how far the answer had come when the samples started.

`Tap` takes all of this as the one step `Handshake(secret)`. `LinkService` is what
justifies that, and what ties the pieces of the state together: a handshake is
under way or not, the bus is up or not, and the cartridge of the last handshake
is *running* (on a bus that is set up, clocked, out of reset) or not. The mapping
reads `running` off `fsmc`, `steady`, the slot, TIM2, TIM3 and /RST. `Reconfigure`,
the image of SET_CONFIGURATION between handshakes, shows what the code does there:
the cartridge stops running while the bus stays up, so reads go on succeeding.
`LinkServed` includes the fairness of `LinkService`: a handshake begun is finished.

### Power

Two contexts, the thread and whatever handler runs, each with a program counter.
No interrupt has a priority set, so a handler runs to its end, the thread steps
only when no handler is active or pending, and **a core that sleeps in a handler
is not woken by another interrupt** (a WFI wakes for an exception that would
preempt the current one). `__usb_suspend` is one procedure with the context as
parameter: it is called in the thread from `usbd_poll` and, after noise, in
`usb_wakeup_isr` through `__usb_resume`. `exti4_isr` is three steps: read, show,
clear. The bus is active, idle, or noisy; a suspended transceiver in low power
signals any move.

The line SO serves two masters, and `Power` joins them: detection reads its level
through EXTI4, and `cart_handshake` (`Shake`, `NobodyThere`, `Listens`, `Verdict`)
receives the secret on it, with every bit an edge and an interrupt. A handshake
that fails at the secret leaves PB4 floating, without its pull-down, and an empty
slot then floats with it (`Wiggle`) until the next handshake or resume. The model
has no constants: what TLC checks is the whole of it.

Five history variables mark what the code does not survive, so that the other
properties can be stated for all the rest: `early`, the host resumed before the
core had reached WFI; `stale`, SUSP was set again between its clearing by
libopencm3 and FSUSP (the comment at `usb.c` 252 knows); `noisy`; `missed`, SO
moved inside `exti4_isr`; and `relit`, `exti4_isr` ran between `led_off` and the
mask of `cart_detect_disable`.

### Msleep

`msleep` of the default build (SLEEP_MODE), a step for each register it writes,
against SysTick (`Count`), its handler and one other interrupt. The thread runs
when no interrupt is to be taken, except under `CM_ATOMIC_BLOCK`. Two facts of the
code make it subtle. `sys_millis` is zeroed *after* the counter has been started
and tested *before* WFI, so a tick may be lost, and the thread waits for the next.
And nothing clears the counter: a sleep of n ms begins with what the counter held
when the one before was stopped, so after a shorter sleep it is shorter than asked
(`held`, `waited` are the history that says how long). In the firmware a handshake
sleeps 3 ms, re-enumeration 1 ms, and so does `cart_nor_peek` on an 8-bit bus, once or
twice for each byte it reads (`cartridge.c` 130, 136), to let the address line PD10
settle. So sleeps of 1 and of 3 ms come in any order, as `Asks` lets them, and the
one after a shorter may be too short: the first handshake's, and the next one's
after a byte-wide header has been read. `Late` bounds `waited` alone, above the longest sleep. That the counter keeps its value when
it is enabled again is the ARM manual's; its state at power-up is not specified,
and `Init` lets it be 0 or what any sleep may leave at most.

### UsbDevice

Which function answers a control request. `slots` is libopencm3's table of control
callbacks (`MAX_CALLBACKS`, 4), emptied and filled again at each SET_CONFIGURATION,
by `tap_set_config`, `cdcacm_set_config` and `winusb_set_config` in this order, and
kept over a bus reset; libopencm3 itself is an empty submodule here, and modelled
from how the firmware uses it. A request is the fields that anyone looks at.
`Matches` is the type and mask of each registration, `TapAnswer`, `CdcacmAnswer`,
`MsftAnswer` and `WinusbAnswer` the conditions of the callbacks in their order.
`failed` is the tap's error state, `timers` that `tim2_3_setup` has run. What the tap
does with the requests it takes is `Tap`'s matter.

### Mutants

Definitions named `Bug_...` are slips, each of the definition below it. No
behaviour uses them. Put in its place, each makes the property that
`PROJECT.json` names fail, which shows that the property depends on the code.

## 3. What the runs show

| run | instance | states | result |
|---|---|---|---|
| dumps | 5 cartridges, 4 banks of 2 chunks, chunks 0..8, no STRICT | 20 028 | types; error state; bus; the header is exact; dumps are exact and complete; `Tap` implements `DumpService` |
| raw | 2 cartridges, regions of 4 bytes, ports and addresses at both ends, lengths 0..5 | 3 896 | raw requests stay in their region and give what was asked, up to its top when trimmed |
| strict | one 8-bit and one 16-bit cartridge, STRICT | 25 198 | pins and width agree, the bus is 16 bits wide after every request, raw requests and the header are exact |
| unlock | secret of 4 bits in 6 samples, 3 answers, lags 0..2, counter modulo 4 | 207 209 | the verdict is right; nothing puts off the end of a wait, and every handshake ends; `CartLink` implements `LinkService` |
| sleep | the whole of `Power` | 28 218 | the sleeping device can be woken, runs on the PLL; its LED is right, and dark in suspend |
| msleep | 3 counts to the millisecond, sleeps of 1 and 3 | 14 938 | the tick is on its way to a core that sleeps; every sleep ends, and lasts as long as the counter had left |
| dispatch | all types, recipients, 7 codes, 5 indices, PLATFORMIO | 1 807 | one taker per request; descriptors always served; the tap ready and reached |
| strict_dump, byte_rom, lookup, second_reset, noise | as above | | a counterexample each, see section 5 |

**Bounds and why they suffice.** In `dumps` the cartridges are: a ROM smaller than
all banks with a save RAM smaller than a bank; a ROM of all banks with a save RAM
of two; one whose header asks for an 8-bit bus; one with a save code outside the
table; and one that is blank. Indices go to the end of the largest medium and past
it, so every bank boundary and the end of every medium are reached. What the
bounds leave open (other tables, more banks, longer regions) is what the proofs
are for. In `raw`, a region of 4 bytes has each of its ends within the reach of
one length. In `unlock`, a counter modulo 4 wraps within a handshake, as one
modulo 65536 does when a match is lost; the lags take the answer from the first
sample to past the last one; two wrong answers, one that begins with a falling edge
and one that does not, are the cases the decoder can tell apart. `Power` has no
bound: all its variables are finite. In `msleep` a sleep after a longer one, an equal
one and a shorter one all occur, and three counts leave a tick room before, between
and after any two steps. In `dispatch` the codes and indices are the members of
each range the callbacks compare with, one outside of all, and the edge of the
error gate; the proofs are for every code and index.

`OpenBus` and `PastTable` are sampled with two values each.

**Deadlock** is checked in all runs. The slot can always change.

**Fairness.** `Tap` has none: it only answers. In `CartLink` the CPU and the clock
are weakly fair, as both run on. `Delayed` is strongly fair: TIM3's counter passes
`DELAY` again and again, and the CPU polls it about 190 times per period at
72 MHz. There is no fairness on the slot. In `Power` handlers and the transceiver
are weakly fair; the thread is strongly fair, since interrupts from the slot
interrupt it but do not come so fast as to stop it. The host and the slot are not
fair: nothing obliges a host to resume. In `Msleep` the counter and both handlers are
weakly fair and the thread strongly, for the same reason, and `Unhindered` says that
time and again no interrupt is pending: handlers are a few instructions long, a
millisecond some 72 000 cycles, but three counts of the model leave no such room by
themselves. `UsbDevice` has none.

The liveness properties: `Terminates`, both busy waits on TIM3 and the one on DMA,
none of which has a timeout, end; the fairness in `LinkServed`; `Suspends`; `Resumes`;
`Wakes`. Two of them have a safety half that needs no fairness and is proved: a rank
that every count lowers, and nothing raises before it is 0. `NothingDelays` has one for `Terminates`,
`Awaited`, the cycles until the loop the CPU is in may end; `TickComes` has one for
`Wakes`, `Ahead`, the counts until the tick. What fairness adds is that the clock and
the counter go on, and that the CPU looks while TIM3's counter is past `DELAY`.

## 4. What is proved

For every value of the constants, under the assumptions below:

| theorem | property |
|---|---|
| `TapTypes!TypeCorrect` | `TypeOK` of `Tap` |
| `TapBusProofs!BusCorrect` | `PinsMatchWidth`, `OpenBusClocked`, `WordBus`, `StrictRestores` |
| `TapBusProofs!HeaderExactCorrect` | `HeaderExact`, with and without STRICT |
| `TapBusProofs!BanksCorrect` | `OwnBankOnly` |
| `TapProofs!Quiescence`, `Coherence` | `ErrorQuiesces`, `ErrorCoherent` |
| `TapProofs!BankExact` | the `uint8_t` arithmetic of the bank number selects the right chunk |
| `TapProofs!DumpsCorrect` | `WalkBacked`, `DumpExact`, `DumpComplete`, when not STRICT |
| `ServiceProofs!ServiceCorrect` | `DumpsServed`, when not STRICT: the refinement of `DumpService` |
| `TapBusProofs!RawExactCorrect`, `RawContainedCorrect` | `RawExact`, `RawContained`, with and without STRICT |
| `LinkProofs!LinkTypeCorrect`, `FreshSamplesCorrect`, `OneDriverCorrect`, `VerdictCorrect` | `TypeOK` of `CartLink`, `FreshSamples`, `OneDriver`, `Verdict` |
| `LinkProofs!NothingDelaysCorrect` | `NothingDelays` |
| `LinkProofs!LinkRefines` | every step of `CartLink` is one of `LinkService`, or a stutter |
| `UsbProofs!UsbTypeCorrect`, `RoomCorrect`, `OneTakerCorrect`, `OsDescriptorsCorrect`, `TapReadyCorrect` | `TypeOK` of `UsbDevice`, `RoomForAll`, `OneTaker`, `OsDescriptorsServed`, `TapReady` |
| `MsleepProofs!SleepTypeCorrect`, `SleepsItOutCorrect`, `TickComesCorrect` | `TypeOK` of `Msleep`, `SleepsItOut`, `TickComes` |
| `PowerProofs!PowerTypeCorrect`, `WakeableCorrect`, `ClockRestoredCorrect`, `LedTrueCorrect`, `DarkAsleepCorrect` | `TypeOK` of `Power`, `Wakeable`, `ClockRestored`, `LedTrue`, `DarkAsleep` |

and, of each disagreement of section 5, how far it goes:

| theorem | of the run | what it says |
|---|---|---|
| `TapProofs!StrictDumpsBlind`, when STRICT | strict_dump | no dump moves a bank register, and a dump of a save RAM delivers no byte of it |
| `TapProofs!WidthPreparedElsewhere` | strict_dump | every other request prepares the width |
| `TapProofs!ByteRomEmpty` | byte_rom | chunk 0 of the ROM of any cartridge with `flags.bwidth` comes back empty, in every build |
| `TapProofs!LookupsInsideWhen`, under `CodesInside` | lookup | headers with both codes in the tables lead to no look-up outside of them |
| `LinkProofs!RstEarlyOnlyAgain` | second_reset | /RST rises before the count only when a handshake before, since the last configuration, has matched |
| `PowerProofs!NoiseStrands` | noise | a device that noise has woken is never up again |

Assumptions, named in the modules that declare the constants: `BusAssumption` and
`TapAssumption` say that the constants are numbers and tables of the right shape
(the first entry of each table is 0, as in `cartridge.h`); `HonestCarts`, that a
readable header with a code inside the table tells the true size; `BanksFit`, that
a ROM fills a number of banks that divides 256, and so does a save RAM that is no
smaller than a bank; `ServiceAssumption`, that `Unknown` is no size. TLC evaluates all
of them on every run of `MCTap`. `LinkAssumption`: the secret fits the samples and
begins with the falling edge that the decoder looks for, `DELAY` is a value of the
counter, and answers with their lags fit the samples. `SleepAssumption`:
a millisecond is more than one count, and sleeps are not of 0 ms. `UsbAssumption`: the
table has room for four, as libopencm3's has. Four theorems have a hypothesis of their
own: a build with STRICT or without, and `CodesInside` (whatever the firmware may take
for a header, of a cartridge or of an open bus, has both size codes in the tables),
which is what the code's check of the size code is there to make unnecessary.

**The argument for dumps.** Exactness of a dump is not inductive: a chunk is right because
the cached header and the bank register were right *before* the request, and those
were set many requests ago. `WalkBacked` says so: while a walk is under way the
cartridge answers, the shared cache holds its size code, and the bank register
holds the bank of the chunk last delivered. The invariant is `TypeOK`, `BusInv` (the
bus properties, as a ROM read as words on a bus of 8 bits would be blank) and
`WalkInv`, which is `WalkBacked` and one conjunct more. Each step gives `DumpExact` and
`DumpComplete` from the invariant before it, with `BankExact` for the arithmetic.
STRICT is excluded because there the claim is false (section 5, strict_dump).

Two parts of the invariant are no promises but consequences of the defect byte_rom of
section 5, and so are conjuncts of the proof and not properties: `FlagsBlanked`, the
byte pass clears the cached flags; and, in `WalkInv`, no ROM of a byte-wide cartridge is
ever walked. They spare the proof the branch that the defect makes unreachable. A
repair of the code would have to extend the proof there, and would leave the
properties as they are.

`HeaderExact` and `OwnBankOnly` rest on `BusInv` too, through `HeaderRead`:
`__dump_header` pokes the last bank and pokes the old one back, and both arrive only if
the bus is then as narrow as STRICT wants it, whatever width the header has just asked
for. `StrictDumpsBlind` and
`ByteRomEmpty` are the other side of it: between requests a STRICT bus is 16
bits wide, so that every byte access of a dump is refused; and the size code that the
byte pass leaves is 0, the entry of the table that is 0. `LookupsInsideWhen` has an
invariant of its own, `CacheInside`, as the cache that one medium's dump has filled is
what the other one's goes on with: both codes of the cached header are in the tables,
because the header read has the codes of a header on the bus, or 0 where a pass has
blanked them.

**The refinement of the service** adds nothing inductive: given `TypeOK`, `BusInv`,
`WalkInv` and `ErrorCoherent` before a step, each request maps to one action of
`DumpService`. A dump in order is `Deliver` or `End` because `WalkInv` says that
the cached size is that of the cartridge; one out of order is `Unpromised`; a request
refused is `Refuse`, which needs `ErrorCoherent` to know that no error stood before.

**The handshake.** `LinkInv` is `TypeOK` with three parts. `Progress` ties the DMA
channel, the samples left and the buffer to the program counter: while the transfer
goes on, exactly the first samples have been written. `Lines` says which timers run
and who drives the pins. `Hearing` is the one `Verdict` needs: while the slot stays as
it was, the sample in place i is the level the cartridge gave SO in cycle
`phase + i - 1` of the second pattern. From it, for an answer within the samples, the
first low sample is its first bit (`EdgeFirst`: before it the line is held high), so
that what is decoded is the answer (`SecretHeard`). The buffer is empty again after
each handshake (`ClearedEmpty`) because everything before the edge is high.
`LinkRefines` follows from `LinkInv` step by step; its fairness is TLC's.
`NothingDelays` needs `Progress` and `Lines`: that the clock and the counter run in
the loops, and that DMA is on until the last sample. `RstEarlyOnlyAgain` needs one
thing more, `Earlier`: until the counter is set going, a reference that is high is
that of a handshake that has had its result.

**The table of callbacks.** `TableInv`: the table is the one of `__usb_setup` until
the first SET_CONFIGURATION, and the one of all functions from then on, and neither
is cut short. Given which table it is, who matches a request is a matter of the
masks and the conditions of each callback.

**The sleep.** `SleepInv` counts: while the thread waits and no tick has come, `waited`
and what the counter still has to go make up what it held, or the whole reload when
it began at 0; and when a tick is pending or counted, that much has been waited. `Armed` is what
`TickComes` needs beside: the core sleeps only where SysTick's interrupt is on.

**Suspend and resume.** `Power` has no constants, so its run covers every state, and
a proof adds no instance. It gives the reason, which 28 218 states do not show.
`PowerInv` says of every state either that noise has woken the device, and then that it
is `Stuck` in the handler for good, or four things. `Phases`: where a suspend and the
resume that ends it are, told by which of FSUSP, LP_MODE, the wake-up signal and the
mask of EXTI4 are set. `Excuses`: what the host may have done before that phase, and
that `early` or `stale` records it whenever it matters, so that the exclusions of
`Wakeable` and the others are just those. `Clocks`: between which two steps SLEEPDEEP
is on and the oscillator is the internal one. `Darkness`: from where on the LED is out.
With or without noise `Line` and `Lights` say that who shows the level of SO shows the
one it has, or an edge is pending or `missed`. Each is needed by another: `Wakeable`
is `Phases` at WFI and `Excuses`, and `ClockRestored` is `Clocks` at the poll. TLC has
found `PowerInv` inductive from every state of the right types that satisfies it (some
5.3 million), not only from those that can be reached.

**Only model-checked.** The liveness properties, with the fairness
that TLAPS does not handle: `Terminates`, `Resumes`, `Suspends`, `Wakes`, and the
fairness of `LinkService`. Everything else that a passing run checks is a theorem. The
loops of the code are functions of an index in the models, so that no theorem needs an
induction over data.

## 5. Where code and comments part

Each is a counterexample of a run, and each has a theorem in section 4 that says how
far it goes.

* **strict_dump** (`tap.c` 159, 208, 213). Under STRICT `cartridge.c` refuses byte
  accesses on a 16-bit bus and says to change the width first; the two dumps do
  not, and drop the `BADWIDTH`.
* **byte_rom** (`tap.c` 110-114). For a cartridge with `flags.bwidth` the second pass
  over the header stores bytes as words and so clears `rom_sz` and `flags`. The
  dump ends before it begins, without an error, and the branch at 163 is dead.
* **lookup** (`tap.c` 140, 189). The check of the size code lets the number of
  entries through; and it is not made for a medium whose dump goes on with the
  header that the other one has cached.
* **second_reset** (`timer.c` 94). /RST is deasserted after one cycle on the first
  handshake only; on later ones it rises with the enabling of the output.
* **noise** (`usb.c` 265-267). To "remain suspended" after noise, the code sleeps
  inside the handler, where the next wake-up cannot reach it.

Other races are known to the models as history variables rather than as runs: a
host that resumes before WFI is reached (`early`), a second SUSP (`stale`), an edge
inside `exti4_isr` (`missed`), an edge between `led_off` and the mask (`relit`), a
floating SO after a failed handshake (`pulled`), a sleep cut short by what the
counter held (`held`). Without their exclusion `Wakeable`, `Resumes`, `LedTrue`,
`DarkAsleep` and `SleepsItOut` fail. Each is a hazard in `PROJECT.json` with a note
that says what the property leaves out.

Met while reading, without a run, as no behaviour of the model depends on them: the
descriptors announce endpoint 0x82 as interrupt and 0x81 as bulk in (`usb.c` 72, 88)
while `cdcacm_set_config` sets up 0x82 as bulk and 0x83 as interrupt (`cdcacm.c` 51,
52); and CDC class requests go to interface 0 (`usb.c` 131) while
`cdcacm_control_request` answers, with a stall, for interface 1 only.

## 6. Not modelled

* Builds without `STOP_MODE` (resume from `usbd_poll`) and without `SLEEP_MODE` (a busy
  loop on `sys_millis`, with SysTick always on).
* `cart_nor_poke`, `cart_2k3_nor_poke_enable`, `cart_2k3_nor_poke_disable`,
  `fsmc_enable`, `fsmc_disable`: nothing calls them. The requests `TAP_R0MPOKE`,
  `TAP_R1MPOKE` and `TAP_DUMPEEP` are declared and end in the default branch;
  `Stall` has them.
* `TAP_ST8_BUSY` and `TAP_ERR_POKE`, which are never set.
* The contents of the descriptors (constant tables); `uart_setup`, re-enumeration and
  `main` (straight-line); the endpoint handlers of the UART (empty). This is most of
  `usb.c`, `uart.c` and `winusb_defs.h`.
* libopencm3 (an empty submodule here), beyond what the firmware relies on.
* USB reset of a suspended device, and what a host does with stalls.
* The boards (KiCad projects).

## 7. Where it stands

Done: `CartBus` and `Tap` with their proofs; `DumpService` and its refinement;
`CartLink`, `LinkService`, and their proofs; `Power`, with the handshake on the line it
shares with detection, and its proofs; `Msleep` and `UsbDevice` with their proofs.

What could follow: the build without `STOP_MODE` as a
second specification of `Power`; and the composition of `CartLink` and `Msleep`, to say
how short the first handshake's reset may be.
