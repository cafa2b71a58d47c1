-------------------------------- MODULE Tap --------------------------------
(***************************************************************************)
(* The tap: the vendor requests a host sends to the dumper (tap.c), served *)
(* one at a time from usbd_poll, together with the cartridge that the user *)
(* may pull, insert or swap between any two of them.                       *)
(*                                                                         *)
(* One request is one step: no interrupt of the firmware touches the state *)
(* below.  Dumps are counted in chunks of USB_CONTROL_BUF_SIZE bytes, raw  *)
(* accesses in bytes.  A reply says where its data came from rather than   *)
(* what the data is, so a property can tell a right answer from a wrong    *)
(* one for every content of the cartridge.                                 *)
(***************************************************************************)
EXTENDS CartBus, FiniteSets, Sequences

CONSTANTS
  BankChunks,   \* chunks of one 64 KiB bank (64)
  RomSz,        \* cart_rom_sz, in chunks: a function on 0..n-1
  SavSz,        \* cart_sav_sz, in chunks
  PastTable,    \* what a read past the end of either table may give
  Carts,        \* the cartridges: [hdr |-> ..., size |-> ...]
  NoCart,       \* nothing in the slot
  OpenBus,      \* header bytes a bus nobody drives may show
  Lens,         \* lengths a host asks for in raw accesses
  Addrs,        \* 16-bit addresses it asks for, inside a region
  Ports,        \* 8-bit ports it asks for
  Idxs,         \* chunk indices it asks for
  PokeVals      \* first byte of the data it pokes

Media == {"rom", "ram"}

\* The header bytes the firmware decides by, with their offsets in brackets:
\* opcode [0], rom_sz [10], sav_sz [11], flags [12], and lsi [13] for the rest.
HdrBytes == 1..5
OPCODE == 1
FLAGS  == 4
SizeCode == [rom |-> 2, ram |-> 3]
EvenOffset(i) == i \in {1, 2, 4}
Headers == [HdrBytes -> 0..255]
ZeroHdr == [i \in HdrBytes |-> 0]
JMPF == 234

\* flags.bwidth
BWidth(h) == (h[FLAGS] \div 2) % 2 = 1

Table(m) == IF m = "rom" THEN RomSz ELSE SavSz

Entries(m) == Cardinality(DOMAIN Table(m))

\* hdr->rom_sz > number of entries: the code lets through one too many.
Refused(m, h) == h[OPCODE] # JMPF \/ h[SizeCode[m]] > Entries(m)

InTable(m, h) == h[SizeCode[m]] \in DOMAIN Table(m)

\* cart_rom_sz[hdr->rom_sz]: a read past the end gives what lies there.
SizesOf(m, h) ==
  IF InTable(m, h) THEN {Table(m)[h[SizeCode[m]]]} ELSE PastTable

ASSUME TapAssumption ==
  /\ BankChunks \in Nat \ {0}
  /\ \A m \in Media :
       Entries(m) \in Nat \ {0} /\ Table(m) \in [0..Entries(m)-1 -> Nat] /\ Table(m)[0] = 0
  /\ PastTable \subseteq Nat /\ PastTable # {}
  /\ NoCart \notin Carts
  /\ Carts \subseteq [hdr : Headers, size : [Media -> Nat]]
  /\ OpenBus \subseteq Headers /\ OpenBus # {}
  /\ Lens \cup Idxs \subseteq Nat
  /\ Addrs \subseteq 0..REGION_SIZE-1 /\ Ports \subseteq 0..REG_MAX
  /\ PokeVals \subseteq 0..NumBanks-1

\* A cartridge is what a readable header says it is.
ASSUME HonestCarts ==
  \A c \in Carts, m \in Media :
    c.hdr[OPCODE] = JMPF /\ InTable(m, c.hdr) =>
      c.size[m] = Table(m)[c.hdr[SizeCode[m]]]

\* A ROM fills whole banks and is mirrored through all of them; so is a save
\* RAM that is not smaller than one bank.
ASSUME BanksFit ==
  /\ \A c \in Carts :
       c.size["rom"] >= BankChunks /\ NumBanks % (c.size["rom"] \div BankChunks) = 0
  /\ \A m \in Media : \A code \in DOMAIN Table(m) :
       LET size == Table(m)[code]
       IN  size >= BankChunks =>
             size % BankChunks = 0 /\ NumBanks % (size \div BankChunks) = 0

\* enum tap_state and enum tap_error
TAP_ST8_IDLE  == 0
TAP_ST8_ERROR == 2
TAP_ERR_NONE == 0
TAP_ERR_CART == 1
TAP_ERR_PEEK == 2
TAP_ERR_ADDR == 4
TAP_ERR_DATA == 5
Errors == {TAP_ERR_NONE, TAP_ERR_CART, TAP_ERR_PEEK, TAP_ERR_ADDR, TAP_ERR_DATA}

\* Where a byte or a chunk of a reply came from when not from an address:
Stale    == -1    \* an access refused: what was in the buffer before
Blank    == -2    \* the high half of a byte read as a word, or a chunk of these
Floating == -3    \* a bus nobody drives
Origins == Nat \cup {Stale, Blank, Floating}

VARIABLES
  st8, err,     \* __ctx.st8, __ctx.err
  hdr,          \* __ctx.dat.buf, the cached cartridge header
  bus,          \* the FSMC bank and its pins
  cart,         \* what is in the slot
  open,         \* the cartridge has taken the handshake and answers
  regs,         \* registers of the cartridge's mapper
  halted,       \* the core sits in the hard fault handler
  reply,        \* the last request and its answer
  walk          \* history: chunks of each medium delivered in order so far

vars == <<st8, err, hdr, bus, cart, open, regs, halted, reply, walk>>
fw == <<st8, err, hdr, bus, halted>>
slot == <<cart, open, regs>>

Reply(op, at, ask, data, rcs) ==
  [op |-> op, at |-> at, ask |-> ask, data |-> data, rcs |-> rcs]
NoReply == Reply("none", 0, 0, <<>>, {})

NoWalk == [m \in Media |-> 0]

Init ==
  /\ st8 = TAP_ST8_IDLE /\ err = TAP_ERR_NONE
  /\ hdr = ZeroHdr
  /\ bus = BusReset
  /\ cart \in Carts \cup {NoCart}
  /\ open = FALSE
  /\ regs = RegsPowerOn
  /\ halted = FALSE
  /\ reply = NoReply
  /\ walk = NoWalk

----------------------------------------------------------------------------
(* Parts of the request handler.                                           *)

Bug_StateSticks(e) ==
  /\ err' = e
  /\ st8' = IF e # TAP_ERR_NONE THEN TAP_ST8_ERROR ELSE st8

\* __set_error_state
SetErrorState(e) ==
  /\ err' = e
  /\ st8' = IF e # TAP_ERR_NONE THEN TAP_ST8_ERROR
            ELSE IF st8 = TAP_ST8_ERROR THEN TAP_ST8_IDLE ELSE st8

Bug_GatedWhenBusy == st8 = 1

\* The error gate: leveled requests are ignored while an error is pending.
Gated == st8 = TAP_ST8_ERROR

Bug_RefuseClears(e, op, at, ask) ==
  /\ SetErrorState(e)
  /\ hdr' = ZeroHdr
  /\ reply' = Reply(op, at, ask, <<>>, {})
  /\ UNCHANGED <<bus, halted, slot, walk>>

\* A request refused before it touches the bus.
Refuse(e, op, at, ask) ==
  /\ SetErrorState(e)
  /\ reply' = Reply(op, at, ask, <<>>, {})
  /\ UNCHANGED <<hdr, bus, halted, slot, walk>>

\* An access to the FSMC bank while the controller has no clock faults, and
\* the fault handler never returns.
Access(touches, A) ==
  IF touches /\ ~bus.clk
  THEN halted' = TRUE /\ reply' = NoReply /\ UNCHANGED <<st8, err, hdr, bus, slot, walk>>
  ELSE A

\* What one access leaves in the reply.
Arrived(rc, a) == IF rc # FIN THEN Stale ELSE IF open THEN a ELSE Floating

----------------------------------------------------------------------------
(* Status requests, served in every state.                                 *)

\* One byte, when the host asks for any: len = 1 stands for that, 0 for none.
Status(op, len, value) ==
  /\ reply' = Reply(op, 0, len, IF len > 0 THEN <<value>> ELSE <<>>, {})
  /\ UNCHANGED <<fw, slot, walk>>

GetState(len) == Status("GETST8", len, st8)

GetError(len) == Status("GETERR", len, err)

ClrErr ==
  /\ SetErrorState(TAP_ERR_NONE)
  /\ reply' = Reply("CLRERR", 0, 0, <<>>, {})
  /\ UNCHANGED <<hdr, bus, halted, slot, walk>>

\* Codes from TAP_HANDSHK up that no case of the switch serves: three that are
\* declared, and all that are not.
Unserved == {"R0MPOKE", "R1MPOKE", "DUMPEEP", "unknown"}

Leveled == Unserved \cup
  {"HANDSHK", "MBCPEEK", "RAMPEEK", "R0MPEEK", "R1MPEEK", "MBCPOKE", "RAMPOKE",
   "DUMPHDR", "DUMPROM", "DUMPRAM"}

IgnoreWhileError(op) ==
  /\ Gated /\ op \in Leveled
  /\ reply' = Reply(op, 0, 0, <<>>, {})
  /\ UNCHANGED <<fw, slot, walk>>

\* Codes that no case serves, and "other" requests, which the gate does not see:
\* unknown codes below TAP_HANDSHK, and those not of vendor type to an interface.
Stall(op) ==
  /\ Gated => op = "other"
  /\ reply' = Reply("STALL", 0, 0, <<>>, {})
  /\ UNCHANGED <<fw, slot, walk>>

----------------------------------------------------------------------------
(* TAP_HANDSHK: cart_handshake drops the bus, resets whatever is in the    *)
(* slot and sets the bus up again only when the right secret came back.    *)

Bug_BusKept(secret) ==
  /\ ~Gated
  /\ secret => cart # NoCart
  /\ bus' = IF ~secret THEN BusReset ELSE IF bus.clk THEN bus ELSE BusSetup
  /\ IF secret THEN UNCHANGED <<st8, err>> ELSE SetErrorState(TAP_ERR_CART)
  /\ open' = secret
  /\ regs' = RegsPowerOn
  /\ walk' = NoWalk
  /\ reply' = Reply("HANDSHK", 0, 0, <<>>, {})
  /\ UNCHANGED <<hdr, cart, halted>>

Handshake(secret) ==
  /\ ~Gated
  /\ secret => cart # NoCart
  /\ bus' = IF secret THEN BusSetup ELSE BusReset
  /\ IF secret THEN UNCHANGED <<st8, err>> ELSE SetErrorState(TAP_ERR_CART)
  /\ open' = secret
  /\ regs' = RegsPowerOn
  /\ walk' = NoWalk
  /\ reply' = Reply("HANDSHK", 0, 0, <<>>, {})
  /\ UNCHANGED <<hdr, cart, halted>>

----------------------------------------------------------------------------
(* Low-level requests.  The windows are the trims of *len at the end of a  *)
(* region, as the code computes them.                                      *)

Bug_WindowShort(addr, ask) ==
  IF REGION_SIZE <= addr + ask THEN REGION_SIZE - addr - 1 ELSE ask

MbcWindow(port, ask) == IF REG_MAX < port + ask - 1 THEN REG_MAX - port ELSE ask
RamWindow(addr, ask) == IF REGION_SIZE < addr + ask - 1 THEN REGION_SIZE - addr ELSE ask
RomWindow(addr, ask) == IF REGION_SIZE < addr + ask - 2 THEN REGION_SIZE - addr ELSE ask

MbcPeek(port, ask) ==
  /\ ~Gated
  /\ \/ ask = 0 /\ Refuse(TAP_ERR_DATA, "MBCPEEK", port, ask)
     \/ ask > 0 /\ REG_MIN > port /\ Refuse(TAP_ERR_ADDR, "MBCPEEK", port, ask)
     \/ /\ ask > 0 /\ REG_MIN <= port
        /\ LET n == MbcWindow(port, ask)
               b == Narrow(bus)
               rc(i) == MbcRc(b, port + i - 1)
           IN  Access(n > 0,
                 /\ reply' = Reply("MBCPEEK", port, ask,
                                   [i \in 1..n |-> Arrived(rc(i), port + i - 1)],
                                   {rc(i) : i \in 1..n})
                 /\ bus' = Widen(b)
                 /\ UNCHANGED <<st8, err, hdr, halted, slot, walk>>)

BankReg == [rom |-> REG_ROM_BANK_0, ram |-> REG_RAM_BANK]

\* Byte i of the data poked is (v + i) % NumBanks.
MbcPoke(port, ask, v) ==
  /\ ~Gated
  /\ \/ ask = 0 /\ Refuse(TAP_ERR_DATA, "MBCPOKE", port, ask)
     \/ ask > 0 /\ REG_MIN > port /\ Refuse(TAP_ERR_ADDR, "MBCPOKE", port, ask)
     \/ /\ ask > 0 /\ REG_MIN <= port
        /\ LET n == MbcWindow(port, ask)
               b == Narrow(bus)
               rc(i) == MbcRc(b, port + i - 1)
               poked == {r \in port .. port + n - 1 : open /\ MbcRc(b, r) = FIN}
           IN  Access(n > 0,
                 /\ regs' = [r \in Registers |->
                               IF r \in poked THEN (v + r - port) % NumBanks ELSE regs[r]]
                 /\ walk' = [m \in Media |-> IF BankReg[m] \in poked THEN 0 ELSE walk[m]]
                 /\ reply' = Reply("MBCPOKE", port, ask,
                                   [i \in 1..n |-> Arrived(rc(i), port + i - 1)],
                                   {rc(i) : i \in 1..n})
                 /\ bus' = Widen(b)
                 /\ UNCHANGED <<st8, err, hdr, halted, cart, open>>)

\* RAMPEEK and RAMPOKE touch the same addresses, one reading, one writing.
RamAccess(op, addr, ask) ==
  /\ ~Gated
  /\ \/ ask = 0 /\ Refuse(TAP_ERR_DATA, op, addr, ask)
     \/ /\ ask > 0
        /\ LET n == RamWindow(addr, ask)
               b == Narrow(bus)
               a(i) == SRAM_BASE + addr + i - 1
               rc(i) == SramRc(b, a(i))
           IN  Access(n > 0,
                 /\ reply' = Reply(op, addr, ask,
                                   [i \in 1..n |-> Arrived(rc(i), a(i))],
                                   {rc(i) : i \in 1..n})
                 /\ bus' = Widen(b)
                 /\ UNCHANGED <<st8, err, hdr, halted, slot, walk>>)

\* R0MPEEK and R1MPEEK read words.  On an 8-bit bus the routine stores a byte
\* widened to a word, which blanks the byte above it.
RomPeek(op, addr, ask) ==
  /\ ~Gated
  /\ \/ ask < 2 /\ Refuse(TAP_ERR_DATA, op, addr, ask)
     \/ ask >= 2 /\ addr % 2 = 1 /\ Refuse(TAP_ERR_ADDR, op, addr, ask)
     \/ /\ ask >= 2 /\ addr % 2 = 0
        /\ LET n == RomWindow(addr, ask)
               base == IF op = "R1MPEEK" THEN ROM1_BASE ELSE ROM0_BASE
               a(i) == base + addr + i - 1
               word(i) == a(i) - (a(i) % 2)
               rc(i) == NorRc(bus, word(i))
               byte(i) == IF rc(i) = FIN /\ a(i) # word(i) /\ ~Is16(bus) THEN Blank
                          ELSE Arrived(rc(i), a(i))
           IN  Access(n > 0,
                 /\ reply' = Reply(op, addr, ask,
                                   [i \in 1..n |-> byte(i)], {rc(i) : i \in 1..n})
                 /\ UNCHANGED <<fw, slot, walk>>)

----------------------------------------------------------------------------
(* __dump_header.  ROM bank 0 is moved to the last bank, where the header  *)
(* is the last 16 bytes, and moved back; words are read first, and bytes   *)
(* at the odd offsets again when the flags ask for an 8-bit bus.           *)

\* The bytes at 0x2fff0 with these registers: the header when the bank maps
\* to the last one of the ROM.
HeaderAt(rg) ==
  IF open /\ cart.size["rom"] >= BankChunks
          /\ (rg[REG_ROM_BANK_0] + 1) % (cart.size["rom"] \div BankChunks) = 0
  THEN {cart.hdr} ELSE OpenBus

WordPass(b, src) ==
  [i \in HdrBytes |-> IF Is16(b) \/ EvenOffset(i) THEN src[i] ELSE 0]

\* Every byte at an odd offset is stored as a word: it blanks the next byte.
BytePass(h, src) ==
  [i \in HdrBytes |-> IF ~EvenOffset(i) THEN src[i] ELSE IF i = OPCODE THEN h[i] ELSE 0]

Bug_BankLeft(rg, b, rb0) == rg

Bug_BankBeforeLast(rg, b) ==
  IF open THEN PokeReg(rg, b, REG_ROM_BANK_0, NumBanks - 2) ELSE rg

\* The registers while the header is read, and the mapper that is silent.
LastBank(rg, b) ==
  IF open THEN PokeReg(rg, b, REG_ROM_BANK_0, NumBanks - 1) ELSE rg
BankBack(rg, b, rb0) ==
  IF open THEN PokeReg(rg, b, REG_ROM_BANK_0, rb0) ELSE rg

\* The outcomes of __dump_header: header read, bus, registers, codes discarded.
DumpHeader ==
  LET narrow == Narrow(bus)
      last == LastBank(regs, narrow)
      b == Widen(narrow)
      result(src) ==
        LET words == WordPass(b, src)
            after == IF BWidth(words) THEN Width8(b) ELSE b
            back == Narrow(after)
        IN  [hdr |-> IF BWidth(words) THEN BytePass(words, src) ELSE words,
             bus |-> Widen(back),
             regs |-> BankBack(last, back, regs[REG_ROM_BANK_0]),
             rcs |-> {MbcRc(narrow, REG_ROM_BANK_0), MbcRc(back, REG_ROM_BANK_0)}]
  IN  {result(src) : src \in HeaderAt(last)}

\* len = 1 stands for room for a header, 0 for less.
DumpHdr(len) ==
  /\ ~Gated
  /\ \/ len = 0 /\ Refuse(TAP_ERR_DATA, "DUMPHDR", 0, len)
     \/ /\ len = 1
        /\ Access(TRUE,
             \E d \in DumpHeader :
               /\ reply' = Reply("DUMPHDR", 0, len, d.hdr, d.rcs)
               /\ bus' = d.bus /\ regs' = d.regs
               /\ UNCHANGED <<st8, err, hdr, halted, cart, open, walk>>)

----------------------------------------------------------------------------
(* __dump_rom and __dump_ram.                                              *)

DumpOp == [rom |-> "DUMPROM", ram |-> "DUMPRAM"]

Bug_BankTooWide(size, idx) == NumBanks - (size \div BankChunks) + (idx \div BankChunks)
Bug_BankBefore(size, idx) ==
  (NumBanks - 1 - (size \div BankChunks) + (idx \div BankChunks)) % NumBanks

\* (256 - (size >> 16)) + (abs_addr >> 16), as the uint8_t it is poked as.
BankOf(size, idx) == (NumBanks - (size \div BankChunks) + (idx \div BankChunks)) % NumBanks

\* The chunk that bank rg and offset rel select in a medium mirrored through
\* the banks.
ChunkAt(m, rg, rel) ==
  IF open /\ cart.size[m] > 0
  THEN (rg[BankReg[m]] * BankChunks + rel) % cart.size[m] ELSE Floating

\* One chunk as it is read: a word-wide ROM read, a byte-wide one, or bytes of
\* RAM, which STRICT refuses on a 16-bit bus.
ChunkRead(m, h, b, rg, rel) ==
  IF m = "ram"
  THEN IF SramRc(b, SRAM_BASE) = FIN THEN ChunkAt(m, rg, rel) ELSE Stale
  ELSE IF BWidth(h) \/ Is16(b) THEN ChunkAt(m, rg, rel) ELSE Blank

\* The walk: chunk idx continues it, repeats its last chunk, or starts it.
InOrder(m, idx) ==
  \/ idx = 0 /\ open
  \/ walk[m] > 0 /\ idx \in {walk[m] - 1, walk[m]}

\* The part of a dump after the header check, from the state it left.
Stream(m, idx, h, b, rg, rcs) ==
  \E size \in SizesOf(m, h) :
    LET oob == IF InTable(m, h) THEN {} ELSE {"OUT_OF_TABLE"}
        rel == idx % BankChunks
        code == MbcRc(b, BankReg[m])
        rg2 == IF rel = 0 /\ open THEN PokeReg(rg, b, BankReg[m], BankOf(size, idx)) ELSE rg
        poked == IF rel = 0 THEN {code} ELSE {}
        read == IF m = "ram" THEN {SramRc(b, SRAM_BASE)} ELSE {NorRc(b, ROM0_BASE)}
    IN  \/ /\ size <= idx
           /\ hdr' = ZeroHdr
           /\ bus' = b /\ regs' = rg
           /\ walk' = NoWalk
           /\ reply' = Reply(DumpOp[m], idx, 1, <<>>, rcs \cup oob)
           /\ UNCHANGED <<st8, err, halted, cart, open>>
        \/ /\ size > idx
           /\ Access(TRUE,
                /\ hdr' = h
                /\ bus' = IF m = "rom" /\ BWidth(h) THEN Width16(Width8(b)) ELSE b
                /\ regs' = rg2
                /\ walk' = [walk EXCEPT ![m] = IF InOrder(m, idx) THEN idx + 1 ELSE 0]
                /\ reply' = Reply(DumpOp[m], idx, 1, <<ChunkRead(m, h, b, rg2, rel)>>,
                                  rcs \cup oob \cup poked \cup read)
                /\ UNCHANGED <<st8, err, halted, cart, open>>)

\* len = 1 stands for exactly USB_CONTROL_BUF_SIZE, 0 for any other length.
Dump(m, idx, len) ==
  /\ ~Gated
  /\ \/ len = 0 /\ Refuse(TAP_ERR_DATA, DumpOp[m], idx, len)
     \/ len = 1 /\ idx > 0 /\ Stream(m, idx, hdr, bus, regs, {})
     \/ /\ len = 1 /\ idx = 0
        /\ Access(TRUE,
             \E d \in DumpHeader :
               \/ /\ Refused(m, d.hdr)
                  /\ SetErrorState(TAP_ERR_PEEK)
                  /\ hdr' = ZeroHdr
                  /\ bus' = d.bus /\ regs' = d.regs
                  /\ walk' = NoWalk
                  /\ reply' = Reply(DumpOp[m], idx, len, <<>>, d.rcs)
                  /\ UNCHANGED <<halted, cart, open>>
               \/ ~Refused(m, d.hdr) /\ Stream(m, idx, d.hdr, d.bus, d.regs, d.rcs))
----------------------------------------------------------------------------
(* What happens to the dumper and its slot between requests.               *)

\* tap_set_config: the timers are set up anew, which drops the cartridge's
\* clock and puts it in reset until the next handshake.
SetConfig ==
  /\ open' = FALSE /\ regs' = RegsPowerOn /\ walk' = NoWalk
  /\ reply' = NoReply
  /\ UNCHANGED <<fw, cart>>

\* The user pulls the cartridge or pushes one in.
ChangeCart(c) ==
  /\ (cart = NoCart) # (c = NoCart)
  /\ cart' = c
  /\ open' = FALSE /\ regs' = RegsPowerOn /\ walk' = NoWalk
  /\ reply' = NoReply
  /\ UNCHANGED fw

\* The dumper is unplugged and plugged in again, the cartridge with it.
PowerCycle ==
  /\ st8' = TAP_ST8_IDLE /\ err' = TAP_ERR_NONE
  /\ hdr' = ZeroHdr
  /\ bus' = BusReset
  /\ halted' = FALSE
  /\ open' = FALSE /\ regs' = RegsPowerOn /\ walk' = NoWalk
  /\ reply' = NoReply
  /\ UNCHANGED cart

Request ==
  \/ \E len \in {0, 1} : GetState(len) \/ GetError(len)
  \/ ClrErr
  \/ \E op \in Leveled : IgnoreWhileError(op)
  \/ \E op \in Unserved \cup {"other"} : Stall(op)
  \/ \E secret \in BOOLEAN : Handshake(secret)
  \/ \E port \in Ports, ask \in Lens : MbcPeek(port, ask)
  \/ \E port \in Ports, ask \in Lens, v \in PokeVals : MbcPoke(port, ask, v)
  \/ \E op \in {"RAMPEEK", "RAMPOKE"}, addr \in Addrs, ask \in Lens : RamAccess(op, addr, ask)
  \/ \E op \in {"R0MPEEK", "R1MPEEK"}, addr \in Addrs, ask \in Lens : RomPeek(op, addr, ask)
  \/ \E len \in {0, 1} : DumpHdr(len)
  \/ \E m \in Media, idx \in Idxs, len \in {0, 1} : Dump(m, idx, len)

Next ==
  \/ ~halted /\ Request
  \/ ~halted /\ SetConfig
  \/ \E c \in Carts \cup {NoCart} : ChangeCart(c)
  \/ PowerCycle

Spec == Init /\ [][Next]_vars

----------------------------------------------------------------------------
(* Properties.                                                             *)

Rcs == ReturnCodes \cup {"OUT_OF_TABLE"}

Ops == Leveled \cup {"none", "GETST8", "GETERR", "CLRERR", "STALL"}

Replies == [op : Ops, at : Nat, ask : Nat, data : Seq(Int), rcs : SUBSET Rcs]

TypeOK ==
  /\ st8 \in {TAP_ST8_IDLE, TAP_ST8_ERROR} /\ err \in Errors
  /\ hdr \in Headers
  /\ bus \in BusStates
  /\ cart \in Carts \cup {NoCart}
  /\ open \in BOOLEAN /\ (open => cart \in Carts)
  /\ regs \in [Registers -> 0..NumBanks-1]
  /\ halted \in BOOLEAN
  /\ reply \in Replies
  /\ walk \in [Media -> Nat]

\* The state reads ERROR exactly while an error is recorded, so a host that
\* polls GETST8 alone misses none (tap.c, __set_error_state).
ErrorCoherent == st8 = TAP_ST8_ERROR <=> err # TAP_ERR_NONE

\* While an error is pending only CLRERR, a new power-up or a hand on the
\* cartridge changes anything: no request is carried out in part (the gate of
\* __tap_control_request).
ErrorQuiesces ==
  [][st8 = TAP_ST8_ERROR /\ reply'.op \notin {"CLRERR", "none"} => UNCHANGED <<fw, slot>>]_vars

\* A cartridge that answers does so on a clocked bus: after a handshake that
\* succeeded, and until it is lost, no request can fault.
OpenBusClocked == open => bus.clk

\* PD10 is a data line on a 16-bit bus and a driven address line on an 8-bit
\* one, through every toggle and every reset (fsmc.c).
PinsMatchWidth == bus.clk => bus.d10 = IF bus.width = 16 THEN "altfn" ELSE "out"

\* A word-wide cartridge finds the bus 16 bits wide before every request,
\* whatever cartridge was served before it.
WordBus == open /\ ~BWidth(cart.hdr) => Is16(bus)

\* DUMPHDR answers with the header of a word-wide cartridge, byte for byte,
\* whichever bank was selected and whatever width another cartridge has left:
\* __dump_header selects the last bank and reads it on a bus it has not set.
HeaderExact ==
  [][open /\ ~BWidth(cart.hdr) /\ reply'.op = "DUMPHDR" /\ reply'.ask = 1 =>
       reply'.data = cart.hdr]_vars

\* Among the bank registers a dump moves only that of its own medium, and
\* DUMPHDR and the peeks leave the mapper as they found it.
OwnBankOnly ==
  [][open /\ open' /\ reply'.op \notin {"MBCPOKE", "HANDSHK"} =>
       \A r \in Registers :
         regs'[r] # regs[r] => \E m \in Media : r = BankReg[m] /\ reply'.op = DumpOp[m]]_vars

\* The header of this cartridge gives the size of m.
Readable(m) == cart.hdr[OPCODE] = JMPF /\ InTable(m, cart.hdr)

\* What a walk rests on between two of its requests: a cartridge that answers,
\* its own size code still in the cache that both media share, and the bank
\* register where the last chunk left it, whatever was asked in between.
WalkBacked ==
  \A m \in Media : walk[m] > 0 =>
    /\ open
    /\ hdr[SizeCode[m]] = cart.hdr[SizeCode[m]]
    /\ Readable(m) =>
         /\ walk[m] <= cart.size[m]
         /\ regs[BankReg[m]] = BankOf(cart.size[m], walk[m] - 1)

\* The last request was a dump of m that starts, continues or repeats a walk,
\* on a cartridge that answers and whose header gives the size of m.
DumpAnswered(m) ==
  /\ reply'.op = DumpOp[m] /\ reply'.ask = 1
  /\ open /\ InOrder(m, reply'.at) /\ Readable(m)

\* A chunk delivered in order, or repeated, is the chunk of that index, for
\* every interleaving with the other dump, with raw requests and with errors.
DumpExact ==
  [][\A m \in Media :
       DumpAnswered(m) /\ reply'.data # <<>> => reply'.data = <<reply'.at>>]_vars

\* An empty answer means the end of the medium, or an error the host can read.
EndIsEnd(m) ==
  DumpAnswered(m) /\ reply'.data = <<>> /\ err' = TAP_ERR_NONE => reply'.at = cart.size[m]

\* So it is for the save RAM of every cartridge and the ROM of a word-wide one.
DumpComplete ==
  [][\A m \in Media : open /\ (m = "rom" => ~BWidth(cart.hdr)) => EndIsEnd(m)]_vars

RegionOf == [MBCPEEK |-> 0, MBCPOKE |-> 0, RAMPEEK |-> SRAM_BASE, RAMPOKE |-> SRAM_BASE,
             R0MPEEK |-> ROM0_BASE, R1MPEEK |-> ROM1_BASE]
Top(op) == IF op \in {"MBCPEEK", "MBCPOKE"} THEN REG_MAX ELSE REGION_SIZE - 1

\* Bytes of a request that lie in its region, but for the last port: a port
\* request that reaches further need not have it.
Due(op, at, ask) ==
  IF at + ask - 1 <= Top(op) THEN ask
  ELSE IF op \in {"MBCPEEK", "MBCPOKE"} THEN Top(op) - at ELSE Top(op) - at + 1

\* Reply r has these bytes, each from its own address, and none not asked for.
AllDue(r) ==
  LET due == 1..Due(r.op, r.at, r.ask)
  IN  /\ due \subseteq DOMAIN r.data /\ DOMAIN r.data \subseteq 1..r.ask
      /\ \A i \in due : r.data[i] = RegionOf[r.op] + r.at + i - 1

\* A raw request that is not refused gets every byte that is due, whether *len was
\* trimmed or not, at the top of a region and below it.
RawExact ==
  [][/\ reply'.op \in DOMAIN RegionOf /\ reply'.ask > 0 /\ err' = TAP_ERR_NONE /\ open
     /\ reply'.op \in {"R0MPEEK", "R1MPEEK"} => Is16(bus)
     => AllDue(reply')]_vars

\* No byte-wide request, however long, reaches past its region: the trims and
\* the address checks of cartridge.c together keep RAM accesses off the ROM
\* and register accesses off port 0.
RawContained ==
  reply.op \in {"MBCPEEK", "MBCPOKE", "RAMPEEK", "RAMPOKE"} =>
    \A i \in DOMAIN reply.data :
      reply.data[i] >= 0 =>
        reply.data[i] \in RegionOf[reply.op] .. RegionOf[reply.op] + Top(reply.op)

\* With STRICT every request leaves the bus 16 bits wide.
StrictRestores == STRICT /\ bus.clk => bus.width = 16

(* What the repository says of itself and the code does not do.            *)

\* No access is made on a bus of the wrong width: cartridge.c 71 and 96,
\* "enforce prior call to fsmc_toggle_bus_width()".
WidthPrepared == "BADWIDTH" \notin reply.rcs

\* The ROM of every cartridge can be dumped, the byte-wide ones of tap.c 163
\* included: README.md 3, "A WonderSwan cartridge dumper and programmer".
RomDumped == [][open => EndIsEnd("rom")]_vars

\* The check of the size code, tap.c 140 and 189, keeps every lookup inside the
\* tables.
LookupsInside == "OUT_OF_TABLE" \notin reply.rcs
============================================================================
