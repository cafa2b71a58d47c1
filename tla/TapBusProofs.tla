----------------------------- MODULE TapBusProofs ----------------------------
(***************************************************************************)
(* The bus of Tap, for every value of the constants.  BusInv is inductive  *)
(* relative to the types: a handful of operators of fsmc.c changes width,  *)
(* pins and clock, and every request that moves them moves them back for   *)
(* the cartridges that need it.  And because the bus is as it should be,   *)
(* the header read gets through to the bank register and puts it back.     *)
(* Then the raw requests, which no invariant but the types is needed for.  *)
(***************************************************************************)
EXTENDS TapTypes

\* The pins of bus b are as PinsMatchWidth wants them.
PinsOK(b) == b.clk => b.d10 = IF b.width = 16 THEN "altfn" ELSE "out"

\* What the second pass of __dump_header makes of the cached flags: it clears
\* them whenever it is made.  No promise of the code, but a fact that the proof
\* needs: the branch for byte-wide reads leaves the bus at 16 bits.
FlagsBlanked == ~BWidth(hdr)

\* The inductive invariant, relative to the types.
BusInv ==
  /\ PinsMatchWidth
  /\ OpenBusClocked
  /\ WordBus
  /\ FlagsBlanked
  /\ StrictRestores

\* What fsmc_bus_width_8 and fsmc_bus_width_16 do to a clocked bus whose pins
\* agree with its width.
LEMMA WidthFacts ==
  ASSUME NEW b \in BusStates, b.clk, PinsOK(b)
  PROVE  /\ Width8(b).clk /\ PinsOK(Width8(b)) /\ Width8(b).width = 8
         /\ Width16(b).clk /\ PinsOK(Width16(b)) /\ Width16(b).width = 16
         /\ Narrow(b).clk /\ PinsOK(Narrow(b)) /\ (STRICT => Narrow(b).width = 8)
         /\ Widen(b).clk /\ PinsOK(Widen(b)) /\ (STRICT => Widen(b).width = 16)
         /\ (~STRICT => Narrow(b) = b /\ Widen(b) = b)
         /\ (Is16(b) => Width16(b) = b /\ Widen(b) = b /\ Widen(Narrow(b)) = b)
<1>0. b.width \in {8, 16}
  BY DEF BusStates
<1>1. Width8(b).clk /\ PinsOK(Width8(b)) /\ Width8(b).width = 8
  BY <1>0 DEF PinsOK, Width8, ToggleWidth, Is16
<1>2. Width16(b).clk /\ PinsOK(Width16(b)) /\ Width16(b).width = 16
  BY <1>0 DEF PinsOK, Width16, ToggleWidth, Is16
<1>3. Narrow(b).clk /\ PinsOK(Narrow(b)) /\ (STRICT => Narrow(b).width = 8)
  BY <1>1 DEF Narrow
<1>4. Widen(b).clk /\ PinsOK(Widen(b)) /\ (STRICT => Widen(b).width = 16)
  BY <1>2 DEF Widen
<1>5. ~STRICT => Narrow(b) = b /\ Widen(b) = b
  BY DEF Narrow, Widen
<1>6. ASSUME Is16(b)
      PROVE  Width16(b) = b /\ Widen(b) = b /\ Widen(Narrow(b)) = b
  <2>1. Width16(b) = b /\ Widen(b) = b
    BY <1>6 DEF Width16, Widen
  <2>2. b.d10 = "altfn" /\ b.width = 16 /\ b.clk = TRUE
    BY <1>6 DEF Is16, PinsOK, BusStates
  <2>3. ToggleWidth(b) = [clk |-> TRUE, width |-> 8, d10 |-> "out"]
    BY <1>6, <2>2 DEF ToggleWidth
  <2>4. b = [clk |-> TRUE, width |-> 16, d10 |-> "altfn"]
    BY <2>2 DEF BusStates
  <2>5. Width8(b) = ToggleWidth(b) /\ ~Is16(ToggleWidth(b))
    BY <1>6, <2>3 DEF Width8, Is16
  <2>6. ToggleWidth(ToggleWidth(b)) = [clk |-> TRUE, width |-> 24 - 8, d10 |-> "altfn"]
    BY <2>3, <2>5 DEF ToggleWidth
  <2>7. Width16(Width8(b)) = b
    BY <2>4, <2>5, <2>6 DEF Width16
  <2> QED
    BY <2>1, <2>7 DEF Narrow, Widen
<1> QED
  BY <1>1, <1>2, <1>3, <1>4, <1>5, <1>6

\* The header read with the bus clocked.
LEMMA HeaderRead ==
  ASSUME TypeOK, BusInv, bus.clk, NEW d \in DumpHeader
  PROVE  /\ d.bus.clk /\ PinsOK(d.bus) /\ (STRICT => d.bus.width = 16)
         /\ ~BWidth(d.hdr)
         /\ d.regs = regs
         /\ open => \/ BWidth(cart.hdr) /\ d.hdr = BytePass(WordPass(Widen(Narrow(bus)), cart.hdr), cart.hdr)
                    \/ ~BWidth(cart.hdr) /\ d.hdr = cart.hdr /\ d.bus = bus /\ Is16(bus)
<1> DEFINE narrow == Narrow(bus)
           last == LastBank(regs, narrow)
           b == Widen(narrow)
           words(src) == WordPass(b, src)
           after(src) == IF BWidth(words(src)) THEN Width8(b) ELSE b
           back(src) == Narrow(after(src))
<1>1. PICK src \in HeaderAt(last) :
        d = [hdr |-> IF BWidth(words(src)) THEN BytePass(words(src), src) ELSE words(src),
             bus |-> Widen(back(src)),
             regs |-> BankBack(last, back(src), regs[REG_ROM_BANK_0]),
             rcs |-> {MbcRc(narrow, REG_ROM_BANK_0), MbcRc(back(src), REG_ROM_BANK_0)}]
  BY DEF DumpHeader
<1>2. bus \in BusStates /\ PinsOK(bus)
  BY DEF TypeOK, BusInv, PinsMatchWidth, PinsOK
<1>3. narrow \in BusStates /\ narrow.clk /\ PinsOK(narrow) /\ (STRICT => narrow.width = 8)
  BY <1>2, WidthFacts, BusTypes
<1>4. b \in BusStates /\ b.clk /\ PinsOK(b) /\ (STRICT => b.width = 16)
  BY <1>3, WidthFacts, BusTypes
<1>5. after(src) \in BusStates /\ after(src).clk /\ PinsOK(after(src))
  BY <1>4, WidthFacts, BusTypes
<1>6. /\ back(src) \in BusStates /\ back(src).clk /\ PinsOK(back(src))
      /\ (STRICT => back(src).width = 8)
  <2> HIDE DEF after
  <2> QED
    BY <1>5, WidthFacts, BusTypes
<1>7. d.bus.clk /\ PinsOK(d.bus) /\ (STRICT => d.bus.width = 16)
  <2> HIDE DEF back
  <2> QED
    BY <1>1, <1>6, WidthFacts
<1>8. src \in Headers
  BY TapAssumption DEF HeaderAt, TypeOK
<1>9. words(src) \in Headers /\ words(src)[FLAGS] = src[FLAGS] /\ BytePass(words(src), src)[FLAGS] = 0
  BY <1>8 DEF WordPass, BytePass, Headers, HdrBytes, FLAGS, OPCODE, EvenOffset
<1>10. ~BWidth(d.hdr)
  <2> HIDE DEF words
  <2>1. CASE BWidth(words(src))
    BY <1>1, <1>9, <2>1 DEF BWidth
  <2>2. CASE ~BWidth(words(src))
    BY <1>1, <2>2
  <2> QED
    BY <2>1, <2>2
<1>11. MbcRc(narrow, REG_ROM_BANK_0) = FIN /\ MbcRc(back(src), REG_ROM_BANK_0) = FIN
  <2> HIDE DEF back, narrow
  <2> QED
    BY <1>3, <1>6, BusAssumption DEF MbcRc, REG_ROM_BANK_0, Is16
<1>12. d.regs = regs
  <2> DEFINE r0 == REG_ROM_BANK_0
  <2>1. regs \in [Registers -> 0..NumBanks-1] /\ r0 \in Registers
    BY RegsTypes DEF TypeOK
  <2>2. CASE ~open
    BY <1>1, <2>2 DEF LastBank, BankBack
  <2>3. CASE open
    <3>1. last = [regs EXCEPT ![r0] = NumBanks - 1]
      BY <1>11, <2>3 DEF LastBank, PokeReg
    <3>2. d.regs = [last EXCEPT ![r0] = regs[r0]]
      <4> HIDE DEF last, back, words
      <4> QED
        BY <1>1, <1>11, <2>3 DEF BankBack, PokeReg
    <3> HIDE DEF last, r0
    <3> QED
      BY <2>1, <3>1, <3>2
  <2> QED
    BY <2>2, <2>3
<1>13. ASSUME open PROVE src = cart.hdr
  <2>1. last[REG_ROM_BANK_0] = NumBanks - 1
    BY <1>11, <1>13, RegsTypes DEF LastBank, PokeReg, TypeOK
  <2>2. cart \in Carts
    BY <1>13 DEF TypeOK
  <2>3. cart.size["rom"] >= BankChunks /\ NumBanks % (cart.size["rom"] \div BankChunks) = 0
    BY <2>2, BanksFit
  <2>4. last[REG_ROM_BANK_0] + 1 = NumBanks
    BY <2>1, BusAssumption
  <2> HIDE DEF last
  <2> QED
    BY <1>13, <2>3, <2>4 DEF HeaderAt
<1>14. ASSUME open, ~BWidth(cart.hdr)
       PROVE  d.hdr = cart.hdr /\ d.bus = bus /\ Is16(bus)
  <2>1. Is16(bus)
    BY <1>14 DEF BusInv, WordBus
  <2>2. b = bus
    BY <1>2, <2>1, WidthFacts
  <2>3. words(src) = src
    <3>1. \A i \in HdrBytes : words(src)[i] = src[i]
      BY <2>1, <2>2 DEF WordPass
    <3>2. words(src) \in [HdrBytes -> 0..255] /\ src \in [HdrBytes -> 0..255]
      BY <1>8, <1>9 DEF Headers
    <3> HIDE DEF words
    <3> QED
      BY <3>1, <3>2
  <2>4. ~BWidth(words(src)) /\ d.hdr = src
    <3> HIDE DEF words
    <3> QED
      BY <1>1, <1>13, <1>14, <2>3
  <2>5. d.bus = Widen(Narrow(bus))
    BY <1>1, <2>2, <2>4
  <2> QED
    BY <1>2, <1>13, <1>14, <2>1, <2>4, <2>5, WidthFacts
<1>15. ASSUME open, BWidth(cart.hdr)
       PROVE  d.hdr = BytePass(WordPass(Widen(Narrow(bus)), cart.hdr), cart.hdr)
  <2>1. BWidth(words(src))
    BY <1>9, <1>13, <1>15 DEF BWidth
  <2> QED
    BY <1>1, <1>13, <1>15, <2>1
<1> QED
  BY <1>7, <1>10, <1>12, <1>14, <1>15

\* A step that touches neither the bus nor what it is judged by.
LEMMA BusKept ==
  ASSUME BusInv, UNCHANGED <<hdr, bus, cart, open>>
  PROVE  BusInv'
  BY DEF BusInv, PinsMatchWidth, OpenBusClocked, WordBus, FlagsBlanked, StrictRestores, Is16

\* What a bus must satisfy to be left behind by a request.
BusOK(b) ==
  /\ PinsOK(b)
  /\ open => b.clk
  /\ open /\ ~BWidth(cart.hdr) => Is16(b)
  /\ STRICT /\ b.clk => b.width = 16

\* A step that leaves a sound bus behind.
LEMMA BusLeft ==
  ASSUME NEW b, BusOK(b), bus' = b, ~BWidth(hdr'), UNCHANGED <<cart, open>>
  PROVE  BusInv'
  BY DEF BusInv, BusOK, PinsOK, PinsMatchWidth, OpenBusClocked, WordBus, FlagsBlanked,
         StrictRestores, Is16

\* Between requests the bus is one that may be left behind.
LEMMA BusIsOK ==
  ASSUME BusInv
  PROVE  BusOK(bus)
  BY DEF BusInv, BusOK, PinsOK, PinsMatchWidth, OpenBusClocked, WordBus, StrictRestores, Is16

\* A pair of #ifdef STRICT brackets leaves a sound bus.
LEMMA Bracketed ==
  ASSUME TypeOK, BusInv
  PROVE  BusOK(Widen(Narrow(bus)))
<1> DEFINE b == Widen(Narrow(bus))
<1> SUFFICES BusOK(b)
  OBVIOUS
<1>0. BusOK(bus) /\ bus \in BusStates
  BY BusIsOK DEF TypeOK
<1>1. CASE ~bus.clk
  <2>1. ~b.clk /\ ~open
    BY <1>0, <1>1 DEF BusOK, Narrow, Widen, Width8, Width16, ToggleWidth, Is16
  <2> HIDE DEF b
  <2> QED
    BY <2>1 DEF BusOK, PinsOK
<1>2. CASE bus.clk
  <2>1. PinsOK(bus)
    BY <1>0 DEF BusOK
  <2>2. Narrow(bus) \in BusStates /\ Narrow(bus).clk /\ PinsOK(Narrow(bus))
    BY <1>0, <1>2, <2>1, WidthFacts, BusTypes
  <2>3. b.clk /\ PinsOK(b) /\ (STRICT => b.width = 16)
    BY <2>2, WidthFacts
  <2>4. Is16(bus) => b = bus
    BY <1>0, <1>2, <2>1, WidthFacts
  <2> HIDE DEF b
  <2> QED
    BY <1>0, <2>3, <2>4 DEF BusOK
<1> QED
  BY <1>1, <1>2

\* The part of a dump after the header check leaves a sound bus.
LEMMA StreamBus ==
  ASSUME BusInv, NEW m \in Media, NEW idx, NEW h, NEW b, NEW rg, NEW rcs,
         BusOK(b), ~BWidth(h), Stream(m, idx, h, b, rg, rcs)
  PROVE  BusInv'
<1>1. CASE UNCHANGED <<hdr, bus, cart, open>>
  BY <1>1, BusKept
<1>2. CASE hdr' = ZeroHdr /\ bus' = b /\ UNCHANGED <<cart, open>>
  <2>1. ~BWidth(ZeroHdr)
    BY DEF BWidth, ZeroHdr, HdrBytes, FLAGS
  <2> QED
    BY <1>2, <2>1, BusLeft
<1>3. CASE hdr' = h /\ bus' = b /\ UNCHANGED <<cart, open>>
  BY <1>3, BusLeft
<1>4. UNCHANGED slot => UNCHANGED <<cart, open>>
  BY DEF slot
<1> QED
  BY <1>1, <1>2, <1>3, <1>4 DEF Stream, Access

\* TAP_DUMPROM and TAP_DUMPRAM leave a sound bus.
LEMMA DumpBus ==
  ASSUME TypeOK, BusInv, NEW m \in Media, NEW idx, NEW len, Dump(m, idx, len)
  PROVE  BusInv'
<1>0. UNCHANGED slot => UNCHANGED <<cart, open>>
  BY DEF slot
<1>1. CASE UNCHANGED <<hdr, bus, cart, open>>
  BY <1>1, BusKept
<1>2. CASE Stream(m, idx, hdr, bus, regs, {})
  BY <1>2, StreamBus, BusIsOK DEF BusInv, FlagsBlanked
<1>3. ASSUME bus.clk, NEW d \in DumpHeader
      PROVE  BusOK(d.bus) /\ ~BWidth(d.hdr)
  BY <1>3, HeaderRead DEF BusOK
<1>4. ASSUME bus.clk, NEW d \in DumpHeader, Stream(m, idx, d.hdr, d.bus, d.regs, d.rcs)
      PROVE  BusInv'
  BY <1>3, <1>4, StreamBus
<1>5. ASSUME bus.clk, NEW d \in DumpHeader, hdr' = ZeroHdr, bus' = d.bus, UNCHANGED <<cart, open>>
      PROVE  BusInv'
  <2>1. ~BWidth(ZeroHdr)
    BY DEF BWidth, ZeroHdr, HdrBytes, FLAGS
  <2> QED
    BY <1>3, <1>5, <2>1, BusLeft
<1> QED
  BY <1>0, <1>1, <1>2, <1>4, <1>5 DEF Dump, Access, Refuse

\* The bus is sound after power-up.
LEMMA InitBus == Init => BusInv
<1>1. ~BWidth(ZeroHdr)
  BY DEF BWidth, ZeroHdr, HdrBytes, FLAGS
<1> QED
  BY <1>1 DEF Init, BusInv, PinsMatchWidth, OpenBusClocked, WordBus, FlagsBlanked,
     StrictRestores, BusReset

\* Every step keeps the bus sound.
LEMMA BusStep == TypeOK /\ BusInv /\ [Next]_vars => BusInv'
<1> SUFFICES ASSUME TypeOK, BusInv, [Next]_vars PROVE BusInv'
  OBVIOUS
<1>0. UNCHANGED slot => UNCHANGED <<cart, open>>
  BY DEF slot
<1>00. UNCHANGED fw => UNCHANGED <<hdr, bus>>
  BY DEF fw
<1>k. CASE UNCHANGED <<hdr, bus, cart, open>>
  BY <1>k, BusKept
<1>1. CASE \/ \E len \in {0, 1} : GetState(len) \/ GetError(len)
           \/ ClrErr
           \/ \E op \in Leveled : IgnoreWhileError(op)
           \/ \E op \in Unserved \cup {"other"} : Stall(op)
  BY <1>0, <1>00, <1>1, <1>k DEF GetState, GetError, Status, ClrErr, IgnoreWhileError, Stall
<1>2. ASSUME NEW secret \in BOOLEAN, Handshake(secret) PROVE BusInv'
  BY <1>2 DEF Handshake, BusInv, PinsMatchWidth, OpenBusClocked, WordBus, FlagsBlanked,
     StrictRestores, BusSetup, BusReset, Is16
<1>b. CASE bus' = Widen(Narrow(bus)) /\ UNCHANGED <<hdr, cart, open>>
  <2>1. ~BWidth(hdr')
    BY <1>b DEF BusInv, FlagsBlanked
  <2> QED
    BY <1>b, <2>1, Bracketed, BusLeft
<1>3. ASSUME NEW port \in Ports, NEW ask \in Lens, MbcPeek(port, ask) PROVE BusInv'
  BY <1>0, <1>3, <1>b, <1>k DEF MbcPeek, Refuse, Access
<1>4. ASSUME NEW port \in Ports, NEW ask \in Lens, NEW v \in PokeVals, MbcPoke(port, ask, v)
      PROVE  BusInv'
  BY <1>0, <1>4, <1>b, <1>k DEF MbcPoke, Refuse, Access
<1>5. ASSUME NEW op, NEW addr \in Addrs, NEW ask \in Lens, RamAccess(op, addr, ask)
      PROVE  BusInv'
  BY <1>0, <1>5, <1>b, <1>k DEF RamAccess, Refuse, Access
<1>6. ASSUME NEW op, NEW addr \in Addrs, NEW ask \in Lens, RomPeek(op, addr, ask)
      PROVE  BusInv'
  BY <1>0, <1>00, <1>6, <1>k DEF RomPeek, Refuse, Access
<1>7. ASSUME NEW len \in {0, 1}, DumpHdr(len) PROVE BusInv'
  <2>1. ASSUME bus.clk, NEW d \in DumpHeader, bus' = d.bus, UNCHANGED <<hdr, cart, open>>
        PROVE  BusInv'
    <3>1. BusOK(d.bus) /\ ~BWidth(hdr')
      BY <2>1, HeaderRead DEF BusOK, BusInv, FlagsBlanked
    <3> QED
      BY <2>1, <3>1, BusLeft
  <2> QED
    BY <1>0, <1>7, <1>k, <2>1 DEF DumpHdr, Refuse, Access
<1>8. ASSUME NEW m \in Media, NEW idx \in Idxs, NEW len \in {0, 1}, Dump(m, idx, len)
      PROVE  BusInv'
  BY <1>8, DumpBus
<1>9. ASSUME NEW c, SetConfig \/ ChangeCart(c) PROVE BusInv'
  BY <1>00, <1>9 DEF SetConfig, ChangeCart, BusInv, PinsMatchWidth, OpenBusClocked, WordBus,
     FlagsBlanked, StrictRestores
<1>10. CASE PowerCycle
  <2>1. ~BWidth(ZeroHdr)
    BY DEF BWidth, ZeroHdr, HdrBytes, FLAGS
  <2> QED
    BY <1>10, <2>1 DEF PowerCycle, BusInv, PinsMatchWidth, OpenBusClocked, WordBus,
       FlagsBlanked, StrictRestores, BusReset
<1>11. CASE UNCHANGED vars
  BY <1>11, <1>k DEF vars
<1> QED
  BY <1>1, <1>2, <1>3, <1>4, <1>5, <1>6, <1>7, <1>8, <1>9, <1>10, <1>11 DEF Next, Request

\* In every reachable state the pins of the bus agree with its width, a cartridge
\* that answers is on a clocked bus, a word-wide one finds the bus 16 bits wide,
\* and a STRICT build leaves the bus 16 bits wide.
THEOREM BusCorrect ==
  Spec => [](PinsMatchWidth /\ OpenBusClocked /\ WordBus /\ StrictRestores)
<1>1. TypeOK /\ BusInv => PinsMatchWidth /\ OpenBusClocked /\ WordBus /\ StrictRestores
  BY DEF BusInv
<1> QED
  BY <1>1, InitType, InitBus, TypeStep, BusStep, PTL DEF Spec

----------------------------------------------------------------------------
(* The bank registers.                                                     *)

\* OwnBankOnly, of one step.
BanksKept ==
  open /\ open' /\ reply'.op \notin {"MBCPOKE", "HANDSHK"} =>
    \A r \in Registers :
      regs'[r] # regs[r] => \E m \in Media : r = BankReg[m] /\ reply'.op = DumpOp[m]

\* A step that moves no register, or that locks the cartridge, or that is the
\* host's own doing.
LEMMA Unmoved ==
  regs' = regs \/ ~open' \/ reply'.op \in {"MBCPOKE", "HANDSHK"} => BanksKept
  BY DEF BanksKept

\* A dump pokes the bank register of its medium, from registers that are those
\* the request found.
LEMMA StreamBanks ==
  ASSUME TypeOK, NEW m \in Media, NEW idx, NEW h, NEW b, NEW rcs,
         Stream(m, idx, h, b, regs, rcs)
  PROVE  BanksKept
<1>0. regs \in [Registers -> 0..NumBanks-1]
  BY DEF TypeOK
<1>1. CASE regs' = regs
  BY <1>1, Unmoved
<1>2. ASSUME NEW size, reply'.op = DumpOp[m],
             regs' = IF idx % BankChunks = 0 /\ open
                     THEN PokeReg(regs, b, BankReg[m], BankOf(size, idx)) ELSE regs
      PROVE  BanksKept
  <2>1. \A r \in Registers : r # BankReg[m] => regs'[r] = regs[r]
    BY <1>0, <1>2 DEF PokeReg
  <2> QED
    BY <1>2, <2>1 DEF BanksKept
<1> QED
  BY <1>1, <1>2 DEF Stream, Access, Reply, slot

LEMMA DumpBanks ==
  ASSUME TypeOK, BusInv, NEW m \in Media, NEW idx \in Idxs, NEW len \in {0, 1},
         Dump(m, idx, len)
  PROVE  BanksKept
<1>1. CASE regs' = regs
  BY <1>1, Unmoved
<1>2. CASE Stream(m, idx, hdr, bus, regs, {})
  BY <1>2, StreamBanks
<1>3. ASSUME bus.clk, NEW d \in DumpHeader, regs' = d.regs
      PROVE  BanksKept
  BY <1>3, HeaderRead, Unmoved
<1>4. ASSUME bus.clk, NEW d \in DumpHeader, Stream(m, idx, d.hdr, d.bus, d.regs, d.rcs)
      PROVE  BanksKept
  <2>1. Stream(m, idx, d.hdr, d.bus, regs, d.rcs)
    BY <1>4, HeaderRead
  <2> QED
    BY <2>1, StreamBanks
<1> QED
  BY <1>1, <1>2, <1>3, <1>4 DEF Dump, Access, Refuse, slot

LEMMA DumpHdrBanks ==
  ASSUME TypeOK, BusInv, NEW len \in {0, 1}, DumpHdr(len)
  PROVE  BanksKept
<1>1. CASE regs' = regs
  BY <1>1, Unmoved
<1>2. ASSUME bus.clk, NEW d \in DumpHeader, regs' = d.regs
      PROVE  BanksKept
  BY <1>2, HeaderRead, Unmoved
<1> QED
  BY <1>1, <1>2 DEF DumpHdr, Access, Refuse, slot

LEMMA BankStep == TypeOK /\ BusInv /\ Next => BanksKept
<1> SUFFICES ASSUME TypeOK, BusInv, Next PROVE BanksKept
  OBVIOUS
<1>1. ASSUME NEW port \in Ports, NEW ask \in Lens, NEW v \in PokeVals, MbcPoke(port, ask, v)
      PROVE  BanksKept
  <2>1. regs' = regs \/ reply'.op = "MBCPOKE"
    BY <1>1 DEF MbcPoke, Access, Refuse, Reply, slot
  <2> QED
    BY <2>1, Unmoved
<1>2. ASSUME NEW secret \in BOOLEAN, Handshake(secret) PROVE BanksKept
  <2>1. reply'.op = "HANDSHK"
    BY <1>2 DEF Handshake, Reply
  <2> QED
    BY <2>1, Unmoved
<1>3. CASE SetConfig \/ (\E c \in Carts \cup {NoCart} : ChangeCart(c)) \/ PowerCycle
  <2>1. ~open'
    BY <1>3 DEF SetConfig, ChangeCart, PowerCycle
  <2> QED
    BY <2>1, Unmoved
<1>4. ASSUME NEW port \in Ports, NEW ask \in Lens, MbcPeek(port, ask) PROVE BanksKept
  BY <1>4, Unmoved DEF MbcPeek, Access, Refuse, slot
<1>5. ASSUME NEW op \in {"RAMPEEK", "RAMPOKE"}, NEW addr \in Addrs, NEW ask \in Lens,
             RamAccess(op, addr, ask)
      PROVE  BanksKept
  BY <1>5, Unmoved DEF RamAccess, Access, Refuse, slot
<1>6. ASSUME NEW op \in {"R0MPEEK", "R1MPEEK"}, NEW addr \in Addrs, NEW ask \in Lens,
             RomPeek(op, addr, ask)
      PROVE  BanksKept
  BY <1>6, Unmoved DEF RomPeek, Access, Refuse, slot
<1>7. CASE \/ \E len \in {0, 1} : GetState(len) \/ GetError(len)
           \/ ClrErr
           \/ \E op \in Leveled : IgnoreWhileError(op)
           \/ \E op \in Unserved \cup {"other"} : Stall(op)
  BY <1>7, Unmoved DEF GetState, GetError, Status, ClrErr, IgnoreWhileError, Stall, slot
<1>8. ASSUME NEW len \in {0, 1}, DumpHdr(len) PROVE BanksKept
  BY <1>8, DumpHdrBanks
<1>9. ASSUME NEW m \in Media, NEW idx \in Idxs, NEW len \in {0, 1}, Dump(m, idx, len)
      PROVE  BanksKept
  BY <1>9, DumpBanks
<1> QED
  BY <1>1, <1>2, <1>3, <1>4, <1>5, <1>6, <1>7, <1>8, <1>9 DEF Next, Request

\* While a cartridge answers, no register of its mapper moves but by the host's
\* poke or by the dump of the medium it selects: __dump_header puts the ROM bank
\* back, also under STRICT and for a header that is then refused.
THEOREM BanksCorrect == Spec => OwnBankOnly
<1>1. TypeOK /\ BusInv /\ [Next]_vars => [BanksKept]_vars
  BY BankStep
<1>2. [BanksKept]_vars <=>
        [open /\ open' /\ reply'.op \notin {"MBCPOKE", "HANDSHK"} =>
           \A r \in Registers :
             regs'[r] # regs[r] => \E m \in Media : r = BankReg[m] /\ reply'.op = DumpOp[m]]_vars
  BY DEF BanksKept
<1>3. Spec => []BusInv
  BY InitType, InitBus, TypeStep, BusStep, PTL DEF Spec
<1> QED
  BY <1>1, <1>2, <1>3, TypeCorrect, PTL DEF Spec, OwnBankOnly

----------------------------------------------------------------------------
(* The header.                                                             *)

\* HeaderExact, of one step.
HeaderAnswered ==
  open /\ ~BWidth(cart.hdr) /\ reply'.op = "DUMPHDR" /\ reply'.ask = 1 =>
    reply'.data = cart.hdr

LEMMA DumpHdrAnswered ==
  ASSUME TypeOK, BusInv, NEW len \in {0, 1}, DumpHdr(len)
  PROVE  HeaderAnswered
<1>1. CASE Refuse(TAP_ERR_DATA, "DUMPHDR", 0, len) /\ len = 0
  BY <1>1 DEF Refuse, Reply, HeaderAnswered
<1>2. CASE reply' = NoReply
  BY <1>2 DEF NoReply, Reply, HeaderAnswered
<1>3. ASSUME bus.clk, NEW d \in DumpHeader, reply' = Reply("DUMPHDR", 0, len, d.hdr, d.rcs)
      PROVE  HeaderAnswered
  BY <1>3, HeaderRead DEF Reply, HeaderAnswered
<1> QED
  BY <1>1, <1>2, <1>3 DEF DumpHdr, Access

LEMMA HeaderStep == TypeOK /\ BusInv /\ Next => HeaderAnswered
<1> SUFFICES ASSUME TypeOK, BusInv, Next PROVE HeaderAnswered
  OBVIOUS
<1>o. reply'.op # "DUMPHDR" \/ reply'.ask # 1 => HeaderAnswered
  BY DEF HeaderAnswered
<1>1. ASSUME NEW len \in {0, 1}, DumpHdr(len) PROVE HeaderAnswered
  BY <1>1, DumpHdrAnswered
<1>2. ASSUME NEW op \in Leveled, IgnoreWhileError(op) PROVE HeaderAnswered
  BY <1>2, <1>o DEF IgnoreWhileError, Reply
<1>3. ASSUME NEW m \in Media, NEW idx \in Idxs, NEW len \in {0, 1}, Dump(m, idx, len)
      PROVE  HeaderAnswered
  <2>1. reply'.op \in {"none", "DUMPROM", "DUMPRAM"}
    BY <1>3 DEF Dump, Stream, Refuse, Access, NoReply, Reply, DumpOp, Media
  <2> QED
    BY <1>o, <2>1
<1>4. CASE \/ \E len \in {0, 1} : GetState(len) \/ GetError(len)
           \/ ClrErr
           \/ \E op \in Unserved \cup {"other"} : Stall(op)
           \/ \E secret \in BOOLEAN : Handshake(secret)
           \/ SetConfig \/ (\E c \in Carts \cup {NoCart} : ChangeCart(c)) \/ PowerCycle
  BY <1>4, <1>o DEF GetState, GetError, Status, ClrErr, Stall, Handshake, SetConfig, ChangeCart,
     PowerCycle, NoReply, Reply
<1>5. CASE \/ \E port \in Ports, ask \in Lens : MbcPeek(port, ask)
           \/ \E port \in Ports, ask \in Lens, v \in PokeVals : MbcPoke(port, ask, v)
  BY <1>5, <1>o DEF MbcPeek, MbcPoke, Refuse, Access, NoReply, Reply
<1>6. ASSUME NEW op \in {"RAMPEEK", "RAMPOKE"}, NEW addr \in Addrs, NEW ask \in Lens,
             RamAccess(op, addr, ask)
      PROVE  HeaderAnswered
  BY <1>6, <1>o DEF RamAccess, Refuse, Access, NoReply, Reply
<1>7. ASSUME NEW op \in {"R0MPEEK", "R1MPEEK"}, NEW addr \in Addrs, NEW ask \in Lens,
             RomPeek(op, addr, ask)
      PROVE  HeaderAnswered
  BY <1>7, <1>o DEF RomPeek, Refuse, Access, NoReply, Reply
<1> QED
  BY <1>1, <1>2, <1>3, <1>4, <1>5, <1>6, <1>7 DEF Next, Request

\* DUMPHDR gives the header of every word-wide cartridge that answers, with STRICT
\* as without, after whatever banks and widths the requests before it have left.
THEOREM HeaderExactCorrect == Spec => HeaderExact
<1>1. TypeOK /\ BusInv /\ [Next]_vars => [HeaderAnswered]_vars
  BY HeaderStep
<1>2. [HeaderAnswered]_vars <=>
        [open /\ ~BWidth(cart.hdr) /\ reply'.op = "DUMPHDR" /\ reply'.ask = 1 =>
           reply'.data = cart.hdr]_vars
  BY DEF HeaderAnswered
<1>3. Spec => []BusInv
  BY InitType, InitBus, TypeStep, BusStep, PTL DEF Spec
<1> QED
  BY <1>1, <1>2, <1>3, TypeCorrect, PTL DEF Spec, HeaderExact

----------------------------------------------------------------------------
(* The raw requests, for every size of region, address and length: byte    *)
(* accesses stay in their region, and a request gets every byte that is    *)
(* due from its own address, with STRICT as without.                       *)

\* RawExact, of one step.
Exactly ==
  /\ reply'.op \in DOMAIN RegionOf /\ reply'.ask > 0 /\ err' = TAP_ERR_NONE /\ open
  /\ reply'.op \in {"R0MPEEK", "R1MPEEK"} => Is16(bus)
  => AllDue(reply')

\* A step that answers a raw request with nothing, or no raw request at all.
Silent == reply'.data = <<>> /\ (reply'.ask = 0 \/ err' # TAP_ERR_NONE)
Elsewhere == reply'.op \notin DOMAIN RegionOf

LEMMA SilentHolds == Silent \/ Elsewhere => RawContained' /\ Exactly
  BY DEF Silent, Elsewhere, RawContained, Exactly, RegionOf

----------------------------------------------------------------------------
(* The arithmetic of the address map.                                      *)

\* An address of the RAM region, or the one above it that the trim of a RAM
\* request lets through: only the former is valid for RAM.
LEMMA RamAddr ==
  ASSUME NEW i \in 0..REGION_SIZE
  PROVE  /\ SRAM_BASE + i \in Nat
         /\ RAM_ADDR_VALID(SRAM_BASE + i) <=> i < REGION_SIZE
<1> DEFINE R == REGION_SIZE
<1>1. R \in Nat \ {0} /\ i \in Nat /\ i <= R
  BY BusAssumption
<1> HIDE DEF R
<1>2. R + i \in Nat /\ R + i < 16 * R
  BY <1>1
<1>3. (R + i) % (16 * R) = R + i
  BY <1>1, <1>2
<1>4. CASE i < R
  <2>1. (R + i) \div R = 1
    <3>1. R + i = 1 * R + i /\ 0 <= i /\ i < R
      BY <1>1, <1>4
    <3> QED
      BY <1>1, <3>1
  <2> QED
    BY <1>2, <1>3, <1>4, <2>1 DEF R, SRAM_BASE, AddrSpace, RAM_ADDR_VALID
<1>5. CASE i = R
  <2>1. (R + i) \div R = 2
    <3>1. R + i = 2 * R + 0
      BY <1>1, <1>5
    <3> QED
      BY <1>1, <3>1
  <2> QED
    BY <1>1, <1>2, <1>3, <1>5, <2>1 DEF R, SRAM_BASE, AddrSpace, RAM_ADDR_VALID
<1> QED
  BY <1>1, <1>4, <1>5

\* Every address of the two ROM regions is valid for the ROM.
LEMMA RomAddr ==
  ASSUME NEW i \in 0..2 * REGION_SIZE - 1
  PROVE  ROM0_BASE + i \in Nat /\ ROM_ADDR_VALID(ROM0_BASE + i)
<1> DEFINE R == REGION_SIZE
<1>1. R \in Nat \ {0} /\ i \in Nat /\ i < 2 * R
  BY BusAssumption
<1> HIDE DEF R
<1>2. 2 * R + i \in Nat /\ 2 * R + i < 16 * R
  BY <1>1
<1>3. (2 * R + i) % (16 * R) = 2 * R + i
  BY <1>1, <1>2
<1>4. (2 * R + i) \div (2 * R) # 0
  <2> DEFINE S == 2 * R
  <2>1. S \in Nat \ {0} /\ S + i >= S
    BY <1>1
  <2> HIDE DEF S
  <2>2. (S + i) \div S # 0
    BY <1>1, <2>1
  <2> QED
    BY <2>2 DEF S
<1> QED
  BY <1>2, <1>3, <1>4 DEF R, ROM0_BASE, AddrSpace, ROM_ADDR_VALID

\* The trims leave all bytes that are due, and for ports and RAM none past the
\* region but for the one address of RamWindow.  What is due is in the region.
LEMMA MbcWindowFacts ==
  ASSUME NEW port \in Ports, NEW ask \in Nat \ {0}, NEW op \in {"MBCPEEK", "MBCPOKE"}
  PROVE  /\ MbcWindow(port, ask) \in 0..ask /\ port + MbcWindow(port, ask) - 1 <= REG_MAX
         /\ Due(op, port, ask) \in Int /\ Due(op, port, ask) <= MbcWindow(port, ask)
  BY BusAssumption, TapAssumption DEF MbcWindow, Due, Top

LEMMA RamWindowFacts ==
  ASSUME NEW addr \in Addrs, NEW ask \in Nat \ {0}, NEW op \in {"RAMPEEK", "RAMPOKE"}
  PROVE  /\ RamWindow(addr, ask) \in 0..ask
         /\ addr + RamWindow(addr, ask) - 1 <= REGION_SIZE
         /\ Due(op, addr, ask) \in Int /\ Due(op, addr, ask) <= RamWindow(addr, ask)
         /\ addr + Due(op, addr, ask) <= REGION_SIZE
  BY BusAssumption, TapAssumption DEF RamWindow, Due, Top

LEMMA RomWindowFacts ==
  ASSUME NEW addr \in Addrs, NEW ask \in Nat \ {0}, NEW op \in {"R0MPEEK", "R1MPEEK"}
  PROVE  /\ RomWindow(addr, ask) \in 0..ask
         /\ Due(op, addr, ask) \in Int /\ Due(op, addr, ask) <= RomWindow(addr, ask)
         /\ addr + Due(op, addr, ask) <= REGION_SIZE
  BY BusAssumption, TapAssumption DEF RomWindow, Due, Top

\* Under STRICT the bus is 8 bits wide between the brackets.
LEMMA NotWide == STRICT => ~Is16(Narrow(bus))
  BY DEF Narrow, Width8, ToggleWidth, Is16

----------------------------------------------------------------------------
(* The raw requests.                                                       *)

\* A refusal is an error and an empty answer.
LEMMA RefuseSilent ==
  ASSUME NEW e \in {TAP_ERR_DATA, TAP_ERR_ADDR}, NEW op, NEW at, NEW ask, Refuse(e, op, at, ask)
  PROVE  RawContained' /\ Exactly
<1>1. Silent
  BY DEF Refuse, SetErrorState, Reply, Silent, TAP_ERR_DATA, TAP_ERR_ADDR, TAP_ERR_NONE
<1> QED
  BY <1>1, SilentHolds

\* So is nothing left of a request that faults.
LEMMA CrashElsewhere == reply' = NoReply => RawContained' /\ Exactly
<1>1. reply' = NoReply => Elsewhere
  BY DEF NoReply, Reply, Elsewhere, RegionOf
<1> QED
  BY <1>1, SilentHolds

\* MBCPEEK and MBCPOKE answer alike.
LEMMA MbcAnswer ==
  ASSUME TypeOK, NEW op \in {"MBCPEEK", "MBCPOKE"},
         NEW port \in Ports, NEW ask \in Lens, ask > 0, REG_MIN <= port, NEW rcs,
         reply' = Reply(op, port, ask,
                    [i \in 1..MbcWindow(port, ask) |->
                       Arrived(MbcRc(Narrow(bus), port + i - 1), port + i - 1)], rcs)
  PROVE  RawContained' /\ Exactly
<1> DEFINE n == MbcWindow(port, ask)
           data == [i \in 1..n |-> Arrived(MbcRc(Narrow(bus), port + i - 1), port + i - 1)]
<1>1. port \in Nat /\ ask \in Nat \ {0} /\ REG_MIN \in Nat \ {0} /\ REG_MAX \in Nat
  BY TapAssumption, BusAssumption
<1>2. /\ n \in 0..ask /\ port + n - 1 <= REG_MAX
      /\ Due(op, port, ask) \in Int /\ Due(op, port, ask) <= n
  BY <1>1, MbcWindowFacts
<1>3. RegionOf[op] = 0 /\ Top(op) = REG_MAX /\ op \in DOMAIN RegionOf
  BY DEF RegionOf, Top
<1>4. reply'.op = op /\ reply'.at = port /\ reply'.ask = ask /\ reply'.data = data
  BY DEF Reply
<1> HIDE DEF n
<1>5. ASSUME NEW i \in 1..n
      PROVE  /\ port + i - 1 \in 0..REG_MAX
             /\ MbcRc(Narrow(bus), port + i - 1) = FIN
             /\ data[i] = IF open THEN port + i - 1 ELSE Floating
  <2>1. port + i - 1 \in 0..REG_MAX /\ ~(REG_MIN > port + i - 1)
    BY <1>1, <1>2
  <2>2. MbcRc(Narrow(bus), port + i - 1) = FIN
    BY <2>1, NotWide DEF MbcRc
  <2> QED
    BY <2>1, <2>2 DEF Arrived
<1>6. DOMAIN data = 1..n /\ data = [i \in 1..n |-> data[i]]
  OBVIOUS
<1> HIDE DEF data
<1>7. RawContained'
  <2>1. ASSUME NEW i \in 1..n, data[i] >= 0
        PROVE  data[i] \in RegionOf[op] .. RegionOf[op] + Top(op)
    <3>1. data[i] = port + i - 1 /\ port + i - 1 \in 0..REG_MAX
      BY <1>5, <2>1 DEF Floating
    <3> QED
      BY <1>1, <1>3, <3>1
  <2> QED
    BY <1>4, <1>6, <2>1 DEF RawContained
<1>8. Exactly
  <2>1. 1..Due(op, port, ask) \subseteq 1..n /\ 1..n \subseteq 1..ask
    BY <1>1, <1>2
  <2>2. open => \A i \in 1..Due(op, port, ask) : data[i] = RegionOf[op] + port + i - 1
    BY <1>1, <1>3, <1>5, <2>1
  <2> QED
    BY <1>4, <1>6, <2>1, <2>2 DEF Exactly, AllDue
<1> QED
  BY <1>7, <1>8

LEMMA MbcPeekRaw ==
  ASSUME TypeOK, NEW port \in Ports, NEW ask \in Lens, MbcPeek(port, ask)
  PROVE  RawContained' /\ Exactly
<1>1. CASE Refuse(TAP_ERR_DATA, "MBCPEEK", port, ask) \/ Refuse(TAP_ERR_ADDR, "MBCPEEK", port, ask)
  BY <1>1, RefuseSilent
<1>2. CASE reply' = NoReply
  BY <1>2, CrashElsewhere
<1>3. CASE /\ ask > 0 /\ REG_MIN <= port
           /\ \E rcs : reply' = Reply("MBCPEEK", port, ask,
                [i \in 1..MbcWindow(port, ask) |->
                   Arrived(MbcRc(Narrow(bus), port + i - 1), port + i - 1)], rcs)
  BY <1>3, MbcAnswer
<1> QED
  BY <1>1, <1>2, <1>3 DEF MbcPeek, Access

LEMMA MbcPokeRaw ==
  ASSUME TypeOK, NEW port \in Ports, NEW ask \in Lens, NEW v \in PokeVals, MbcPoke(port, ask, v)
  PROVE  RawContained' /\ Exactly
<1>1. CASE Refuse(TAP_ERR_DATA, "MBCPOKE", port, ask) \/ Refuse(TAP_ERR_ADDR, "MBCPOKE", port, ask)
  BY <1>1, RefuseSilent
<1>2. CASE reply' = NoReply
  BY <1>2, CrashElsewhere
<1>3. CASE /\ ask > 0 /\ REG_MIN <= port
           /\ \E rcs : reply' = Reply("MBCPOKE", port, ask,
                [i \in 1..MbcWindow(port, ask) |->
                   Arrived(MbcRc(Narrow(bus), port + i - 1), port + i - 1)], rcs)
  BY <1>3, MbcAnswer
<1> QED
  BY <1>1, <1>2, <1>3 DEF MbcPoke, Access

LEMMA RamAnswer ==
  ASSUME TypeOK, NEW op \in {"RAMPEEK", "RAMPOKE"},
         NEW addr \in Addrs, NEW ask \in Lens, ask > 0, NEW rcs,
         reply' = Reply(op, addr, ask,
                    [i \in 1..RamWindow(addr, ask) |->
                       Arrived(SramRc(Narrow(bus), SRAM_BASE + addr + i - 1),
                               SRAM_BASE + addr + i - 1)], rcs)
  PROVE  RawContained' /\ Exactly
<1> DEFINE n == RamWindow(addr, ask)
           a(i) == SRAM_BASE + addr + i - 1
           data == [i \in 1..n |-> Arrived(SramRc(Narrow(bus), a(i)), a(i))]
<1>1. addr \in 0..REGION_SIZE - 1 /\ ask \in Nat \ {0} /\ REGION_SIZE \in Nat \ {0}
      /\ SRAM_BASE = REGION_SIZE
  BY TapAssumption, BusAssumption DEF SRAM_BASE
<1>2. /\ n \in 0..ask /\ addr + n - 1 <= REGION_SIZE
      /\ Due(op, addr, ask) \in Int /\ Due(op, addr, ask) <= n
      /\ addr + Due(op, addr, ask) <= REGION_SIZE
  BY <1>1, RamWindowFacts
<1>3. RegionOf[op] = SRAM_BASE /\ Top(op) = REGION_SIZE - 1 /\ op \in DOMAIN RegionOf
  BY DEF RegionOf, Top
<1>4. reply'.op = op /\ reply'.at = addr /\ reply'.ask = ask /\ reply'.data = data
  BY DEF Reply
<1> HIDE DEF n
<1>5. ASSUME NEW i \in 1..n
      PROVE  /\ a(i) \in Nat
             /\ data[i] = IF addr + i - 1 < REGION_SIZE
                          THEN (IF open THEN a(i) ELSE Floating) ELSE Stale
  <2>1. addr + i - 1 \in 0..REGION_SIZE /\ a(i) = SRAM_BASE + (addr + i - 1)
    BY <1>1, <1>2
  <2>2. a(i) \in Nat /\ (RAM_ADDR_VALID(a(i)) <=> addr + i - 1 < REGION_SIZE)
    <3> DEFINE k == addr + i - 1
    <3>1. k \in 0..REGION_SIZE /\ a(i) = SRAM_BASE + k
      BY <2>1
    <3> HIDE DEF k, a
    <3>2. a(i) \in Nat /\ (RAM_ADDR_VALID(a(i)) <=> k < REGION_SIZE)
      BY <3>1, RamAddr
    <3> QED
      BY <3>2 DEF k
  <2>3. SramRc(Narrow(bus), a(i)) = IF RAM_ADDR_VALID(a(i)) THEN FIN ELSE BADADDR
    BY NotWide DEF SramRc
  <2> QED
    BY <2>2, <2>3 DEF Arrived, FIN, BADADDR
<1>6. DOMAIN data = 1..n /\ data = [i \in 1..n |-> data[i]]
  OBVIOUS
<1> HIDE DEF data
<1>7. RawContained'
  <2>1. ASSUME NEW i \in 1..n, data[i] >= 0
        PROVE  data[i] \in RegionOf[op] .. RegionOf[op] + Top(op)
    <3>1. addr + i - 1 < REGION_SIZE /\ data[i] = a(i)
      BY <1>5, <2>1 DEF Floating, Stale
    <3> QED
      BY <1>1, <1>2, <1>3, <3>1
  <2> QED
    BY <1>4, <1>6, <2>1 DEF RawContained
<1>8. Exactly
  <2>1. 1..Due(op, addr, ask) \subseteq 1..n /\ 1..n \subseteq 1..ask
    BY <1>1, <1>2
  <2>2. ASSUME open, NEW i \in 1..Due(op, addr, ask)
        PROVE  data[i] = RegionOf[op] + addr + i - 1
    <3>1. i \in 1..n /\ addr + i - 1 < REGION_SIZE
      BY <1>1, <1>2, <2>1
    <3> QED
      BY <1>3, <1>5, <2>2, <3>1
  <2> QED
    BY <1>4, <1>6, <2>1, <2>2 DEF Exactly, AllDue
<1> QED
  BY <1>7, <1>8

LEMMA RamAccessRaw ==
  ASSUME TypeOK, NEW op \in {"RAMPEEK", "RAMPOKE"}, NEW addr \in Addrs, NEW ask \in Lens,
         RamAccess(op, addr, ask)
  PROVE  RawContained' /\ Exactly
<1>1. CASE Refuse(TAP_ERR_DATA, op, addr, ask)
  BY <1>1, RefuseSilent
<1>2. CASE reply' = NoReply
  BY <1>2, CrashElsewhere
<1>3. CASE /\ ask > 0
           /\ \E rcs : reply' = Reply(op, addr, ask,
                [i \in 1..RamWindow(addr, ask) |->
                   Arrived(SramRc(Narrow(bus), SRAM_BASE + addr + i - 1),
                           SRAM_BASE + addr + i - 1)], rcs)
  BY <1>3, RamAnswer
<1> QED
  BY <1>1, <1>2, <1>3 DEF RamAccess, Access

\* On a bus 16 bits wide a ROM request reads whole words of its region.
LEMMA RomPeekRaw ==
  ASSUME TypeOK, NEW op \in {"R0MPEEK", "R1MPEEK"}, NEW addr \in Addrs, NEW ask \in Lens,
         RomPeek(op, addr, ask)
  PROVE  RawContained' /\ Exactly
<1> DEFINE n == RomWindow(addr, ask)
           base == IF op = "R1MPEEK" THEN ROM1_BASE ELSE ROM0_BASE
           a(i) == base + addr + i - 1
           word(i) == a(i) - (a(i) % 2)
           rc(i) == NorRc(bus, word(i))
           byte(i) == IF rc(i) = FIN /\ a(i) # word(i) /\ ~Is16(bus) THEN Blank
                      ELSE Arrived(rc(i), a(i))
           data == [i \in 1..n |-> byte(i)]
<1>1. CASE Refuse(TAP_ERR_DATA, op, addr, ask) \/ Refuse(TAP_ERR_ADDR, op, addr, ask)
  BY <1>1, RefuseSilent
<1>2. CASE reply' = NoReply
  BY <1>2, CrashElsewhere
<1>3. CASE ask >= 2 /\ \E rcs : reply' = Reply(op, addr, ask, data, rcs)
  <2>1. /\ addr \in 0..REGION_SIZE - 1 /\ ask \in Nat \ {0} /\ REGION_SIZE \in Nat \ {0}
        /\ REGION_SIZE % 2 = 0
    BY <1>3, TapAssumption, BusAssumption
  <2>2. reply'.op = op /\ reply'.at = addr /\ reply'.ask = ask /\ reply'.data = data
    BY <1>3 DEF Reply
  <2>3. RegionOf[op] = base /\ Top(op) = REGION_SIZE - 1 /\ op \in DOMAIN RegionOf
    BY DEF RegionOf, Top
  <2>4. RawContained'
    BY <2>2 DEF RawContained
  <2>5. Exactly
    <3> DEFINE due == Due(op, addr, ask)
    <3>0. /\ n \in 0..ask /\ due \in Int /\ due <= n /\ addr + due <= REGION_SIZE
      BY <2>1, RomWindowFacts
    <3> HIDE DEF due, n
    <3>1. 1..due \subseteq 1..n /\ 1..n \subseteq 1..ask
      BY <2>1, <3>0
    <3>2. ASSUME open, Is16(bus), NEW i \in 1..due PROVE byte(i) = a(i)
      <4>1. PICK k \in 0..2 * REGION_SIZE - 1 : a(i) = ROM0_BASE + k
        <5>1. CASE op = "R0MPEEK"
          <6>1. addr + i - 1 \in 0..2 * REGION_SIZE - 1 /\ a(i) = ROM0_BASE + (addr + i - 1)
            BY <2>1, <3>0, <5>1 DEF ROM0_BASE
          <6> QED
            BY <6>1
        <5>2. CASE op = "R1MPEEK"
          <6>1. /\ REGION_SIZE + addr + i - 1 \in 0..2 * REGION_SIZE - 1
                /\ a(i) = ROM0_BASE + (REGION_SIZE + addr + i - 1)
            BY <2>1, <3>0, <5>2 DEF ROM0_BASE, ROM1_BASE
          <6> QED
            BY <6>1
        <5> QED
          BY <5>1, <5>2
      <4> DEFINE w == k - (k % 2)
      <4>2. w \in 0..2 * REGION_SIZE - 1 /\ w % 2 = 0
        BY <2>1
      <4>3. word(i) = ROM0_BASE + w
        <5>1. ROM0_BASE = 2 * REGION_SIZE
          BY DEF ROM0_BASE
        <5>2. a(i) % 2 = k % 2
          BY <2>1, <4>1, <5>1
        <5> QED
          BY <2>1, <4>1, <5>1, <5>2
      <4>4. word(i) % 2 = 0
        BY <2>1, <4>2, <4>3 DEF ROM0_BASE
      <4>5. rc(i) = FIN
        <5> HIDE DEF w, word
        <5>1. ROM_ADDR_VALID(word(i))
          BY <4>2, <4>3, RomAddr
        <5> QED
          BY <4>4, <5>1 DEF NorRc
      <4> HIDE DEF rc, word, a
      <4> QED
        BY <3>2, <4>5 DEF Arrived
    <3>3. \A i \in 1..due : a(i) = RegionOf[op] + addr + i - 1
      BY <2>3
    <3> HIDE DEF byte, a
    <3>4. DOMAIN data = 1..n /\ \A i \in 1..n : data[i] = byte(i)
      OBVIOUS
    <3> HIDE DEF data
    <3>5. open /\ Is16(bus) => \A i \in 1..due : data[i] = RegionOf[op] + addr + i - 1
      BY <3>1, <3>2, <3>3, <3>4
    <3> QED
      BY <2>2, <3>1, <3>4, <3>5 DEF Exactly, AllDue, due
  <2> QED
    BY <2>4, <2>5
<1>4. \/ Refuse(TAP_ERR_DATA, op, addr, ask) \/ Refuse(TAP_ERR_ADDR, op, addr, ask)
      \/ reply' = NoReply
      \/ ask >= 2 /\ \E rcs : reply' = Reply(op, addr, ask, data, rcs)
  BY DEF RomPeek, Access
<1> QED
  BY <1>1, <1>2, <1>3, <1>4

----------------------------------------------------------------------------
(* All other steps.                                                        *)

LEMMA OtherRaw ==
  ASSUME TypeOK,
         \/ \E len \in {0, 1} : GetState(len) \/ GetError(len)
         \/ ClrErr
         \/ \E op \in Leveled : IgnoreWhileError(op)
         \/ \E op \in Unserved \cup {"other"} : Stall(op)
         \/ \E secret \in BOOLEAN : Handshake(secret)
         \/ \E len \in {0, 1} : DumpHdr(len)
         \/ \E m \in Media, idx \in Idxs, len \in {0, 1} : Dump(m, idx, len)
         \/ SetConfig \/ (\E c \in Carts \cup {NoCart} : ChangeCart(c)) \/ PowerCycle
  PROVE  RawContained' /\ Exactly
<1>1. CASE \E op \in Leveled : IgnoreWhileError(op)
  <2>1. Silent
    BY <1>1 DEF IgnoreWhileError, Reply, Silent
  <2> QED
    BY <2>1, SilentHolds
<1>2. CASE \/ \E len \in {0, 1} : GetState(len) \/ GetError(len)
           \/ ClrErr
           \/ \E op \in Unserved \cup {"other"} : Stall(op)
           \/ \E secret \in BOOLEAN : Handshake(secret)
           \/ SetConfig \/ (\E c \in Carts \cup {NoCart} : ChangeCart(c)) \/ PowerCycle
  <2>1. Elsewhere
    BY <1>2 DEF GetState, GetError, Status, ClrErr, Stall, Handshake, SetConfig, ChangeCart,
       PowerCycle, NoReply, Reply, Elsewhere, RegionOf
  <2> QED
    BY <2>1, SilentHolds
<1>3. CASE \E len \in {0, 1} : DumpHdr(len)
  <2>1. Elsewhere
    BY <1>3 DEF DumpHdr, Refuse, Access, NoReply, Reply, Elsewhere, RegionOf
  <2> QED
    BY <2>1, SilentHolds
<1>4. ASSUME NEW m \in Media, NEW idx \in Idxs, NEW len \in {0, 1}, Dump(m, idx, len)
      PROVE  RawContained' /\ Exactly
  <2>1. reply'.op \in {"none", "DUMPROM", "DUMPRAM"}
    BY <1>4 DEF Dump, Stream, Refuse, Access, NoReply, Reply, DumpOp, Media
  <2>2. Elsewhere
    BY <2>1 DEF Elsewhere, RegionOf
  <2> QED
    BY <2>2, SilentHolds
<1> QED
  BY <1>1, <1>2, <1>3, <1>4

LEMMA RawStep == TypeOK /\ Next => RawContained' /\ Exactly
<1> SUFFICES ASSUME TypeOK, Next PROVE RawContained' /\ Exactly
  OBVIOUS
<1>1. ASSUME NEW port \in Ports, NEW ask \in Lens, MbcPeek(port, ask)
      PROVE  RawContained' /\ Exactly
  BY <1>1, MbcPeekRaw
<1>2. ASSUME NEW port \in Ports, NEW ask \in Lens, NEW v \in PokeVals, MbcPoke(port, ask, v)
      PROVE  RawContained' /\ Exactly
  BY <1>2, MbcPokeRaw
<1>3. ASSUME NEW op \in {"RAMPEEK", "RAMPOKE"}, NEW addr \in Addrs, NEW ask \in Lens,
             RamAccess(op, addr, ask)
      PROVE  RawContained' /\ Exactly
  BY <1>3, RamAccessRaw
<1>4. ASSUME NEW op \in {"R0MPEEK", "R1MPEEK"}, NEW addr \in Addrs, NEW ask \in Lens,
             RomPeek(op, addr, ask)
      PROVE  RawContained' /\ Exactly
  BY <1>4, RomPeekRaw
<1> QED
  BY <1>1, <1>2, <1>3, <1>4, OtherRaw DEF Next, Request

\* A raw request that is not refused gets every byte it asked for in its region,
\* each from its own address, for every region and length, trimmed or not; only a
\* port request that is trimmed may lack the last port.
THEOREM RawExactCorrect == Spec => RawExact
<1>1. TypeOK /\ [Next]_vars => [Exactly]_vars
  BY RawStep
<1>2. [Exactly]_vars <=>
        [/\ reply'.op \in DOMAIN RegionOf /\ reply'.ask > 0 /\ err' = TAP_ERR_NONE /\ open
         /\ reply'.op \in {"R0MPEEK", "R1MPEEK"} => Is16(bus)
         => AllDue(reply')]_vars
  BY DEF Exactly
<1> QED
  BY <1>1, <1>2, TypeCorrect, PTL DEF Spec, RawExact

\* No byte access of a raw request, however long, reaches past its region: the
\* trims of tap.c let one address through and cartridge.c refuses it.
THEOREM RawContainedCorrect == Spec => []RawContained
<1>1. Init => RawContained
  BY DEF Init, NoReply, Reply, RawContained
<1>2. TypeOK /\ RawContained /\ [Next]_vars => RawContained'
  <2>1. RawContained /\ UNCHANGED vars => RawContained'
    BY DEF vars, RawContained
  <2> QED
    BY <2>1, RawStep
<1> QED
  BY <1>1, <1>2, TypeCorrect, PTL DEF Spec

==============================================================================
