------------------------------ MODULE TapProofs ------------------------------
(***************************************************************************)
(* What Tap promises, for every value of the constants: errors (Coherence, *)
(* Quiescence) and dumps (DumpsCorrect).  And how far it goes where the    *)
(* code does not do what it says.                                          *)
(***************************************************************************)
EXTENDS TapBusProofs

\* A pending error freezes the tap: every disjunct of Next is a status
\* request, the gate, a stall, or one of the steps named "none".
LEMMA GateHolds ==
  ASSUME st8 = TAP_ST8_ERROR, Next, reply'.op \notin {"CLRERR", "none"}
  PROVE  UNCHANGED <<fw, slot>>
<1> USE DEF Gated, Reply, NoReply, fw, slot
<1>1. CASE ~halted /\ Request
  BY <1>1 DEF Request, GetState, GetError, Status, ClrErr, IgnoreWhileError, Stall, Handshake,
     MbcPeek, MbcPoke, RamAccess, RomPeek, DumpHdr, Dump
<1>2. CASE ~halted /\ SetConfig
  BY <1>2 DEF SetConfig
<1>3. CASE \E c \in Carts \cup {NoCart} : ChangeCart(c)
  BY <1>3 DEF ChangeCart
<1>4. CASE PowerCycle
  BY <1>4 DEF PowerCycle
<1> QED
  BY <1>1, <1>2, <1>3, <1>4 DEF Next

\* While an error is pending nothing changes until it is cleared.
THEOREM Quiescence == Spec => ErrorQuiesces
<1>1. [Next]_vars => [st8 = TAP_ST8_ERROR /\ reply'.op \notin {"CLRERR", "none"}
                       => UNCHANGED <<fw, slot>>]_vars
  BY GateHolds
<1> QED
  BY <1>1, PTL DEF Spec, ErrorQuiesces

\* The state reads ERROR exactly while an error is recorded, so one of GETST8 and
\* GETERR is enough for a host to know of it.
THEOREM Coherence == Spec => []ErrorCoherent
<1>1. Init => ErrorCoherent
  BY DEF Init, ErrorCoherent, TAP_ST8_IDLE, TAP_ST8_ERROR
<1>2. ASSUME ErrorCoherent, [Next]_vars PROVE ErrorCoherent'
  <2>1. ASSUME NEW e, SetErrorState(e) PROVE ErrorCoherent'
    BY <1>2, <2>1 DEF ErrorCoherent, SetErrorState, TAP_ST8_IDLE, TAP_ST8_ERROR
  <2>2. CASE UNCHANGED <<st8, err>>
    BY <1>2, <2>2 DEF ErrorCoherent
  <2>3. CASE PowerCycle
    BY <2>3 DEF PowerCycle, ErrorCoherent, TAP_ST8_IDLE, TAP_ST8_ERROR
  <2>4. ASSUME NEW m, NEW idx, NEW h, NEW b, NEW rg, NEW rcs, Stream(m, idx, h, b, rg, rcs)
        PROVE  ErrorCoherent'
    BY <2>2, <2>4 DEF Stream, Access
  <2>5. ASSUME NEW m, NEW idx, NEW len, Dump(m, idx, len) PROVE ErrorCoherent'
    BY <2>1, <2>2, <2>4, <2>5 DEF Dump, Refuse, Access
  <2>6. ASSUME NEW secret, Handshake(secret) PROVE ErrorCoherent'
    BY <2>1, <2>2, <2>6 DEF Handshake
  <2>7. CASE \/ \E len \in {0, 1} : GetState(len) \/ GetError(len)
             \/ ClrErr
             \/ \E op \in Leveled : IgnoreWhileError(op)
             \/ \E op \in Unserved \cup {"other"} : Stall(op)
    BY <2>1, <2>2, <2>7 DEF GetState, GetError, Status, ClrErr, IgnoreWhileError, Stall, fw
  <2>8. CASE \/ \E port \in Ports, ask \in Lens : MbcPeek(port, ask)
             \/ \E port \in Ports, ask \in Lens, v \in PokeVals : MbcPoke(port, ask, v)
    BY <2>1, <2>2, <2>8 DEF MbcPeek, MbcPoke, Refuse, Access
  <2>9. ASSUME NEW op, NEW addr, NEW ask, RamAccess(op, addr, ask) \/ RomPeek(op, addr, ask)
        PROVE  ErrorCoherent'
    BY <2>1, <2>2, <2>9 DEF RamAccess, RomPeek, Refuse, Access, fw
  <2>10. ASSUME NEW len, DumpHdr(len) PROVE ErrorCoherent'
    BY <2>1, <2>2, <2>10 DEF DumpHdr, Refuse, Access
  <2>11. ASSUME NEW c, SetConfig \/ ChangeCart(c) PROVE ErrorCoherent'
    BY <2>2, <2>11 DEF SetConfig, ChangeCart, fw
  <2>12. UNCHANGED vars => UNCHANGED <<st8, err>>
    BY DEF vars
  <2> QED
    BY <1>2, <2>2, <2>3, <2>5, <2>6, <2>7, <2>8, <2>9, <2>10, <2>11, <2>12 DEF Next, Request
<1> QED
  BY <1>1, <1>2, PTL DEF Spec

----------------------------------------------------------------------------
(* The arithmetic of banks and chunks.                                     *)

\* Remainder of a multiple plus a remainder.
LEMMA ModExact ==
  ASSUME NEW q \in Int, NEW n \in Nat \ {0}, NEW i \in 0..n-1
  PROVE  (q * n + i) % n = i
  OBVIOUS

\* Quotient and remainder by a positive number.
LEMMA DivMod ==
  ASSUME NEW i \in Nat, NEW n \in Nat \ {0}
  PROVE  /\ i = (i \div n) * n + (i % n) /\ i \div n \in Nat /\ i % n \in 0..n-1
         /\ \A k \in Nat : i < k * n => i \div n < k
         /\ (i < n => i \div n = 0 /\ i % n = i)
         /\ (i % n # 0 => i \div n = (i - 1) \div n)
<1>1. i = (i \div n) * n + (i % n) /\ i \div n \in Nat /\ i % n \in 0..n-1
  OBVIOUS
<1>2. ASSUME NEW k \in Nat, i < k * n PROVE i \div n < k
  <2> DEFINE j == i \div n
  <2>1. j \in Nat /\ j * n <= i
    BY <1>1
  <2>2. ASSUME j >= k PROVE FALSE
    <3>1. j - k \in Nat
      BY <2>1, <2>2
    <3>2. (j - k) * n >= 0
      <4> HIDE DEF j
      <4> QED
        BY <3>1
    <3>3. (j - k) * n = j * n - k * n
      <4> HIDE DEF j
      <4> QED
        BY <2>1
    <3> HIDE DEF j
    <3> QED
      BY <1>2, <2>1, <3>2, <3>3
  <2> QED
    BY <2>1, <2>2
<1>3. i < n => i \div n = 0 /\ i % n = i
  OBVIOUS
<1>4. i % n # 0 => i \div n = (i - 1) \div n
  OBVIOUS
<1> QED
  BY <1>1, <1>2, <1>3, <1>4

\* The arithmetic of the dumps (tap.c 156-159, 205-208): in a medium that fills
\* whole banks and is mirrored through all of them, the bank poked for chunk idx
\* and the offset of that chunk in a bank select that very chunk.
LEMMA BankExact ==
  ASSUME NEW size \in Nat, NEW idx \in Nat, idx < size,
         size >= BankChunks => size % BankChunks = 0 /\ NumBanks % (size \div BankChunks) = 0
  PROVE  (BankOf(size, idx) * BankChunks + (idx % BankChunks)) % size = idx
<1> DEFINE BC == BankChunks
           k == size \div BC
           q == NumBanks \div k
           j == idx \div BC
<1>0. BC \in Nat \ {0} /\ NumBanks \in Nat \ {0}
  BY TapAssumption, BusAssumption
<1>1. CASE size < BC
  <2>1. k = 0 /\ j = 0 /\ idx % BC = idx
    <3>1. idx < BC
      BY <1>0, <1>1
    <3> QED
      BY <1>0, <1>1, <3>1, DivMod
  <2>2. BankOf(size, idx) = 0
    <3>1. BankOf(size, idx) = NumBanks % NumBanks
      BY <1>0, <2>1 DEF BankOf
    <3> QED
      BY <1>0, <3>1
  <2>3. idx % size = idx
    OBVIOUS
  <2> QED
    BY <1>0, <2>1, <2>2, <2>3
<1>2. CASE size >= BC
  <2>1. size = k * BC /\ k \in Nat \ {0}
    <3>1. size = k * BC + (size % BC) /\ k \in Nat
      BY <1>0, DivMod
    <3>2. size % BC = 0
      BY <1>2
    <3>3. size # 0
      BY <1>0, <1>2
    <3> QED
      BY <1>0, <3>1, <3>2, <3>3
  <2>2. NumBanks = q * k /\ q \in Nat
    <3>1. NumBanks = q * k + (NumBanks % k) /\ q \in Nat
      BY <1>0, <2>1, DivMod
    <3>2. NumBanks % k = 0
      BY <1>2
    <3> HIDE DEF q, k
    <3> QED
      BY <3>1, <3>2, <2>1
  <2>3. j \in Nat /\ j < k /\ idx = j * BC + (idx % BC) /\ idx % BC \in 0..BC-1
    <3>1. idx < k * BC
      BY <2>1
    <3> HIDE DEF k
    <3> QED
      BY <1>0, <2>1, <3>1, DivMod
  <2>4. BankOf(size, idx) = NumBanks - k + j
    <3>0. NumBanks >= k
      <4> HIDE DEF q, k
      <4> QED
        BY <1>0, <2>1, <2>2
    <3>1. NumBanks - k + j \in 0..NumBanks-1
      <4> HIDE DEF q, k, j
      <4> QED
        BY <1>0, <2>1, <2>3, <3>0
    <3>2. (0 * NumBanks + (NumBanks - k + j)) % NumBanks = NumBanks - k + j
      <4> HIDE DEF q, k, j
      <4> QED
        BY <1>0, <3>1, ModExact
    <3>3. BankOf(size, idx) = (NumBanks - k + j) % NumBanks
      BY DEF BankOf
    <3>4. 0 * NumBanks + (NumBanks - k + j) = NumBanks - k + j
      <4> HIDE DEF q, k, j
      <4> QED
        BY <1>0, <2>1, <2>3
    <3> HIDE DEF k, j
    <3> QED
      BY <3>2, <3>3, <3>4
  <2>5. (NumBanks - k + j) * BC + (idx % BC) = (q - 1) * size + idx
    <3> DEFINE r == idx % BC
    <3>1. (q * k - k + j) * BC + r = (q - 1) * (k * BC) + (j * BC + r)
      <4>1. r \in Nat
        BY <2>3
      <4> HIDE DEF q, k, j, r
      <4> QED
        BY <1>0, <2>1, <2>2, <2>3, <4>1
    <3> HIDE DEF q, k, j, r
    <3> QED
      BY <3>1, <2>1, <2>2, <2>3 DEF r
  <2>6. ((q - 1) * size + idx) % size = idx
    <3>1. q - 1 \in Int /\ size \in Nat \ {0} /\ idx \in 0..size-1
      BY <2>2
    <3> HIDE DEF q
    <3> QED
      BY <3>1, ModExact
  <2> HIDE DEF q, k, j
  <2> QED
    BY <2>4, <2>5, <2>6
<1> QED
  BY <1>0, <1>1, <1>2

----------------------------------------------------------------------------
(* One step of a dump.                                                     *)

\* The invariant of the dumps: WalkBacked, and that no ROM of a byte-wide cartridge
\* is being walked, the cached header of such a one being blank (ByteRomEmpty).
WalkInv ==
  \A m \in Media : walk[m] > 0 =>
    /\ open
    /\ hdr[SizeCode[m]] = cart.hdr[SizeCode[m]]
    /\ m = "rom" => ~BWidth(cart.hdr)
    /\ Readable(m) =>
         /\ walk[m] <= cart.size[m]
         /\ regs[BankReg[m]] = BankOf(cart.size[m], walk[m] - 1)

\* Header h tells the truth about medium m of the cartridge in the slot, or is
\* the one that the byte pass has blanked.
Match(m, h) ==
  \/ h[SizeCode[m]] = cart.hdr[SizeCode[m]] /\ (m = "rom" => ~BWidth(cart.hdr))
  \/ m = "rom" /\ BWidth(cart.hdr) /\ h[SizeCode[m]] = 0

\* A header read from a cartridge that answers matches the cartridge.
LEMMA HeaderMatches ==
  ASSUME TypeOK, BusInv, bus.clk, open, NEW d \in DumpHeader, NEW m \in Media
  PROVE  Match(m, d.hdr)
<1>0. cart.hdr \in Headers
  BY TapAssumption DEF TypeOK
<1>1. CASE ~BWidth(cart.hdr)
  BY <1>1, HeaderRead DEF Match
<1>2. CASE BWidth(cart.hdr)
  <2>1. d.hdr = BytePass(WordPass(Widen(Narrow(bus)), cart.hdr), cart.hdr)
    BY <1>2, HeaderRead
  <2>2. d.hdr[2] = 0 /\ d.hdr[3] = cart.hdr[3]
    BY <2>1 DEF BytePass, HdrBytes, EvenOffset, OPCODE
  <2> QED
    BY <1>2, <2>2 DEF Match, SizeCode, Media
<1> QED
  BY <1>1, <1>2

\* A header that matches gives the size of the cartridge's medium.
LEMMA SizeKnown ==
  ASSUME open, TypeOK, NEW m \in Media, NEW h \in Headers, Match(m, h), Readable(m),
         NEW size \in SizesOf(m, h)
  PROVE  /\ BWidth(cart.hdr) /\ m = "rom" => size = 0
         /\ (m = "rom" => ~BWidth(cart.hdr)) => size = cart.size[m]
<1>0. cart \in Carts
  BY DEF TypeOK
<1>1. ASSUME m = "rom" => ~BWidth(cart.hdr) PROVE size = cart.size[m]
  <2>1. h[SizeCode[m]] = cart.hdr[SizeCode[m]]
    BY <1>1 DEF Match
  <2>2. size = Table(m)[cart.hdr[SizeCode[m]]]
    BY <2>1 DEF SizesOf, InTable, Readable
  <2> QED
    BY <1>0, <2>2, HonestCarts DEF Readable
<1>2. ASSUME BWidth(cart.hdr), m = "rom" PROVE size = 0
  <2>1. h[SizeCode[m]] = 0
    BY <1>2 DEF Match
  <2>2. 0 \in DOMAIN Table(m) /\ Table(m)[0] = 0
    BY TapAssumption
  <2> QED
    BY <2>1, <2>2 DEF SizesOf, InTable
<1> QED
  BY <1>1, <1>2

\* The bank register once chunk idx has been asked for in order.
LEMMA BankSet ==
  ASSUME ~STRICT, TypeOK, WalkInv, open, NEW m \in Media, NEW idx \in Nat, NEW b \in BusStates,
         InOrder(m, idx), Readable(m)
  PROVE  LET rg2 == IF idx % BankChunks = 0 /\ open
                    THEN PokeReg(regs, b, BankReg[m], BankOf(cart.size[m], idx)) ELSE regs
         IN  rg2[BankReg[m]] = BankOf(cart.size[m], idx)
<1> DEFINE rg2 == IF idx % BankChunks = 0 /\ open
                  THEN PokeReg(regs, b, BankReg[m], BankOf(cart.size[m], idx)) ELSE regs
<1>0. BankReg[m] \in Registers /\ regs \in [Registers -> 0..NumBanks-1] /\ BankChunks \in Nat \ {0}
  <2>1. BankReg[m] \in Registers
    BY RegsTypes DEF BankReg, Media
  <2>2. BankChunks \in Nat \ {0}
    BY TapAssumption
  <2> QED
    BY <2>1, <2>2 DEF TypeOK
<1>1. CASE idx % BankChunks = 0
  <2>1. MbcRc(b, BankReg[m]) = FIN
    BY BusAssumption DEF MbcRc, BankReg, Media, REG_ROM_BANK_0, REG_RAM_BANK
  <2> QED
    BY <1>0, <1>1, <2>1 DEF PokeReg
<1>2. CASE idx % BankChunks # 0
  <2>1. idx # 0
    BY <1>0, <1>2
  <2>2. walk[m] > 0 /\ idx \in {walk[m] - 1, walk[m]} /\ walk[m] \in Nat
    BY <2>1 DEF InOrder, TypeOK
  <2>3. regs[BankReg[m]] = BankOf(cart.size[m], walk[m] - 1)
    BY <2>2 DEF WalkInv
  <2>4. idx \div BankChunks = (idx - 1) \div BankChunks
    BY <1>0, <1>2, DivMod
  <2>5. BankOf(cart.size[m], walk[m] - 1) = BankOf(cart.size[m], idx)
    BY <2>2, <2>4 DEF BankOf
  <2> QED
    BY <1>2, <2>3, <2>5
<1> QED
  BY <1>1, <1>2

\* The sizes in the tables fit the banks.
LEMMA SizesFit ==
  ASSUME TypeOK, open, NEW m \in Media, Readable(m)
  PROVE  /\ cart.size[m] \in Nat
         /\ cart.size[m] >= BankChunks =>
              cart.size[m] % BankChunks = 0 /\ NumBanks % (cart.size[m] \div BankChunks) = 0
<1>1. cart \in Carts /\ cart.hdr[SizeCode[m]] \in DOMAIN Table(m)
  BY DEF TypeOK, Readable, InTable
<1>2. cart.size[m] = Table(m)[cart.hdr[SizeCode[m]]]
  BY <1>1, HonestCarts DEF Readable
<1>3. cart.size[m] \in Nat
  BY <1>1, TapAssumption
<1> QED
  BY <1>1, <1>2, <1>3, BanksFit

\* With the bank set, the chunk read is the chunk asked for.
LEMMA ChunkExact ==
  ASSUME ~STRICT, TypeOK, open, NEW m \in Media, Readable(m), NEW idx \in Nat,
         idx < cart.size[m], NEW h, NEW b, NEW rg, m = "rom" => Is16(b),
         rg[BankReg[m]] = BankOf(cart.size[m], idx)
  PROVE  ChunkRead(m, h, b, rg, idx % BankChunks) = idx
<1>1. ChunkAt(m, rg, idx % BankChunks) = idx
  <2>1. cart.size[m] > 0
    BY SizesFit
  <2> QED
    BY <2>1, SizesFit, BankExact DEF ChunkAt
<1>2. SramRc(b, SRAM_BASE) = FIN
  <2>1. REGION_SIZE \in Nat \ {0}
    BY BusAssumption
  <2>2. REGION_SIZE % (16 * REGION_SIZE) = REGION_SIZE
    BY <2>1
  <2>3. REGION_SIZE \div REGION_SIZE = 1
    BY <2>1
  <2>4. RAM_ADDR_VALID(SRAM_BASE)
    BY <2>2, <2>3 DEF RAM_ADDR_VALID, SRAM_BASE, AddrSpace
  <2> QED
    BY <2>4 DEF SramRc
<1> QED
  BY <1>1, <1>2 DEF ChunkRead, Media

\* The part of a dump after the header check keeps the walks backed and answers
\* with the chunk asked for, or with the end of the medium.
LEMMA StreamWalk ==
  ASSUME ~STRICT, TypeOK, WalkInv, NEW m \in Media, NEW idx \in Nat, NEW h \in Headers,
         NEW b \in BusStates, NEW rcs, BusOK(b), ~BWidth(h),
         open /\ idx = 0 => Match(m, h),
         \A m2 \in Media : walk[m2] > 0 => Match(m2, h),
         Stream(m, idx, h, b, regs, rcs)
  PROVE  /\ WalkInv'
         /\ DumpAnswered(m) /\ reply'.data # <<>> => reply'.data = <<reply'.at>>
         /\ open /\ (m = "rom" => ~BWidth(cart.hdr)) => EndIsEnd(m)
<1> DEFINE rel == idx % BankChunks
           rg2(size) == IF rel = 0 /\ open THEN PokeReg(regs, b, BankReg[m], BankOf(size, idx)) ELSE regs
<1>0. /\ \A m2 \in Media : BankReg[m2] \in Registers
      /\ \A m2 \in Media : m2 # m => BankReg[m2] # BankReg[m]
      /\ regs \in [Registers -> 0..NumBanks-1]
      /\ walk \in [Media -> Nat]
  <2>1. \A m2 \in Media : BankReg[m2] \in Registers
    BY RegsTypes DEF BankReg, Media
  <2>2. \A m2 \in Media : m2 # m => BankReg[m2] # BankReg[m]
    BY BusAssumption DEF BankReg, Media, REG_ROM_BANK_0, REG_RAM_BANK
  <2> QED
    BY <2>1, <2>2 DEF TypeOK
<1>h. InOrder(m, idx) => open /\ Match(m, h)
  BY DEF InOrder, WalkInv
<1>1. ASSUME NEW size \in SizesOf(m, h), size <= idx,
             hdr' = ZeroHdr, bus' = b, regs' = regs, walk' = NoWalk,
             NEW rcs2, reply' = Reply(DumpOp[m], idx, 1, <<>>, rcs2),
             UNCHANGED <<st8, err, halted, cart, open>>
      PROVE  /\ WalkInv'
             /\ DumpAnswered(m) /\ reply'.data # <<>> => reply'.data = <<reply'.at>>
             /\ open /\ (m = "rom" => ~BWidth(cart.hdr)) => EndIsEnd(m)
  <2>1. WalkInv'
    BY <1>1 DEF WalkInv, NoWalk
  <2>2. reply'.data = <<>> /\ reply'.at = idx
    BY <1>1 DEF Reply
  <2>3. ASSUME open, m = "rom" => ~BWidth(cart.hdr), DumpAnswered(m) PROVE idx = cart.size[m]
    <3>1. InOrder(m, idx) /\ Readable(m)
      BY <2>2, <2>3 DEF DumpAnswered
    <3>2. size = cart.size[m]
      BY <1>h, <2>3, <3>1, SizeKnown
    <3>3. size \in Nat
      BY SizeTypes
    <3>4. CASE idx = 0
      BY <1>1, <3>2, <3>3, <3>4
    <3>5. CASE idx # 0
      <4>1. walk[m] > 0 /\ idx \in {walk[m] - 1, walk[m]} /\ walk[m] \in Nat
        BY <1>0, <3>1, <3>5 DEF InOrder
      <4>2. walk[m] <= cart.size[m]
        BY <3>1, <4>1 DEF WalkInv
      <4> QED
        BY <1>1, <3>2, <3>3, <4>1, <4>2
    <3> QED
      BY <3>4, <3>5
  <2> QED
    BY <2>1, <2>2, <2>3 DEF EndIsEnd
<1>2. ASSUME NEW size \in SizesOf(m, h), size > idx,
             hdr' = h, bus' = b, regs' = rg2(size),
             walk' = [walk EXCEPT ![m] = IF InOrder(m, idx) THEN idx + 1 ELSE 0],
             NEW rcs2, reply' = Reply(DumpOp[m], idx, 1, <<ChunkRead(m, h, b, rg2(size), rel)>>, rcs2),
             UNCHANGED <<st8, err, halted, cart, open>>
      PROVE  /\ WalkInv'
             /\ DumpAnswered(m) /\ reply'.data # <<>> => reply'.data = <<reply'.at>>
             /\ open /\ (m = "rom" => ~BWidth(cart.hdr)) => EndIsEnd(m)
  <2>0. size \in Nat
    BY SizeTypes
  <2>1. reply'.data = <<ChunkRead(m, h, b, rg2(size), rel)>> /\ reply'.at = idx
    BY <1>2 DEF Reply
  <2>2. ASSUME InOrder(m, idx), Readable(m)
        PROVE  /\ m = "rom" => ~BWidth(cart.hdr) /\ Is16(b)
               /\ size = cart.size[m]
               /\ rg2(size)[BankReg[m]] = BankOf(size, idx)
    <3>1. m = "rom" => ~BWidth(cart.hdr)
      BY <1>2, <1>h, <2>0, <2>2, SizeKnown
    <3>2. size = cart.size[m]
      BY <1>h, <2>2, <3>1, SizeKnown
    <3>3. m = "rom" => Is16(b)
      BY <1>h, <2>2, <3>1 DEF BusOK
    <3>4. rg2(size)[BankReg[m]] = BankOf(size, idx)
      BY <1>h, <2>2, <3>2, BankSet
    <3> QED
      BY <3>1, <3>2, <3>3, <3>4
  <2>3. ASSUME DumpAnswered(m) PROVE reply'.data = <<reply'.at>>
    <3>1. InOrder(m, idx) /\ Readable(m)
      BY <2>1, <2>3 DEF DumpAnswered
    <3>2. idx < cart.size[m]
      BY <1>2, <2>0, <2>2, <3>1
    <3>3. ChunkRead(m, h, b, rg2(size), rel) = idx
      <4> HIDE DEF rg2
      <4> QED
        BY <1>h, <2>2, <3>1, <3>2, ChunkExact
    <3> HIDE DEF rg2, rel
    <3> QED
      BY <2>1, <3>3
  <2>4. reply'.data # <<>>
    <3> HIDE DEF rg2, rel
    <3> QED
      BY <2>1
  <2>5. ASSUME NEW m2 \in Media, walk'[m2] > 0
        PROVE  /\ open
               /\ h[SizeCode[m2]] = cart.hdr[SizeCode[m2]]
               /\ m2 = "rom" => ~BWidth(cart.hdr)
               /\ Readable(m2) =>
                    /\ walk'[m2] <= cart.size[m2]
                    /\ rg2(size)[BankReg[m2]] = BankOf(cart.size[m2], walk'[m2] - 1)
    <3>1. CASE m2 = m
      <4>1. InOrder(m, idx) /\ walk'[m] = idx + 1
        BY <1>0, <1>2, <2>5, <3>1
      <4>2. open /\ Match(m, h)
        BY <1>h, <4>1
      <4>3. ~(m = "rom" /\ BWidth(cart.hdr) /\ h[SizeCode[m]] = 0)
        <5> SUFFICES ASSUME m = "rom", h[SizeCode[m]] = 0 PROVE FALSE
          OBVIOUS
        <5>1. 0 \in DOMAIN Table(m) /\ Table(m)[0] = 0
          BY TapAssumption
        <5>2. size = 0
          BY <5>1 DEF SizesOf, InTable
        <5> QED
          BY <1>2, <5>2
      <4>4. h[SizeCode[m]] = cart.hdr[SizeCode[m]] /\ (m = "rom" => ~BWidth(cart.hdr))
        BY <4>2, <4>3 DEF Match
      <4>5. Readable(m) => idx + 1 <= cart.size[m] /\ rg2(size)[BankReg[m]] = BankOf(cart.size[m], idx)
        BY <1>2, <2>0, <2>2, <4>1
      <4>6. (idx + 1) - 1 = idx
        OBVIOUS
      <4> HIDE DEF rg2
      <4> QED
        BY <3>1, <4>1, <4>2, <4>4, <4>5, <4>6
    <3>2. CASE m2 # m
      <4>1. walk'[m2] = walk[m2] /\ walk[m2] > 0
        BY <1>0, <1>2, <2>5, <3>2
      <4>2. rg2(size)[BankReg[m2]] = regs[BankReg[m2]]
        BY <1>0, <3>2 DEF PokeReg
      <4>3. Match(m2, h) /\ open /\ (m2 = "rom" => ~BWidth(cart.hdr))
        BY <4>1 DEF WalkInv
      <4>4. h[SizeCode[m2]] = cart.hdr[SizeCode[m2]]
        BY <4>3 DEF Match
      <4>5. Readable(m2) =>
              walk[m2] <= cart.size[m2] /\ regs[BankReg[m2]] = BankOf(cart.size[m2], walk[m2] - 1)
        BY <4>1 DEF WalkInv
      <4> HIDE DEF rg2
      <4> QED
        BY <4>1, <4>2, <4>3, <4>4, <4>5
    <3> QED
      BY <3>1, <3>2
  <2>6. WalkInv'
    <3> HIDE DEF rg2
    <3> QED
      BY <1>2, <2>5 DEF WalkInv, Readable
  <2> QED
    BY <2>3, <2>4, <2>6 DEF EndIsEnd
<1>3. ASSUME reply' = NoReply, UNCHANGED <<st8, err, hdr, bus, slot, walk>>
      PROVE  /\ WalkInv'
             /\ DumpAnswered(m) /\ reply'.data # <<>> => reply'.data = <<reply'.at>>
             /\ open /\ (m = "rom" => ~BWidth(cart.hdr)) => EndIsEnd(m)
  <2>1. ~DumpAnswered(m)
    BY <1>3 DEF DumpAnswered, NoReply, Reply, DumpOp, Media
  <2> QED
    BY <1>3, <2>1 DEF WalkInv, Readable, slot, EndIsEnd
<1>4. b = bus' \/ UNCHANGED bus \/ ~(m = "rom" /\ BWidth(h))
  OBVIOUS
<1> QED
  BY <1>1, <1>2, <1>3 DEF Stream, Access

----------------------------------------------------------------------------
(* Every step.                                                             *)

\* What both dump properties say of one step.
StepSound(m) ==
  /\ DumpAnswered(m) /\ reply'.data # <<>> => reply'.data = <<reply'.at>>
  /\ open /\ (m = "rom" => ~BWidth(cart.hdr)) => EndIsEnd(m)

\* A step that is no answered dump satisfies what the properties say of dumps.
LEMMA OtherStep ==
  ASSUME \/ reply'.ask # 1
         \/ \A m \in Media : reply'.op # DumpOp[m]
         \/ err' # TAP_ERR_NONE /\ reply'.data = <<>>
  PROVE  \A m \in Media : StepSound(m)
  BY DEF StepSound, EndIsEnd, DumpAnswered

\* A step that touches nothing a walk rests on.
LEMMA WalkKept ==
  ASSUME WalkInv, UNCHANGED <<hdr, cart, open, regs, walk>>
  PROVE  WalkInv'
  BY DEF WalkInv, Readable

\* A step that ends all walks.
LEMMA NoWalkInv ==
  ASSUME walk' = NoWalk
  PROVE  WalkInv'
  BY DEF WalkInv, NoWalk

\* TAP_DUMPROM and TAP_DUMPRAM keep the walks backed and answer right.
LEMMA DumpWalk ==
  ASSUME ~STRICT, TypeOK, BusInv, WalkInv, NEW m \in Media, NEW idx \in Idxs, NEW len \in {0, 1},
         Dump(m, idx, len)
  PROVE  WalkInv' /\ \A m2 \in Media : StepSound(m2)
<1>0. idx \in Nat /\ DumpOp["rom"] # DumpOp["ram"]
  BY TapAssumption DEF DumpOp
<1>o. ASSUME reply'.op = DumpOp[m], StepSound(m) PROVE \A m2 \in Media : StepSound(m2)
  BY <1>0, <1>o DEF Media, StepSound, EndIsEnd, DumpAnswered
<1>1. CASE Refuse(TAP_ERR_DATA, DumpOp[m], idx, len)
  <2>1. err' # TAP_ERR_NONE /\ reply'.data = <<>> /\ UNCHANGED <<hdr, cart, open, regs, walk>>
    BY <1>1 DEF Refuse, SetErrorState, Reply, slot, TAP_ERR_DATA, TAP_ERR_NONE
  <2> QED
    BY <2>1, WalkKept, OtherStep
<1>2. CASE halted' = TRUE /\ reply' = NoReply /\ UNCHANGED <<st8, err, hdr, bus, slot, walk>>
  <2>1. reply'.ask # 1 /\ UNCHANGED <<hdr, cart, open, regs, walk>>
    BY <1>2 DEF NoReply, Reply, slot
  <2> QED
    BY <2>1, WalkKept, OtherStep
<1>3. CASE idx > 0 /\ Stream(m, idx, hdr, bus, regs, {})
  <2>1. BusOK(bus) /\ ~BWidth(hdr) /\ hdr \in Headers /\ bus \in BusStates
    BY BusIsOK DEF BusInv, FlagsBlanked, TypeOK
  <2>2. \A m2 \in Media : walk[m2] > 0 => Match(m2, hdr)
    BY DEF WalkInv, Match
  <2>3. ~(open /\ idx = 0)
    BY <1>0, <1>3
  <2>4. WalkInv' /\ StepSound(m)
    BY <1>0, <1>3, <2>1, <2>2, <2>3, StreamWalk DEF StepSound
  <2>5. reply'.op = DumpOp[m] \/ reply' = NoReply
    BY <1>3 DEF Stream, Access, Reply
  <2>6. CASE reply' = NoReply
    <3>1. reply'.ask # 1
      BY <2>6 DEF NoReply, Reply
    <3> QED
      BY <2>4, <3>1, OtherStep
  <2> QED
    BY <1>o, <2>4, <2>5, <2>6
<1>4. ASSUME bus.clk, NEW d \in DumpHeader, Stream(m, idx, d.hdr, d.bus, d.regs, d.rcs)
      PROVE  WalkInv' /\ \A m2 \in Media : StepSound(m2)
  <2>1. BusOK(d.bus) /\ ~BWidth(d.hdr) /\ d.hdr \in Headers /\ d.bus \in BusStates /\ d.regs = regs
    BY <1>4, HeaderRead, HeaderTypes DEF BusOK
  <2>2. \A m2 \in Media : open => Match(m2, d.hdr)
    BY <1>4, HeaderMatches
  <2>3. \A m2 \in Media : walk[m2] > 0 => Match(m2, d.hdr)
    BY <2>2 DEF WalkInv
  <2>4. Stream(m, idx, d.hdr, d.bus, regs, d.rcs)
    BY <1>4, <2>1
  <2>5. WalkInv' /\ StepSound(m)
    BY <1>0, <2>1, <2>2, <2>3, <2>4, StreamWalk DEF StepSound
  <2>6. reply'.op = DumpOp[m] \/ reply' = NoReply
    BY <1>4 DEF Stream, Access, Reply
  <2>7. CASE reply' = NoReply
    <3>1. reply'.ask # 1
      BY <2>7 DEF NoReply, Reply
    <3> QED
      BY <2>5, <3>1, OtherStep
  <2> QED
    BY <1>o, <2>5, <2>6, <2>7
<1>5. ASSUME bus.clk, NEW d \in DumpHeader, SetErrorState(TAP_ERR_PEEK), walk' = NoWalk,
             reply' = Reply(DumpOp[m], idx, len, <<>>, d.rcs)
      PROVE  WalkInv' /\ \A m2 \in Media : StepSound(m2)
  <2>1. err' # TAP_ERR_NONE /\ reply'.data = <<>>
    BY <1>5 DEF SetErrorState, Reply, TAP_ERR_PEEK, TAP_ERR_NONE
  <2> QED
    BY <1>5, <2>1, NoWalkInv, OtherStep
<1> QED
  BY <1>1, <1>2, <1>3, <1>4, <1>5 DEF Dump, Access

\* TAP_MBCPOKE ends the walks whose bank register it writes, and no other.
LEMMA MbcPokeWalk ==
  ASSUME TypeOK, WalkInv, NEW port \in Ports, NEW ask \in Lens, NEW v \in PokeVals,
         MbcPoke(port, ask, v)
  PROVE  WalkInv'
<1> DEFINE n == MbcWindow(port, ask)
           b == Narrow(bus)
           poked == {r \in port .. port + n - 1 : open /\ MbcRc(b, r) = FIN}
<1>1. CASE UNCHANGED <<hdr, cart, open, regs, walk>>
  BY <1>1, WalkKept
<1>2. CASE /\ regs' = [r \in Registers |->
                         IF r \in poked THEN (v + r - port) % NumBanks ELSE regs[r]]
           /\ walk' = [m \in Media |-> IF BankReg[m] \in poked THEN 0 ELSE walk[m]]
           /\ UNCHANGED <<hdr, cart, open>>
  <2>1. \A m \in Media : BankReg[m] \in Registers
    BY RegsTypes DEF BankReg, Media
  <2>2. ASSUME NEW m \in Media, walk'[m] > 0
        PROVE  walk'[m] = walk[m] /\ regs'[BankReg[m]] = regs[BankReg[m]]
    <3> HIDE DEF poked
    <3> QED
      BY <1>2, <2>1, <2>2
  <2> HIDE DEF poked
  <2> QED
    BY <1>2, <2>2 DEF WalkInv, Readable
<1> QED
  BY <1>1, <1>2 DEF MbcPoke, Refuse, Access, slot

\* Every step keeps the walks backed, and every dump it answers is right.
LEMMA WalkStep ==
  ASSUME ~STRICT, TypeOK, BusInv, WalkInv, Next
  PROVE  WalkInv' /\ \A m \in Media : StepSound(m)
<1>0. UNCHANGED slot => UNCHANGED <<cart, open, regs>>
  BY DEF slot
<1>f. UNCHANGED fw => UNCHANGED hdr
  BY DEF fw
<1>op. \A m \in Media : DumpOp[m] \in {"DUMPROM", "DUMPRAM"}
  BY DEF DumpOp, Media
<1>n. ASSUME reply'.op \notin {"DUMPROM", "DUMPRAM"} \/ reply'.ask # 1
      PROVE  \A m \in Media : StepSound(m)
  BY <1>op, <1>n, OtherStep
<1>k. CASE UNCHANGED <<hdr, cart, open, regs, walk>> /\ reply'.op \notin {"DUMPROM", "DUMPRAM"}
  BY <1>n, <1>k, WalkKept
<1>r. CASE UNCHANGED <<hdr, cart, open, regs, walk>> /\ reply'.ask # 1
  BY <1>n, <1>r, WalkKept
<1>1. CASE \/ \E len \in {0, 1} : GetState(len) \/ GetError(len)
           \/ ClrErr
           \/ \E op \in Leveled : IgnoreWhileError(op)
           \/ \E op \in Unserved \cup {"other"} : Stall(op)
  <2>1. CASE \E len \in {0, 1} : GetState(len) \/ GetError(len)
    BY <1>0, <1>f, <1>k, <2>1 DEF GetState, GetError, Status, Reply
  <2>2. CASE ClrErr
    BY <1>0, <1>r, <2>2 DEF ClrErr, Reply
  <2>3. ASSUME NEW op \in Leveled, IgnoreWhileError(op)
        PROVE  WalkInv' /\ \A m \in Media : StepSound(m)
    <3>1. reply'.ask # 1 /\ UNCHANGED <<fw, slot, walk>>
      BY <2>3 DEF IgnoreWhileError, Reply
    <3> QED
      BY <1>0, <1>f, <1>r, <3>1
  <2>4. ASSUME NEW op, Stall(op)
        PROVE  WalkInv' /\ \A m \in Media : StepSound(m)
    <3>1. reply'.ask # 1 /\ UNCHANGED <<fw, slot, walk>>
      BY <2>4 DEF Stall, Reply
    <3> QED
      BY <1>0, <1>f, <1>r, <3>1
  <2> QED
    BY <1>1, <2>1, <2>2, <2>3, <2>4
<1>2. ASSUME NEW secret \in BOOLEAN, Handshake(secret)
      PROVE  WalkInv' /\ \A m \in Media : StepSound(m)
  BY <1>2, <1>n, NoWalkInv DEF Handshake, Reply
<1>3. ASSUME NEW port \in Ports, NEW ask \in Lens, MbcPeek(port, ask)
      PROVE  WalkInv' /\ \A m \in Media : StepSound(m)
  BY <1>0, <1>3, <1>k DEF MbcPeek, Refuse, Access, Reply, NoReply
<1>4. ASSUME NEW port \in Ports, NEW ask \in Lens, NEW v \in PokeVals, MbcPoke(port, ask, v)
      PROVE  WalkInv' /\ \A m \in Media : StepSound(m)
  <2>1. reply'.op \notin {"DUMPROM", "DUMPRAM"}
    BY <1>4 DEF MbcPoke, Refuse, Access, Reply, NoReply
  <2> QED
    BY <1>4, <1>n, <2>1, MbcPokeWalk
<1>5. ASSUME NEW op \in {"RAMPEEK", "RAMPOKE"}, NEW addr \in Addrs, NEW ask \in Lens,
             RamAccess(op, addr, ask)
      PROVE  WalkInv' /\ \A m \in Media : StepSound(m)
  BY <1>0, <1>5, <1>k DEF RamAccess, Refuse, Access, Reply, NoReply
<1>6. ASSUME NEW op \in {"R0MPEEK", "R1MPEEK"}, NEW addr \in Addrs, NEW ask \in Lens,
             RomPeek(op, addr, ask)
      PROVE  WalkInv' /\ \A m \in Media : StepSound(m)
  BY <1>0, <1>f, <1>6, <1>k DEF RomPeek, Refuse, Access, Reply, NoReply
<1>7. ASSUME NEW len \in {0, 1}, DumpHdr(len)
      PROVE  WalkInv' /\ \A m \in Media : StepSound(m)
  <2>1. ASSUME bus.clk, NEW d \in DumpHeader, regs' = d.regs, UNCHANGED <<hdr, cart, open, walk>>
        PROVE  UNCHANGED <<hdr, cart, open, regs, walk>>
    BY <2>1, HeaderRead
  <2>2. reply'.op \notin {"DUMPROM", "DUMPRAM"}
    BY <1>7 DEF DumpHdr, Refuse, Access, Reply, NoReply
  <2> QED
    BY <1>0, <1>7, <1>k, <2>1, <2>2 DEF DumpHdr, Refuse, Access
<1>8. ASSUME NEW m \in Media, NEW idx \in Idxs, NEW len \in {0, 1}, Dump(m, idx, len)
      PROVE  WalkInv' /\ \A m2 \in Media : StepSound(m2)
  BY <1>8, DumpWalk
<1>9. ASSUME NEW c, SetConfig \/ ChangeCart(c) \/ PowerCycle
      PROVE  WalkInv' /\ \A m \in Media : StepSound(m)
  BY <1>9, <1>n, NoWalkInv DEF SetConfig, ChangeCart, PowerCycle, NoReply, Reply
<1> QED
  BY <1>1, <1>2, <1>3, <1>4, <1>5, <1>6, <1>7, <1>8, <1>9 DEF Next, Request

\* A stuttering step keeps the walks backed.
LEMMA WalkStutter ==
  ASSUME WalkInv, UNCHANGED vars PROVE WalkInv'
  BY WalkKept DEF vars

\* No walk is under way after power-up.
LEMMA InitWalk == Init => WalkInv
  BY DEF Init, WalkInv, NoWalk

\* Dumps are exact and complete: in a build without STRICT, whatever requests the
\* host interleaves and whatever the user does to the slot, a chunk delivered in
\* order is the chunk of its index, and an empty answer is the end of the medium.
THEOREM DumpsCorrect ==
  ASSUME ~STRICT
  PROVE  Spec => []WalkBacked /\ DumpExact /\ DumpComplete
<1> DEFINE IInv == TypeOK /\ BusInv /\ WalkInv
<1>1. Init => IInv
  BY InitType, InitBus, InitWalk
<1>2. IInv /\ [Next]_vars => IInv'
  BY TypeStep, BusStep, WalkStep, WalkStutter
<1>3. IInv /\ [Next]_vars =>
        [\A m \in Media : DumpAnswered(m) /\ reply'.data # <<>> => reply'.data = <<reply'.at>>]_vars
  BY WalkStep DEF StepSound
<1>4. IInv /\ [Next]_vars =>
        [\A m \in Media : open /\ (m = "rom" => ~BWidth(cart.hdr)) => EndIsEnd(m)]_vars
  BY WalkStep DEF StepSound
<1>5. IInv => WalkBacked
  BY DEF WalkInv, WalkBacked
<1> QED
  BY <1>1, <1>2, <1>3, <1>4, <1>5, PTL DEF Spec, DumpExact, DumpComplete

----------------------------------------------------------------------------
(* How far the disagreements go that the runs byte_rom, strict_dump and    *)
(* lookup show: what of the property holds all the same, and when, for     *)
(* every value of the constants.                                           *)

\* A step that answers the start of a ROM dump of a byte-wide cartridge with
\* nothing at all.
EmptyStart ==
  open /\ BWidth(cart.hdr) /\ reply'.op = "DUMPROM" /\ reply'.at = 0 /\ reply'.ask = 1
    => reply'.data = <<>>

\* The reply of a dump after the header check.
LEMMA StreamReplies ==
  ASSUME NEW m, NEW idx, NEW h, NEW b, NEW rg, NEW rcs, Stream(m, idx, h, b, rg, rcs)
  PROVE  /\ reply' = NoReply \/ (reply'.op = DumpOp[m] /\ reply'.at = idx)
         /\ \E size \in SizesOf(m, h) : size > idx \/ reply'.data = <<>>
  BY DEF Stream, Access, Reply

\* TAP_DUMPROM and TAP_DUMPRAM: the size code a byte-wide header leaves is 0,
\* and entry 0 of cart_rom_sz is 0.
LEMMA DumpStart ==
  ASSUME TypeOK, BusInv, NEW m \in Media, NEW idx \in Idxs, NEW len \in {0, 1},
         Dump(m, idx, len)
  PROVE  EmptyStart
<1> SUFFICES ASSUME open, BWidth(cart.hdr), reply'.op = "DUMPROM", reply'.at = 0, reply'.ask = 1
             PROVE  reply'.data = <<>>
  BY DEF EmptyStart
<1>0. idx \in Nat /\ DumpOp["ram"] # "DUMPROM" /\ NoReply.op # "DUMPROM"
  BY TapAssumption DEF DumpOp, NoReply, Reply
<1>1. CASE Refuse(TAP_ERR_DATA, DumpOp[m], idx, len)
  BY <1>1 DEF Refuse, Reply
<1>2. CASE reply' = NoReply
  BY <1>0, <1>2
<1>3. CASE idx > 0 /\ Stream(m, idx, hdr, bus, regs, {})
  <2>1. reply'.at = idx \/ reply' = NoReply
    BY <1>3, StreamReplies
  <2> QED
    BY <1>0, <1>2, <1>3, <2>1
<1>4. ASSUME NEW d, reply' = Reply(DumpOp[m], idx, len, <<>>, d.rcs)
      PROVE  reply'.data = <<>>
  BY <1>4 DEF Reply
<1>5. ASSUME bus.clk, idx = 0, NEW d \in DumpHeader,
             Stream(m, idx, d.hdr, d.bus, d.regs, d.rcs)
      PROVE  reply'.data = <<>>
  <2>1. CASE m = "ram"
    <3>1. reply'.op = DumpOp["ram"] \/ reply' = NoReply
      BY <1>5, <2>1, StreamReplies
    <3> QED
      BY <1>0, <3>1
  <2>2. CASE m = "rom"
    <3>1. d.hdr[SizeCode["rom"]] = 0
      BY <1>5, HeaderMatches DEF Match, Media
    <3>2. SizesOf("rom", d.hdr) = {0}
      BY <3>1, TapAssumption DEF SizesOf, InTable, Media
    <3>3. \E size \in SizesOf(m, d.hdr) : size > idx \/ reply'.data = <<>>
      BY <1>5, StreamReplies
    <3> QED
      BY <1>5, <2>2, <3>2, <3>3
  <2> QED
    BY <2>1, <2>2 DEF Media
<1> QED
  BY <1>1, <1>2, <1>3, <1>4, <1>5 DEF Dump, Access

LEMMA StartStep == TypeOK /\ BusInv /\ Next => EmptyStart
<1> SUFFICES ASSUME TypeOK, BusInv, Next PROVE EmptyStart
  OBVIOUS
<1>n. reply'.op # "DUMPROM" \/ reply'.ask # 1 => EmptyStart
  BY DEF EmptyStart
<1>1. CASE \/ \E len \in {0, 1} : GetState(len) \/ GetError(len)
           \/ ClrErr
           \/ \E op \in Leveled : IgnoreWhileError(op)
           \/ \E op \in Unserved \cup {"other"} : Stall(op)
           \/ \E secret \in BOOLEAN : Handshake(secret)
  BY <1>1, <1>n DEF GetState, GetError, Status, ClrErr, IgnoreWhileError, Stall, Handshake, Reply
<1>2. CASE \/ \E port \in Ports, ask \in Lens : MbcPeek(port, ask)
           \/ \E port \in Ports, ask \in Lens, v \in PokeVals : MbcPoke(port, ask, v)
  BY <1>2, <1>n DEF MbcPeek, MbcPoke, Refuse, Access, Reply, NoReply
<1>3. ASSUME NEW op \in {"RAMPEEK", "RAMPOKE", "R0MPEEK", "R1MPEEK"}, NEW addr, NEW ask,
             RamAccess(op, addr, ask) \/ RomPeek(op, addr, ask)
      PROVE  EmptyStart
  BY <1>3, <1>n DEF RamAccess, RomPeek, Refuse, Access, Reply, NoReply
<1>4. ASSUME NEW len, DumpHdr(len) PROVE EmptyStart
  BY <1>4, <1>n DEF DumpHdr, Refuse, Access, Reply, NoReply
<1>5. ASSUME NEW m \in Media, NEW idx \in Idxs, NEW len \in {0, 1}, Dump(m, idx, len)
      PROVE  EmptyStart
  BY <1>5, DumpStart
<1>6. ASSUME NEW c, SetConfig \/ ChangeCart(c) \/ PowerCycle PROVE EmptyStart
  BY <1>6, <1>n DEF SetConfig, ChangeCart, PowerCycle, Reply, NoReply
<1> QED
  BY <1>1, <1>2, <1>3, <1>4, <1>5, <1>6 DEF Next, Request

\* The dump of a ROM that is 8 bits wide never starts, with STRICT as without,
\* whatever was served before: chunk 0 is answered with nothing, or refused.
THEOREM ByteRomEmpty ==
  Spec => [][open /\ BWidth(cart.hdr) /\ reply'.op = "DUMPROM" /\ reply'.at = 0 /\ reply'.ask = 1
             => reply'.data = <<>>]_vars
<1>1. TypeOK /\ BusInv /\ [Next]_vars =>
        [open /\ BWidth(cart.hdr) /\ reply'.op = "DUMPROM" /\ reply'.at = 0 /\ reply'.ask = 1
         => reply'.data = <<>>]_vars
  BY StartStep DEF EmptyStart
<1> QED
  BY <1>1, InitType, InitBus, TypeStep, BusStep, PTL DEF Spec

\* A dump that leaves the mapper alone and carries no byte of a save RAM.
Blind ==
  open /\ open' /\ reply'.op \in {"DUMPROM", "DUMPRAM"} =>
    /\ regs' = regs
    /\ reply'.op = "DUMPRAM" /\ reply'.data # <<>> => reply'.data = <<Stale>>

\* The part of a dump after the header check, on a bus that is 16 bits wide.
LEMMA StreamBlind ==
  ASSUME STRICT, NEW m \in Media, NEW idx, NEW h, NEW b \in BusStates, Is16(b), NEW rcs,
         Stream(m, idx, h, b, regs, rcs)
  PROVE  Blind
<1>1. MbcRc(b, BankReg[m]) # FIN /\ SramRc(b, SRAM_BASE) # FIN
  BY DEF MbcRc, SramRc, FIN, BADREG, BADADDR, BADWIDTH
<1>2. regs' = regs
  BY <1>1 DEF Stream, Access, PokeReg, slot
<1>3. reply'.op = "DUMPRAM" => m = "ram"
  BY DEF Stream, Access, Reply, NoReply, DumpOp, Media
<1>4. m = "ram" => reply'.data = <<>> \/ reply'.data = <<Stale>>
  BY <1>1 DEF Stream, Access, Reply, NoReply, ChunkRead
<1> QED
  BY <1>2, <1>3, <1>4 DEF Blind

\* TAP_DUMPROM and TAP_DUMPRAM: between requests, and after the header read, the
\* bus of a STRICT build is 16 bits wide.
LEMMA DumpBlind ==
  ASSUME STRICT, TypeOK, BusInv, NEW m \in Media, NEW idx, NEW len, Dump(m, idx, len)
  PROVE  Blind
<1> SUFFICES ASSUME open PROVE Blind
  BY DEF Blind
<1>0. bus.clk /\ Is16(bus) /\ bus \in BusStates
  BY DEF BusInv, OpenBusClocked, StrictRestores, TypeOK, Is16
<1>1. CASE regs' = regs /\ reply'.data = <<>>
  BY <1>1 DEF Blind
<1>2. CASE Refuse(TAP_ERR_DATA, DumpOp[m], idx, len)
  BY <1>1, <1>2 DEF Refuse, Reply, slot
<1>3. CASE Stream(m, idx, hdr, bus, regs, {})
  BY <1>0, <1>3, StreamBlind
<1>4. ASSUME NEW d \in DumpHeader
      PROVE  d.bus \in BusStates /\ Is16(d.bus) /\ d.regs = regs
  BY <1>0, HeaderRead, HeaderTypes DEF Is16
<1>5. ASSUME NEW d \in DumpHeader, Stream(m, idx, d.hdr, d.bus, d.regs, d.rcs)
      PROVE  Blind
  <2>1. Stream(m, idx, d.hdr, d.bus, regs, d.rcs)
    BY <1>4, <1>5
  <2> QED
    BY <1>4, <2>1, StreamBlind
<1>6. ASSUME NEW d \in DumpHeader, regs' = d.regs,
             reply' = Reply(DumpOp[m], idx, len, <<>>, d.rcs)
      PROVE  Blind
  BY <1>1, <1>4, <1>6 DEF Reply
<1> QED
  BY <1>0, <1>2, <1>3, <1>5, <1>6 DEF Dump, Access

LEMMA BlindStep == STRICT /\ TypeOK /\ BusInv /\ Next => Blind
<1> SUFFICES ASSUME STRICT, TypeOK, BusInv, Next PROVE Blind
  OBVIOUS
<1>n. reply'.op \notin {"DUMPROM", "DUMPRAM"} => Blind
  BY DEF Blind
<1>k. UNCHANGED slot /\ reply'.data = <<>> => Blind
  BY DEF Blind, slot
<1>1. CASE \/ \E len \in {0, 1} : GetState(len) \/ GetError(len)
           \/ ClrErr
           \/ \E op \in Unserved \cup {"other"} : Stall(op)
           \/ \E secret \in BOOLEAN : Handshake(secret)
  BY <1>1, <1>n DEF GetState, GetError, Status, ClrErr, Stall, Handshake, Reply
<1>2. ASSUME NEW op \in Leveled, IgnoreWhileError(op) PROVE Blind
  BY <1>2, <1>k DEF IgnoreWhileError, Reply
<1>3. CASE \/ \E port \in Ports, ask \in Lens : MbcPeek(port, ask)
           \/ \E port \in Ports, ask \in Lens, v \in PokeVals : MbcPoke(port, ask, v)
  BY <1>3, <1>n DEF MbcPeek, MbcPoke, Refuse, Access, Reply, NoReply
<1>4. ASSUME NEW op \in {"RAMPEEK", "RAMPOKE", "R0MPEEK", "R1MPEEK"}, NEW addr, NEW ask,
             RamAccess(op, addr, ask) \/ RomPeek(op, addr, ask)
      PROVE  Blind
  BY <1>4, <1>n DEF RamAccess, RomPeek, Refuse, Access, Reply, NoReply
<1>5. ASSUME NEW len, DumpHdr(len) PROVE Blind
  BY <1>5, <1>n DEF DumpHdr, Refuse, Access, Reply, NoReply
<1>6. ASSUME NEW m \in Media, NEW idx, NEW len, Dump(m, idx, len) PROVE Blind
  BY <1>6, DumpBlind
<1>7. ASSUME NEW c, SetConfig \/ ChangeCart(c) \/ PowerCycle PROVE Blind
  BY <1>7, <1>n DEF SetConfig, ChangeCart, PowerCycle, Reply, NoReply
<1> QED
  BY <1>1, <1>2, <1>3, <1>4, <1>5, <1>6, <1>7 DEF Next, Request

\* In a STRICT build no dump selects a bank, and no dump of a save RAM reads a
\* byte of it: what it delivers is what the buffer held before.
THEOREM StrictDumpsBlind ==
  ASSUME STRICT
  PROVE  Spec => [][open /\ open' /\ reply'.op \in {"DUMPROM", "DUMPRAM"} =>
                      /\ regs' = regs
                      /\ reply'.op = "DUMPRAM" /\ reply'.data # <<>> =>
                           reply'.data = <<Stale>>]_vars
<1>1. TypeOK /\ BusInv /\ [Next]_vars =>
        [open /\ open' /\ reply'.op \in {"DUMPROM", "DUMPRAM"} =>
           /\ regs' = regs
           /\ reply'.op = "DUMPRAM" /\ reply'.data # <<>> => reply'.data = <<Stale>>]_vars
  BY BlindStep DEF Blind
<1> QED
  BY <1>1, InitType, InitBus, TypeStep, BusStep, PTL DEF Spec

\* WidthPrepared, of every request but the dumps.
PreparedElsewhere == reply.op \notin {"DUMPROM", "DUMPRAM"} => WidthPrepared

\* Between a pair of #ifdef STRICT brackets no access finds the bus 16 bits wide,
\* and reading the ROM minds no width.
LEMMA NarrowPrepared ==
  ASSUME NEW a
  PROVE  /\ \A b : MbcRc(Narrow(b), a) # BADWIDTH /\ SramRc(Narrow(b), a) # BADWIDTH
         /\ \A b : NorRc(b, a) # BADWIDTH
<1>1. \A b : STRICT => ~Is16(Narrow(b))
  BY DEF Narrow, Width8, ToggleWidth, Is16
<1> QED
  BY <1>1 DEF MbcRc, SramRc, NorRc, FIN, BADADDR, BADREG, BADWIDTH

LEMMA PreparedStep == PreparedElsewhere /\ [Next]_vars => PreparedElsewhere'
<1> SUFFICES ASSUME PreparedElsewhere, [Next]_vars PROVE PreparedElsewhere'
  OBVIOUS
<1>n. reply'.rcs = {} \/ reply'.op \in {"DUMPROM", "DUMPRAM"} => PreparedElsewhere'
  BY DEF PreparedElsewhere, WidthPrepared
<1>e. reply'.rcs \cap {"BADWIDTH"} = {} => PreparedElsewhere'
  BY DEF PreparedElsewhere, WidthPrepared
<1>1. CASE \/ \E len \in {0, 1} : GetState(len) \/ GetError(len)
           \/ ClrErr
           \/ \E op \in Leveled : IgnoreWhileError(op)
           \/ \E op \in Unserved \cup {"other"} : Stall(op)
           \/ \E secret \in BOOLEAN : Handshake(secret)
           \/ SetConfig \/ (\E c \in Carts \cup {NoCart} : ChangeCart(c)) \/ PowerCycle
  BY <1>1, <1>n DEF GetState, GetError, Status, ClrErr, IgnoreWhileError, Stall, Handshake,
     SetConfig, ChangeCart, PowerCycle, Reply, NoReply
<1>2. ASSUME NEW port \in Ports, NEW ask \in Lens, MbcPeek(port, ask) PROVE PreparedElsewhere'
  <2>1. CASE reply'.rcs = {}
    BY <2>1, <1>n
  <2>2. CASE reply'.rcs = {MbcRc(Narrow(bus), port + i - 1) : i \in 1..MbcWindow(port, ask)}
    BY <2>2, <1>e, NarrowPrepared DEF BADWIDTH
  <2> QED
    BY <1>2, <2>1, <2>2 DEF MbcPeek, Refuse, Access, Reply, NoReply
<1>3. ASSUME NEW port \in Ports, NEW ask \in Lens, NEW v \in PokeVals, MbcPoke(port, ask, v)
      PROVE  PreparedElsewhere'
  <2>1. CASE reply'.rcs = {}
    BY <2>1, <1>n
  <2>2. CASE reply'.rcs = {MbcRc(Narrow(bus), port + i - 1) : i \in 1..MbcWindow(port, ask)}
    BY <2>2, <1>e, NarrowPrepared DEF BADWIDTH
  <2> QED
    BY <1>3, <2>1, <2>2 DEF MbcPoke, Refuse, Access, Reply, NoReply
<1>4. ASSUME NEW op, NEW addr, NEW ask, RamAccess(op, addr, ask) PROVE PreparedElsewhere'
  <2>1. CASE reply'.rcs = {}
    BY <2>1, <1>n
  <2>2. CASE reply'.rcs = {SramRc(Narrow(bus), SRAM_BASE + addr + i - 1) : i \in 1..RamWindow(addr, ask)}
    BY <2>2, <1>e, NarrowPrepared DEF BADWIDTH
  <2> QED
    BY <1>4, <2>1, <2>2 DEF RamAccess, Refuse, Access, Reply, NoReply
<1>5. ASSUME NEW op, NEW addr, NEW ask, RomPeek(op, addr, ask) PROVE PreparedElsewhere'
  <2> DEFINE a(i) == (IF op = "R1MPEEK" THEN ROM1_BASE ELSE ROM0_BASE) + addr + i - 1
  <2>1. CASE reply'.rcs = {}
    BY <2>1, <1>n
  <2>2. CASE reply'.rcs = {NorRc(bus, a(i) - (a(i) % 2)) : i \in 1..RomWindow(addr, ask)}
    <3> HIDE DEF a
    <3> QED
      BY <2>2, <1>e, NarrowPrepared DEF BADWIDTH
  <2> QED
    BY <1>5, <2>1, <2>2 DEF RomPeek, Refuse, Access, Reply, NoReply
<1>6. ASSUME NEW len, DumpHdr(len) PROVE PreparedElsewhere'
  <2>1. CASE reply'.rcs = {}
    BY <2>1, <1>n
  <2>2. ASSUME NEW d \in DumpHeader, reply'.rcs = d.rcs PROVE PreparedElsewhere'
    <3>1. \E b : d.rcs = {MbcRc(Narrow(bus), REG_ROM_BANK_0), MbcRc(Narrow(b), REG_ROM_BANK_0)}
      BY DEF DumpHeader
    <3> QED
      BY <2>2, <3>1, <1>e, NarrowPrepared DEF BADWIDTH
  <2> QED
    BY <1>6, <2>1, <2>2 DEF DumpHdr, Refuse, Access, Reply, NoReply
<1>7. ASSUME NEW m \in Media, NEW idx, NEW len, Dump(m, idx, len) PROVE PreparedElsewhere'
  <2>1. DumpOp[m] \in {"DUMPROM", "DUMPRAM"}
    BY DEF DumpOp, Media
  <2>2. reply'.op = DumpOp[m] \/ reply' = NoReply
    BY <1>7, StreamReplies DEF Dump, Refuse, Access, Reply
  <2> QED
    BY <1>n, <2>1, <2>2 DEF NoReply, Reply
<1>8. CASE UNCHANGED vars
  BY <1>8 DEF PreparedElsewhere, WidthPrepared, vars
<1> QED
  BY <1>1, <1>2, <1>3, <1>4, <1>5, <1>6, <1>7, <1>8 DEF Next, Request

\* Every request but the two dumps makes its accesses on a bus of the right
\* width: TAP_DUMPHDR, which shares the poke of the bank register with them, and
\* all raw requests.
THEOREM WidthPreparedElsewhere ==
  Spec => [](reply.op \notin {"DUMPROM", "DUMPRAM"} => WidthPrepared)
<1>1. Init => PreparedElsewhere
  BY DEF Init, PreparedElsewhere, WidthPrepared, NoReply, Reply
<1>2. PreparedElsewhere <=> (reply.op \notin {"DUMPROM", "DUMPRAM"} => WidthPrepared)
  BY DEF PreparedElsewhere
<1> QED
  BY <1>1, <1>2, PreparedStep, PTL DEF Spec

\* Whatever the firmware may take for a header has both its size codes in the
\* tables: that of every cartridge, and what a bus nobody drives shows.
CodesInside ==
  \A h \in {c.hdr : c \in Carts} \cup OpenBus :
    h[OPCODE] = JMPF => \A m \in Media : InTable(m, h)

\* So has the cached header, which both media share.
CacheInside == \A m \in Media : InTable(m, hdr)

\* The header read has the codes of one of those, or 0 where the byte pass
\* has blanked them.
LEMMA HeaderInside ==
  ASSUME CodesInside, TypeOK, NEW d \in DumpHeader, d.hdr[OPCODE] = JMPF, NEW m \in Media
  PROVE  InTable(m, d.hdr)
<1> DEFINE last == LastBank(regs, Narrow(bus))
           words(src) == WordPass(Widen(Narrow(bus)), src)
<1>1. PICK src \in HeaderAt(last) :
        d.hdr = IF BWidth(words(src)) THEN BytePass(words(src), src) ELSE words(src)
  BY DEF DumpHeader
<1>2. src \in Headers /\ src \in {c.hdr : c \in Carts} \cup OpenBus
  BY TapAssumption DEF HeaderAt, TypeOK
<1>3. /\ d.hdr[OPCODE] = src[OPCODE]
      /\ d.hdr[SizeCode[m]] \in {0, src[SizeCode[m]]}
  BY <1>1, <1>2 DEF WordPass, BytePass, EvenOffset, HdrBytes, OPCODE, SizeCode, Media
<1>4. 0 \in DOMAIN Table(m)
  BY TapAssumption
<1> QED
  BY <1>2, <1>3, <1>4 DEF CodesInside, InTable

\* A lookup past the end of a table is none of the codes an access returns.
LEMMA RcNames ==
  \A b, a : "OUT_OF_TABLE" \notin {MbcRc(b, a), SramRc(b, a), NorRc(b, a)}
  BY DEF MbcRc, SramRc, NorRc, FIN, BADADDR, BADREG, BADWIDTH

\* The part of a dump after the header check.
LEMMA StreamInside ==
  ASSUME CacheInside, LookupsInside, NEW m \in Media, NEW idx, NEW h,
         \A m2 \in Media : InTable(m2, h), NEW b, NEW rg, NEW rcs, "OUT_OF_TABLE" \notin rcs,
         Stream(m, idx, h, b, rg, rcs)
  PROVE  (CacheInside /\ LookupsInside)'
<1>1. ASSUME hdr' \in {ZeroHdr, hdr, h} PROVE CacheInside'
  <2>1. \A m2 \in Media : InTable(m2, ZeroHdr)
    BY TapAssumption DEF InTable, ZeroHdr, SizeCode, Media, HdrBytes
  <2> QED
    BY <1>1, <2>1 DEF CacheInside, InTable
<1>2. hdr' \in {ZeroHdr, hdr, h}
  BY DEF Stream, Access
<1>3. "OUT_OF_TABLE" \notin reply'.rcs
  BY RcNames DEF Stream, Access, Reply, NoReply
<1> QED
  BY <1>1, <1>2, <1>3 DEF LookupsInside

\* TAP_DUMPROM and TAP_DUMPRAM: a header is cached only when its opcode was found.
LEMMA DumpInside ==
  ASSUME CodesInside, TypeOK, CacheInside, LookupsInside,
         NEW m \in Media, NEW idx, NEW len, Dump(m, idx, len)
  PROVE  (CacheInside /\ LookupsInside)'
<1>k. hdr' = hdr /\ reply'.rcs = {} => (CacheInside /\ LookupsInside)'
  BY DEF CacheInside, InTable, LookupsInside
<1>1. CASE Refuse(TAP_ERR_DATA, DumpOp[m], idx, len)
  BY <1>1, <1>k DEF Refuse, Reply
<1>2. CASE reply' = NoReply /\ UNCHANGED hdr
  BY <1>2, <1>k DEF NoReply, Reply
<1>3. CASE Stream(m, idx, hdr, bus, regs, {})
  BY <1>3, StreamInside DEF CacheInside
<1>4. ASSUME NEW d \in DumpHeader
      PROVE  "OUT_OF_TABLE" \notin d.rcs
  <2>1. \E b, c : d.rcs = {MbcRc(b, REG_ROM_BANK_0), MbcRc(c, REG_ROM_BANK_0)}
    BY DEF DumpHeader
  <2> QED
    BY <2>1, RcNames
<1>5. ASSUME NEW d \in DumpHeader, ~Refused(m, d.hdr), Stream(m, idx, d.hdr, d.bus, d.regs, d.rcs)
      PROVE  (CacheInside /\ LookupsInside)'
  <2>1. \A m2 \in Media : InTable(m2, d.hdr)
    BY <1>5, HeaderInside DEF Refused
  <2> QED
    BY <1>4, <1>5, <2>1, StreamInside
<1>6. ASSUME NEW d \in DumpHeader, hdr' = ZeroHdr,
             reply' = Reply(DumpOp[m], idx, len, <<>>, d.rcs)
      PROVE  (CacheInside /\ LookupsInside)'
  <2>1. \A m2 \in Media : InTable(m2, ZeroHdr)
    BY TapAssumption DEF InTable, ZeroHdr, SizeCode, Media, HdrBytes
  <2> QED
    BY <1>4, <1>6, <2>1 DEF CacheInside, InTable, LookupsInside, Reply
<1> QED
  BY <1>1, <1>2, <1>3, <1>5, <1>6 DEF Dump, Access

LEMMA LookupStep ==
  CodesInside /\ TypeOK /\ CacheInside /\ LookupsInside /\ [Next]_vars
    => (CacheInside /\ LookupsInside)'
<1> SUFFICES ASSUME CodesInside, TypeOK, CacheInside, LookupsInside, [Next]_vars
             PROVE  (CacheInside /\ LookupsInside)'
  OBVIOUS
<1>k. UNCHANGED hdr /\ "OUT_OF_TABLE" \notin reply'.rcs => (CacheInside /\ LookupsInside)'
  BY DEF CacheInside, InTable, LookupsInside
<1>f. UNCHANGED fw => UNCHANGED hdr
  BY DEF fw
<1>1. CASE \/ \E len \in {0, 1} : GetState(len) \/ GetError(len)
           \/ ClrErr
           \/ \E op \in Leveled : IgnoreWhileError(op)
           \/ \E op \in Unserved \cup {"other"} : Stall(op)
           \/ \E secret \in BOOLEAN : Handshake(secret)
           \/ SetConfig \/ (\E c \in Carts \cup {NoCart} : ChangeCart(c))
  BY <1>1, <1>k, <1>f DEF GetState, GetError, Status, ClrErr, IgnoreWhileError, Stall, Handshake,
     SetConfig, ChangeCart, Reply, NoReply
<1>2. CASE PowerCycle
  <2>1. \A m2 \in Media : InTable(m2, ZeroHdr)
    BY TapAssumption DEF InTable, ZeroHdr, SizeCode, Media, HdrBytes
  <2> QED
    BY <1>2, <2>1 DEF PowerCycle, CacheInside, InTable, LookupsInside, Reply, NoReply
<1>3. ASSUME NEW port \in Ports, NEW ask \in Lens, MbcPeek(port, ask)
      PROVE  (CacheInside /\ LookupsInside)'
  BY <1>3, <1>k, RcNames DEF MbcPeek, Refuse, Access, Reply, NoReply
<1>4. ASSUME NEW port \in Ports, NEW ask \in Lens, NEW v \in PokeVals, MbcPoke(port, ask, v)
      PROVE  (CacheInside /\ LookupsInside)'
  BY <1>4, <1>k, RcNames DEF MbcPoke, Refuse, Access, Reply, NoReply
<1>5. ASSUME NEW op, NEW addr, NEW ask, RamAccess(op, addr, ask)
      PROVE  (CacheInside /\ LookupsInside)'
  BY <1>5, <1>k, RcNames DEF RamAccess, Refuse, Access, Reply, NoReply
<1>6. ASSUME NEW op, NEW addr, NEW ask, RomPeek(op, addr, ask)
      PROVE  (CacheInside /\ LookupsInside)'
  BY <1>6, <1>k, <1>f, RcNames DEF RomPeek, Refuse, Access, Reply, NoReply
<1>7. ASSUME NEW len, DumpHdr(len) PROVE (CacheInside /\ LookupsInside)'
  <2>1. ASSUME NEW d \in DumpHeader, reply'.rcs = d.rcs PROVE "OUT_OF_TABLE" \notin reply'.rcs
    <3>1. \E b, c : d.rcs = {MbcRc(b, REG_ROM_BANK_0), MbcRc(c, REG_ROM_BANK_0)}
      BY DEF DumpHeader
    <3> QED
      BY <2>1, <3>1, RcNames
  <2> QED
    BY <1>7, <1>k, <2>1 DEF DumpHdr, Refuse, Access, Reply, NoReply
<1>8. ASSUME NEW m \in Media, NEW idx, NEW len, Dump(m, idx, len)
      PROVE  (CacheInside /\ LookupsInside)'
  BY <1>8, DumpInside
<1>9. CASE UNCHANGED vars
  BY <1>9, <1>k DEF vars, LookupsInside
<1> QED
  BY <1>1, <1>2, <1>3, <1>4, <1>5, <1>6, <1>7, <1>8, <1>9 DEF Next, Request

\* With headers whose codes are all in the tables, every lookup is inside them,
\* also those made with the header that the dump of the other medium has cached:
\* no other way leads past the end.
THEOREM LookupsInsideWhen ==
  ASSUME CodesInside
  PROVE  Spec => []LookupsInside
<1>1. Init => CacheInside /\ LookupsInside
  <2>1. \A m2 \in Media : InTable(m2, ZeroHdr)
    BY TapAssumption DEF InTable, ZeroHdr, SizeCode, Media, HdrBytes
  <2> QED
    BY <2>1 DEF Init, CacheInside, InTable, LookupsInside, Reply, NoReply
<1>2. TypeOK /\ CacheInside /\ LookupsInside /\ [Next]_vars => (CacheInside /\ LookupsInside)'
  BY LookupStep
<1> QED
  BY <1>1, <1>2, InitType, TypeStep, PTL DEF Spec
==============================================================================
