------------------------------- MODULE TapTypes ------------------------------
(***************************************************************************)
(* The type invariant of Tap, for every value of the constants: one lemma per *)
(* request, and a lemma for each helper they share.                        *)
(***************************************************************************)
EXTENDS Tap, TLAPS

\* A reply built from parts of the right types is a reply.
LEMMA ReplyType ==
  ASSUME NEW op \in Ops, NEW at \in Nat, NEW ask \in Nat, NEW data \in Seq(Int), NEW rcs \in SUBSET Rcs
  PROVE Reply(op, at, ask, data, rcs) \in Replies
  BY DEF Reply, Replies

\* So is the empty one, left by a step that answers nothing.
LEMMA NoReplyType == NoReply \in Replies
  BY DEF NoReply, Reply, Replies, Ops

\* The bus operators of fsmc.c stay within the states of the bus.
LEMMA BusTypes ==
  /\ BusReset \in BusStates /\ BusSetup \in BusStates
  /\ \A b \in BusStates :
       /\ Width8(b) \in BusStates /\ Width16(b) \in BusStates
       /\ Narrow(b) \in BusStates /\ Widen(b) \in BusStates
  BY DEF BusReset, BusSetup, BusStates, Width8, Width16, Narrow, Widen, ToggleWidth, Is16

\* The mapper's registers keep their type through a poke, and the two bank
\* registers are among them.
LEMMA RegsTypes ==
  /\ RegsPowerOn \in [Registers -> 0..NumBanks-1]
  /\ \A rg \in [Registers -> 0..NumBanks-1], reg \in Registers, val \in 0..NumBanks-1 :
       \A b : PokeReg(rg, b, reg, val) \in [Registers -> 0..NumBanks-1]
  /\ REG_ROM_BANK_0 \in Registers /\ REG_RAM_BANK \in Registers
  /\ NumBanks - 1 \in 0..NumBanks-1
  BY BusAssumption DEF RegsPowerOn, Registers, PokeReg, REG_ROM_BANK_0, REG_RAM_BANK

\* Every access routine returns one of its codes.
LEMMA RcTypes ==
  \A b, a : MbcRc(b, a) \in Rcs /\ SramRc(b, a) \in Rcs /\ NorRc(b, a) \in Rcs
  BY DEF MbcRc, SramRc, NorRc, Rcs, ReturnCodes, FIN, BADADDR, BADREG, BADWIDTH

\* __dump_header leaves a header, a bus and registers of the right types.
LEMMA HeaderTypes ==
  ASSUME TypeOK, NEW d \in DumpHeader
  PROVE  /\ d.hdr \in Headers /\ d.bus \in BusStates
         /\ d.regs \in [Registers -> 0..NumBanks-1] /\ d.rcs \in SUBSET Rcs
<1> DEFINE narrow == Narrow(bus)
           last == LastBank(regs, narrow)
           b == Widen(narrow)
           words(src) == WordPass(b, src)
           after(src) == IF BWidth(words(src)) THEN Width8(b) ELSE b
           back(src) == Narrow(after(src))
<1>1. PICK src \in HeaderAt(last) :
        d = [hdr |-> IF BWidth(words(src)) THEN BytePass(words(src), src) ELSE words(src),
             bus |-> Widen(back(src)),
             regs |-> BankBack(last, back(src), regs[REG_ROM_BANK_0]),
             rcs |-> {MbcRc(narrow, REG_ROM_BANK_0), MbcRc(back(src), REG_ROM_BANK_0)}]
  BY DEF DumpHeader
<1>2. src \in Headers
  BY TapAssumption DEF HeaderAt, TypeOK
<1>3. words(src) \in Headers /\ BytePass(words(src), src) \in Headers
  BY <1>2 DEF WordPass, BytePass, Headers
<1>4. after(src) \in BusStates /\ back(src) \in BusStates /\ Widen(back(src)) \in BusStates
  BY BusTypes DEF TypeOK
<1>5. last \in [Registers -> 0..NumBanks-1] /\ regs[REG_ROM_BANK_0] \in 0..NumBanks-1
  BY RegsTypes DEF LastBank, TypeOK
<1>6. BankBack(last, back(src), regs[REG_ROM_BANK_0]) \in [Registers -> 0..NumBanks-1]
  BY <1>5, RegsTypes DEF BankBack
<1> QED
  BY <1>1, <1>3, <1>4, <1>6, RcTypes

\* The names of the requests are operations.
LEMMA OpTypes ==
  /\ {"none", "GETST8", "GETERR", "CLRERR", "STALL"} \cup Leveled \subseteq Ops
  /\ \A m \in Media : DumpOp[m] \in Ops
  BY DEF DumpOp, Media, Leveled, Ops

\* __set_error_state keeps the state and the error in their enumerations.
LEMMA ErrorTypes ==
  ASSUME TypeOK, NEW e \in Errors, SetErrorState(e)
  PROVE  st8' \in {TAP_ST8_IDLE, TAP_ST8_ERROR} /\ err' \in Errors
  BY DEF SetErrorState, TypeOK

\* A refused request keeps the types.
LEMMA RefuseType ==
  ASSUME TypeOK, NEW e \in Errors, NEW op \in Ops, NEW at \in Nat, NEW ask \in Nat,
         Refuse(e, op, at, ask)
  PROVE  TypeOK'
<1>1. st8' \in {TAP_ST8_IDLE, TAP_ST8_ERROR} /\ err' \in Errors
  BY ErrorTypes DEF Refuse
<1>2. reply' \in Replies
  <2>1. <<>> \in Seq(Int) /\ {} \in SUBSET Rcs
    OBVIOUS
  <2> QED
    BY <2>1, ReplyType DEF Refuse
<1> QED
  BY <1>1, <1>2 DEF Refuse, TypeOK, slot

\* So does one that faults.
LEMMA CrashType ==
  ASSUME TypeOK, halted' = TRUE /\ reply' = NoReply /\ UNCHANGED <<st8, err, hdr, bus, slot, walk>>
  PROVE  TypeOK'
  BY NoReplyType DEF TypeOK, slot

\* The origin of a byte is an integer.
LEMMA ArrivedType ==
  \A rc, a : a \in Int => Arrived(rc, a) \in Int
  BY DEF Arrived, Stale, Floating

\* The trims of *len never go below zero.
LEMMA WindowTypes ==
  /\ \A port \in Ports, ask \in Nat : MbcWindow(port, ask) \in Nat
  /\ \A addr \in Addrs, ask \in Nat : RamWindow(addr, ask) \in Nat /\ RomWindow(addr, ask) \in Nat
  BY BusAssumption, TapAssumption DEF MbcWindow, RamWindow, RomWindow

\* TAP_MBCPEEK keeps the types.
LEMMA MbcPeekType ==
  ASSUME TypeOK, NEW port \in Ports, NEW ask \in Lens, MbcPeek(port, ask)
  PROVE  TypeOK'
<1> DEFINE n == MbcWindow(port, ask)
           b == Narrow(bus)
           rc(i) == MbcRc(b, port + i - 1)
<1>0. port \in Nat /\ ask \in Nat /\ n \in Nat
  BY TapAssumption, WindowTypes
<1>1. CASE Refuse(TAP_ERR_DATA, "MBCPEEK", port, ask) \/ Refuse(TAP_ERR_ADDR, "MBCPEEK", port, ask)
  BY <1>0, <1>1, RefuseType, OpTypes DEF Errors, Leveled
<1>2. CASE halted' = TRUE /\ reply' = NoReply /\ UNCHANGED <<st8, err, hdr, bus, slot, walk>>
  BY <1>2, CrashType
<1>3. CASE /\ reply' = Reply("MBCPEEK", port, ask,
                         [i \in 1..n |-> Arrived(rc(i), port + i - 1)], {rc(i) : i \in 1..n})
           /\ bus' = Widen(b)
           /\ UNCHANGED <<st8, err, hdr, halted, slot, walk>>
  <2>1. [i \in 1..n |-> Arrived(rc(i), port + i - 1)] \in Seq(Int)
    BY <1>0, ArrivedType
  <2>2. {rc(i) : i \in 1..n} \in SUBSET Rcs
    BY RcTypes
  <2>3. reply' \in Replies
    BY <1>0, <1>3, <2>1, <2>2, ReplyType, OpTypes DEF Leveled
  <2> QED
    BY <1>3, <2>3, BusTypes DEF TypeOK, slot
<1> QED
  BY <1>1, <1>2, <1>3 DEF MbcPeek, Access

\* TAP_MBCPOKE keeps the types.
LEMMA MbcPokeType ==
  ASSUME TypeOK, NEW port \in Ports, NEW ask \in Lens, NEW v \in PokeVals, MbcPoke(port, ask, v)
  PROVE  TypeOK'
<1> DEFINE n == MbcWindow(port, ask)
           b == Narrow(bus)
           rc(i) == MbcRc(b, port + i - 1)
           poked == {r \in port .. port + n - 1 : open /\ MbcRc(b, r) = FIN}
<1>0. port \in Nat /\ ask \in Nat /\ n \in Nat /\ v \in Nat
  BY TapAssumption, BusAssumption, WindowTypes
<1>1. CASE Refuse(TAP_ERR_DATA, "MBCPOKE", port, ask) \/ Refuse(TAP_ERR_ADDR, "MBCPOKE", port, ask)
  BY <1>0, <1>1, RefuseType, OpTypes DEF Errors, Leveled
<1>2. CASE halted' = TRUE /\ reply' = NoReply /\ UNCHANGED <<st8, err, hdr, bus, slot, walk>>
  BY <1>2, CrashType
<1>3. CASE /\ regs' = [r \in Registers |->
                         IF r \in poked THEN (v + r - port) % NumBanks ELSE regs[r]]
           /\ walk' = [m \in Media |-> IF BankReg[m] \in poked THEN 0 ELSE walk[m]]
           /\ reply' = Reply("MBCPOKE", port, ask,
                         [i \in 1..n |-> Arrived(rc(i), port + i - 1)], {rc(i) : i \in 1..n})
           /\ bus' = Widen(b)
           /\ UNCHANGED <<st8, err, hdr, halted, cart, open>>
  <2>1. [i \in 1..n |-> Arrived(rc(i), port + i - 1)] \in Seq(Int)
    BY <1>0, ArrivedType
  <2>2. {rc(i) : i \in 1..n} \in SUBSET Rcs
    BY RcTypes
  <2>3. reply' \in Replies
    BY <1>0, <1>3, <2>1, <2>2, ReplyType, OpTypes DEF Leveled
  <2>4. ASSUME NEW r \in Registers PROVE (v + r - port) % NumBanks \in 0..NumBanks-1
    BY <1>0, BusAssumption DEF Registers
  <2>5. regs' \in [Registers -> 0..NumBanks-1]
    BY <1>3, <2>4 DEF TypeOK
  <2>6. walk' \in [Media -> Nat]
    BY <1>3 DEF TypeOK
  <2> QED
    BY <1>3, <2>3, <2>5, <2>6, BusTypes DEF TypeOK
<1> QED
  BY <1>1, <1>2, <1>3 DEF MbcPoke, Access

\* TAP_RAMPEEK and TAP_RAMPOKE keep the types.
LEMMA RamAccessType ==
  ASSUME TypeOK, NEW op \in {"RAMPEEK", "RAMPOKE"}, NEW addr \in Addrs, NEW ask \in Lens,
         RamAccess(op, addr, ask)
  PROVE  TypeOK'
<1> DEFINE n == RamWindow(addr, ask)
           b == Narrow(bus)
           a(i) == SRAM_BASE + addr + i - 1
           rc(i) == SramRc(b, a(i))
<1>0. addr \in Nat /\ ask \in Nat /\ n \in Nat /\ op \in Ops /\ SRAM_BASE \in Nat
  <2>1. op \in Ops
    BY OpTypes DEF Leveled
  <2>2. ask \in Nat /\ addr \in Nat /\ REGION_SIZE \in Nat
    BY TapAssumption, BusAssumption
  <2> QED
    BY <2>1, <2>2, WindowTypes DEF SRAM_BASE
<1>1. CASE Refuse(TAP_ERR_DATA, op, addr, ask)
  BY <1>0, <1>1, RefuseType DEF Errors
<1>2. CASE halted' = TRUE /\ reply' = NoReply /\ UNCHANGED <<st8, err, hdr, bus, slot, walk>>
  BY <1>2, CrashType
<1>3. CASE /\ reply' = Reply(op, addr, ask,
                         [i \in 1..n |-> Arrived(rc(i), a(i))], {rc(i) : i \in 1..n})
           /\ bus' = Widen(b)
           /\ UNCHANGED <<st8, err, hdr, halted, slot, walk>>
  <2>1. [i \in 1..n |-> Arrived(rc(i), a(i))] \in Seq(Int)
    BY <1>0, ArrivedType
  <2>2. {rc(i) : i \in 1..n} \in SUBSET Rcs
    BY RcTypes
  <2>3. reply' \in Replies
    BY <1>0, <1>3, <2>1, <2>2, ReplyType
  <2> QED
    BY <1>3, <2>3, BusTypes DEF TypeOK, slot
<1> QED
  BY <1>1, <1>2, <1>3 DEF RamAccess, Access

\* TAP_R0MPEEK and TAP_R1MPEEK keep the types.
LEMMA RomPeekType ==
  ASSUME TypeOK, NEW op \in {"R0MPEEK", "R1MPEEK"}, NEW addr \in Addrs, NEW ask \in Lens,
         RomPeek(op, addr, ask)
  PROVE  TypeOK'
<1> DEFINE n == RomWindow(addr, ask)
           base == IF op = "R1MPEEK" THEN ROM1_BASE ELSE ROM0_BASE
           a(i) == base + addr + i - 1
           word(i) == a(i) - (a(i) % 2)
           rc(i) == NorRc(bus, word(i))
           byte(i) == IF rc(i) = FIN /\ a(i) # word(i) /\ ~Is16(bus) THEN Blank
                      ELSE Arrived(rc(i), a(i))
<1>0. addr \in Nat /\ ask \in Nat /\ n \in Nat /\ op \in Ops /\ base \in Nat
  <2>1. op \in Ops
    BY OpTypes DEF Leveled
  <2>2. ask \in Nat /\ addr \in Nat /\ REGION_SIZE \in Nat
    BY TapAssumption, BusAssumption
  <2> QED
    BY <2>1, <2>2, WindowTypes DEF ROM0_BASE, ROM1_BASE
<1>1. CASE Refuse(TAP_ERR_DATA, op, addr, ask) \/ Refuse(TAP_ERR_ADDR, op, addr, ask)
  BY <1>0, <1>1, RefuseType DEF Errors
<1>2. CASE halted' = TRUE /\ reply' = NoReply /\ UNCHANGED <<st8, err, hdr, bus, slot, walk>>
  BY <1>2, CrashType
<1>3. CASE /\ reply' = Reply(op, addr, ask, [i \in 1..n |-> byte(i)], {rc(i) : i \in 1..n})
           /\ UNCHANGED <<fw, slot, walk>>
  <2>1. [i \in 1..n |-> byte(i)] \in Seq(Int)
    <3>1. ASSUME NEW i \in 1..n PROVE byte(i) \in Int
      BY <1>0, ArrivedType DEF Blank
    <3> HIDE DEF byte
    <3> QED
      BY <1>0, <3>1
  <2>2. {rc(i) : i \in 1..n} \in SUBSET Rcs
    BY RcTypes
  <2>3. reply' \in Replies
    <3> HIDE DEF byte, rc
    <3> QED
      BY <1>0, <1>3, <2>1, <2>2, ReplyType
  <2> QED
    BY <1>3, <2>3 DEF TypeOK, fw, slot
<1> QED
  BY <1>1, <1>2, <1>3 DEF RomPeek, Access

\* A function on 1..n is a sequence.
LEMMA SeqOfFunction ==
  ASSUME NEW n \in Nat, NEW g \in [1..n -> Int]
  PROVE  g \in Seq(Int)
  OBVIOUS

\* A header can be sent as a reply.
LEMMA HeaderIsSeq ==
  ASSUME NEW h \in Headers
  PROVE  h \in Seq(Int)
<1>1. h \in [1..5 -> 0..255]
  BY DEF Headers, HdrBytes
<1>2. h \in [1..5 -> Int]
  BY <1>1
<1>3. 5 \in Nat
  OBVIOUS
<1> QED
  BY <1>2, <1>3, SeqOfFunction

\* TAP_DUMPHDR keeps the types.
LEMMA DumpHdrType ==
  ASSUME TypeOK, NEW len \in {0, 1}, DumpHdr(len)
  PROVE  TypeOK'
<1>1. CASE Refuse(TAP_ERR_DATA, "DUMPHDR", 0, len)
  BY <1>1, RefuseType, OpTypes DEF Errors, Leveled
<1>2. CASE halted' = TRUE /\ reply' = NoReply /\ UNCHANGED <<st8, err, hdr, bus, slot, walk>>
  BY <1>2, CrashType
<1>3. ASSUME NEW d \in DumpHeader,
             reply' = Reply("DUMPHDR", 0, len, d.hdr, d.rcs),
             bus' = d.bus, regs' = d.regs,
             UNCHANGED <<st8, err, hdr, halted, cart, open, walk>>
      PROVE  TypeOK'
  <2>1. d.hdr \in Seq(Int)
    BY HeaderTypes, HeaderIsSeq
  <2>2. reply' \in Replies
    BY <1>3, <2>1, HeaderTypes, ReplyType, OpTypes DEF Leveled
  <2> QED
    BY <1>3, <2>2, HeaderTypes DEF TypeOK
<1> QED
  BY <1>1, <1>2, <1>3 DEF DumpHdr, Access

\* The size looked up is a number, past the end of the table too.
LEMMA SizeTypes ==
  ASSUME NEW m \in Media, NEW h \in Headers, NEW size \in SizesOf(m, h)
  PROVE  size \in Nat
<1>1. CASE InTable(m, h)
  BY <1>1, TapAssumption DEF SizesOf, InTable
<1>2. CASE ~InTable(m, h)
  BY <1>2, TapAssumption DEF SizesOf
<1> QED
  BY <1>1, <1>2

\* The bank poked fits its 8-bit register.
LEMMA BankOfType ==
  ASSUME NEW size \in Nat, NEW idx \in Nat
  PROVE  BankOf(size, idx) \in 0..NumBanks-1
<1>1. size \div BankChunks \in Int /\ idx \div BankChunks \in Int
  BY TapAssumption
<1> QED
  BY <1>1, BusAssumption DEF BankOf

\* The origin of a chunk is an integer.
LEMMA ChunkTypes ==
  ASSUME TypeOK, NEW m \in Media, NEW h, NEW b, NEW rg \in [Registers -> 0..NumBanks-1],
         NEW rel \in Nat
  PROVE  ChunkRead(m, h, b, rg, rel) \in Int
<1>1. ChunkAt(m, rg, rel) \in Int
  <2>1. CASE open /\ cart.size[m] > 0
    <3>1. cart.size[m] \in Nat \ {0}
      BY <2>1, TapAssumption DEF TypeOK
    <3>2. BankReg[m] \in Registers
      BY RegsTypes DEF BankReg, Media
    <3>3. rg[BankReg[m]] \in Nat
      BY <3>2, BusAssumption
    <3>4. rg[BankReg[m]] * BankChunks + rel \in Int
      BY <3>3, TapAssumption
    <3> QED
      BY <2>1, <3>1, <3>4 DEF ChunkAt
  <2>2. CASE ~(open /\ cart.size[m] > 0)
    BY <2>2 DEF ChunkAt, Floating
  <2> QED
    BY <2>1, <2>2
<1> QED
  BY <1>1 DEF ChunkRead, Stale, Blank

\* The part of a dump after the header check keeps the types.
LEMMA StreamType ==
  ASSUME TypeOK, NEW m \in Media, NEW idx \in Nat, NEW h \in Headers, NEW b \in BusStates,
         NEW rg \in [Registers -> 0..NumBanks-1], NEW rcs \in SUBSET Rcs,
         Stream(m, idx, h, b, rg, rcs)
  PROVE  TypeOK'
<1> DEFINE oob == IF InTable(m, h) THEN {} ELSE {"OUT_OF_TABLE"}
           rel == idx % BankChunks
           code == MbcRc(b, BankReg[m])
           rg2(size) == IF rel = 0 /\ open THEN PokeReg(rg, b, BankReg[m], BankOf(size, idx)) ELSE rg
           poked == IF rel = 0 THEN {code} ELSE {}
           read == IF m = "ram" THEN {SramRc(b, SRAM_BASE)} ELSE {NorRc(b, ROM0_BASE)}
<1>0. /\ oob \in SUBSET Rcs /\ poked \in SUBSET Rcs /\ read \in SUBSET Rcs
      /\ rel \in Nat /\ DumpOp[m] \in Ops /\ BankReg[m] \in Registers
  BY RcTypes, OpTypes, RegsTypes, TapAssumption DEF Rcs, BankReg, Media
<1>1. ASSUME hdr' = ZeroHdr, bus' = b, regs' = rg, walk' = NoWalk,
             reply' = Reply(DumpOp[m], idx, 1, <<>>, rcs \cup oob),
             UNCHANGED <<st8, err, halted, cart, open>>
      PROVE  TypeOK'
  <2>1. <<>> \in Seq(Int) /\ rcs \cup oob \in SUBSET Rcs /\ 1 \in Nat
    BY <1>0
  <2>2. reply' \in Replies
    BY <1>0, <1>1, <2>1, ReplyType
  <2>3. hdr' \in Headers /\ walk' \in [Media -> Nat]
    BY <1>1 DEF ZeroHdr, Headers, NoWalk
  <2> QED
    BY <1>1, <2>2, <2>3 DEF TypeOK
<1>2. CASE halted' = TRUE /\ reply' = NoReply /\ UNCHANGED <<st8, err, hdr, bus, slot, walk>>
  BY <1>2, CrashType
<1>3. ASSUME NEW size \in SizesOf(m, h),
             hdr' = h,
             bus' = IF m = "rom" /\ BWidth(h) THEN Width16(Width8(b)) ELSE b,
             regs' = rg2(size),
             walk' = [walk EXCEPT ![m] = IF InOrder(m, idx) THEN idx + 1 ELSE 0],
             reply' = Reply(DumpOp[m], idx, 1, <<ChunkRead(m, h, b, rg2(size), rel)>>,
                            rcs \cup oob \cup poked \cup read),
             UNCHANGED <<st8, err, halted, cart, open>>
      PROVE  TypeOK'
  <2>1. BankOf(size, idx) \in 0..NumBanks-1
    BY SizeTypes, BankOfType
  <2>2. rg2(size) \in [Registers -> 0..NumBanks-1]
    BY <1>0, <2>1, RegsTypes
  <2>3. ChunkRead(m, h, b, rg2(size), rel) \in Int
    <3> HIDE DEF rg2, rel
    <3> QED
      BY <1>0, <2>2, ChunkTypes
  <2>4. <<ChunkRead(m, h, b, rg2(size), rel)>> \in Seq(Int)
    <3> HIDE DEF rg2, rel
    <3> QED
      BY <2>3
  <2>5. rcs \cup oob \cup poked \cup read \in SUBSET Rcs /\ 1 \in Nat
    BY <1>0
  <2>6. reply' \in Replies
    <3> HIDE DEF rg2, rel, oob, poked, read
    <3> QED
      BY <1>0, <1>3, <2>4, <2>5, ReplyType
  <2>7. walk' \in [Media -> Nat]
    BY <1>3 DEF TypeOK
  <2>8. bus' \in BusStates
    BY <1>3, BusTypes
  <2> QED
    BY <1>3, <2>2, <2>6, <2>7, <2>8 DEF TypeOK
<1> QED
  BY <1>1, <1>2, <1>3 DEF Stream, Access

\* TAP_DUMPROM and TAP_DUMPRAM keep the types.
LEMMA DumpType ==
  ASSUME TypeOK, NEW m \in Media, NEW idx \in Idxs, NEW len \in {0, 1}, Dump(m, idx, len)
  PROVE  TypeOK'
<1>0. idx \in Nat /\ DumpOp[m] \in Ops /\ TAP_ERR_DATA \in Errors /\ TAP_ERR_PEEK \in Errors
  BY TapAssumption, OpTypes DEF Errors
<1>1. CASE Refuse(TAP_ERR_DATA, DumpOp[m], idx, len)
  BY <1>0, <1>1, RefuseType
<1>2. CASE halted' = TRUE /\ reply' = NoReply /\ UNCHANGED <<st8, err, hdr, bus, slot, walk>>
  BY <1>2, CrashType
<1>3. CASE Stream(m, idx, hdr, bus, regs, {})
  BY <1>0, <1>3, StreamType DEF TypeOK
<1>4. ASSUME NEW d \in DumpHeader,
             SetErrorState(TAP_ERR_PEEK), hdr' = ZeroHdr, bus' = d.bus, regs' = d.regs,
             walk' = NoWalk, reply' = Reply(DumpOp[m], idx, len, <<>>, d.rcs),
             UNCHANGED <<halted, cart, open>>
      PROVE  TypeOK'
  <2>1. <<>> \in Seq(Int) /\ len \in Nat
    OBVIOUS
  <2>2. reply' \in Replies
    BY <1>0, <1>4, <2>1, HeaderTypes, ReplyType
  <2>3. hdr' \in Headers /\ walk' \in [Media -> Nat]
    BY <1>4 DEF ZeroHdr, Headers, NoWalk
  <2>4. st8' \in {TAP_ST8_IDLE, TAP_ST8_ERROR} /\ err' \in Errors
    BY <1>0, <1>4, ErrorTypes
  <2> QED
    BY <1>4, <2>2, <2>3, <2>4, HeaderTypes DEF TypeOK
<1>5. ASSUME NEW d \in DumpHeader, Stream(m, idx, d.hdr, d.bus, d.regs, d.rcs)
      PROVE  TypeOK'
  BY <1>0, <1>5, HeaderTypes, StreamType
<1> QED
  BY <1>1, <1>2, <1>3, <1>4, <1>5 DEF Dump, Access

\* The status requests, the gate and the stalls keep the types.
LEMMA StatusType ==
  ASSUME TypeOK,
         \/ \E len \in {0, 1} : GetState(len) \/ GetError(len)
         \/ ClrErr
         \/ \E op \in Leveled : IgnoreWhileError(op)
         \/ \E op \in Unserved \cup {"other"} : Stall(op)
  PROVE  TypeOK'
<1>0. /\ \A op \in Leveled : op \in Ops
      /\ {"GETST8", "GETERR", "CLRERR", "STALL"} \subseteq Ops
      /\ 0 \in Nat /\ 1 \in Nat /\ <<>> \in Seq(Int) /\ {} \in SUBSET Rcs
      /\ TAP_ERR_NONE \in Errors
  BY OpTypes DEF Errors
<1>1. <<st8>> \in Seq(Int) /\ <<err>> \in Seq(Int)
  <2>1. st8 \in Int /\ err \in Int
    BY DEF TypeOK, TAP_ST8_IDLE, TAP_ST8_ERROR, Errors, TAP_ERR_NONE, TAP_ERR_CART,
           TAP_ERR_PEEK, TAP_ERR_ADDR, TAP_ERR_DATA
  <2> QED
    BY <2>1
<1>2. ASSUME UNCHANGED <<fw, slot, walk>>, reply' \in Replies PROVE TypeOK'
  BY <1>2 DEF TypeOK, fw, slot
<1>3. ASSUME NEW len \in {0, 1}, GetState(len) PROVE TypeOK'
  <2>1. reply' \in Replies
    BY <1>0, <1>1, <1>3, ReplyType DEF GetState, Status
  <2> QED
    BY <1>2, <1>3, <2>1 DEF GetState, Status
<1>4. ASSUME NEW len \in {0, 1}, GetError(len) PROVE TypeOK'
  <2>1. reply' \in Replies
    BY <1>0, <1>1, <1>4, ReplyType DEF GetError, Status
  <2> QED
    BY <1>2, <1>4, <2>1 DEF GetError, Status
<1>5. CASE ClrErr
  <2>1. reply' \in Replies /\ st8' \in {TAP_ST8_IDLE, TAP_ST8_ERROR} /\ err' \in Errors
    BY <1>0, <1>5, ReplyType, ErrorTypes DEF ClrErr
  <2> QED
    BY <1>5, <2>1 DEF ClrErr, TypeOK, slot
<1>6. ASSUME NEW op \in Leveled, IgnoreWhileError(op) PROVE TypeOK'
  BY <1>0, <1>2, <1>6, ReplyType DEF IgnoreWhileError
<1>7. ASSUME NEW op, Stall(op) PROVE TypeOK'
  BY <1>0, <1>2, <1>7, ReplyType DEF Stall
<1> QED
  BY <1>3, <1>4, <1>5, <1>6, <1>7

\* TAP_HANDSHK keeps the types.
LEMMA HandshakeType ==
  ASSUME TypeOK, NEW secret \in BOOLEAN, Handshake(secret)
  PROVE  TypeOK'
<1>1. reply' \in Replies
  <2>1. "HANDSHK" \in Ops /\ 0 \in Nat /\ <<>> \in Seq(Int) /\ {} \in SUBSET Rcs
    BY OpTypes DEF Leveled
  <2> QED
    BY <2>1, ReplyType DEF Handshake
<1>2. st8' \in {TAP_ST8_IDLE, TAP_ST8_ERROR} /\ err' \in Errors
  <2>1. CASE secret
    BY <2>1 DEF Handshake, TypeOK
  <2>2. CASE ~secret
    BY <2>2, ErrorTypes DEF Handshake, Errors
  <2> QED
    BY <2>1, <2>2
<1>3. bus' \in BusStates /\ regs' \in [Registers -> 0..NumBanks-1] /\ walk' \in [Media -> Nat]
  BY BusTypes, RegsTypes DEF Handshake, NoWalk
<1>4. open' \in BOOLEAN /\ (open' => cart \in Carts)
  BY DEF Handshake, TypeOK
<1> QED
  BY <1>1, <1>2, <1>3, <1>4 DEF Handshake, TypeOK

\* A new configuration, a swap of cartridges and a power cycle keep the types.
LEMMA EnvType ==
  ASSUME TypeOK, SetConfig \/ (\E c \in Carts \cup {NoCart} : ChangeCart(c)) \/ PowerCycle
  PROVE  TypeOK'
<1>0. /\ NoReply \in Replies /\ RegsPowerOn \in [Registers -> 0..NumBanks-1]
      /\ BusReset \in BusStates /\ NoWalk \in [Media -> Nat] /\ ZeroHdr \in Headers
      /\ TAP_ERR_NONE \in Errors
  BY NoReplyType, RegsTypes, BusTypes DEF NoWalk, ZeroHdr, Headers, Errors
<1>1. CASE SetConfig
  BY <1>0, <1>1 DEF SetConfig, TypeOK, fw
<1>2. ASSUME NEW c \in Carts \cup {NoCart}, ChangeCart(c) PROVE TypeOK'
  BY <1>0, <1>2 DEF ChangeCart, TypeOK, fw
<1>3. CASE PowerCycle
  BY <1>0, <1>3 DEF PowerCycle, TypeOK
<1> QED
  BY <1>1, <1>2, <1>3

\* The state after power-up has the right types.
LEMMA InitType == Init => TypeOK
<1>1. /\ NoReply \in Replies /\ RegsPowerOn \in [Registers -> 0..NumBanks-1]
      /\ BusReset \in BusStates /\ NoWalk \in [Media -> Nat] /\ ZeroHdr \in Headers
      /\ TAP_ERR_NONE \in Errors
  BY NoReplyType, RegsTypes, BusTypes DEF NoWalk, ZeroHdr, Headers, Errors
<1> QED
  BY <1>1 DEF Init, TypeOK

\* Every step keeps the types.
LEMMA TypeStep == TypeOK /\ [Next]_vars => TypeOK'
<1> SUFFICES ASSUME TypeOK, [Next]_vars PROVE TypeOK'
  OBVIOUS
<1>1. CASE \/ \E len \in {0, 1} : GetState(len) \/ GetError(len)
           \/ ClrErr
           \/ \E op \in Leveled : IgnoreWhileError(op)
           \/ \E op \in Unserved \cup {"other"} : Stall(op)
  BY <1>1, StatusType
<1>2. ASSUME NEW secret \in BOOLEAN, Handshake(secret) PROVE TypeOK'
  BY <1>2, HandshakeType
<1>3. ASSUME NEW port \in Ports, NEW ask \in Lens, MbcPeek(port, ask) PROVE TypeOK'
  BY <1>3, MbcPeekType
<1>4. ASSUME NEW port \in Ports, NEW ask \in Lens, NEW v \in PokeVals, MbcPoke(port, ask, v)
      PROVE  TypeOK'
  BY <1>4, MbcPokeType
<1>5. ASSUME NEW op \in {"RAMPEEK", "RAMPOKE"}, NEW addr \in Addrs, NEW ask \in Lens,
             RamAccess(op, addr, ask)
      PROVE  TypeOK'
  BY <1>5, RamAccessType
<1>6. ASSUME NEW op \in {"R0MPEEK", "R1MPEEK"}, NEW addr \in Addrs, NEW ask \in Lens,
             RomPeek(op, addr, ask)
      PROVE  TypeOK'
  BY <1>6, RomPeekType
<1>7. ASSUME NEW len \in {0, 1}, DumpHdr(len) PROVE TypeOK'
  BY <1>7, DumpHdrType
<1>8. ASSUME NEW m \in Media, NEW idx \in Idxs, NEW len \in {0, 1}, Dump(m, idx, len)
      PROVE  TypeOK'
  BY <1>8, DumpType
<1>9. CASE SetConfig \/ (\E c \in Carts \cup {NoCart} : ChangeCart(c)) \/ PowerCycle
  BY <1>9, EnvType
<1>10. CASE UNCHANGED vars
  BY <1>10 DEF vars, TypeOK
<1> QED
  BY <1>1, <1>2, <1>3, <1>4, <1>5, <1>6, <1>7, <1>8, <1>9, <1>10 DEF Next, Request

\* Every reachable state of the tap is well typed: in particular no arithmetic
\* of tap.c on lengths, banks or addresses leaves the range of what it is stored in.
THEOREM TypeCorrect == Spec => []TypeOK
  BY InitType, TypeStep, PTL DEF Spec
==============================================================================
