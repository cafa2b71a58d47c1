---------------------------- MODULE ServiceProofs ----------------------------
(***************************************************************************)
(* Tap without STRICT implements DumpService, for every value of the       *)
(* constants: every step of the tap is a step of the service or leaves     *)
(* what the service is about unchanged.                                    *)
(***************************************************************************)
EXTENDS TapProofs, TapService

----------------------------------------------------------------------------
(* The refinement mapping, part by part.                                   *)

\* A reply to anything but a dump is no answer of the service.
LEMMA NoAnswer ==
  ASSUME reply'.op \notin {"DUMPROM", "DUMPRAM"}
  PROVE  Answer' = Service!Nothing
  BY DEF Answer, Service!Nothing

LEMMA DumpAnswer ==
  ASSUME NEW m \in Media, reply'.op = DumpOp[m]
  PROVE  Answer' = [medium |-> m, at |-> reply'.at, data |-> reply'.data]
  BY DEF Answer, DumpOp, Media

LEMMA EmptyAnswer ==
  ASSUME reply'.data = <<>>
  PROVE  Answer'.data = <<>>
  BY DEF Answer

LEMMA SameSlot ==
  ASSUME UNCHANGED cart
  PROVE  InSlot' = InSlot /\ (walk' = walk => Position' = Position)
  BY DEF InSlot, SizesIn, Position

LEMMA NoPosition == walk' = NoWalk => Position' = Service!Nowhere
  BY DEF Position, Service!Nowhere, NoWalk

LEMMA PositionIs ==
  /\ Position = [m \in Media |-> Position[m]]
  /\ \A m \in Media : open /\ TypeOK =>
       /\ Dumpable(cart, m) => Position[m] = walk[m] /\ InSlot[m] = cart.size[m]
       /\ ~Dumpable(cart, m) => Position[m] = 0 /\ InSlot[m] = Unknown
  BY TapAssumption DEF Position, InSlot, SizesIn, TypeOK

----------------------------------------------------------------------------
(* Steps that touch no dump.                                               *)

LEMMA OtherServed ==
  ASSUME UNCHANGED <<err, cart, open, walk>>, reply'.op \notin {"DUMPROM", "DUMPRAM"}
  PROVE  Service!Next
<1>1. Position' = [m \in Media |-> IF m \in {} THEN 0 ELSE Position[m]]
  BY SameSlot, PositionIs
<1>2. Service!Other({})
  BY <1>1, SameSlot, NoAnswer DEF Service!Other
<1> QED
  BY <1>2 DEF Service!Next

LEMMA RefusalServed ==
  ASSUME err = TAP_ERR_NONE, err' # TAP_ERR_NONE, reply'.data = <<>>,
         UNCHANGED <<cart, open, walk>>
  PROVE  Service!Next
  BY SameSlot, EmptyAnswer DEF Service!Next, Service!Refuse

\* A request that is refused before it touches the bus.
LEMMA RefuseServed ==
  ASSUME ErrorCoherent, ~Gated, NEW e \in {TAP_ERR_PEEK, TAP_ERR_ADDR, TAP_ERR_DATA}, NEW op,
         NEW at, NEW ask, Refuse(e, op, at, ask)
  PROVE  Service!Next
<1>1. err = TAP_ERR_NONE /\ err' # TAP_ERR_NONE
  BY DEF ErrorCoherent, Gated, Refuse, SetErrorState, TAP_ERR_PEEK, TAP_ERR_ADDR, TAP_ERR_DATA,
     TAP_ERR_NONE
<1>2. reply'.data = <<>> /\ UNCHANGED <<cart, open, walk>>
  BY DEF Refuse, Reply, slot
<1> QED
  BY <1>1, <1>2, RefusalServed

\* An access to a bus without a clock.
LEMMA CrashServed ==
  ASSUME reply' = NoReply, UNCHANGED <<st8, err, hdr, bus, slot, walk>>
  PROVE  Service!Next
  BY OtherServed DEF NoReply, Reply, slot

LEMMA StatusServed ==
  ASSUME ErrorCoherent,
         \/ \E len \in {0, 1} : GetState(len) \/ GetError(len)
         \/ ClrErr
         \/ \E op \in Leveled : IgnoreWhileError(op)
         \/ \E op \in Unserved \cup {"other"} : Stall(op)
  PROVE  Service!Next
<1>1. CASE \E len \in {0, 1} : GetState(len) \/ GetError(len)
  BY <1>1, OtherServed DEF GetState, GetError, Status, Reply, fw, slot
<1>2. CASE ClrErr
  <2>1. err' = TAP_ERR_NONE /\ Answer' = Service!Nothing
    BY <1>2, NoAnswer DEF ClrErr, SetErrorState, Reply
  <2>2. Service!Clear
    BY <1>2, <2>1, SameSlot DEF ClrErr, slot, Service!Clear
  <2> QED
    BY <2>2 DEF Service!Next
<1>3. ASSUME NEW op, IgnoreWhileError(op) PROVE Service!Next
  <2>1. err # TAP_ERR_NONE /\ reply'.data = <<>> /\ UNCHANGED <<err, cart, open, walk>>
    BY <1>3 DEF IgnoreWhileError, Gated, ErrorCoherent, Reply, fw, slot
  <2>2. Service!Ignored
    BY <2>1, SameSlot, EmptyAnswer DEF Service!Ignored
  <2> QED
    BY <2>2 DEF Service!Next
<1>4. ASSUME NEW op, Stall(op) PROVE Service!Next
  BY <1>4, OtherServed DEF Stall, Reply, fw, slot
<1> QED
  BY <1>1, <1>2, <1>3, <1>4

\* TAP_HANDSHK unlocks the cartridge or locks it.
LEMMA HandshakeServed ==
  ASSUME TypeOK, ErrorCoherent, NEW secret \in BOOLEAN, Handshake(secret)
  PROVE  Service!Next
<1>1. Answer' = Service!Nothing /\ InSlot' = InSlot /\ Position' = Service!Nowhere
  BY NoAnswer, SameSlot, NoPosition DEF Handshake, Reply
<1>2. CASE secret
  <2>1. cart \in Carts
    BY <1>2 DEF Handshake, TypeOK
  <2>2. InSlot # NoCart
    BY <2>1, TapAssumption, ServiceAssumption DEF InSlot
  <2>3. Service!Unlock
    BY <1>1, <1>2, <2>2 DEF Handshake, Gated, ErrorCoherent, Service!Unlock
  <2> QED
    BY <2>3 DEF Service!Next
<1>3. CASE ~secret
  <2>1. err' # TAP_ERR_NONE
    BY <1>3 DEF Handshake, SetErrorState, TAP_ERR_CART, TAP_ERR_NONE
  <2>2. Service!Lock
    BY <1>1, <1>3, <2>1 DEF Handshake, Service!Lock
  <2> QED
    BY <2>2 DEF Service!Next
<1> QED
  BY <1>2, <1>3

\* The raw requests that read, and the ones that write to RAM.
LEMMA PeekServed ==
  ASSUME ErrorCoherent,
         \/ \E port \in Ports, ask \in Lens : MbcPeek(port, ask)
         \/ \E op \in {"RAMPEEK", "RAMPOKE"}, addr \in Addrs, ask \in Lens : RamAccess(op, addr, ask)
         \/ \E op \in {"R0MPEEK", "R1MPEEK"}, addr \in Addrs, ask \in Lens : RomPeek(op, addr, ask)
  PROVE  Service!Next
<1>k. ASSUME reply'.op \notin {"DUMPROM", "DUMPRAM"}, UNCHANGED <<err, slot, walk>>
      PROVE  Service!Next
  BY <1>k, OtherServed DEF slot
<1>1. ASSUME NEW port, NEW ask, MbcPeek(port, ask) PROVE Service!Next
  <2>1. CASE \E e \in {TAP_ERR_PEEK, TAP_ERR_ADDR, TAP_ERR_DATA} : Refuse(e, "MBCPEEK", port, ask)
    BY <1>1, <2>1, RefuseServed DEF MbcPeek
  <2>2. CASE reply'.op \notin {"DUMPROM", "DUMPRAM"} /\ UNCHANGED <<err, slot, walk>>
    BY <1>k, <2>2
  <2> QED
    BY <1>1, <2>1, <2>2 DEF MbcPeek, Access, Reply, NoReply
<1>2. ASSUME NEW op \in {"RAMPEEK", "RAMPOKE"}, NEW addr, NEW ask, RamAccess(op, addr, ask)
      PROVE  Service!Next
  <2>1. CASE \E e \in {TAP_ERR_PEEK, TAP_ERR_ADDR, TAP_ERR_DATA} : Refuse(e, op, addr, ask)
    BY <1>2, <2>1, RefuseServed DEF RamAccess
  <2>2. CASE reply'.op \notin {"DUMPROM", "DUMPRAM"} /\ UNCHANGED <<err, slot, walk>>
    BY <1>k, <2>2
  <2> QED
    BY <1>2, <2>1, <2>2 DEF RamAccess, Access, Reply, NoReply
<1>3. ASSUME NEW op \in {"R0MPEEK", "R1MPEEK"}, NEW addr, NEW ask, RomPeek(op, addr, ask)
      PROVE  Service!Next
  <2>1. CASE \E e \in {TAP_ERR_PEEK, TAP_ERR_ADDR, TAP_ERR_DATA} : Refuse(e, op, addr, ask)
    BY <1>3, <2>1, RefuseServed DEF RomPeek
  <2>2. CASE reply'.op \notin {"DUMPROM", "DUMPRAM"} /\ UNCHANGED <<err, slot, walk>>
    BY <1>k, <2>2
  <2> QED
    BY <1>3, <2>1, <2>2 DEF RomPeek, Access, Reply, NoReply, fw
<1> QED
  BY <1>1, <1>2, <1>3

\* TAP_MBCPOKE ends the dumps whose bank register it writes.
LEMMA MbcPokeServed ==
  ASSUME ErrorCoherent, NEW port, NEW ask, NEW v, MbcPoke(port, ask, v)
  PROVE  Service!Next
<1>1. CASE \E e \in {TAP_ERR_PEEK, TAP_ERR_ADDR, TAP_ERR_DATA} : Refuse(e, "MBCPOKE", port, ask)
  BY <1>1, RefuseServed DEF MbcPoke
<1>2. CASE reply' = NoReply /\ UNCHANGED <<st8, err, hdr, bus, slot, walk>>
  BY <1>2, CrashServed
<1>3. ASSUME NEW P, walk' = [m \in Media |-> IF BankReg[m] \in P THEN 0 ELSE walk[m]],
             reply'.op = "MBCPOKE", UNCHANGED <<err, cart, open>>
      PROVE  Service!Next
  <2> DEFINE M == {m \in Media : BankReg[m] \in P}
  <2>1. Position' = [m \in Media |-> IF m \in M THEN 0 ELSE Position[m]]
    BY <1>3 DEF Position
  <2>2. err = TAP_ERR_NONE
    BY DEF MbcPoke, Gated, ErrorCoherent
  <2>3. Service!Other(M)
    BY <1>3, <2>1, <2>2, SameSlot, NoAnswer DEF Service!Other
  <2>4. M \in SUBSET Media
    OBVIOUS
  <2> QED
    BY <2>3, <2>4 DEF Service!Next
<1> DEFINE b == Narrow(bus)
           n == MbcWindow(port, ask)
           poked == {r \in port .. port + n - 1 : open /\ MbcRc(b, r) = FIN}
<1>4. CASE walk' = [m \in Media |-> IF BankReg[m] \in poked THEN 0 ELSE walk[m]]
           /\ reply'.op = "MBCPOKE" /\ UNCHANGED <<err, cart, open>>
  <2> HIDE DEF poked
  <2> QED
    BY <1>3, <1>4
<1> QED
  BY <1>1, <1>2, <1>4 DEF MbcPoke, Access, Reply

LEMMA DumpHdrServed ==
  ASSUME ErrorCoherent, NEW len, DumpHdr(len)
  PROVE  Service!Next
<1>1. CASE Refuse(TAP_ERR_DATA, "DUMPHDR", 0, len)
  BY <1>1, RefuseServed DEF DumpHdr
<1>2. CASE reply' = NoReply /\ UNCHANGED <<st8, err, hdr, bus, slot, walk>>
  BY <1>2, CrashServed
<1>3. CASE reply'.op = "DUMPHDR" /\ UNCHANGED <<err, cart, open, walk>>
  BY <1>3, OtherServed
<1> QED
  BY <1>1, <1>2, <1>3 DEF DumpHdr, Access, Reply

\* The slot, the configuration and the power.
LEMMA EnvServed ==
  ASSUME SetConfig \/ (\E c \in Carts \cup {NoCart} : ChangeCart(c)) \/ PowerCycle
  PROVE  Service!Next
<1>0. walk' = NoWalk /\ reply' = NoReply => Position' = Service!Nowhere /\ Answer' = Service!Nothing
  BY NoPosition, NoAnswer DEF NoReply, Reply
<1>1. CASE SetConfig
  <2>1. Service!Lock
    BY <1>0, <1>1, SameSlot DEF SetConfig, fw, Service!Lock
  <2> QED
    BY <2>1 DEF Service!Next
<1>2. ASSUME NEW c \in Carts \cup {NoCart}, ChangeCart(c) PROVE Service!Next
  <2>1. InSlot' \in {SizesIn(d) : d \in Carts} \cup {NoCart}
    BY <1>2 DEF ChangeCart, InSlot
  <2>2. Service!Change(InSlot')
    BY <1>0, <1>2 DEF ChangeCart, fw, Service!Change
  <2> QED
    BY <2>1, <2>2 DEF Service!Next
<1>3. CASE PowerCycle
  <2>1. Service!Restart
    BY <1>0, <1>3, SameSlot DEF PowerCycle, Service!Restart
  <2> QED
    BY <2>1 DEF Service!Next
<1> QED
  BY <1>1, <1>2, <1>3

----------------------------------------------------------------------------
(* Dumps.                                                                  *)

\* What the service promises is what the walk of a readable medium backs.
LEMMA PromisedIs ==
  ASSUME TypeOK, NEW m \in Media, NEW idx
  PROVE  Service!Promised(m, idx) <=> open /\ Dumpable(cart, m) /\ InOrder(m, idx)
<1>1. CASE open /\ Dumpable(cart, m)
  <2>1. Position[m] = walk[m] /\ InSlot[m] = cart.size[m]
    BY <1>1, PositionIs
  <2>2. cart.size[m] # Unknown
    BY <1>1, TapAssumption, ServiceAssumption DEF TypeOK
  <2> QED
    BY <1>1, <2>1, <2>2 DEF Service!Promised, Service!Continues, InOrder
<1>2. CASE open /\ ~Dumpable(cart, m)
  BY <1>2, PositionIs DEF Service!Promised
<1>3. CASE ~open
  BY <1>3 DEF Service!Promised
<1> QED
  BY <1>1, <1>2, <1>3

\* A dump of m that the service promises is one that DumpExact and DumpComplete
\* speak of.
LEMMA PromisedAnswered ==
  ASSUME TypeOK, NEW m \in Media, NEW idx, Service!Promised(m, idx),
         reply'.op = DumpOp[m], reply'.ask = 1, reply'.at = idx
  PROVE  DumpAnswered(m) /\ open /\ Dumpable(cart, m) /\ (m = "rom" => ~BWidth(cart.hdr))
         /\ Readable(m)
  BY PromisedIs DEF DumpAnswered, Dumpable, Readable

\* A dump that ends all walks.
LEMMA EndServed ==
  ASSUME TypeOK, NEW m \in Media, NEW idx \in Idxs, err = TAP_ERR_NONE, err' = TAP_ERR_NONE,
         StepSound(m), walk' = NoWalk, UNCHANGED <<cart, open>>,
         reply'.op = DumpOp[m], reply'.ask = 1, reply'.at = idx, reply'.data = <<>>
  PROVE  Service!Next
<1>1. /\ Answer' = [medium |-> m, at |-> idx, data |-> <<>>]
      /\ Position' = Service!Nowhere /\ InSlot' = InSlot
  BY DumpAnswer, NoPosition, SameSlot
<1>2. CASE Service!Promised(m, idx)
  <2>1. idx = cart.size[m]
    BY <1>2, PromisedAnswered DEF StepSound, EndIsEnd
  <2>2. idx = InSlot[m]
    BY <1>2, <2>1, PromisedIs, PositionIs
  <2>3. Service!End(m, idx)
    BY <1>1, <1>2, <2>2 DEF Service!End
  <2> QED
    BY <2>3 DEF Service!Next
<1>3. CASE ~Service!Promised(m, idx)
  <2>1. Service!Unpromised(m, idx)
    BY <1>1, <1>3 DEF Service!Unpromised
  <2> QED
    BY <2>1 DEF Service!Next
<1> QED
  BY <1>2, <1>3

\* A dump that delivers a chunk.
LEMMA ChunkServed ==
  ASSUME TypeOK, NEW m \in Media, NEW idx \in Idxs, err = TAP_ERR_NONE, err' = TAP_ERR_NONE,
         WalkInv, WalkInv', StepSound(m), UNCHANGED <<cart, open>>,
         walk' = [walk EXCEPT ![m] = IF InOrder(m, idx) THEN idx + 1 ELSE 0],
         reply'.op = DumpOp[m], reply'.ask = 1, reply'.at = idx, reply'.data # <<>>
  PROVE  Service!Next
<1>0. idx \in Nat /\ walk \in [Media -> Nat]
  BY TapAssumption DEF TypeOK
<1>1. Answer' = [medium |-> m, at |-> idx, data |-> reply'.data] /\ InSlot' = InSlot
  BY DumpAnswer, SameSlot
<1>2. CASE Service!Promised(m, idx)
  <2>1. DumpAnswered(m) /\ open /\ Dumpable(cart, m) /\ Readable(m) /\ InOrder(m, idx)
    BY <1>2, PromisedAnswered, PromisedIs
  <2>2. reply'.data = <<idx>>
    BY <2>1 DEF StepSound
  <2>3. walk'[m] = idx + 1
    BY <1>0, <2>1
  <2>4. idx + 1 <= cart.size[m] /\ cart.size[m] \in Nat
    <3>1. walk'[m] > 0 /\ Readable(m)'
      BY <1>0, <2>1, <2>3 DEF Readable
    <3>2. walk'[m] <= cart'.size[m]
      BY <3>1 DEF WalkInv
    <3>3. cart.size[m] \in Nat
      BY <2>1, TapAssumption DEF TypeOK
    <3> QED
      BY <2>3, <3>2, <3>3
  <2>5. idx < InSlot[m]
    BY <1>0, <2>1, <2>4, PositionIs
  <2>6. Position' = [Position EXCEPT ![m] = idx + 1]
    <3>1. cart # NoCart
      BY <2>1, TapAssumption DEF TypeOK
    <3> QED
      BY <1>0, <2>1, <3>1 DEF Position
  <2>7. Service!Deliver(m, idx)
    BY <1>1, <1>2, <2>2, <2>5, <2>6 DEF Service!Deliver
  <2> QED
    BY <2>7 DEF Service!Next
<1>3. CASE ~Service!Promised(m, idx)
  <2>1. Position' = [Position EXCEPT ![m] = 0]
    <3>1. CASE InOrder(m, idx)
      <4>1. open
        BY <3>1 DEF InOrder, WalkInv
      <4>2. ~Dumpable(cart, m)
        BY <1>3, <3>1, <4>1, PromisedIs
      <4> QED
        BY <1>0, <4>2 DEF Position
    <3>2. CASE ~InOrder(m, idx)
      BY <1>0, <3>2 DEF Position
    <3> QED
      BY <3>1, <3>2
  <2>2. Service!Unpromised(m, idx)
    BY <1>1, <1>3, <2>1 DEF Service!Unpromised
  <2> QED
    BY <2>2 DEF Service!Next
<1> QED
  BY <1>2, <1>3

\* A dump after the header check.
LEMMA StreamServed ==
  ASSUME TypeOK, err = TAP_ERR_NONE, NEW m \in Media, NEW idx \in Idxs,
         WalkInv, WalkInv', StepSound(m),
         NEW h, NEW b, NEW rg, NEW rcs, Stream(m, idx, h, b, rg, rcs)
  PROVE  Service!Next
<1>1. CASE reply' = NoReply /\ UNCHANGED <<st8, err, hdr, bus, slot, walk>>
  BY <1>1, CrashServed
<1>2. CASE \E rcs2 : /\ reply' = Reply(DumpOp[m], idx, 1, <<>>, rcs2) /\ walk' = NoWalk
                     /\ UNCHANGED <<err, cart, open>>
  BY <1>2, EndServed DEF Reply
<1>3. ASSUME NEW x, NEW rcs2, reply' = Reply(DumpOp[m], idx, 1, <<x>>, rcs2),
             walk' = [walk EXCEPT ![m] = IF InOrder(m, idx) THEN idx + 1 ELSE 0],
             UNCHANGED <<err, cart, open>>
      PROVE  Service!Next
  BY <1>3, ChunkServed DEF Reply
<1> QED
  BY <1>1, <1>2, <1>3 DEF Stream, Access

\* The header of a cartridge with a medium that can be dumped is not refused.
LEMMA HeaderAccepted ==
  ASSUME TypeOK, BusInv, bus.clk, open, NEW d \in DumpHeader, NEW m \in Media, Dumpable(cart, m)
  PROVE  ~Refused(m, d.hdr)
<1>0. cart \in Carts /\ cart.hdr \in Headers
  BY TapAssumption DEF TypeOK
<1>1. d.hdr[OPCODE] = JMPF
  <2>1. CASE ~BWidth(cart.hdr)
    BY <2>1, HeaderRead DEF Dumpable
  <2>2. CASE BWidth(cart.hdr)
    <3>1. d.hdr = BytePass(WordPass(Widen(Narrow(bus)), cart.hdr), cart.hdr)
      BY <2>2, HeaderRead
    <3>2. d.hdr[1] = cart.hdr[1]
      BY <3>1 DEF BytePass, WordPass, HdrBytes, EvenOffset, OPCODE
    <3> QED
      BY <3>2 DEF Dumpable, OPCODE
  <2> QED
    BY <2>1, <2>2
<1>2. d.hdr[SizeCode[m]] = cart.hdr[SizeCode[m]]
  BY HeaderMatches DEF Match, Dumpable
<1>3. cart.hdr[SizeCode[m]] \in 0..Entries(m)-1 /\ Entries(m) \in Nat
  BY TapAssumption DEF Dumpable, InTable
<1> QED
  BY <1>1, <1>2, <1>3 DEF Refused

\* A header that is refused, with an error.
LEMMA RefusedServed ==
  ASSUME TypeOK, err = TAP_ERR_NONE, NEW m \in Media, NEW idx \in Idxs,
         ~Service!Promised(m, idx), err' # TAP_ERR_NONE, walk' = NoWalk, UNCHANGED <<cart, open>>,
         reply'.op = DumpOp[m], reply'.at = idx, reply'.data = <<>>
  PROVE  Service!Next
<1>1. /\ Answer' = [medium |-> m, at |-> idx, data |-> <<>>]
      /\ Position' = Service!Nowhere /\ InSlot' = InSlot
  BY DumpAnswer, NoPosition, SameSlot
<1>2. Service!Unpromised(m, idx)
  BY <1>1 DEF Service!Unpromised
<1> QED
  BY <1>2 DEF Service!Next

LEMMA DumpServed ==
  ASSUME ~STRICT, TypeOK, BusInv, WalkInv, ErrorCoherent,
         NEW m \in Media, NEW idx \in Idxs, NEW len \in {0, 1}, Dump(m, idx, len)
  PROVE  Service!Next
<1>0. err = TAP_ERR_NONE /\ WalkInv' /\ StepSound(m)
  BY DumpWalk DEF Dump, Gated, ErrorCoherent
<1>1. CASE Refuse(TAP_ERR_DATA, DumpOp[m], idx, len)
  BY <1>1, RefuseServed DEF Dump
<1>2. CASE reply' = NoReply /\ UNCHANGED <<st8, err, hdr, bus, slot, walk>>
  BY <1>2, CrashServed
<1>3. ASSUME NEW h, NEW b, NEW rg, NEW rcs, Stream(m, idx, h, b, rg, rcs) PROVE Service!Next
  BY <1>0, <1>3, StreamServed
<1>4. ASSUME bus.clk, NEW d \in DumpHeader, Refused(m, d.hdr), SetErrorState(TAP_ERR_PEEK),
             walk' = NoWalk, reply' = Reply(DumpOp[m], idx, len, <<>>, d.rcs),
             UNCHANGED <<cart, open>>
      PROVE  Service!Next
  <2>1. ~Service!Promised(m, idx)
    BY <1>4, PromisedIs, HeaderAccepted
  <2>2. err' # TAP_ERR_NONE /\ reply'.op = DumpOp[m] /\ reply'.at = idx /\ reply'.data = <<>>
    BY <1>4 DEF SetErrorState, Reply, TAP_ERR_PEEK, TAP_ERR_NONE
  <2> QED
    BY <1>0, <1>4, <2>1, <2>2, RefusedServed
<1> QED
  BY <1>1, <1>2, <1>3, <1>4 DEF Dump, Access

----------------------------------------------------------------------------
(* The refinement.                                                         *)

LEMMA InitServed == Init => Service!Init
<1> SUFFICES ASSUME Init PROVE Service!Init
  OBVIOUS
<1>1. InSlot \in {SizesIn(c) : c \in Carts} \cup {NoCart}
  BY DEF Init, InSlot
<1>2. Position = Service!Nowhere /\ Answer = Service!Nothing
  BY DEF Init, Position, Answer, NoWalk, NoReply, Reply, Service!Nowhere, Service!Nothing
<1> QED
  BY <1>1, <1>2 DEF Init, Service!Init

LEMMA NextServed ==
  ASSUME ~STRICT, TypeOK, BusInv, WalkInv, ErrorCoherent, [Next]_vars
  PROVE  [Service!Next]_Service!vars
<1>1. CASE \/ \E len \in {0, 1} : GetState(len) \/ GetError(len)
           \/ ClrErr
           \/ \E op \in Leveled : IgnoreWhileError(op)
           \/ \E op \in Unserved \cup {"other"} : Stall(op)
  BY <1>1, StatusServed
<1>2. ASSUME NEW secret \in BOOLEAN, Handshake(secret) PROVE Service!Next
  BY <1>2, HandshakeServed
<1>3. CASE \/ \E port \in Ports, ask \in Lens : MbcPeek(port, ask)
           \/ \E op \in {"RAMPEEK", "RAMPOKE"}, addr \in Addrs, ask \in Lens : RamAccess(op, addr, ask)
           \/ \E op \in {"R0MPEEK", "R1MPEEK"}, addr \in Addrs, ask \in Lens : RomPeek(op, addr, ask)
  BY <1>3, PeekServed
<1>4. ASSUME NEW port \in Ports, NEW ask \in Lens, NEW v \in PokeVals, MbcPoke(port, ask, v)
      PROVE  Service!Next
  BY <1>4, MbcPokeServed
<1>5. ASSUME NEW len \in {0, 1}, DumpHdr(len) PROVE Service!Next
  BY <1>5, DumpHdrServed
<1>6. ASSUME NEW m \in Media, NEW idx \in Idxs, NEW len \in {0, 1}, Dump(m, idx, len)
      PROVE  Service!Next
  BY <1>6, DumpServed
<1>7. CASE SetConfig \/ (\E c \in Carts \cup {NoCart} : ChangeCart(c)) \/ PowerCycle
  BY <1>7, EnvServed
<1>8. CASE UNCHANGED vars
  BY <1>8 DEF vars, InSlot, SizesIn, Position, Answer, Service!vars
<1> QED
  BY <1>1, <1>2, <1>3, <1>4, <1>5, <1>6, <1>7, <1>8 DEF Next, Request

\* The tap without STRICT is a dump service, whatever the host asks for and
\* whatever happens to the slot between the chunks of a dump (tap.c as a whole,
\* from __tap_control_request to __dump_rom and __dump_ram).
THEOREM ServiceCorrect ==
  ASSUME ~STRICT
  PROVE  Spec => DumpsServed
<1>1. Init => Service!Init
  BY InitServed
<1>2. TypeOK /\ BusInv /\ WalkInv /\ ErrorCoherent /\ [Next]_vars => [Service!Next]_Service!vars
  BY NextServed
<1>3. TypeOK /\ BusInv /\ WalkInv /\ [Next]_vars => WalkInv'
  BY WalkStep, WalkStutter
<1>4. Spec => [](BusInv /\ WalkInv)
  BY <1>3, InitType, InitBus, InitWalk, TypeStep, BusStep, PTL DEF Spec
<1> QED
  BY <1>1, <1>2, <1>4, TypeCorrect, Coherence, PTL DEF Spec, DumpsServed, Service!Spec
==============================================================================
