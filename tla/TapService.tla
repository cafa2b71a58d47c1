----------------------------- MODULE TapService -----------------------------
(***************************************************************************)
(* Tap without STRICT implements DumpService.  The walk is the position,   *)
(* and of a cartridge only the sizes are kept that its header gives and    *)
(* the firmware can dump: not the ROM of one that asks for an 8-bit bus.   *)
(***************************************************************************)
EXTENDS Tap

CONSTANT Unknown   \* the size of a medium the firmware cannot dump

Dumpable(c, m) ==
  /\ c.hdr[OPCODE] = JMPF /\ InTable(m, c.hdr)
  /\ m = "rom" => ~BWidth(c.hdr)

SizesIn(c) == [m \in Media |-> IF Dumpable(c, m) THEN c.size[m] ELSE Unknown]

InSlot == IF cart = NoCart THEN NoCart ELSE SizesIn(cart)

Position ==
  [m \in Media |-> IF cart # NoCart /\ Dumpable(cart, m) THEN walk[m] ELSE 0]

Answer ==
  LET of(m) == [medium |-> m, at |-> reply.at, data |-> reply.data]
  IN  IF reply.op = "DUMPROM" THEN of("rom")
      ELSE IF reply.op = "DUMPRAM" THEN of("ram")
      ELSE [medium |-> "none", at |-> 0, data |-> <<>>]

ASSUME ServiceAssumption == Unknown \notin Nat /\ \A c \in Carts : SizesIn(c) # NoCart

Service == INSTANCE DumpService WITH
  Sizes <- {SizesIn(c) : c \in Carts},
  cart <- InSlot, failed <- err # TAP_ERR_NONE, pos <- Position, answer <- Answer

\* The tap is a dump service, whatever raw requests, refusals, errors and
\* hands on the slot come between the chunks of a dump (__dump_rom, __dump_ram
\* and the header cache they share).
DumpsServed == Service!Spec
=============================================================================
