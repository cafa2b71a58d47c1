------------------------------ MODULE CartBus ------------------------------
(***************************************************************************)
(* The FSMC bus of the dumper (fsmc.c) and the routines that access the    *)
(* cartridge through it (cartridge.c), as operators over one record.       *)
(*                                                                         *)
(*   clk    RCC_FSMC is enabled, so the bank-2 registers can be read       *)
(*   width  the MWID field of FSMC_BCR2: 16 or 8                           *)
(*   d10    the mode of pin PD10, which is data line D15 on a 16-bit bus   *)
(*          and the bit-banged address line A-1 on an 8-bit one:           *)
(*          "altfn" (driven by the FSMC), "out" (driven low by the         *)
(*          firmware) or "float" (input)                                   *)
(*                                                                         *)
(* Each access routine has an operator that gives its return code; the     *)
(* callers in tap.c discard every one of them, so what a code other than   *)
(* FIN means for the caller is that the access did not take place.         *)
(***************************************************************************)
EXTENDS Integers

CONSTANTS
  STRICT,       \* the build option of the same name
  NumBanks,     \* values of an 8-bit bank register (256)
  REG_MIN,      \* first register of the mapper (0xc0)
  REG_MAX,      \* last port (0xff)
  REGION_SIZE   \* bytes of one region of the bus (0x10000)

ASSUME BusAssumption ==
  /\ STRICT \in BOOLEAN
  /\ NumBanks \in Nat \ {0, 1}
  /\ REG_MIN \in Nat \ {0}
  /\ REG_MAX \in Nat
  /\ REG_MIN + 3 <= REG_MAX
  /\ REGION_SIZE \in Nat \ {0}
  /\ REGION_SIZE % 2 = 0

FIN      == "FIN"
BADADDR  == "BADADDR"
BADREG   == "BADREG"
BADWIDTH == "BADWIDTH"

ReturnCodes == {FIN, BADADDR, BADREG, BADWIDTH}

BusStates == [clk : BOOLEAN, width : {8, 16}, d10 : {"altfn", "out", "float"}]

\* fsmc_reset: reset values (16 bits), clock off, pins floating.
BusReset == [clk |-> FALSE, width |-> 16, d10 |-> "float"]

\* Definitions named Bug_... are what the next one would be with a slip in the
\* code it models.  No behaviour uses them: each shows that some property notices.
Bug_ClockForgotten == [clk |-> FALSE, width |-> 16, d10 |-> "altfn"]

\* fsmc_setup: 16-bit NOR, bank enabled, pins driven by the FSMC.
BusSetup == [clk |-> TRUE, width |-> 16, d10 |-> "altfn"]

\* FSMC_NOR_PSRAM_16BITS: a register of a peripheral without clock reads as 0.
Is16(b) == b.clk /\ b.width = 16

Bug_PinLeftOut(b) ==
  [clk   |-> b.clk,
   width |-> IF b.clk THEN 24 - b.width ELSE b.width,
   d10   |-> IF Is16(b) THEN "out" ELSE b.d10]

\* fsmc_toggle_bus_width: without clock the write to FSMC_BCR2 has no effect,
\* while the pin is reconfigured all the same.
ToggleWidth(b) ==
  [clk   |-> b.clk,
   width |-> IF b.clk THEN 24 - b.width ELSE b.width,
   d10   |-> IF Is16(b) THEN "out" ELSE "altfn"]

Width8(b)  == IF Is16(b) THEN ToggleWidth(b) ELSE b
Width16(b) == IF Is16(b) THEN b ELSE ToggleWidth(b)

Bug_Unbracketed(b) == b

\* The #ifdef STRICT brackets around byte accesses in tap.c.
Narrow(b) == IF STRICT THEN Width8(b) ELSE b
Widen(b)  == IF STRICT THEN Width16(b) ELSE b

----------------------------------------------------------------------------
(* The address map, and the return code of each access routine.           *)

SRAM_BASE == REGION_SIZE
ROM0_BASE == 2 * REGION_SIZE
ROM1_BASE == 3 * REGION_SIZE
AddrSpace == 16 * REGION_SIZE

Bug_AnyAddr(a) == TRUE

RAM_ADDR_VALID(a) == (a % AddrSpace) \div REGION_SIZE = 1
ROM_ADDR_VALID(a) == (a % AddrSpace) \div (2 * REGION_SIZE) # 0

\* cart_mbc_peek and cart_mbc_poke
MbcRc(b, reg) ==
  IF REG_MIN > reg THEN BADREG
  ELSE IF STRICT /\ Is16(b) THEN BADWIDTH ELSE FIN

\* cart_sram_peek and cart_sram_poke
SramRc(b, addr) ==
  IF ~RAM_ADDR_VALID(addr) THEN BADADDR
  ELSE IF STRICT /\ Is16(b) THEN BADWIDTH ELSE FIN

\* cart_nor_peek
NorRc(b, addr) ==
  IF ~ROM_ADDR_VALID(addr) \/ (Is16(b) /\ addr % 2 = 1) THEN BADADDR ELSE FIN

----------------------------------------------------------------------------
(* The bank registers of the cartridge's mapper.                           *)

REG_RAM_BANK   == REG_MIN + 1
REG_ROM_BANK_0 == REG_MIN + 2

Registers == REG_MIN .. REG_MAX

\* What cart_mbc_poke does to the registers of a mapper that listens.
PokeReg(regs, b, reg, val) ==
  IF MbcRc(b, reg) = FIN THEN [regs EXCEPT ![reg] = val] ELSE regs

\* Registers after the cartridge has been powered or reset.
RegsPowerOn == [r \in Registers |-> NumBanks - 1]
============================================================================
