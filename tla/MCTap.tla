------------------------------- MODULE MCTap -------------------------------
(***************************************************************************)
(* Small instances of Tap for TLC.  A bank has two chunks and there are    *)
(* four of them, so the scaled tables hold a ROM of two banks, one of all  *)
(* four, a save RAM smaller than a bank and one of two banks.              *)
(***************************************************************************)
EXTENDS TapService

MCRomSz == [i \in 0..3 |-> <<0, 4, 8, 0>>[i + 1]]
MCSavSz == [i \in 0..2 |-> <<0, 1, 4>>[i + 1]]

MCCart(rom, sav, flags) ==
  [hdr  |-> <<JMPF, rom, sav, flags, 7>>,
   size |-> [rom |-> IF rom \in DOMAIN MCRomSz THEN MCRomSz[rom] ELSE 8,
             ram |-> IF sav \in DOMAIN MCSavSz THEN MCSavSz[sav] ELSE 0]]

SmallCart  == MCCart(1, 1, 4)   \* two ROM banks, RAM of half a bank
LargeCart  == MCCart(2, 2, 4)   \* all ROM banks, RAM of two banks
ByteCart   == MCCart(1, 2, 6)   \* flags.bwidth set
EepromCart == MCCart(1, 16, 4)  \* a save code outside the table
BlankCart  == [hdr |-> <<255, 255, 255, 255, 255>>, size |-> [rom |-> 4, ram |-> 0]]

WordCarts == {SmallCart, LargeCart}
AllCarts == {SmallCart, LargeCart, ByteCart, EepromCart, BlankCart}
MixedCarts == {LargeCart, ByteCart}
OneByteCart == {ByteCart}
OneLargeCart == {LargeCart}

MCOpenBus == {<<255, 255, 255, 255, 255>>, <<0, 0, 0, 0, 0>>}
MCPastTable == {0, 2}

None == {}
FirstIdxs == 0..8
RamIdxs == 0..4
MCAddrs == 0..3
MCPorts == {0, 1, 4}
MCLens == {0, 1, 2, 3, 5}
OneLen == {2}
FewLens == {0, 1, 2}
EdgePorts == {0, 3, 4}
RamPort == {2}
MCPokeVals == {1}
============================================================================
