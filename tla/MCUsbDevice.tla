---------------------------- MODULE MCUsbDevice ----------------------------
(***************************************************************************)
(* UsbDevice for TLC: every type and recipient, the codes and indices on   *)
(* both sides of each decision.                                            *)
(***************************************************************************)
EXTENDS UsbDevice

mc_Codes == {1, TAP_CLRERR, GET_DESCRIPTOR, TAP_HANDSHK, 24, 25, WINUSB_MS_VENDOR_CODE}
mc_Indices == {0, 1, TAP_INTERFACE, COMPATIBLE_ID, EXTENDED_PROPERTIES}

mc_Requests ==
  {r \in [type : Types, to : Recipients, code : mc_Codes, index : mc_Indices, ms : BOOLEAN] :
     r.ms => r.code = GET_DESCRIPTOR}
=============================================================================
