------------------------------ MODULE UsbDevice -----------------------------
(***************************************************************************)
(* The device on the USB: which of its functions answers a control request *)
(* (usb.c, winusb.c, cdcacm.c, and the head of tap.c).  libopencm3 keeps a *)
(* short table of control callbacks, asks them in their order, and answers *)
(* itself what none of them takes.  SET_CONFIGURATION empties the table    *)
(* and has every function register again; a bus reset leaves it as it is.  *)
(***************************************************************************)
EXTENDS Naturals, Sequences

CONSTANTS
  PLATFORMIO,     \* the build option of the same name
  MAX_CALLBACKS,  \* size of libopencm3's table (4)
  Requests        \* control requests that hosts send

Types == {"standard", "class", "vendor"}
Recipients == {"device", "interface", "endpoint"}

\* The fields of a request that anyone looks at: type and recipient of
\* bmRequestType, bRequest, wIndex, and whether wValue names string 0xee.
AllRequests == [type : Types, to : Recipients, code : Nat, index : Nat, ms : BOOLEAN]

ASSUME UsbAssumption ==
  /\ PLATFORMIO \in BOOLEAN /\ MAX_CALLBACKS \in Nat /\ MAX_CALLBACKS >= 4
  /\ Requests \subseteq AllRequests

GET_DESCRIPTOR == 6
TAP_CLRERR  == 2
TAP_HANDSHK == 11
\* GETST8 to CLRERR, HANDSHK to RAMPOKE, DUMPHDR to DUMPRAM
TapCodes == 0..2 \cup 11..17 \cup 22..24
WINUSB_MS_VENDOR_CODE == 33
COMPATIBLE_ID == 4
EXTENDED_PROPERTIES == 5
TAP_INTERFACE == 2

\* The functions register in this order at SET_CONFIGURATION ...
SetConfigCallbacks == <<"tap", "cdcacm", "winusb">>

Bug_CdcacmTwice(f) ==
  IF f = "cdcacm" THEN <<"cdcacm", "cdcacm">>
  ELSE IF f = "winusb" /\ PLATFORMIO THEN <<"msft", "winusb">> ELSE <<f>>

\* ... these callbacks: winusb_set_config two of them for PLATFORMIO.
RegisteredBy(f) == IF f = "winusb" /\ PLATFORMIO THEN <<"msft", "winusb">> ELSE <<f>>

Bug_NotPreRegistered == <<>>
Bug_AllPreRegistered == RegisteredBy("tap") \o RegisteredBy("winusb")

\* __usb_setup registers winusb before there is a configuration.
PreRegistered == RegisteredBy("winusb")

Configured ==
  RegisteredBy(SetConfigCallbacks[1]) \o RegisteredBy(SetConfigCallbacks[2])
    \o RegisteredBy(SetConfigCallbacks[3])

\* The table with room for MAX_CALLBACKS of them.
Fit(cbs) == SubSeq(cbs, 1, IF Len(cbs) < MAX_CALLBACKS THEN Len(cbs) ELSE MAX_CALLBACKS)

VARIABLES
  slots,       \* the table of control callbacks
  full,        \* a registration found no room
  configured,  \* the host has set a configuration other than 0
  timers,      \* tim2_3_setup has run
  failed,      \* the tap is in TAP_ST8_ERROR
  reply        \* the last request, who answered it, and how

vars == <<slots, full, configured, timers, failed, reply>>

NoReply == [by |-> "none"]

Init ==
  /\ slots = Fit(PreRegistered) /\ full = (Len(PreRegistered) > MAX_CALLBACKS)
  /\ configured = FALSE /\ timers = FALSE
  /\ failed = FALSE
  /\ reply = NoReply

----------------------------------------------------------------------------
(* The dispatch of a control request.                                      *)

Bug_MatchesClass(cb, r) ==
  CASE cb \in {"tap", "cdcacm"} -> r.type = "class" /\ r.to = "interface"
    [] cb = "msft"              -> r.to = "device"
    [] cb = "winusb"            -> r.type = "vendor"

\* The type and mask a callback is registered with let r through.
Matches(cb, r) ==
  CASE cb = "tap"    -> r.type = "vendor" /\ r.to = "interface"
    [] cb = "cdcacm" -> r.type = "class" /\ r.to = "interface"
    [] cb = "msft"   -> r.to = "device"
    [] cb = "winusb" -> r.type = "vendor"

Bug_AnyInterface(r, error) ==
  IF r.type # "vendor" \/ r.to # "interface" THEN "stall"
  ELSE IF error /\ r.code >= TAP_HANDSHK THEN "ignored"
  ELSE IF r.code \in TapCodes THEN "handled" ELSE "stall"

\* __tap_control_request
TapAnswer(r, error) ==
  IF r.index # TAP_INTERFACE THEN "next"
  ELSE IF r.type # "vendor" \/ r.to # "interface" THEN "stall"
  ELSE IF error /\ r.code >= TAP_HANDSHK THEN "ignored"
  ELSE IF r.code \in TapCodes THEN "handled" ELSE "stall"

\* cdcacm_control_request
CdcacmAnswer(r) == IF r.index # 1 THEN "next" ELSE "stall"

\* __winusb_descriptor_request
MsftAnswer(r) ==
  IF r.type = "standard" /\ r.code = GET_DESCRIPTOR /\ r.ms THEN "handled" ELSE "next"

\* __winusb_control_request
WinusbAnswer(r) ==
  IF /\ r.code = WINUSB_MS_VENDOR_CODE
     /\ \/ r.to = "device" /\ r.index = COMPATIBLE_ID
        \/ r.to = "interface" /\ r.index = EXTENDED_PROPERTIES
  THEN "handled" ELSE "next"

AnswerOf(cb, r, error) ==
  CASE cb = "tap"    -> TapAnswer(r, error)
    [] cb = "cdcacm" -> CdcacmAnswer(r)
    [] cb = "msft"   -> MsftAnswer(r)
    [] cb = "winusb" -> WinusbAnswer(r)

Takes(cb, r) == Matches(cb, r) /\ AnswerOf(cb, r, failed) # "next"

\* Bug: a callback that is asked does not pass the request on.
Bug_NotPassedOn(r) == {i \in DOMAIN slots : Matches(slots[i], r)}

\* libopencm3 asks the callbacks in turn, then answers standard requests.
Takers(r) == {i \in DOMAIN slots : Takes(slots[i], r)}

Dispatch(r) ==
  IF Takers(r) = {}
  THEN [req |-> r, by |-> "libopencm3",
        how |-> IF r.type = "standard" THEN "handled" ELSE "stall"]
  ELSE LET first == CHOOSE i \in Takers(r) : \A j \in Takers(r) : i <= j
       IN  [req |-> r, by |-> slots[first], how |-> AnswerOf(slots[first], r, failed)]

\* The error state after the tap has served r: a handshake or an access may
\* fail, and only CLRERR mends that.
Served(r) ==
  IF r.code = TAP_CLRERR THEN {FALSE}
  ELSE IF r.code >= TAP_HANDSHK THEN {failed, TRUE} ELSE {failed}

Request(r) ==
  /\ reply' = Dispatch(r)
  /\ IF reply'.by = "tap" /\ reply'.how = "handled"
     THEN failed' \in Served(r) ELSE UNCHANGED failed
  /\ UNCHANGED <<slots, full, configured, timers>>

----------------------------------------------------------------------------

\* tap_set_config, cdcacm_set_config and winusb_set_config ignore the value:
\* configuration 0 registers them too.
SetConfiguration(value) ==
  /\ slots' = Fit(Configured) /\ full' = (full \/ Len(Configured) > MAX_CALLBACKS)
  /\ configured' = (value # 0)
  /\ timers' = TRUE
  /\ reply' = NoReply
  /\ UNCHANGED failed

BusReset ==
  /\ configured' = FALSE
  /\ reply' = NoReply
  /\ UNCHANGED <<slots, full, timers, failed>>

Next ==
  \/ \E r \in Requests : Request(r)
  \/ \E value \in 0..1 : SetConfiguration(value)
  \/ BusReset

Spec == Init /\ [][Next]_vars

----------------------------------------------------------------------------
(* Properties.                                                             *)

Callbacks == {"tap", "cdcacm", "msft", "winusb"}

TypeOK ==
  /\ slots \in Seq(Callbacks) /\ Len(slots) <= MAX_CALLBACKS
  /\ full \in BOOLEAN /\ configured \in BOOLEAN /\ timers \in BOOLEAN /\ failed \in BOOLEAN
  /\ reply = NoReply \/ reply \in [req : Requests,
                                   by : Callbacks \cup {"libopencm3"},
                                   how : {"handled", "ignored", "stall"}]

\* Four callbacks are registered, and a fifth would be refused without a word
\* (usbd_register_control_callback, whose result no one looks at).
RoomForAll == full = FALSE

\* No request is claimed by two functions, so that it does not matter who asked
\* first: WinUSB's vendor requests and the tap's are told apart by wIndex alone.
OneTaker == \A r \in Requests : \A i, j \in Takers(r) : i = j

OsRequest(r) ==
  \/ r.type = "vendor" /\ WinusbAnswer(r) = "handled"
  \/ PLATFORMIO /\ r.to = "device" /\ MsftAnswer(r) = "handled"

\* Windows gets its descriptors whenever it asks for them: before the first
\* configuration, after a reset, and while the tap is in error.
OsDescriptorsServed ==
  [][reply' # reply /\ reply' # NoReply /\ OsRequest(reply'.req) =>
       reply'.by \in {"msft", "winusb"} /\ reply'.how = "handled"]_vars

ToTap(r) == r.type = "vendor" /\ r.to = "interface" /\ r.index = TAP_INTERFACE

\* A handshake is never begun on timers that have not been set up, where it
\* would wait for their counter for ever; and in a configured device every
\* request to the tap's interface reaches the tap.
TapReady ==
  [][reply' # reply /\ reply' # NoReply /\ ToTap(reply'.req) =>
       /\ reply'.by = "tap" => timers
       /\ configured => reply'.by = "tap"]_vars
=============================================================================
