----------------------------- MODULE UsbProofs ------------------------------
(***************************************************************************)
(* Proofs about UsbDevice, for every set of requests and both builds.      *)
(***************************************************************************)
EXTENDS UsbDevice, SequenceTheorems, TLAPS

\* The callbacks of a device in use, spelled out.
InUse ==
  IF PLATFORMIO THEN <<"tap", "cdcacm", "msft", "winusb">> ELSE <<"tap", "cdcacm", "winusb">>

AtFirst == IF PLATFORMIO THEN <<"msft", "winusb">> ELSE <<"winusb">>

\* The tables, and the answers to them, in the state of the table.
Table ==
  \/ slots = AtFirst /\ ~configured /\ ~timers
  \/ slots = InUse /\ timers

TableInv == Table /\ full = FALSE

----------------------------------------------------------------------------
(* The tables are not cut short.                                           *)

LEMMA Tables ==
  /\ AtFirst \in Seq(Callbacks) /\ Len(AtFirst) = IF PLATFORMIO THEN 2 ELSE 1
  /\ InUse \in Seq(Callbacks) /\ Len(InUse) = IF PLATFORMIO THEN 4 ELSE 3
<1>1. CASE PLATFORMIO
  <2>1. <<"msft", "winusb">> \in Seq(Callbacks)
    BY DEF Callbacks
  <2>2. <<"tap", "cdcacm", "msft", "winusb">> \in Seq(Callbacks)
    BY DEF Callbacks
  <2> QED
    BY <1>1, <2>1, <2>2 DEF AtFirst, InUse
<1>2. CASE ~PLATFORMIO
  <2>1. <<"winusb">> \in Seq(Callbacks)
    BY DEF Callbacks
  <2>2. <<"tap", "cdcacm", "winusb">> \in Seq(Callbacks)
    BY DEF Callbacks
  <2> QED
    BY <1>2, <2>1, <2>2 DEF AtFirst, InUse
<1> QED
  BY <1>1, <1>2

\* The three set_config callbacks register in this order.
LEMMA ConfiguredIsInUse == Configured = InUse
<1> DEFINE two == <<"tap">> \o <<"cdcacm">>
<1>1. Configured = two \o AtFirst
  BY DEF Configured, SetConfigCallbacks, RegisteredBy, AtFirst
<1>2. <<"tap">> \in Seq(Callbacks) /\ <<"cdcacm">> \in Seq(Callbacks)
  BY DEF Callbacks
<1>3. Len(<<"tap">>) = 1 /\ Len(<<"cdcacm">>) = 1
  OBVIOUS
<1>4. two \in Seq(Callbacks) /\ Len(two) = 2 /\ two[1] = "tap" /\ two[2] = "cdcacm"
  <2>1. /\ two \in Seq(Callbacks) /\ Len(two) = 1 + 1
        /\ \A i \in 1..1 + 1 : two[i] = IF i <= 1 THEN <<"tap">>[i] ELSE <<"cdcacm">>[i - 1]
    BY <1>2, <1>3, ConcatProperties
  <2> QED
    BY <2>1
<1> HIDE DEF two
<1>5. /\ two \o AtFirst \in Seq(Callbacks) /\ Len(two \o AtFirst) = 2 + Len(AtFirst)
      /\ \A i \in 1..2 + Len(AtFirst) :
           (two \o AtFirst)[i] = IF i <= 2 THEN two[i] ELSE AtFirst[i - 2]
  <2>1. /\ two \o AtFirst \in Seq(Callbacks) /\ Len(two \o AtFirst) = Len(two) + Len(AtFirst)
        /\ \A i \in 1..Len(two) + Len(AtFirst) :
             (two \o AtFirst)[i] = IF i <= Len(two) THEN two[i] ELSE AtFirst[i - Len(two)]
    BY <1>4, Tables, ConcatProperties, Zenon
  <2> QED
    BY <1>4, <2>1, Zenon
<1>6. Len(two \o AtFirst) = Len(InUse)
  BY <1>5, Tables
<1>7. \A i \in 1..Len(InUse) : (two \o AtFirst)[i] = InUse[i]
  <2>1. CASE PLATFORMIO
    BY <1>4, <1>5, <2>1, Tables DEF AtFirst, InUse
  <2>2. CASE ~PLATFORMIO
    BY <1>4, <1>5, <2>2, Tables DEF AtFirst, InUse
  <2> QED
    BY <2>1, <2>2
<1>8. two \o AtFirst = InUse
  BY <1>5, <1>6, <1>7, Tables, SeqEqual
<1> QED
  BY <1>1, <1>8

\* usbd_register_control_callback finds a place in both tables.
LEMMA Fits ==
  /\ Fit(Configured) = InUse /\ (Len(Configured) > MAX_CALLBACKS) = FALSE
  /\ Fit(PreRegistered) = AtFirst /\ (Len(PreRegistered) > MAX_CALLBACKS) = FALSE
<1>1. Len(InUse) \in Nat /\ Len(InUse) <= 4
  BY Tables
<1>2. Len(AtFirst) \in Nat /\ Len(AtFirst) <= 4
  BY Tables
<1>3. PreRegistered = AtFirst
  BY DEF PreRegistered, RegisteredBy, AtFirst
<1>4. ASSUME NEW cbs \in Seq(Callbacks), Len(cbs) \in Nat, Len(cbs) <= 4
      PROVE  Fit(cbs) = cbs /\ (Len(cbs) > MAX_CALLBACKS) = FALSE
  <2>1. SubSeq(cbs, 1, Len(cbs)) = cbs
    BY SubSeqFull
  <2>2. (IF Len(cbs) < MAX_CALLBACKS THEN Len(cbs) ELSE MAX_CALLBACKS) = Len(cbs)
    BY <1>4, UsbAssumption
  <2>3. (Len(cbs) > MAX_CALLBACKS) = FALSE
    BY <1>4, UsbAssumption
  <2> QED
    BY <2>1, <2>2, <2>3 DEF Fit
<1> QED
  BY <1>1, <1>2, <1>3, <1>4, Tables, ConfiguredIsInUse

----------------------------------------------------------------------------
(* The table in every state.                                               *)

LEMMA InitTable == Init => TableInv
  BY Fits DEF Init, TableInv, Table

LEMMA NextTable == TableInv /\ [Next]_vars => TableInv'
<1> SUFFICES ASSUME TableInv, [Next]_vars PROVE TableInv'
  OBVIOUS
<1>1. CASE \E r \in Requests : Request(r)
  BY <1>1 DEF Request, TableInv, Table
<1>2. CASE \E value \in 0..1 : SetConfiguration(value)
  BY <1>2, Fits DEF SetConfiguration, TableInv, Table
<1>3. CASE BusReset
  BY <1>3 DEF BusReset, TableInv, Table
<1>4. CASE UNCHANGED vars
  BY <1>4 DEF vars, TableInv, Table
<1> QED
  BY <1>1, <1>2, <1>3, <1>4 DEF Next

LEMMA TableCorrect == Spec => []TableInv
<1>1. Init => TableInv
  BY InitTable
<1>2. TableInv /\ [Next]_vars => TableInv'
  BY NextTable
<1> QED
  BY <1>1, <1>2, PTL DEF Spec

\* Every registration finds a place (usbd_register_control_callback, four
\* times at the most in each of __usb_setup and the set_config callbacks).
THEOREM RoomCorrect == Spec => []RoomForAll
<1>1. TableInv => RoomForAll
  BY DEF TableInv, RoomForAll
<1> QED
  BY <1>1, TableCorrect, PTL

----------------------------------------------------------------------------
(* Who takes a request.                                                    *)

LEMMA PlaceOf ==
  ASSUME TableInv, NEW i \in DOMAIN slots
  PROVE  /\ slots[i] \in Callbacks
         /\ \A j \in DOMAIN slots : slots[j] = slots[i] => j = i
<1>1. CASE slots = AtFirst
  BY <1>1 DEF AtFirst, Callbacks
<1>2. CASE slots = InUse
  BY <1>2 DEF InUse, Callbacks
<1> QED
  BY <1>1, <1>2 DEF TableInv, Table

\* No two callbacks take the same request.
LEMMA TakesApart ==
  ASSUME NEW r, NEW a \in Callbacks, NEW b \in Callbacks, Takes(a, r), Takes(b, r)
  PROVE  a = b
<1>1. Takes("tap", r) => r.type = "vendor" /\ r.index = 2
  BY DEF Takes, Matches, AnswerOf, TapAnswer, TAP_INTERFACE
<1>2. Takes("cdcacm", r) => r.type = "class"
  BY DEF Takes, Matches
<1>3. Takes("msft", r) => r.type = "standard"
  BY DEF Takes, AnswerOf, MsftAnswer
<1>4. Takes("winusb", r) => r.type = "vendor" /\ r.index \in {4, 5}
  BY DEF Takes, Matches, AnswerOf, WinusbAnswer, COMPATIBLE_ID, EXTENDED_PROPERTIES
<1> QED
  BY <1>1, <1>2, <1>3, <1>4 DEF Callbacks

LEMMA OneOnly ==
  ASSUME TableInv, NEW r, NEW i \in Takers(r), NEW j \in Takers(r)
  PROVE  i = j
  BY PlaceOf, TakesApart DEF Takers

\* The order of the table is of no consequence: the tap's vendor requests and
\* WinUSB's are told apart by wIndex, CDC-ACM's by the type.
THEOREM OneTakerCorrect == Spec => []OneTaker
<1>1. TableInv => OneTaker
  BY OneOnly DEF OneTaker
<1> QED
  BY <1>1, TableCorrect, PTL

\* A request that the callback in place i takes is answered by it.
LEMMA DispatchTo ==
  ASSUME TableInv, NEW r, NEW i \in Takers(r)
  PROVE  Dispatch(r) = [req |-> r, by |-> slots[i], how |-> AnswerOf(slots[i], r, failed)]
<1> DEFINE first == CHOOSE k \in Takers(r) : \A j \in Takers(r) : k <= j
<1>1. i \in Nat
  <2>1. CASE slots = AtFirst
    BY <2>1 DEF Takers, AtFirst
  <2>2. CASE slots = InUse
    BY <2>2 DEF Takers, InUse
  <2> QED
    BY <2>1, <2>2 DEF TableInv, Table
<1>2. \A j \in Takers(r) : j = i
  BY OneOnly
<1>3. first \in Takers(r)
  <2>1. \E k \in Takers(r) : \A j \in Takers(r) : k <= j
    BY <1>1, <1>2
  <2> QED
    BY <2>1, Zenon
<1>4. first = i
  BY <1>2, <1>3
<1> QED
  BY <1>4 DEF Dispatch

----------------------------------------------------------------------------
(* The system's descriptors, and the requests to the tap.                  *)

LEMMA Answered ==
  ASSUME [Next]_vars, reply' # reply, reply' # NoReply
  PROVE  \E r \in Requests : reply' = Dispatch(r)
  BY DEF Next, Request, SetConfiguration, BusReset, vars

LEMMA AnsweredReq == ASSUME NEW r PROVE Dispatch(r).req = r
  BY DEF Dispatch

\* winusb is in both tables, and msft in both of a PLATFORMIO build.
LEMMA WinusbThere ==
  ASSUME TableInv
  PROVE  /\ \E i \in DOMAIN slots : slots[i] = "winusb"
         /\ PLATFORMIO => \E i \in DOMAIN slots : slots[i] = "msft"
<1>1. CASE slots = AtFirst /\ PLATFORMIO
  <2>1. slots[1] = "msft" /\ slots[2] = "winusb" /\ 1 \in DOMAIN slots /\ 2 \in DOMAIN slots
    BY <1>1 DEF AtFirst
  <2> QED BY <2>1
<1>2. CASE slots = AtFirst /\ ~PLATFORMIO
  <2>1. slots[1] = "winusb" /\ 1 \in DOMAIN slots
    BY <1>2 DEF AtFirst
  <2> QED BY <2>1, <1>2
<1>3. CASE slots = InUse /\ PLATFORMIO
  <2>1. slots[3] = "msft" /\ slots[4] = "winusb" /\ 3 \in DOMAIN slots /\ 4 \in DOMAIN slots
    BY <1>3 DEF InUse
  <2> QED BY <2>1
<1>4. CASE slots = InUse /\ ~PLATFORMIO
  <2>1. slots[3] = "winusb" /\ 3 \in DOMAIN slots
    BY <1>4 DEF InUse
  <2> QED BY <2>1, <1>4
<1> QED
  BY <1>1, <1>2, <1>3, <1>4 DEF TableInv, Table

\* Windows gets its descriptors from WinUSB in every state of the device
\* (winusb_setup before the first configuration, winusb_set_config after).
THEOREM OsDescriptorsCorrect == Spec => OsDescriptorsServed
<1>1. ASSUME TableInv, [Next]_vars
      PROVE  reply' # reply /\ reply' # NoReply /\ OsRequest(reply'.req) =>
               reply'.by \in {"msft", "winusb"} /\ reply'.how = "handled"
  <2> SUFFICES ASSUME reply' # reply, reply' # NoReply, OsRequest(reply'.req)
               PROVE  reply'.by \in {"msft", "winusb"} /\ reply'.how = "handled"
    OBVIOUS
  <2>1. PICK r \in Requests : reply' = Dispatch(r)
    BY <1>1, Answered
  <2>2. OsRequest(r)
    BY <2>1, AnsweredReq
  <2>3. CASE r.type = "vendor" /\ WinusbAnswer(r) = "handled"
    <3>1. PICK i \in DOMAIN slots : slots[i] = "winusb"
      BY <1>1, WinusbThere
    <3>2. i \in Takers(r) /\ AnswerOf(slots[i], r, failed) = "handled"
      BY <2>3, <3>1 DEF Takers, Takes, Matches, AnswerOf
    <3> QED
      BY <1>1, <2>1, <3>1, <3>2, DispatchTo
  <2>4. CASE PLATFORMIO /\ r.to = "device" /\ MsftAnswer(r) = "handled"
    <3>1. PICK i \in DOMAIN slots : slots[i] = "msft"
      BY <1>1, <2>4, WinusbThere
    <3>2. i \in Takers(r) /\ AnswerOf(slots[i], r, failed) = "handled"
      BY <2>4, <3>1 DEF Takers, Takes, Matches, AnswerOf
    <3> QED
      BY <1>1, <2>1, <3>1, <3>2, DispatchTo
  <2> QED
    BY <2>2, <2>3, <2>4 DEF OsRequest
<1> QED
  BY <1>1, TableCorrect, PTL DEF Spec, OsDescriptorsServed

\* A handshake finds its timers set up, and the tap of a configured device is
\* always asked (tap_set_config registers it and calls tim2_3_setup).
THEOREM TapReadyCorrect == Spec => TapReady
<1>1. ASSUME TableInv, [Next]_vars
      PROVE  reply' # reply /\ reply' # NoReply /\ ToTap(reply'.req) =>
               (reply'.by = "tap" => timers) /\ (configured => reply'.by = "tap")
  <2> SUFFICES ASSUME reply' # reply, reply' # NoReply, ToTap(reply'.req)
               PROVE  (reply'.by = "tap" => timers) /\ (configured => reply'.by = "tap")
    OBVIOUS
  <2>1. PICK r \in Requests : reply' = Dispatch(r)
    BY <1>1, Answered
  <2>2. ToTap(r)
    BY <2>1, AnsweredReq
  <2>3. CASE timers
    <3>1. slots = InUse
      BY <1>1, <2>3 DEF TableInv, Table
    <3>2. 1 \in DOMAIN slots /\ slots[1] = "tap"
      BY <3>1 DEF InUse
    <3>3. AnswerOf("tap", r, failed) # "next"
      BY <2>2 DEF ToTap, AnswerOf, TapAnswer
    <3>4. 1 \in Takers(r)
      BY <2>2, <3>2, <3>3 DEF Takers, Takes, Matches, ToTap
    <3>5. reply'.by = "tap"
      BY <1>1, <2>1, <3>2, <3>4, DispatchTo
    <3> QED
      BY <2>3, <3>5
  <2>4. CASE ~timers
    <3>1. slots = AtFirst /\ ~configured
      BY <1>1, <2>4 DEF TableInv, Table
    <3>2. \A i \in DOMAIN slots : slots[i] # "tap"
      BY <3>1 DEF AtFirst
    <3>3. reply'.by # "tap"
      <4>1. CASE Takers(r) = {}
        BY <2>1, <4>1 DEF Dispatch
      <4>2. CASE Takers(r) # {}
        <5>1. PICK i : i \in Takers(r)
          BY <4>2
        <5> QED
          BY <1>1, <2>1, <3>2, <5>1, DispatchTo DEF Takers
      <4> QED
        BY <4>1, <4>2
    <3> QED
      BY <3>1, <3>3
  <2> QED
    BY <2>3, <2>4
<1> QED
  BY <1>1, TableCorrect, PTL DEF Spec, TapReady
----------------------------------------------------------------------------
(* Types.                                                                  *)

LEMMA AnswerTypes ==
  ASSUME NEW r, NEW cb \in Callbacks, NEW error, AnswerOf(cb, r, error) # "next"
  PROVE  AnswerOf(cb, r, error) \in {"handled", "ignored", "stall"}
<1>1. AnswerOf("tap", r, error) \in {"next", "handled", "ignored", "stall"}
  BY DEF AnswerOf, TapAnswer
<1>2. AnswerOf("cdcacm", r, error) \in {"next", "stall"}
  BY DEF AnswerOf, CdcacmAnswer
<1>3. AnswerOf("msft", r, error) \in {"next", "handled"}
  BY DEF AnswerOf, MsftAnswer
<1>4. AnswerOf("winusb", r, error) \in {"next", "handled"}
  BY DEF AnswerOf, WinusbAnswer
<1> QED
  BY <1>1, <1>2, <1>3, <1>4 DEF Callbacks

Replies ==
  [req : Requests, by : Callbacks \cup {"libopencm3"}, how : {"handled", "ignored", "stall"}]

LEMMA DispatchType == ASSUME TableInv, NEW r \in Requests PROVE Dispatch(r) \in Replies
<1>1. CASE Takers(r) = {}
  BY <1>1 DEF Dispatch, Replies
<1>2. CASE Takers(r) # {}
  <2>1. PICK i : i \in Takers(r)
    BY <1>2
  <2>2. slots[i] \in Callbacks /\ AnswerOf(slots[i], r, failed) # "next"
    BY <2>1, PlaceOf DEF Takers, Takes
  <2>3. AnswerOf(slots[i], r, failed) \in {"handled", "ignored", "stall"}
    BY <2>2, AnswerTypes
  <2> QED
    BY <2>1, <2>2, <2>3, DispatchTo DEF Replies
<1> QED
  BY <1>1, <1>2

\* The types of the state, with the table never over its size
\* (MAX_USER_CONTROL_CALLBACK).
THEOREM UsbTypeCorrect == Spec => []TypeOK
<1> DEFINE States ==
      /\ configured \in BOOLEAN /\ timers \in BOOLEAN /\ failed \in BOOLEAN
      /\ reply = NoReply \/ reply \in Replies
<1>1. Init => States
  BY DEF Init
<1>2. ASSUME TableInv, States, [Next]_vars PROVE States'
  <2>1. ASSUME NEW r \in Requests, Request(r) PROVE States'
    <3>1. reply' \in Replies
      BY <1>2, <2>1, DispatchType DEF Request
    <3>2. failed' \in BOOLEAN
      BY <1>2, <2>1 DEF Request, Served
    <3> QED
      BY <1>2, <2>1, <3>1, <3>2 DEF Request
  <2>2. ASSUME NEW value \in 0..1, SetConfiguration(value) PROVE States'
    BY <1>2, <2>2 DEF SetConfiguration
  <2>3. CASE BusReset
    BY <1>2, <2>3 DEF BusReset
  <2>4. CASE UNCHANGED vars
    BY <1>2, <2>4 DEF vars
  <2> QED
    BY <1>2, <2>1, <2>2, <2>3, <2>4 DEF Next
<1>3. TableInv /\ States => TypeOK
  <2>1. TableInv => slots \in Seq(Callbacks) /\ Len(slots) <= MAX_CALLBACKS
    <3>1. Len(AtFirst) <= 4 /\ Len(InUse) <= 4 /\ Len(AtFirst) \in Nat /\ Len(InUse) \in Nat
      BY Tables
    <3>2. Len(AtFirst) <= MAX_CALLBACKS /\ Len(InUse) <= MAX_CALLBACKS
      BY <3>1, UsbAssumption
    <3> QED
      BY <3>2, Tables, Zenon DEF TableInv, Table
  <2>2. TableInv => full \in BOOLEAN
    BY DEF TableInv
  <2>3. States => reply = NoReply \/ reply \in Replies
    OBVIOUS
  <2> QED
    BY <2>1, <2>2, <2>3, Zenon DEF TypeOK, Replies
<1> HIDE DEF States
<1> QED
  BY <1>1, <1>2, <1>3, TableCorrect, PTL DEF Spec
=============================================================================
