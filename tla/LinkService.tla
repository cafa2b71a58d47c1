---------------------------- MODULE LinkService ----------------------------
(***************************************************************************)
(* What the handshake promises to the request that asks for it: the bus is *)
(* down while it lasts, it ends, and when it ends well the bus is up and   *)
(* the cartridge in the slot is running behind it.  Nothing but the next   *)
(* handshake, a hand on the slot or a new configuration stops it again;    *)
(* of these only the handshake takes the bus down.                         *)
(***************************************************************************)
CONSTANTS
  Cartridges,  \* what may be in the slot
  NoCart       \* an empty slot

VARIABLES
  busy,        \* a handshake is under way
  bus,         \* the bus is set up
  running,     \* the cartridge has been unlocked, and is clocked and out of reset
  cart,        \* what is in the slot
  same         \* it was there when the last handshake began

vars == <<busy, bus, running, cart, same>>

Init ==
  /\ ~busy /\ ~bus /\ ~running
  /\ cart \in Cartridges \cup {NoCart} /\ same = TRUE

Start ==
  /\ ~busy /\ busy' = TRUE
  /\ bus' = FALSE /\ running' = FALSE /\ same' = TRUE
  /\ UNCHANGED cart

Finish(ok) ==
  /\ busy /\ busy' = FALSE
  /\ ok => ~(same /\ cart = NoCart)
  /\ bus' = ok /\ running' = (ok /\ same)
  /\ UNCHANGED <<cart, same>>

Reconfigure ==
  /\ ~busy
  /\ running' = FALSE
  /\ UNCHANGED <<busy, bus, cart, same>>

Change(c) ==
  /\ c # cart /\ cart' = c
  /\ running' = FALSE /\ same' = FALSE
  /\ UNCHANGED <<busy, bus>>

Next ==
  \/ Start \/ Reconfigure
  \/ \E ok \in BOOLEAN : Finish(ok)
  \/ \E c \in Cartridges \cup {NoCart} : Change(c)

Spec == Init /\ [][Next]_vars /\ WF_vars(\E ok \in BOOLEAN : Finish(ok))
=============================================================================
