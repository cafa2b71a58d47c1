---------------------------- MODULE DumpService ----------------------------
(***************************************************************************)
(* What a host may rely on when it dumps a cartridge: chunks asked for in  *)
(* order are the chunks of the medium, an empty answer is its end or an    *)
(* error that shows, and whatever it does beside that either leaves the    *)
(* dump where it was or ends it.  There is no bus, no bank and no header   *)
(* here: a cartridge is the sizes of its media, Unknown where nothing is   *)
(* promised.                                                               *)
(***************************************************************************)
EXTENDS Naturals, Sequences

CONSTANTS
  Media,      \* what can be dumped
  Sizes,      \* the cartridges: functions on Media
  NoCart,     \* no cartridge
  Unknown,    \* the size of a medium that cannot be dumped
  Idxs        \* chunk indices a host asks for

VARIABLES
  cart,       \* what is in the slot
  open,       \* it is unlocked
  failed,     \* an error is pending
  pos,        \* chunks of each medium delivered in order
  answer      \* to the last request, when that was a dump

vars == <<cart, open, failed, pos, answer>>

Nothing == [medium |-> "none", at |-> 0, data |-> <<>>]
Nowhere == [m \in Media |-> 0]

Init ==
  /\ cart \in Sizes \cup {NoCart} /\ open = FALSE
  /\ failed = FALSE
  /\ pos = Nowhere /\ answer = Nothing

\* Index idx begins the dump of m, continues it or repeats its last chunk.
Continues(m, idx) == idx = 0 \/ (pos[m] > 0 /\ idx \in {pos[m] - 1, pos[m]})

Promised(m, idx) == open /\ cart[m] # Unknown /\ Continues(m, idx)

----------------------------------------------------------------------------
(* A dump is asked for.                                                    *)

Deliver(m, idx) ==
  /\ ~failed /\ Promised(m, idx) /\ idx < cart[m]
  /\ answer' = [medium |-> m, at |-> idx, data |-> <<idx>>]
  /\ pos' = [pos EXCEPT ![m] = idx + 1]
  /\ UNCHANGED <<cart, open, failed>>

\* The end of one medium is the end of every dump.
End(m, idx) ==
  /\ ~failed /\ Promised(m, idx) /\ idx = cart[m]
  /\ answer' = [medium |-> m, at |-> idx, data |-> <<>>]
  /\ pos' = Nowhere
  /\ UNCHANGED <<cart, open, failed>>

\* Any data may come, or an error, but no dump goes on wrongly.
Unpromised(m, idx) ==
  /\ ~failed /\ ~Promised(m, idx)
  /\ answer'.medium = m /\ answer'.at = idx
  /\ pos' \in {Nowhere, [pos EXCEPT ![m] = 0]}
  /\ failed' \in BOOLEAN /\ (failed' => answer'.data = <<>>)
  /\ UNCHANGED <<cart, open>>

Ignored ==
  /\ failed
  /\ answer'.data = <<>>
  /\ UNCHANGED <<cart, open, failed, pos>>

----------------------------------------------------------------------------
(* Anything else that happens.                                             *)

\* A request of any kind is refused, and does nothing.
Refuse ==
  /\ ~failed /\ failed' = TRUE
  /\ answer'.data = <<>>
  /\ UNCHANGED <<cart, open, pos>>

Clear ==
  /\ failed' = FALSE /\ answer' = Nothing
  /\ UNCHANGED <<cart, open, pos>>

\* Another request, which may end the dumps of the media M.
Other(M) ==
  /\ M # {} => ~failed
  /\ answer' = Nothing
  /\ pos' = [m \in Media |-> IF m \in M THEN 0 ELSE pos[m]]
  /\ UNCHANGED <<cart, open, failed>>

Unlock ==
  /\ ~failed /\ cart # NoCart
  /\ open' = TRUE /\ pos' = Nowhere /\ answer' = Nothing
  /\ UNCHANGED <<cart, failed>>

\* The cartridge is locked, with an error or for a new configuration.
Lock ==
  /\ open' = FALSE /\ pos' = Nowhere /\ answer' = Nothing
  /\ failed' \in {failed, TRUE}
  /\ UNCHANGED cart

Change(c) ==
  /\ cart' = c
  /\ open' = FALSE /\ pos' = Nowhere /\ answer' = Nothing
  /\ UNCHANGED failed

Restart ==
  /\ failed' = FALSE
  /\ open' = FALSE /\ pos' = Nowhere /\ answer' = Nothing
  /\ UNCHANGED cart

Next ==
  \/ \E m \in Media, idx \in Idxs : Deliver(m, idx) \/ End(m, idx) \/ Unpromised(m, idx)
  \/ Ignored \/ Refuse \/ Clear
  \/ \E M \in SUBSET Media : Other(M)
  \/ Unlock \/ Lock \/ Restart
  \/ \E c \in Sizes \cup {NoCart} : Change(c)

Spec == Init /\ [][Next]_vars
=============================================================================
