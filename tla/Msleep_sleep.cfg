\* Sleeps of one and of three milliseconds in any order, a tick or another
\* interrupt at any step of them.
SPECIFICATION Spec
CONSTANTS
  MS = 3
  Asks = {1, 3}
  Late = 10
INVARIANTS
  TypeOK
  SleepsItOut
PROPERTIES
  TickComes
  Wakes
