\* Suspend, resume, noise and the slot, in any order.
SPECIFICATION Spec
INVARIANTS
  TypeOK
  Wakeable
  ClockRestored
  LedTrue
  DarkAsleep
PROPERTIES
  Resumes
  Suspends
