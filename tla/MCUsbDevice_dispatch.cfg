\* Every request in every state of the table of callbacks.
SPECIFICATION Spec
CONSTANTS
  PLATFORMIO = TRUE
  MAX_CALLBACKS = 4
  Requests <- mc_Requests
INVARIANTS
  TypeOK
  RoomForAll
  OneTaker
PROPERTIES
  OsDescriptorsServed
  TapReady
