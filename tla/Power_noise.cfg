\* After noise the core sleeps in a handler, where nothing wakes it.
SPECIFICATION Spec
PROPERTY
  NoiseTolerated
