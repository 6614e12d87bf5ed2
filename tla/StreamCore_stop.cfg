SPECIFICATION Spec
INVARIANT StopEndsStream
