\* The WebSocket thread may come first.
SPECIFICATION LifecycleSpec
INVARIANTS ViewersServed
CHECK_DEADLOCK FALSE
