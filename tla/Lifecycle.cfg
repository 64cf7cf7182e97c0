\* Start and stop with every interleaving of the three threads.
SPECIFICATION LifecycleFairSpec
INVARIANTS StopWaits
PROPERTIES StopEnds
CHECK_DEADLOCK FALSE
