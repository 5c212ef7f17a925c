\* Every way to start the system, with failing calls, cancellation and Shutdown.
SPECIFICATION FairSpec
CONSTANTS
    Systems <- MCSystems
    MaxShutdowns = 2
INVARIANTS TypeOK PanicsOnlyWhenMisused Lockstep
PROPERTIES SyncReturns CancelStops
CHECK_DEADLOCK FALSE
