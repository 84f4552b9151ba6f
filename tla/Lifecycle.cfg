\* Lifecycle: see README.md for what the bounds mean.
CONSTANTS
    Daemon = {d1, d2, d3}
    Ctl = {c1}
    Nothing = Nothing
    Commands = {"start", "status", "stop", "reset"}
    Careful = TRUE
    MaxCrashes = 2
    MaxBacklog = 2
SPECIFICATION Lifecycle
INVARIANTS LockHeld Reachable StoppedIsStopped
PROPERTIES StartWorks ShutdownEnds
