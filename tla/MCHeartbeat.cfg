SPECIFICATION HeartbeatSpec
CONSTANTS
    worker_a = worker_a
    worker_auto = worker_auto
    Nodes <- MCNodes
    InitialNodes <- MCInitialNodes
    FailureThreshold = 3
    RecoveryThreshold = 2
    MaxChecks = 9
CHECK_DEADLOCK FALSE
INVARIANT HeartbeatTypeOK
INVARIANT FailuresDetected
INVARIANT RecoveryDetected
INVARIANT NotificationsAlternate
PROPERTY RecoveryEarned
PROPERTY OneFailureIsForgiven
PROPERTY ImplementsMonitor
