SPECIFICATION ControlSpec
CONSTANTS
    a = a
    b = b
    Static <- MCStatic
    Kps <- MCKps
    Kis <- MCKis
    Kds <- MCKds
    Targets <- MCTargets
    EarlyDts <- MCEarlyDts
    Cooldowns <- MCCooldowns
    Period = 5
    Depths <- MCDepths
    Swing = 1940
    MinWorkers = 1
    MaxWorkers = 4
    Linger = 18
    MaxConfigs = 1
    MaxFailures = 0
INVARIANT ControlTypeOK
PROPERTY ScalingJustified
PROPERTY CooldownKept
