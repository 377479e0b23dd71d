CONSTANTS
    Timeout <- MCTimeout
    MaxLaunch <- MCMaxLaunch
    MaxPolls <- MCMaxPolls
SPECIFICATION Spec
INVARIANTS
    TypeOK
    ShutdownClean
    
PROPERTIES
    MountWaitEndsWhenDaemonDies
    ShutdownReturns
    SessionRefined
