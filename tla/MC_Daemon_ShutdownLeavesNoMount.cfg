CONSTANTS
    Timeout <- MCTimeout
    MaxLaunch <- MCMaxLaunch
    MaxPolls <- MCMaxPolls
SPECIFICATION Spec
INVARIANT ShutdownLeavesNoMount
