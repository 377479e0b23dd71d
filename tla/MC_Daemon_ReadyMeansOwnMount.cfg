CONSTANTS
    Timeout <- MCTimeout
    MaxLaunch <- MCMaxLaunch
    MaxPolls <- MCMaxPolls
SPECIFICATION Spec
PROPERTY ReadyMeansOwnMount
