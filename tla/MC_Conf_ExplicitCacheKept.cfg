CONSTANTS
    MaxCalls <- MCMaxCalls
SPECIFICATION Spec
INVARIANT
    ExplicitCacheKept
