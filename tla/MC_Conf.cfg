CONSTANTS
    MaxCalls <- MCMaxCalls
SPECIFICATION Spec
INVARIANTS
    TypeOK
    FileIsCurrent
    
PROPERTY
    DumpIdempotent
    ConfFileRefined
