CONSTANTS
    MaxCalls <- MCMaxCalls
SPECIFICATION Spec
INVARIANT
    BackendFieldsOfVariant
