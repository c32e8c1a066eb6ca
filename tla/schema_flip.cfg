\* One process registers two versions.
SPECIFICATION Spec
CONSTANTS
    api = api
    billing = billing
    total = total
    Process = {api}
    Version <- MCVersion
    Field = {total}
    Type = {"any", "integer"}
    Kind = {"null", "integer", "string"}
    MaxRegisters = 3
    MaxEvents = 1
    MaxFaults = 1
\* Once everything is registered and persisted nothing is left to do.
CHECK_DEADLOCK FALSE
INVARIANTS
    BackwardCompatible
