\* Two processes with registries of their own, one field, three versions.
SPECIFICATION Spec
CONSTANTS
    api = api
    billing = billing
    total = total
    Process = {api, billing}
    Version <- MCVersion
    Field = {total}
    Type = {"any", "integer"}
    Kind = {"null", "integer", "string"}
    MaxRegisters = 3
    MaxEvents = 1
    MaxFaults = 1
SYMMETRY Processes
\* Once everything is registered and persisted nothing is left to do.
CHECK_DEADLOCK FALSE
INVARIANTS
    TypeOK StepsCompatible EventsStayReadable PersistTruthful
