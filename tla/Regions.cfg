SPECIFICATION Spec
CONSTANTS
    Regions = {r1, r2}
    None = None
    NoOp = NoOp
    FaultKinds = {"rule", "notify", "again", "dead", "twice", "clear", "timeout"}
    MaxOps = 3
    MaxFaults = 1
INVARIANTS
    TypeOK
    RegisteredAsDeployed
    RulesWhereDeployed
PROPERTIES
    CalmSucceeds
