SPECIFICATION Spec
CONSTANTS
    None = None
    s1 = s1
    p1 = p1
    p2 = p2
    h1 = h1
    h2 = h2
    b1 = b1
    d1 = d1
    Services <- MCServices
    Plans <- MCPlans
    Docs <- MCDocs
    Compact <- MCCompact
    Handlers = {h1}
    Bindings = {b1}
    Catalog <- MCCatalog
    Bindable <- OnlyP1
    Schema <- MCSchema
    InstancePlans <- MCCatalog
    InstanceOps = {"provision", "update", "deprovision"}
    BrokerLocal = FALSE
    Requests <- AllRequests
    MaxRevision = 4
    MaxInstance = 4
    MaxFaults = 2
    MaxCrashes = 1
INVARIANTS
    UnbindableNotBound
    IdleOnlyIfInherited
