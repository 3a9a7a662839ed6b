SPECIFICATION FairSpec
CONSTANTS
    None = None
    s1 = s1
    p1 = p1
    p2 = p2
    h1 = h1
    h2 = h2
    b1 = b1
    d1 = d1
    Services <- MCServices
    Plans <- MCPlans
    Docs <- MCDocs
    Compact <- MCCompact
    Handlers = {h1, h2}
    Bindings = {b1}
    Catalog <- MCCatalog
    Bindable <- OnlyP1
    Schema <- MCSchema
    InstancePlans <- OnlyP1
    InstanceOps = {}
    BrokerLocal = TRUE
    Requests <- BindUnbind
    MaxRevision = 4
    MaxInstance = 2
    MaxFaults = 1
    MaxCrashes = 1
INVARIANT CreatedIsUsable
INVARIANT RunOnce
PROPERTY BindingsConclude
