SPECIFICATION Spec
CONSTANTS
    None = None
    Malformed = Malformed
    s1 = s1
    p1 = p1
    p2 = p2
    p3 = p3
    n0 = n0
    n1 = n1
    i1 = i1
    i2 = i2
    h1 = h1
    h2 = h2
    d1 = d1
    spaced = spaced
    inN0 = inN0
    inN1 = inN1
    bad = bad
    Services <- MCServices
    Plans <- MCPlans
    Docs <- MCDocs
    Compact <- MCCompact
    NamespaceOf <- MCNamespaceOf
    BrokerNamespace = n0
    RegistryNamespace <- MCRegistryNamespace
    Handlers <- TwoHandlers
    Instances <- TwoInstances
    Namespaces <- TwoNamespaces
    Catalog <- MCPairs
    Bought <- MCPairs
    PlanUpdatable <- NoService
    Scope <- Mixed
    Schema <- MCSchema
    Requests <- DirectoryRequests
    MaxRevision = 4
    MaxDirectory = 4
    MaxFaults = 0
    MaxCrashes = 0
SYMMETRY HandlerSymmetry
PROPERTY DirectoryIsolated
