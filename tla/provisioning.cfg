SPECIFICATION FairSpec
CONSTANTS
    r1 = r1
    r2 = r2
    j1 = j1
    j2 = j2
    private = private
    shared = shared
    p1 = p1
    p2 = p2
    Shared = Shared
    Registries = {r1, r2}
    Jobs = {j1, j2}
    Params = {p1, p2}
    Templates <- MCTemplates
    Singletons <- MCSingletons
    ClusterScoped <- NoTemplate
    Render <- MCRender
    UseSteps = {r1}
    Steps <- MixedSteps
    MaxWrites = 1
    MaxUpdates = 1
INVARIANT BarriersHold
INVARIANT ObjectsKept
INVARIANT UpdateApplied
PROPERTY ForeignKept
PROPERTY EverythingCollected
CHECK_DEADLOCK FALSE
