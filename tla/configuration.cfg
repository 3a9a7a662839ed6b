SPECIFICATION FairSpec
CONSTANTS
    None = None
    good = good
    better = better
    broken = broken
    g1 = g1
    g2 = g2
    Specs <- MCSpecs
    Verdict <- MCVerdict
    Goroutines = {g1, g2}
    Requests <- MCRequests
    MaxEdits = 2
    MaxRelists = 1
    MaxFaults = 1
INVARIANT OneConfigPerRequest
PROPERTY StatusKeepsSpec
PROPERTY Converges
PROPERTY StatusSettles
PROPERTY WaitersServed
