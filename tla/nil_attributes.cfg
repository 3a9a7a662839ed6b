SPECIFICATION Spec
CONSTANTS
    None = None
    RSAMinimum = 12
    RSASigning = 496
    p1 = p1
    p2 = p2
    Plans = {p1, p2}
    Configs <- NilConfigs
    Params <- MCParams
    Argument <- MCArgument
    Part <- MCPart
INVARIANT RenderedAsDocumented
CHECK_DEADLOCK FALSE
