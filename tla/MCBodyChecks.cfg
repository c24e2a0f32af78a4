SPECIFICATION BodySpec

CONSTANTS
    Comparisons <- MCComparisons
    JSON <- MCJSON
    Depth <- MCDepth
    MaxDepth <- MCMaxDepth
    Atoi <- MCAtoi
    Docs <- MCDocs
    Paths <- MCPaths
    Values <- MCValues

INVARIANTS
    StrictIsEquality
    PartialIsEmbedding
    SearchIsSelection
    ChecksAgree
    PanicsOnlyBelowZero
