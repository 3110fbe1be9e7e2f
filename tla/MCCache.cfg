CONSTANTS
    o1 = o1
    o2 = o2
    o3 = o3
    o4 = o4
    NoTime = NoTime
    NoContent = NoContent
    Objects <- MCObjects
    PrefixSets <- MCPrefixSets
    Catalogue <- MCCatalogue
    SizeOf <- MCSizeOf
    Capacity = 4
    MaxNow = 2
SPECIFICATION Spec
INVARIANTS
    CacheTypeOK
    CacheIsConsistent
PROPERTIES
    ImplementsLeastRecentlyUsed
