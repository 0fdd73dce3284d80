SPECIFICATION UnionFindSpec
CONSTANTS
    Elements = 3
    Groups <- MCGroups
    MaxSize = 4
INVARIANT MergesAreUnions
