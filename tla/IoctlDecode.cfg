SPECIFICATION Spec
CONSTANTS
    MaxBlob = 149
    Huge = 100000
    Sizes <- MCSizes
INVARIANTS
    OneStatus
    StatusIsTrue
    ReadsInside
    WorkBounded
    SlicesInArrays
    ListsHonest
    RefusesShortArguments
