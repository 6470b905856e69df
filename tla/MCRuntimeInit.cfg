CONSTANTS
    Models <- MCModels
    MaxSeqs <- MCMaxSeqs
    FastBases <- MCFastBases
    CacheBases <- MCCacheBases
SPECIFICATION Spec
INVARIANTS
    TypeOK
    RegionsSound
    RefusedOnlyWhenFull
    SizingSuffices
