SPECIFICATION FairSpec
CONSTANTS
    Threads = {t1, t2}
    Word <- MCWord
    kMaxNumItems <- MCMaxItems
    Hash <- MCHash
    Properties <- AllCases
    MaxCalls = 1
    NONE = NONE
INVARIANT LookupsHitLoad ZeroLookupsMiss WellFormed
 
