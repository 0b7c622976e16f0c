SPECIFICATION FairSpec
CONSTANTS
    t1 = t1
    t2 = t2
    t3 = t3
    Threads <- MCThreads
    Names <- MCNames
    Nobody = Nobody
INVARIANTS
    TypeOK
    FindingsHold
    CopyFaithful
PROPERTIES
    ImplementsAtomic
    SomeCallReturns
