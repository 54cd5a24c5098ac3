CONSTANT MaxSize = 8
SPECIFICATION FairSpec
INVARIANTS
    TypeOK
    IInv
    SinkIsBeginning
    NilMeansAll
PROPERTIES
    EncodeReturns
