CONSTANTS
    Conns = {c1, c2}
    Requests <- SampleRequests
SPECIFICATION Spec
SYMMETRY Symmetry
INVARIANTS
    TypeOK
    IInv
    OnlyTimeoutInterrupts
    ListenFailureReported
    RepliesAreValidated
    ServableAreServed
    HealthIsTruthful
