CONSTANTS
    Conns = {c1, c2}
    Requests <- ServedAndPanics
SPECIFICATION FairSpec
PROPERTIES
    IsGraceful
    ShutdownCompletes
