CONSTANTS
    Conns = {c1}
    Requests <- OneRequest
SPECIFICATION Spec
INVARIANT NoActiveConnectionInterrupted
