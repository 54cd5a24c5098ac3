CONSTANTS
    Conns = {c1}
    Requests <- ForkchoiceUpdate
SPECIFICATION Spec
INVARIANT RegisteredMethodsServable
