CONSTANTS
    Queries = {q1, q2}
    DefaultQuery = q1
    NoQuery = NoQuery
    MaxActs = 2
CHECK_DEADLOCK FALSE
SPECIFICATION Spec
INVARIANT
    FinalServed
