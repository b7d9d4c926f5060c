\* Two sessions of one service; a forced close may interrupt each start at any step.
SPECIFICATION Spec
CONSTANTS
    Owner = owner
    Canceller = canceller
    Operators = {op1, op2}
    OpCalls = {"read", "op", "plan"}
    MaxSessions = 2
    MaxOps = 2
    MaxCancels = 2
SYMMETRY OperatorSymmetry
INVARIANTS
    IInv
    OneExchange
    HealthyWhenUp
    IdentityOfSession
    WireIsCurrent
    ReleasedWhenClosed
PROPERTIES
    ImplementsSession
