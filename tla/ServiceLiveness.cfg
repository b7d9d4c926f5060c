\* Every call returns and every ticker ends, with cancels and restarts.
SPECIFICATION FairSpec
CONSTANTS
    Owner = owner
    Canceller = canceller
    Operators = {op1}
    OpCalls = {"op"}
    MaxSessions = 2
    MaxOps = 1
    MaxCancels = 1
PROPERTIES
    CallsReturn
    TickersEnd
