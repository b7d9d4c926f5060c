\* Modules that answer in time, late or never; the module pinned or latched.
SPECIFICATION Spec
CONSTANTS
    Modules = {ecu, abs}
    Modes = {current, stored}
    Pids = {p, q}
    None = None
    FrameLimits = {1, 2}
    MaxRequests = 3
    MaxConnects = 2
SYMMETRY ModuleSymmetry
INVARIANTS
    OneModule
    FreshWhenPrompt
PROPERTIES
    VerdictOfThisRequest
