\* A statement of the documentation, on one place for one call.
CONSTANTS
    All = All
    accept_window = 1
    max_active = 1
    write_cap = 1
    PollSizes = {1}
    MaxCalls = 1
    MaxMsgs = 1
    MaxSends = 1
    MaxEvents = 3
SPECIFICATION Spec
INVARIANTS
    IdleServerAccepts
