\* A statement of the documentation, on one call or stream.
CONSTANTS
    All = All
    ReadCaps = {1}
    WriteCaps = {1}
    PollSizes = {1}
    MaxCalls = 1
    MaxMsgs = 2
    MaxSends = 1
SPECIFICATION Spec
INVARIANTS
    EverythingArrives
