\* Any mix of two unary calls and streams on one client, typed or not: events of
\* one call are queued around, stepped over for, and taken in one batch with,
\* the other's.
CONSTANTS
    All = All
    ReadCaps = {1}
    WriteCaps = {1}
    PollSizes = {2}
    MaxCalls = 2
    MaxMsgs = 1
    MaxSends = 0
SPECIFICATION TypedSpec
INVARIANTS
    OneFate
    TableExact
PROPERTIES
    CloseReturns
