\* One call seen from every side: two inbound messages, two queued writes; a
\* second slot waits beside it.
CONSTANTS
    All = All
    accept_window = 2
    max_active = 2
    write_cap = 2
    PollSizes = {1}
    MaxCalls = 1
    MaxMsgs = 2
    MaxSends = 2
    MaxEvents = 4
SPECIFICATION Spec
INVARIANTS
    TypeOK
    TagsCounted
    ActiveWhileTagged
    Capacity
    PumpArmed
    WireInOrder
    FenceHolds
    RequestFirst
    MsgsInOrder
PROPERTIES
    NothingAfterCancelled
    NoPostAfterShutdown
    OverFreed
    CancelReported
    CloseReturns
