\* One stream or call: up to three messages in, two out, buffers of one and
\* two messages, so that reads pause and resume and the write queue refuses; typed
\* or not, each message decodable or not.
CONSTANTS
    All = All
    ReadCaps = {1, 2}
    WriteCaps = {1, 2}
    PollSizes = {1, 2}
    MaxCalls = 1
    MaxMsgs = 3
    MaxSends = 2
SPECIFICATION TypedSpec
INVARIANTS
    TypeOK
    TagsCounted
    NoDanglingTag
    FinishAlone
    Backpressure
    NeverStranded
    WritesMove
    WritesInOrder
    MsgsInOrder
    StatusComplete
    SendsWellTyped
PROPERTIES
    NoPostAfterShutdown
    EndReported
