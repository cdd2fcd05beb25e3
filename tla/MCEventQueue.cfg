\* Two calls share the queue; four arrivals let a filtered poll step over
\* older events of the other call twice and fill the pipe (PipeCap 2).
CONSTANTS
    All = All
    Ids = {c1, c2}
    PipeCap = 2
    PollSizes = {1, 2}
    MaxArrivals = 4
SPECIFICATION Spec
INVARIANTS
    WakeMirror
    WakeMeansNews
    NoSleepOnMatch
PROPERTIES
    AwaitDelivers
    MailboxSpec
    WaiterServed
CHECK_DEADLOCK TRUE
