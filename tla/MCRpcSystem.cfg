\* One stream: a message up; one down before the answer, which may carry another.
\* One message in transit and buffers of one, so that every queue fills.
CONSTANTS
    All = All
    read_cap = 1
    client_cap = 1
    server_cap = 1
    PollSizes = {2}
    Window = 1
    MaxUp = 1
    MaxDown = 1
    MaxReads = 2
SPECIFICATION Spec
PROPERTIES
    ContractKept
    AnswerReported
