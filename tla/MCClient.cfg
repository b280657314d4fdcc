SPECIFICATION Spec
CONSTANTS
    Handlers <- MCHandlers
    Calls <- MCCalls
    TooLarge <- MCTooLarge
    Size = 1
    Conns <- MCConns
    MaxStops = 2
    MaxCancels = 1
INVARIANTS
    TypeOK
    SlotsAreReplaced
    AnswersAreMine
    SuccessesHappened
PROPERTY
    RequestsEnd
CHECK_DEADLOCK FALSE
