SPECIFICATION Spec
CONSTANTS
    MaxMessages = 3
    MaxRequests = 2
    MaxRetries = 1
    MaxRestarts = 2
    MaxEvents = 3
    MaxOutlived = 1
CONSTRAINT FewEvents
INVARIANTS AgentTypeOK NothingLost IdleHasHeardAll RestingStatus Answerable AnsweredOnce
PROPERTY RunEnds
CHECK_DEADLOCK FALSE
