SPECIFICATION RejoinSpec
CONSTANTS
    Clients = {c1}
    Panes = {a}
    NoPane = NoPane
    MaxBuffer = 2
    MaxToken = 2
    MaxOut = 1
    MaxEvents = 4
    MaxWire = 2
    MaxRequests = 1
CONSTRAINTS ShortQueues FewEvents
CHECK_DEADLOCK FALSE
INVARIANT FocusSurvivesReconnect
