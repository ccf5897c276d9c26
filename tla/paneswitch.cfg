SPECIFICATION AllSpec
CONSTANTS
    Clients = {c1}
    Panes = {a}
    NoPane = NoPane
    MaxBuffer = 2
    MaxToken = 2
    MaxOut = 2
    MaxEvents = 3
    MaxWire = 1
    MaxRequests = 1
CONSTRAINTS ShortQueues FewEvents
CHECK_DEADLOCK FALSE
INVARIANTS AllTypeOK MachineNeverSticks WaitsForSomething ShownInOrder ScreenIsWhole
