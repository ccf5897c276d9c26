SPECIFICATION SteadySpec
CONSTANTS
    Clients = {c1}
    Panes = {a, b}
    NoPane = NoPane
    MaxBuffer = 2
    MaxToken = 2
    MaxOut = 1
    MaxEvents = 4
    MaxWire = 2
    MaxRequests = 2
CONSTRAINTS ShortQueues FewEvents
CHECK_DEADLOCK FALSE
INVARIANTS FocusAgrees TerminalsKeepApart NoFrameRefused
SYMMETRY Symmetry
