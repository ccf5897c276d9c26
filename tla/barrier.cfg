SPECIFICATION FairSpec
CONSTANTS
    c1 = c1 a = a
    Clients = {c1}
    Panes = {a}
    NoPane = NoPane
    MaxBuffer = 2
    MaxToken = 2
    MaxOut = 3
    MaxWire = 2
CONSTRAINT ShortWire
CHECK_DEADLOCK FALSE
INVARIANTS TypeOK GateHasTimer HeldBackIsComplete OutputInOrder
PROPERTIES KeepsPromise SwitchEnds
