SPECIFICATION Spec
CONSTANTS
    c1 = c1 a = a
    Clients = {c1}
    Panes = {a}
    NoPane = NoPane
    MaxBuffer = 1
    MaxToken = 2
    MaxOut = 1
    MaxWire = 4
SYMMETRY Symmetry
CONSTRAINT ShortWire
CHECK_DEADLOCK FALSE
PROPERTIES OldHistoryIsDropped
