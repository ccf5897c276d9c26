SPECIFICATION Spec
CONSTANTS
    c1 = c1 a = a b = b
    Clients = {c1}
    Panes = {a, b}
    NoPane = NoPane
    MaxBuffer = 1
    MaxToken = 1
    MaxOut = 1
    MaxWire = 4
SYMMETRY Symmetry
CONSTRAINT ShortWire
CHECK_DEADLOCK FALSE
INVARIANTS OutputKeepsItsPane
