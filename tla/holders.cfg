SPECIFICATION Spec
CONSTANTS
    s1 = s1 s2 = s2 b1 = b1 e1 = e1 e2 = e2
    Sockets = {s1, s2}
    Borrowers = {b1}
    Entries = {e1, e2}
    NoEntry = NoEntry
    MaxRetries = 2
    MaxRuntimes = 2
SYMMETRY Symmetry
INVARIANTS HoldersTypeOK OneRuntime CountsAreHolders ShutWhenUnheldOrStolen ToldIsTrue PushNeverSleeps
