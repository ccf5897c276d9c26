SPECIFICATION Spec
CONSTANTS
    MaxRestarts = 3
    MaxFailures = 5
CHECK_DEADLOCK FALSE
INVARIANTS ConnTypeOK OneClient KillsItsOwn
PROPERTIES Recovers
