SPECIFICATION Spec
CONSTANTS
    N = 2
    AvailableWhileRunning = FALSE
INVARIANTS
    DatabaseStopped
