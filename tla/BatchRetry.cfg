SPECIFICATION Spec
\* The last round may end with nothing left to do.
CHECK_DEADLOCK FALSE
CONSTANTS
    OpCount = 2
    MaxPollAttempts = 2
    MaxRounds = 2
INVARIANTS
    AppliedOnce
