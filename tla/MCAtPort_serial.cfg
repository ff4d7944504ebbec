SPECIFICATION Spec
CONSTANTS
    MaxCommands = 5
    MaxNotices = 2
    MaxTimeouts = 2
INVARIANT TruthUnlessInterrupted
INVARIANT InStepAtRest
CHECK_DEADLOCK FALSE
