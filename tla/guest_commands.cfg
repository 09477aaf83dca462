SPECIFICATION FairSpec
CONSTANTS
    r1 = r1  r2 = r2
    Requests = {r1, r2}
    None = None
    MaxCommands = 1
    MaxLog = 2
    Notice = 2
    Chunk = 3
    MaxOutput = 3
    Statuses = {0}
    Menu <- MenuMC
    Faults <- GuestFaults
INVARIANTS GuestTypeOK LogBounded SealedLog LogsServedWhole
PROPERTY EndedCommandsAnswer
CHECK_DEADLOCK FALSE
