\* The rollback file cannot be written before the profiles are set.
SPECIFICATION CycleSpec
CONSTANTS
    ActionIds = {1, 2}
    LeaseTicks = 4
    Commands <- ApplyAndRollback
    Profiles = {domain}
    RequestTicks = 1
    CommandTicks = 1
    Faults = {"save"}
    MaxFaults = 1
    MaxAttempts = 2
INVARIANTS ChangeIsReversible
