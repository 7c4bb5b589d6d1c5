\* A profile cannot be set while a rollback runs.
SPECIFICATION CycleSpec
CONSTANTS
    ActionIds = {1, 2}
    LeaseTicks = 4
    Commands <- ApplyAndRollback
    Profiles = {domain}
    RequestTicks = 1
    CommandTicks = 1
    Faults = {"set"}
    MaxFaults = 1
    MaxAttempts = 2
INVARIANTS ChangeIsReversible
