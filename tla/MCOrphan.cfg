\* The agent dies alone while a script runs.
SPECIFICATION CycleSpec
CONSTANTS
    ActionIds = {1, 2}
    LeaseTicks = 4
    Commands <- ApplyAndRollback
    Profiles = {domain}
    RequestTicks = 1
    CommandTicks = 1
    Faults = {"orphan"}
    MaxFaults = 1
    MaxAttempts = 2
INVARIANTS ChangeIsReversible
