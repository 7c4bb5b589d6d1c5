\* Apply and rollback of the firewall and one fault of any kind; 1 tick is 30
\* seconds: a lease lives 4, a request and a command 1 each.
SPECIFICATION CycleSpec
CONSTANTS
    ActionIds = {1, 2}
    LeaseTicks = 4
    Commands <- ApplyAndRollback
    Profiles = {domain, public}
    RequestTicks = 1
    CommandTicks = 1
    Faults = {"lost", "stall", "reboot", "orphan", "set", "save", "file"}
    MaxFaults = 1
    MaxAttempts = 2
INVARIANTS RollbackPossible LeaseCoversExecution
PROPERTIES EveryActionFinishes
