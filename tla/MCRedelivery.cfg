\* A result is lost and its action is delivered again.
SPECIFICATION CycleSpec
CONSTANTS
    ActionIds = {1, 2, 3}
    LeaseTicks = 4
    Commands <- OneOfEach
    Profiles = {domain}
    RequestTicks = 1
    CommandTicks = 1
    Faults = {"lost"}
    MaxFaults = 1
    MaxAttempts = 2
INVARIANTS RedeliveryIsIdempotent
