SPECIFICATION Spec
CONSTANTS
    POWER_CYCLE_THRESHOLD = 2
    POWER_CYCLE_WINDOW = 3
    POWER_CYCLE_RATE_LIMIT = 4
    REBOOT_EXTRA_FAILURES = 1
    REBOOT_RATE_LIMIT = 5
    REBOOT_MAX_24H = 2
    REBOOT_24H_WINDOW = 10
    INITIAL_BACKOFF = 1
    MAX_BACKOFF = 2
    Durations <- MCDurations
    Horizon = 14
    Faults <- Interrupted
INVARIANTS TypeOK PowerCyclesSpaced AdapterOffIsArmed
PROPERTIES RebootsRationed
