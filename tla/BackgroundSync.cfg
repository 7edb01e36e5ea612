SPECIFICATION LiveSpec
CONSTANTS
    Contexts = {c1, c2}
    Nobody = nobody
    Interval = 1
    MaxBackoff = 2
    Messages = {"needs sign-in"}
    MaxTime = 2
    MaxManual = 2
    MaxFaults = 1
INVARIANTS OneLeaseholder NoLostUpdate
PROPERTIES ImplementsSchedule DuePassHappens
