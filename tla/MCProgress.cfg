SPECIFICATION Spec
CONSTANTS
    Calendar = {"weekly"}
    Mission = {1, 2}
    Outcome <- MCOutcome
    MissionTotal = 2
    TopLevel = 2
    TopBattery = 1
    Attempts = 1
    TopStage = 2
    MaxDay = 2
    MaxHandled = 3
    MaxQueued = 6
INVARIANTS
    RowFollows
    OneGiftADay
CHECK_DEADLOCK FALSE
CONSTRAINT Bounded
