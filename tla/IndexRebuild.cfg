CONSTANTS
    Notes = {n1}
    FilesPerCall = 1
    MaxTexts = 1
    MaxDrops = 0
    MaxHands = 0
    MaxFails = 1
    FailsAt = {"drop"}
    Overlap = FALSE
    Restores = FALSE
    Upgrades = TRUE
SPECIFICATION IndexSpec
CHECK_DEADLOCK FALSE
INVARIANT HealthyIsTrue
