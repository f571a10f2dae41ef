CONSTANTS
    Runtimes = {r1, r2}
    LeaseDuration = 1
    MaxRegistrations = 2
    MaxSequence = 1
    Loads = {FALSE}
    MaxTasks = 1
    MaxAttempt = 2
    Profiles = {1}
    Budget = 1
    Keys = {}
    Visibility = 1
    PendingLimit = 2
    CommandHistory = 0
    MaxPoll = 1
    EventTypes = {"report.completed", "task.cancelled"}
    UserActions = {"input", "cancel", "complete", "retry"}
SYMMETRY RuntimeSymmetry
SPECIFICATION TeamSpec
INVARIANTS
    TeamTypeOK
    StartIsCurrent
    CancelBeforeRestart
PROPERTIES
    UserDecisionStands
    QueueingWakesPollers
    RegistrationTakesOverQueue
