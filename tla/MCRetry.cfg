CONSTANTS
    Runtimes = {r1}
    LeaseDuration = 1
    MaxRegistrations = 1
    MaxSequence = 1
    Loads = {FALSE}
    MaxTasks = 2
    MaxAttempt = 2
    Profiles = {1, 2}
    Budget = 2
    Keys = {"k"}
    Visibility = 1
    PendingLimit = 2
    CommandHistory = 0
    MaxPoll = 1
    EventTypes = {"task.completed", "task.failed"}
    UserActions = {"retry", "cancel"}
SPECIFICATION TeamSpec
PROPERTY SettledUnlessRetried
