CONSTANTS
    Runtimes = {r1}
    LeaseDuration = 1
    MaxRegistrations = 1
    MaxSequence = 2
    Loads = {FALSE}
    MaxTasks = 3
    MaxAttempt = 1
    Profiles = {1}
    Budget = 1
    Keys = {}
    Visibility = 1
    PendingLimit = 1
    CommandHistory = 1
    MaxPoll = 1
    EventTypes = {"task.completed", "task.failed"}
    UserActions = {"reject", "approve"}
SPECIFICATION TeamSpec
PROPERTIES
    AdmissionIsSound
    SettledUnlessRetried
