\* No page is mounted any more.
CHECK_DEADLOCK FALSE
CONSTANTS
    Sockets = {1, 2, 3}
    MaxMounts = 3
SPECIFICATION SocketSpec
INVARIANTS
    AnswerMatchesRequest
    NoOrphanUnlessLate
PROPERTIES
    LeavingDisconnects
    PageShowsData
