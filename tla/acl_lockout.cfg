CONSTANTS
    UserNames = {admin}
    Admin = admin
    RoleNames = {adminRole}
    AdminRole = adminRole
    Permissions = {p1}
    Callers = {c1, c2}
    MaxSessionsPerUser = 1
    MaxFailedAttempts = 2
    SessionTTL = 0
    MaxClock = 0
    MaxSessions = 1
SPECIFICATION FairSpec
CHECK_DEADLOCK FALSE
PROPERTIES EveryCallReturns
