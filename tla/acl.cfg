CONSTANTS
    UserNames = {admin, u1}
    Admin = admin
    RoleNames = {adminRole, r1}
    AdminRole = adminRole
    Permissions = {p1}
    Callers = {c1}
    MaxSessionsPerUser = 1
    MaxFailedAttempts = 2
    SessionTTL = 0
    MaxClock = 1
    MaxSessions = 2
SPECIFICATION Spec
CHECK_DEADLOCK FALSE
INVARIANTS SessionsMatchUsers SessionLimit CheckIsJustified
