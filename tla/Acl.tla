--------------------------------- MODULE Acl ---------------------------------
(***************************************************************************)
(* ACLManager of internal/acl/manger.go: users, roles and sessions in      *)
(* three maps.  Calls that change them hold m.mu and touch the maps one    *)
(* after the other; Logout, CheckPermission and the cleanup of expired     *)
(* sessions use the maps without it.                                       *)
(***************************************************************************)
EXTENDS Naturals, FiniteSets

CONSTANTS
    UserNames, Admin,          \* the built-in user
    RoleNames, AdminRole,      \* the built-in role
    Permissions,
    Callers,                   \* goroutines of the REPL and of the HTTP server
    MaxSessionsPerUser,        \* 16 in the code
    MaxFailedAttempts,         \* 5 in the code
    SessionTTL,                \* in ticks of the clock
    MaxClock,                  \* bound on the clock
    MaxSessions                \* bound on the sessions of all users at a time

ASSUME AclAssumption ==
    /\ Admin \in UserNames /\ AdminRole \in RoleNames
    /\ MaxSessionsPerUser \in Nat \ {0} /\ MaxFailedAttempts \in Nat \ {0}
    /\ SessionTTL \in Nat /\ MaxClock \in Nat /\ MaxSessions \in Nat

VARIABLES
    users,       \* UserNames -> user, or NoUser
    roles,       \* RoleNames -> its permissions, or NoRole
    sessions,    \* live entries of the map of sessions
    mu,          \* Free, or what the call that holds m.mu has still to do; `taken' is history:
                 \* the roles it has taken, or will take, from active users
    calling,     \* Callers -> has called an operation that takes m.mu
    clock,
    check        \* one call of CheckPermission: the roles it has still to load, the permissions
                 \* that match what is asked; history: the roles its user had and, of these,
                 \* the ones that have had such a permission since

vars == <<users, roles, sessions, mu, calling, clock, check>>

NoUser == [known |-> FALSE, active |-> FALSE, roles |-> {}, failed |-> 0]
NoRole == [known |-> FALSE, permissions |-> {}]
Nobody == "nobody"
Free == [todo |-> "free", by |-> Nobody, user |-> Admin, role |-> AdminRole, taken |-> {}]
NoCheck == [at |-> "idle", roles |-> {}, wanted |-> {}, had |-> {}, could |-> {},
            role |-> AdminRole]

Known == {u \in UserNames : users[u].known}
Expired(s) == clock > s.at + SessionTTL
Of(u) == {s \in sessions : s.user = u}
RolesOf(u) == IF users[u].active THEN users[u].roles ELSE {}
Gives(r, wanted) == roles[r].permissions \cap wanted # {}

\* Nothing remembers the id of a session that is gone: a new one may take it.
Unused(S) == 1..MaxSessions \ {s.id : s \in S}
FreshId(S) == CHOOSE i \in Unused(S) : \A j \in Unused(S) : i <= j

\* NewACLManager
Init ==
    /\ users = [u \in UserNames |->
                  IF u = Admin THEN [known |-> TRUE, active |-> TRUE, roles |-> {AdminRole},
                                     failed |-> 0]
                               ELSE NoUser]
    /\ roles = [r \in RoleNames |->
                  IF r = AdminRole THEN [known |-> TRUE, permissions |-> Permissions]
                                   ELSE NoRole]
    /\ sessions = {} /\ mu = Free /\ calling = [c \in Callers |-> FALSE]
    /\ clock = 0 /\ check = NoCheck

-----------------------------------------------------------------------------
(* The decisions below, each with a slip (..._slip) that no action uses. *)

\* DisableUser, DeleteUser, ChangePassword and the changes of a user's roles drop the
\* sessions of the user.
Dropped_slip(S, u) == {s \in S : s.user = u /\ Expired(s)}
Dropped(S, u) == {s \in S : s.user = u}

\* DeleteRole drops the sessions that carry the role.
Carrying_slip(S, r) == {}
Carrying(S, r) == {s \in S : r \in s.roles}

\* enforceSessionLimitLocked leaves room for one more.
Surplus_slip(u) == IF Cardinality(Of(u)) <= MaxSessionsPerUser THEN 0
                   ELSE Cardinality(Of(u)) - MaxSessionsPerUser
Surplus(u) == IF Cardinality(Of(u)) < MaxSessionsPerUser THEN 0
              ELSE Cardinality(Of(u)) - MaxSessionsPerUser + 1

\* logWarn takes m.mu, which Authenticate holds, when the account becomes locked.
WarnBlocks_slip(u) == FALSE
WarnBlocks(u) == users[u].failed + 1 >= MaxFailedAttempts

-----------------------------------------------------------------------------
(* Calls that hold m.mu *)

\* A goroutine calls one of the operations below.
Call(c) ==
    /\ ~calling[c]
    /\ calling' = [calling EXCEPT ![c] = TRUE]
    /\ UNCHANGED <<users, roles, sessions, mu, clock, check>>

Enter(c) == calling[c] /\ mu = Free
Return(c) == calling' = [calling EXCEPT ![c] = FALSE] /\ mu' = Free
GoOn(c, todo, u, r, taken) ==
    /\ mu' = [todo |-> todo, by |-> c, user |-> u, role |-> r, taken |-> taken]
    /\ UNCHANGED calling

\* The operation refuses: an unknown or built-in name, or nothing to do.
Refuse(c) ==
    /\ Enter(c) /\ Return(c)
    /\ UNCHANGED <<users, roles, sessions, clock, check>>

CreateUser(c, u, R) ==
    /\ Enter(c) /\ u \notin Known
    /\ users' = [users EXCEPT ![u] = [known |-> TRUE, active |-> TRUE, roles |-> R, failed |-> 0]]
    /\ Return(c)
    /\ UNCHANGED <<roles, sessions, clock, check>>

\* A change of the user; the sessions of the user follow in DropSessions.
ChangeUser(c, u, new) ==
    /\ Enter(c) /\ u \in Known
    /\ users' = [users EXCEPT ![u] = new]
    /\ GoOn(c, "sessions of user", u, AdminRole, {u} \X RolesOf(u))
    /\ UNCHANGED <<roles, sessions, clock, check>>

DisableUser(c, u) == u # Admin /\ ChangeUser(c, u, [users[u] EXCEPT !.active = FALSE])
DeleteUser(c, u) == u # Admin /\ ChangeUser(c, u, NoUser)
ChangePassword(c, u) == ChangeUser(c, u, users[u])
AddUserRole(c, u, r) ==
    r \notin users[u].roles /\ ChangeUser(c, u, [users[u] EXCEPT !.roles = @ \cup {r}])
RemoveUserRole(c, u, r) == ChangeUser(c, u, [users[u] EXCEPT !.roles = @ \ {r}])

\* dropUserSessionsLocked
DropSessions(c) ==
    /\ mu.by = c /\ mu.todo = "sessions of user"
    /\ sessions' = sessions \ Dropped(sessions, mu.user)
    /\ Return(c)
    /\ UNCHANGED <<users, roles, clock, check>>

EnableUser(c, u) ==
    /\ Enter(c) /\ u \in Known
    /\ users' = [users EXCEPT ![u].active = TRUE]
    /\ Return(c)
    /\ UNCHANGED <<roles, sessions, clock, check>>

CreateRole(c, r) ==
    /\ Enter(c) /\ ~roles[r].known
    /\ roles' = [roles EXCEPT ![r] = [known |-> TRUE, permissions |-> {}]]
    /\ Return(c)
    /\ UNCHANGED <<users, sessions, clock, check>>

SetPermissions(c, r, P) ==
    /\ Enter(c) /\ roles[r].known
    /\ roles' = [roles EXCEPT ![r].permissions = P]
    /\ check' = IF P \cap check.wanted = {} THEN check
                ELSE [check EXCEPT !.could = @ \cup (check.had \cap {r})]
    /\ Return(c)
    /\ UNCHANGED <<users, sessions, clock>>

GrantPermission(c, r, p) == SetPermissions(c, r, roles[r].permissions \cup {p})
RevokePermission(c, r, p) == SetPermissions(c, r, roles[r].permissions \ {p})

\* DeleteRole: the role, then the users that have it, then the sessions.
DeleteRole(c, r) ==
    /\ Enter(c) /\ r # AdminRole /\ roles[r].known
    /\ roles' = [roles EXCEPT ![r] = NoRole]
    /\ GoOn(c, "users with role", Admin, r, {v \in UserNames : r \in RolesOf(v)} \X {r})
    /\ UNCHANGED <<users, sessions, clock, check>>

DropRole(c) ==
    /\ mu.by = c /\ mu.todo = "users with role"
    /\ users' = [u \in UserNames |-> [users[u] EXCEPT !.roles = @ \ {mu.role}]]
    /\ GoOn(c, "sessions with role", Admin, mu.role, mu.taken)
    /\ UNCHANGED <<roles, sessions, clock, check>>

DropRoleSessions(c) ==
    /\ mu.by = c /\ mu.todo = "sessions with role"
    /\ sessions' = sessions \ Carrying(sessions, mu.role)
    /\ Return(c)
    /\ UNCHANGED <<users, roles, clock, check>>

\* Authenticate, the password is right: the oldest sessions give way.
Login(c, u) ==
    /\ Enter(c) /\ u \in Known /\ users[u].active
    /\ users' = [users EXCEPT ![u].failed = 0]
    /\ \E gone \in SUBSET Of(u) :
         LET kept == sessions \ gone
         IN /\ Cardinality(gone) = Surplus(u)
            /\ \A s \in gone, t \in Of(u) \ gone : s.at <= t.at
            /\ Unused(kept) # {}
            /\ sessions' = kept \cup {[id |-> FreshId(kept), user |-> u,
                                       roles |-> users[u].roles, at |-> clock]}
    /\ Return(c)
    /\ UNCHANGED <<roles, clock, check>>

\* Authenticate, the password is wrong.
LoginFails(c, u) ==
    /\ Enter(c) /\ u \in Known /\ users[u].active /\ ~WarnBlocks(u)
    /\ users' = [users EXCEPT ![u].failed = IF @ + 1 >= MaxFailedAttempts THEN 0 ELSE @ + 1]
    /\ Return(c)
    /\ UNCHANGED <<roles, sessions, clock, check>>

\* The same when the account is to be locked: logWarn waits for the mutex its caller holds,
\* the user is not stored, and nobody gets the mutex again.
LoginBlocks(c, u) ==
    /\ Enter(c) /\ u \in Known /\ users[u].active /\ WarnBlocks(u)
    /\ mu' = [Free EXCEPT !.todo = "blocked", !.by = c]
    /\ UNCHANGED <<users, roles, sessions, calling, clock, check>>

-----------------------------------------------------------------------------
(* Without the mutex *)

Logout(s) ==
    /\ s \in sessions
    /\ sessions' = sessions \ {s}
    /\ UNCHANGED <<users, roles, mu, calling, clock, check>>

\* getSession or sessionCleanupLoop meets an expired session.
RemoveExpired(s) ==
    /\ s \in sessions /\ Expired(s)
    /\ sessions' = sessions \ {s}
    /\ UNCHANGED <<users, roles, mu, calling, clock, check>>

Tick ==
    /\ clock < MaxClock
    /\ clock' = clock + 1
    /\ UNCHANGED <<users, roles, sessions, mu, calling, check>>

\* CheckPermission loads the session.
CheckSession(s, wanted) ==
    /\ check.at = "idle" /\ s \in sessions /\ ~Expired(s)
    /\ LET had == RolesOf(s.user) \cup {r \in RoleNames : <<s.user, r>> \in mu.taken} IN
       check' = [at |-> "roles", roles |-> s.roles, wanted |-> wanted, role |-> AdminRole,
                 had |-> had, could |-> {r \in had : Gives(r, wanted)}]
    /\ UNCHANGED <<users, roles, sessions, mu, calling, clock>>

\* It loads one of the roles after the other.
CheckRole(r) ==
    /\ check.at = "roles" /\ r \in check.roles
    /\ check' = IF Gives(r, check.wanted) THEN [check EXCEPT !.at = "granted", !.role = r]
                ELSE [check EXCEPT !.roles = @ \ {r}]
    /\ UNCHANGED <<users, roles, sessions, mu, calling, clock>>

CheckReturns ==
    /\ check.at = "granted" \/ (check.at = "roles" /\ check.roles = {})
    /\ check' = NoCheck
    /\ UNCHANGED <<users, roles, sessions, mu, calling, clock>>

-----------------------------------------------------------------------------
Operation(c) ==
    \/ Refuse(c) \/ DropSessions(c) \/ DropRole(c) \/ DropRoleSessions(c)
    \/ \E u \in UserNames :
         \/ \E R \in SUBSET RoleNames : CreateUser(c, u, R)
         \/ DisableUser(c, u) \/ DeleteUser(c, u) \/ ChangePassword(c, u) \/ EnableUser(c, u)
         \/ \E r \in RoleNames : AddUserRole(c, u, r) \/ RemoveUserRole(c, u, r)
         \/ Login(c, u) \/ LoginFails(c, u) \/ LoginBlocks(c, u)
    \/ \E r \in RoleNames :
         \/ CreateRole(c, r) \/ DeleteRole(c, r)
         \/ \E p \in Permissions : GrantPermission(c, r, p) \/ RevokePermission(c, r, p)

Next ==
    \/ \E c \in Callers : Call(c) \/ Operation(c)
    \/ \E s \in sessions : \/ Logout(s) \/ RemoveExpired(s)
                           \/ \E wanted \in SUBSET Permissions \ {{}} : CheckSession(s, wanted)
    \/ \E r \in RoleNames : CheckRole(r)
    \/ CheckReturns \/ Tick

Spec == Init /\ [][Next]_vars
FairSpec == Spec /\ \A c \in Callers : WF_vars(Operation(c))

-----------------------------------------------------------------------------
(* Properties *)

Session == [id : 1..MaxSessions, user : UserNames, roles : SUBSET RoleNames, at : 0..MaxClock]

TypeOK ==
    /\ users \in [UserNames -> [known : BOOLEAN, active : BOOLEAN, roles : SUBSET RoleNames,
                                failed : Nat]]
    /\ roles \in [RoleNames -> [known : BOOLEAN, permissions : SUBSET Permissions]]
    /\ sessions \subseteq Session
    /\ mu \in [todo : {"free", "blocked", "sessions of user", "users with role",
                       "sessions with role"}, by : Callers \cup {Nobody},
              user : UserNames, role : RoleNames, taken : SUBSET (UserNames \X RoleNames)]
    /\ calling \in [Callers -> BOOLEAN]
    /\ clock \in 0..MaxClock
    /\ check \in [at : {"idle", "roles", "granted"}, roles : SUBSET RoleNames,
                  wanted : SUBSET Permissions, had : SUBSET RoleNames,
                  could : SUBSET RoleNames, role : RoleNames]

\* Whenever no call is at work, every session belongs to a user that exists and is active and
\* carries exactly the roles the user has now, whatever series of calls led here.
SessionsMatchUsers ==
    mu.todo \in {"free", "blocked"} =>
        \A s \in sessions : /\ s.user \in Known /\ users[s.user].active
                            /\ s.roles = users[s.user].roles

\* Nobody has more than MaxSessionsPerUser sessions.
SessionLimit == \A u \in UserNames : Cardinality(Of(u)) <= MaxSessionsPerUser

(* CheckPermission says yes only by a role that its user had, being active, when it loaded
   the session, or that a call then at work was taking away, and only if at that moment or
   later, before the answer, this role had a permission that matches: whatever is taken from
   a user is of no use to a check that begins after it, not even when a role of the same name
   is created again.  (It does not say that the user had role and permission at one moment: a
   role may be taken away after the session is loaded and be given the permission then.) *)
CheckIsJustified ==
    check.at = "granted" => check.role \in check.could

\* Every call that takes m.mu returns.
EveryCallReturns == \A c \in Callers : calling[c] ~> ~calling[c]
=============================================================================
