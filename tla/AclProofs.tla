------------------------------ MODULE AclProofs ------------------------------
(***************************************************************************)
(* Proofs about Acl for every set of users, roles, permissions and callers *)
(* and every limit: sessions match their users whenever no call is at      *)
(* work, nobody exceeds the limit of sessions, and a check of a permission *)
(* says yes only by a role that its user had and that had it.              *)
(***************************************************************************)
EXTENDS Acl, TLAPS, FiniteSetTheorems, WellFoundedInduction

Idle == {"free", "blocked"}

\* A session agrees with its user.
Matches(s) ==
    /\ users[s.user].known /\ users[s.user].active
    /\ s.roles = users[s.user].roles

\* It would, were it not for a role that is being deleted.
MatchesBut(s, r) ==
    /\ users[s.user].known /\ users[s.user].active
    /\ s.roles \ {r} = users[s.user].roles

\* A role that the call at work takes away.
Lost(s, r) == r \in s.roles => <<s.user, r>> \in mu.taken

\* What a call that holds m.mu has done so far: the user is changed and the sessions are not
\* yet dropped, or the role is gone from the users and not yet from the sessions.
Underway ==
    /\ mu.todo \in Idle => \A s \in sessions : Matches(s)
    /\ mu.todo = "sessions of user" =>
         \A s \in sessions : IF s.user = mu.user THEN \A r \in RoleNames : Lost(s, r)
                                                 ELSE Matches(s)
    /\ mu.todo = "users with role" =>
         \A s \in sessions : Matches(s) /\ Lost(s, mu.role)
    /\ mu.todo = "sessions with role" =>
         \A s \in sessions : MatchesBut(s, mu.role) /\ Lost(s, mu.role)

\* A call of CheckPermission has roles its user had; those that give what is asked now could.
Checked ==
    /\ check.at = "roles" =>
         /\ check.roles \subseteq check.had
         /\ \A r \in check.had : Gives(r, check.wanted) => r \in check.could
    /\ check.at = "granted" => check.role \in check.could

Limited == IsFiniteSet(sessions) /\ SessionLimit

\* The inductive invariant.
IInv == TypeOK /\ Underway /\ Checked /\ Limited

-----------------------------------------------------------------------------
(* The ids and the number of sessions *)

LEMMA Least ==
    ASSUME NEW S \in SUBSET Nat, S # {}
    PROVE  \E i \in S : \A j \in S : i <= j
<1>1. PICK i \in S : \A j \in S : ~(<<j, i>> \in OpToRel(<, Nat))
  BY NatLessThanWellFounded, WFMin
<1>2. \A j \in S : <<j, i>> \in Nat \X Nat
  OBVIOUS
<1>3. \A j \in S : ~(j < i)
  BY <1>1, <1>2 DEF OpToRel
<1> QED  BY <1>3

LEMMA FreshIdType ==
    ASSUME NEW S, Unused(S) # {}
    PROVE  FreshId(S) \in 1..MaxSessions
<1>1. Unused(S) \subseteq 1..MaxSessions /\ Unused(S) \subseteq Nat
  BY AclAssumption DEF Unused
<1>2. \E i \in Unused(S) : \A j \in Unused(S) : i <= j
  BY <1>1, Least
<1> QED  BY <1>1, <1>2 DEF FreshId

\* Dropping sessions keeps the limit.
LEMMA FewerKeep ==
    ASSUME Limited, NEW S, sessions' = S, S \subseteq sessions
    PROVE  Limited'
<1>1. IsFiniteSet(sessions')
  BY FS_Subset DEF Limited
<1>2. ASSUME NEW u \in UserNames PROVE Cardinality(Of(u)') <= Cardinality(Of(u))
  <2>1. Of(u)' \subseteq Of(u) /\ Of(u) \subseteq sessions
    BY DEF Of
  <2> QED  BY <2>1, FS_Subset DEF Limited
<1>3. ASSUME NEW u \in UserNames PROVE Cardinality(Of(u)') <= MaxSessionsPerUser
  <2>1. IsFiniteSet(Of(u)) /\ IsFiniteSet(Of(u)')
    BY <1>1, FS_Subset DEF Limited, Of
  <2> QED
    BY <1>2, <2>1, FS_CardinalityType, AclAssumption DEF Limited, SessionLimit
<1> QED  BY <1>1, <1>3 DEF Limited, SessionLimit

\* enforceSessionLimitLocked makes room for the session that is added.
LEMMA LoginKeepsLimit ==
    ASSUME Limited, NEW u \in UserNames, NEW gone \in SUBSET Of(u),
           Cardinality(gone) = Surplus(u), NEW new, new.user = u,
           sessions' = (sessions \ gone) \cup {new}
    PROVE  Limited'
<1>1. IsFiniteSet(sessions \ gone) /\ IsFiniteSet(sessions')
  BY FS_Subset, FS_AddElement DEF Limited
<1>2. ASSUME NEW v \in UserNames PROVE Cardinality(Of(v)') <= MaxSessionsPerUser
  <2>1. IsFiniteSet(Of(v)) /\ Cardinality(Of(v)) \in Nat
    BY FS_Subset, FS_CardinalityType DEF Limited, Of
  <2>2. CASE v # u
    <3>1. Of(v)' = Of(v)
      BY <2>2 DEF Of
    <3> QED  BY <3>1 DEF Limited, SessionLimit
  <2>3. CASE v = u
    <3>1. Of(u)' = (Of(u) \ gone) \cup {new}
      BY DEF Of
    <3>2. IsFiniteSet(gone) /\ IsFiniteSet(Of(u) \ gone)
      BY <2>1, <2>3, FS_Subset
    <3>3. (Of(u) \ gone) \cup gone = Of(u) /\ (Of(u) \ gone) \cap gone = {}
      OBVIOUS
    <3>4. Cardinality(Of(u)) = Cardinality(Of(u) \ gone) + Cardinality(gone) - Cardinality({})
      BY <3>2, <3>3, FS_Union
    <3>5. /\ Cardinality(Of(u) \ gone) \in Nat /\ Cardinality(gone) \in Nat
          /\ Cardinality({}) = 0
      BY <3>2, FS_CardinalityType, FS_EmptySet
    <3>6. Cardinality(Of(u)') <= Cardinality(Of(u) \ gone) + 1
      <4> DEFINE kept == Of(u) \ gone
      <4>1. IsFiniteSet(kept) /\ Cardinality(kept) \in Nat /\ Of(u)' = kept \cup {new}
        BY <3>1, <3>2, <3>5
      <4> HIDE DEF kept
      <4>2. Cardinality(kept \cup {new}) = IF new \in kept THEN Cardinality(kept)
                                           ELSE Cardinality(kept) + 1
        BY <4>1, FS_AddElement
      <4>3. Cardinality(Of(u)') <= Cardinality(kept) + 1
        BY <4>1, <4>2
      <4> QED  BY <4>3 DEF kept
    <3>7. Cardinality(Of(u) \ gone) <= MaxSessionsPerUser - 1
      BY <2>1, <2>3, <3>4, <3>5, AclAssumption DEF Surplus
    <3>8. Cardinality(Of(u)') \in Nat
      BY <3>1, <3>2, FS_AddElement, FS_CardinalityType
    <3> QED  BY <2>3, <3>5, <3>6, <3>7, <3>8, AclAssumption
  <2> QED  BY <2>2, <2>3
<1> QED  BY <1>1, <1>2 DEF Limited, SessionLimit

-----------------------------------------------------------------------------
(* The invariant is inductive: calls that hold m.mu *)

LEMMA InitIInv == Init => IInv
<1> SUFFICES ASSUME Init PROVE IInv
  OBVIOUS
<1>1. TypeOK
  BY AclAssumption DEF Init, TypeOK, NoUser, NoRole, Free, NoCheck, Nobody
<1>2. Underway /\ Checked
  BY DEF Init, Underway, Checked, Idle, Free, NoCheck
<1>3. Limited
  <2>1. sessions = {} /\ \A u \in UserNames : Of(u) = {}
    BY DEF Init, Of
  <2> QED  BY <2>1, FS_EmptySet, AclAssumption DEF Limited, SessionLimit
<1> QED  BY <1>1, <1>2, <1>3 DEF IInv

\* Where the running check stays as it is, no role may gain a permission.
LEMMA CheckStays ==
    ASSUME TypeOK, Checked, check' = check,
           \A r \in RoleNames : roles'[r].permissions \subseteq roles[r].permissions
    PROVE  Checked'
<1>1. \A r \in check.had : r \in RoleNames
  BY DEF TypeOK
<1>2. ASSUME NEW r \in check.had, Gives(r, check.wanted)' PROVE Gives(r, check.wanted)
  BY <1>1, <1>2 DEF Gives
<1> QED  BY <1>2 DEF Checked

\* Where sessions and the running check stay as they are, only users, roles and m.mu matter.
LEMMA SessionsStay ==
    ASSUME IInv, TypeOK', Underway', sessions' = sessions, check' = check,
           \A r \in RoleNames : roles'[r].permissions \subseteq roles[r].permissions
    PROVE  IInv'
<1>1. Checked'
  BY CheckStays DEF IInv
<1>2. Limited'
  BY DEF IInv, Limited, SessionLimit, Of
<1> QED  BY <1>1, <1>2 DEF IInv

MuType == [todo : {"free", "blocked", "sessions of user", "users with role",
                   "sessions with role"}, by : Callers \cup {Nobody},
           user : UserNames, role : RoleNames, taken : SUBSET (UserNames \X RoleNames)]

\* The types, where only users, calling and m.mu change.
UserRecords == [known : BOOLEAN, active : BOOLEAN, roles : SUBSET RoleNames, failed : Nat]

LEMMA TypesStay ==
    ASSUME TypeOK, sessions' \subseteq Session, check' = check, roles' = roles, clock' = clock,
           users' \in [UserNames -> UserRecords], calling' \in [Callers -> BOOLEAN],
           mu' = mu \/ mu' \in MuType
    PROVE  TypeOK'
<1>1. (users \in [UserNames -> [known : BOOLEAN, active : BOOLEAN, roles : SUBSET RoleNames,
                               failed : Nat]])'
  BY DEF UserRecords
<1> QED  BY <1>1 DEF TypeOK, MuType

\* A user whose counter or whose flag is set stays a user.
LEMMA ChangedRecord ==
    ASSUME TypeOK, NEW u \in UserNames, NEW n \in Nat, NEW b \in BOOLEAN
    PROVE  /\ [users[u] EXCEPT !.failed = n] \in UserRecords
           /\ [users[u] EXCEPT !.active = b] \in UserRecords
<1>1. users[u] \in UserRecords
  BY DEF TypeOK, UserRecords
<1>2. [users[u] EXCEPT !.failed = n] \in UserRecords
  BY <1>1 DEF UserRecords
<1>3. [users[u] EXCEPT !.active = b] \in UserRecords
  BY <1>1 DEF UserRecords
<1> QED  BY <1>2, <1>3

LEMMA OneUserType ==
    ASSUME TypeOK, NEW u \in UserNames, NEW new \in UserRecords,
           users' = [users EXCEPT ![u] = new]
    PROVE  users' \in [UserNames -> UserRecords]
<1>1. users \in [UserNames -> UserRecords]
  BY DEF TypeOK, UserRecords
<1> QED  BY <1>1

LEMMA CreateUserKeeps ==
    ASSUME IInv, NEW c \in Callers, NEW u \in UserNames, NEW R \in SUBSET RoleNames,
           CreateUser(c, u, R)
    PROVE  IInv'
<1>1. /\ u \notin Known /\ mu = Free /\ mu' = Free /\ sessions' = sessions /\ check' = check
      /\ roles' = roles /\ clock' = clock
      /\ users' = [users EXCEPT ![u] = [known |-> TRUE, active |-> TRUE, roles |-> R,
                                        failed |-> 0]]
      /\ calling' = [calling EXCEPT ![c] = FALSE]
  BY DEF CreateUser, Enter, Return
<1>2. TypeOK'
  BY <1>1 DEF IInv, TypeOK
<1>3. ASSUME NEW s \in sessions PROVE Matches(s)'
  <2>1. s.user \in UserNames /\ Matches(s)
    BY <1>1 DEF IInv, TypeOK, Session, Underway, Idle, Free
  <2>2. s.user # u
    BY <1>1, <2>1 DEF Known, Matches
  <2> QED  BY <1>1, <2>1, <2>2 DEF Matches, IInv, TypeOK
<1>4. Underway'
  BY <1>1, <1>3 DEF Underway, Idle, Free
<1> QED  BY <1>1, <1>2, <1>4, SessionsStay

\* The calls that change a user and then drop its sessions.
LEMMA ChangeUserKeeps ==
    ASSUME IInv, NEW c \in Callers, NEW u \in UserNames,
           NEW new \in [known : BOOLEAN, active : BOOLEAN, roles : SUBSET RoleNames,
                        failed : Nat],
           ChangeUser(c, u, new)
    PROVE  IInv'
<1>1. /\ mu = Free /\ sessions' = sessions /\ check' = check /\ roles' = roles
      /\ clock' = clock /\ calling' = calling
      /\ users' = [users EXCEPT ![u] = new]
      /\ mu' = [todo |-> "sessions of user", by |-> c, user |-> u, role |-> AdminRole,
               taken |-> {u} \X RolesOf(u)]
  BY DEF ChangeUser, Enter, GoOn
<1>2. TypeOK'
  <2>1. {u} \X RolesOf(u) \in SUBSET (UserNames \X RoleNames)
    BY DEF RolesOf, IInv, TypeOK
  <2>2. mu' \in MuType
    BY <1>1, <2>1, AclAssumption DEF MuType
  <2>3. users' \in [UserNames -> UserRecords]
    BY <1>1, OneUserType DEF IInv, UserRecords
  <2> QED  BY <1>1, <2>2, <2>3, TypesStay DEF IInv, TypeOK
<1>3. ASSUME NEW s \in sessions, s.user # u PROVE Matches(s)'
  <2>1. s.user \in UserNames /\ Matches(s)
    BY <1>1 DEF IInv, TypeOK, Session, Underway, Idle, Free
  <2> QED  BY <1>1, <1>3, <2>1 DEF Matches, IInv, TypeOK
<1>5. ASSUME NEW s \in sessions, s.user = u, NEW r \in RoleNames PROVE Lost(s, r)'
  <2>1. Matches(s)
    BY <1>1 DEF IInv, Underway, Idle, Free
  <2> QED  BY <1>1, <1>5, <2>1 DEF Matches, Lost, RolesOf
<1>4. Underway'
  BY <1>1, <1>3, <1>5 DEF Underway, Idle
<1> QED  BY <1>1, <1>2, <1>4, SessionsStay

LEMMA UserCallsKeep ==
    ASSUME IInv, NEW c \in Callers, NEW u \in UserNames,
           \/ DisableUser(c, u) \/ DeleteUser(c, u) \/ ChangePassword(c, u)
           \/ \E r \in RoleNames : AddUserRole(c, u, r) \/ RemoveUserRole(c, u, r)
    PROVE  IInv'
<1> DEFINE User == [known : BOOLEAN, active : BOOLEAN, roles : SUBSET RoleNames, failed : Nat]
<1>1. users[u] \in User
  BY DEF IInv, TypeOK
<1>2. NoUser \in User /\ [users[u] EXCEPT !.active = FALSE] \in User
  BY <1>1 DEF NoUser
<1>3. ASSUME NEW r \in RoleNames
      PROVE  /\ [users[u] EXCEPT !.roles = @ \cup {r}] \in User
             /\ [users[u] EXCEPT !.roles = @ \ {r}] \in User
  BY <1>1
<1>4. PICK new \in User : ChangeUser(c, u, new)
  BY <1>1, <1>2, <1>3
     DEF DisableUser, DeleteUser, ChangePassword, AddUserRole, RemoveUserRole
<1> QED  BY <1>4, ChangeUserKeeps

LEMMA EnableUserKeeps ==
    ASSUME IInv, NEW c \in Callers, NEW u \in UserNames, EnableUser(c, u)
    PROVE  IInv'
<1>1. /\ mu = Free /\ mu' = Free /\ sessions' = sessions /\ check' = check
      /\ roles' = roles /\ clock' = clock
      /\ users' = [users EXCEPT ![u].active = TRUE]
      /\ calling' = [calling EXCEPT ![c] = FALSE]
  BY DEF EnableUser, Enter, Return
<1>2. TypeOK'
  <2> DEFINE new == [users[u] EXCEPT !.active = TRUE]
  <2>1. new \in UserRecords
    BY ChangedRecord DEF IInv
  <2>2. users' = [users EXCEPT ![u] = new]
    BY <1>1
  <2> HIDE DEF new
  <2>3. users' \in [UserNames -> UserRecords]
    BY <2>1, <2>2, OneUserType DEF IInv
  <2>4. calling' \in [Callers -> BOOLEAN]
    BY <1>1 DEF IInv, TypeOK
  <2> QED  BY <1>1, <2>3, <2>4, TypesStay DEF IInv, TypeOK
<1>3. ASSUME NEW s \in sessions PROVE Matches(s)'
  <2>1. s.user \in UserNames /\ Matches(s)
    BY <1>1 DEF IInv, TypeOK, Session, Underway, Idle, Free
  <2> QED  BY <1>1, <2>1 DEF Matches, IInv, TypeOK
<1>4. Underway'
  BY <1>1, <1>3 DEF Underway, Idle, Free
<1> QED  BY <1>1, <1>2, <1>4, SessionsStay

\* Permissions belong to roles, and sessions carry names of roles only.
LEMMA CreateRoleKeeps ==
    ASSUME IInv, NEW c \in Callers, NEW r \in RoleNames, CreateRole(c, r)
    PROVE  IInv'
<1>1. /\ roles' = [roles EXCEPT ![r] = [known |-> TRUE, permissions |-> {}]]
      /\ mu = Free /\ mu' = Free /\ sessions' = sessions /\ check' = check
      /\ users' = users /\ clock' = clock
      /\ calling' = [calling EXCEPT ![c] = FALSE]
  BY DEF CreateRole, Enter, Return
<1>2. TypeOK'
  BY <1>1 DEF IInv, TypeOK
<1>3. Underway'
  BY <1>1 DEF IInv, Underway, Matches, Idle, Free
<1>4. \A q \in RoleNames : roles'[q].permissions \subseteq roles[q].permissions
  BY <1>1 DEF IInv, TypeOK
<1> QED  BY <1>1, <1>2, <1>3, <1>4, SessionsStay

\* A running check remembers the role that is given a permission it asks for.
LEMMA SetPermissionsKeeps ==
    ASSUME IInv, NEW c \in Callers, NEW r \in RoleNames, NEW P \in SUBSET Permissions,
           SetPermissions(c, r, P)
    PROVE  IInv'
<1>1. /\ roles' = [roles EXCEPT ![r].permissions = P]
      /\ mu = Free /\ mu' = Free /\ sessions' = sessions
      /\ users' = users /\ clock' = clock
      /\ calling' = [calling EXCEPT ![c] = FALSE]
  BY DEF SetPermissions, Enter, Return
<1>2. check' = IF P \cap check.wanted = {} THEN check
               ELSE [check EXCEPT !.could = @ \cup (check.had \cap {r})]
  BY DEF SetPermissions
<1>3. \A q \in RoleNames : roles'[q].permissions = IF q = r THEN P ELSE roles[q].permissions
  BY <1>1 DEF IInv, TypeOK
<1>4. /\ check'.at = check.at /\ check'.roles = check.roles /\ check'.had = check.had
      /\ check'.wanted = check.wanted /\ check'.role = check.role
      /\ check.could \subseteq check'.could
      /\ (P \cap check.wanted # {} /\ r \in check.had) => r \in check'.could
  BY <1>2 DEF IInv, TypeOK
<1>5. TypeOK'
  <2>1. roles' \in [RoleNames -> [known : BOOLEAN, permissions : SUBSET Permissions]]
    BY <1>1 DEF IInv, TypeOK
  <2>2. check' \in [at : {"idle", "roles", "granted"}, roles : SUBSET RoleNames,
                    wanted : SUBSET Permissions, had : SUBSET RoleNames,
                    could : SUBSET RoleNames, role : RoleNames]
    BY <1>2 DEF IInv, TypeOK
  <2>3. calling' \in [Callers -> BOOLEAN]
    BY <1>1 DEF IInv, TypeOK
  <2> QED  BY <1>1, <2>1, <2>2, <2>3 DEF IInv, TypeOK
<1>6. Underway'
  BY <1>1 DEF IInv, Underway, Matches, Idle, Free
<1>7. Checked'
  <2>1. ASSUME check.at = "roles", NEW q \in check.had, Gives(q, check.wanted)'
        PROVE  q \in check'.could
    <3>1. q \in RoleNames
      BY DEF IInv, TypeOK
    <3>2. CASE q = r
      BY <1>3, <1>4, <2>1, <3>1, <3>2 DEF Gives
    <3>3. CASE q # r
      BY <1>3, <1>4, <2>1, <3>1, <3>3 DEF Gives, IInv, Checked
    <3> QED  BY <3>2, <3>3
  <2> QED  BY <1>4, <2>1 DEF IInv, Checked
<1>8. Limited'
  BY <1>1 DEF IInv, Limited, SessionLimit, Of
<1> QED  BY <1>5, <1>6, <1>7, <1>8 DEF IInv

LEMMA RoleCallsKeep ==
    ASSUME IInv, NEW c \in Callers, NEW r \in RoleNames,
           \/ CreateRole(c, r)
           \/ \E p \in Permissions : GrantPermission(c, r, p) \/ RevokePermission(c, r, p)
    PROVE  IInv'
<1>1. ASSUME NEW p \in Permissions
      PROVE  /\ roles[r].permissions \cup {p} \in SUBSET Permissions
             /\ roles[r].permissions \ {p} \in SUBSET Permissions
  BY DEF IInv, TypeOK
<1>2. ASSUME NEW p \in Permissions, GrantPermission(c, r, p) PROVE IInv'
  <2>1. SetPermissions(c, r, roles[r].permissions \cup {p})
    BY <1>2 DEF GrantPermission
  <2> QED  BY <1>1, <2>1, SetPermissionsKeeps
<1>3. ASSUME NEW p \in Permissions, RevokePermission(c, r, p) PROVE IInv'
  <2>1. SetPermissions(c, r, roles[r].permissions \ {p})
    BY <1>3 DEF RevokePermission
  <2> QED  BY <1>1, <2>1, SetPermissionsKeeps
<1> QED  BY <1>2, <1>3, CreateRoleKeeps

\* DeleteRole and what follows it.
LEMMA DeleteRoleKeeps ==
    ASSUME IInv, NEW c \in Callers, NEW r \in RoleNames, DeleteRole(c, r)
    PROVE  IInv'
<1>1. /\ mu = Free /\ sessions' = sessions /\ check' = check /\ users' = users
      /\ clock' = clock /\ calling' = calling
      /\ roles' = [roles EXCEPT ![r] = NoRole]
      /\ mu' = [todo |-> "users with role", by |-> c, user |-> Admin, role |-> r,
               taken |-> {v \in UserNames : r \in RolesOf(v)} \X {r}]
  BY DEF DeleteRole, Enter, GoOn
<1>2. TypeOK'
  <2>1. mu' \in MuType
    BY <1>1, AclAssumption DEF MuType
  <2>2. roles' \in [RoleNames -> [known : BOOLEAN, permissions : SUBSET Permissions]]
    BY <1>1 DEF IInv, TypeOK, NoRole
  <2> QED  BY <1>1, <2>1, <2>2 DEF IInv, TypeOK, MuType
<1>3. ASSUME NEW s \in sessions PROVE Matches(s)' /\ Lost(s, r)'
  <2>1. Matches(s) /\ s.user \in UserNames
    BY <1>1 DEF IInv, Underway, Idle, Free, TypeOK, Session
  <2> QED  BY <1>1, <2>1 DEF Matches, Lost, RolesOf
<1>4. Underway'
  BY <1>1, <1>3 DEF Underway, Idle
<1>5. \A q \in RoleNames : roles'[q].permissions \subseteq roles[q].permissions
  BY <1>1 DEF IInv, TypeOK, NoRole
<1> QED  BY <1>1, <1>2, <1>4, <1>5, SessionsStay

LEMMA DropRoleKeeps ==
    ASSUME IInv, NEW c \in Callers, DropRole(c)
    PROVE  IInv'
<1>1. /\ mu.todo = "users with role" /\ sessions' = sessions /\ check' = check
      /\ roles' = roles /\ clock' = clock /\ calling' = calling
      /\ users' = [u \in UserNames |-> [users[u] EXCEPT !.roles = @ \ {mu.role}]]
      /\ mu' = [todo |-> "sessions with role", by |-> c, user |-> Admin, role |-> mu.role,
               taken |-> mu.taken]
  BY DEF DropRole, GoOn
<1>2. \A u \in UserNames : users'[u] = [users[u] EXCEPT !.roles = @ \ {mu.role}]
  BY <1>1
<1>3. TypeOK'
  <2>1. ASSUME NEW u \in UserNames PROVE users'[u] \in UserRecords
    <3>1. users[u] \in UserRecords
      BY DEF IInv, TypeOK, UserRecords
    <3>2. [users[u] EXCEPT !.roles = @ \ {mu.role}] \in UserRecords
      BY <3>1 DEF UserRecords
    <3> QED  BY <1>2, <3>2
  <2>2. users' \in [UserNames -> UserRecords]
    BY <1>1, <2>1
  <2>3. mu' \in MuType
    BY <1>1, AclAssumption DEF IInv, TypeOK, MuType
  <2>4. calling' \in [Callers -> BOOLEAN]
    BY <1>1 DEF IInv, TypeOK
  <2> QED  BY <1>1, <2>2, <2>3, <2>4, TypesStay DEF IInv, TypeOK
<1>4. ASSUME NEW s \in sessions PROVE MatchesBut(s, mu.role)' /\ Lost(s, mu.role)'
  <2>1. s.user \in UserNames /\ Matches(s) /\ Lost(s, mu.role)
    BY <1>1 DEF IInv, TypeOK, Session, Underway
  <2>2. users[s.user] \in [known : BOOLEAN, active : BOOLEAN,
                           roles : SUBSET RoleNames, failed : Nat]
    BY <2>1 DEF IInv, TypeOK
  <2>3. /\ users'[s.user].known = users[s.user].known
        /\ users'[s.user].active = users[s.user].active
        /\ users'[s.user].roles = users[s.user].roles \ {mu.role}
    BY <1>2, <2>1, <2>2
  <2> QED  BY <1>1, <2>1, <2>3 DEF Matches, MatchesBut, Lost
<1>5. Underway'
  BY <1>1, <1>4 DEF Underway, Idle
<1> QED  BY <1>1, <1>3, <1>5, SessionsStay

\* dropUserSessionsLocked and the end of DeleteRole.
LEMMA DropsKeep ==
    ASSUME IInv, NEW c \in Callers, DropSessions(c) \/ DropRoleSessions(c)
    PROVE  IInv'
<1>1. /\ check' = check /\ users' = users /\ roles' = roles /\ clock' = clock /\ mu' = Free
      /\ calling' = [calling EXCEPT ![c] = FALSE]
  BY DEF DropSessions, DropRoleSessions, Return
<1>2. sessions' \subseteq sessions /\ \A s \in sessions' : Matches(s)
  <2>1. CASE DropSessions(c)
    <3>1. /\ mu.todo = "sessions of user"
          /\ sessions' = {s \in sessions : s.user # mu.user}
      BY <2>1 DEF DropSessions, Dropped
    <3> QED  BY <3>1 DEF IInv, Underway
  <2>2. CASE DropRoleSessions(c)
    <3>1. /\ mu.todo = "sessions with role"
          /\ sessions' = {s \in sessions : mu.role \notin s.roles}
      BY <2>2 DEF DropRoleSessions, Carrying
    <3>2. ASSUME NEW s \in sessions' PROVE Matches(s)
      <4>1. MatchesBut(s, mu.role) /\ s.roles \ {mu.role} = s.roles
        BY <3>1 DEF IInv, Underway
      <4> QED  BY <4>1 DEF Matches, MatchesBut
    <3> QED  BY <3>1, <3>2
  <2> QED  BY <2>1, <2>2
<1>3. TypeOK'
  BY <1>1, <1>2, AclAssumption DEF IInv, TypeOK, Free, Nobody
<1>4. Underway'
  BY <1>1, <1>2 DEF Underway, Matches, Idle, Free
<1>5. Checked'
  BY <1>1, CheckStays DEF IInv
<1>6. Limited'
  BY <1>2, FewerKeep DEF IInv
<1> QED  BY <1>3, <1>4, <1>5, <1>6 DEF IInv

LEMMA LoginKeeps ==
    ASSUME IInv, NEW c \in Callers, NEW u \in UserNames, Login(c, u)
    PROVE  IInv'
<1>1. /\ mu = Free /\ mu' = Free /\ check' = check /\ roles' = roles /\ clock' = clock
      /\ u \in Known /\ users[u].active
      /\ users' = [users EXCEPT ![u].failed = 0]
      /\ calling' = [calling EXCEPT ![c] = FALSE]
  BY DEF Login, Enter, Return
<1>2. PICK gone \in SUBSET Of(u) :
        /\ Cardinality(gone) = Surplus(u) /\ Unused(sessions \ gone) # {}
        /\ sessions' = (sessions \ gone)
                         \cup {[id |-> FreshId(sessions \ gone), user |-> u,
                                roles |-> users[u].roles, at |-> clock]}
  BY DEF Login
<1> DEFINE new == [id |-> FreshId(sessions \ gone), user |-> u,
                   roles |-> users[u].roles, at |-> clock]
<1>3. new \in Session /\ new.user = u /\ new.roles = users[u].roles
  <2>1. FreshId(sessions \ gone) \in 1..MaxSessions
    BY <1>2, FreshIdType
  <2> QED  BY <2>1 DEF Session, IInv, TypeOK
<1>4. TypeOK'
  <2> HIDE DEF new
  <2>1. sessions' \subseteq Session
    BY <1>2, <1>3 DEF IInv, TypeOK, new
  <2> DEFINE cleared == [users[u] EXCEPT !.failed = 0]
  <2>2. cleared \in UserRecords
    BY ChangedRecord DEF IInv
  <2>3. users' = [users EXCEPT ![u] = cleared]
    BY <1>1
  <2> HIDE DEF cleared
  <2>4. users' \in [UserNames -> UserRecords]
    BY <2>2, <2>3, OneUserType DEF IInv
  <2>5. calling' \in [Callers -> BOOLEAN]
    BY <1>1 DEF IInv, TypeOK
  <2> QED  BY <1>1, <2>1, <2>4, <2>5, TypesStay DEF IInv
<1>5. ASSUME NEW s \in sessions' PROVE Matches(s)'
  <2>1. \A v \in UserNames : /\ users'[v].known = users[v].known
                             /\ users'[v].active = users[v].active
                             /\ users'[v].roles = users[v].roles
    BY <1>1 DEF IInv, TypeOK
  <2>2. CASE s \in sessions
    BY <1>1, <2>1, <2>2 DEF IInv, TypeOK, Session, Underway, Idle, Free, Matches
  <2>3. CASE s = new
    BY <1>1, <1>3, <2>1, <2>3 DEF Matches, Known
  <2> QED  BY <1>2, <2>2, <2>3
<1>6. Underway'
  BY <1>1, <1>5 DEF Underway, Idle, Free
<1>7. Checked'
  BY <1>1, CheckStays DEF IInv
<1>8. Limited'
  BY <1>2, <1>3, LoginKeepsLimit DEF IInv
<1> QED  BY <1>4, <1>6, <1>7, <1>8 DEF IInv

LEMMA LoginFailsKeeps ==
    ASSUME IInv, NEW c \in Callers, NEW u \in UserNames, LoginFails(c, u)
    PROVE  IInv'
<1>1. /\ mu = Free /\ mu' = Free /\ sessions' = sessions /\ check' = check
      /\ roles' = roles /\ clock' = clock
      /\ calling' = [calling EXCEPT ![c] = FALSE]
  BY DEF LoginFails, Enter, Return
<1>2. PICK n \in Nat : users' = [users EXCEPT ![u].failed = n]
  <2> DEFINE n == IF users[u].failed + 1 >= MaxFailedAttempts THEN 0 ELSE users[u].failed + 1
  <2>1. users[u].failed \in Nat
    BY DEF IInv, TypeOK
  <2>2. n \in Nat
    BY <2>1
  <2>3. users' = [users EXCEPT ![u].failed = n]
    BY DEF LoginFails
  <2> HIDE DEF n
  <2> QED  BY <2>2, <2>3
<1>3. TypeOK'
  <2> DEFINE new == [users[u] EXCEPT !.failed = n]
  <2>1. new \in UserRecords
    BY ChangedRecord DEF IInv
  <2>2. users' = [users EXCEPT ![u] = new]
    BY <1>2
  <2> HIDE DEF new
  <2>3. users' \in [UserNames -> UserRecords]
    BY <2>1, <2>2, OneUserType DEF IInv
  <2>4. calling' \in [Callers -> BOOLEAN]
    BY <1>1 DEF IInv, TypeOK
  <2> QED  BY <1>1, <2>3, <2>4, TypesStay DEF IInv, TypeOK
<1>4. ASSUME NEW s \in sessions PROVE Matches(s)'
  BY <1>1, <1>2 DEF IInv, TypeOK, Session, Underway, Idle, Free, Matches
<1>5. Underway'
  BY <1>1, <1>4 DEF Underway, Idle, Free
<1> QED  BY <1>1, <1>3, <1>5, SessionsStay

\* Refusals, a call that begins, and one that waits for ever change nothing of it.
LEMMA WaitsKeep ==
    ASSUME IInv, NEW c \in Callers,
           \/ Call(c) \/ Refuse(c) \/ \E u \in UserNames : LoginBlocks(c, u)
    PROVE  IInv'
<1>1. /\ sessions' = sessions /\ check' = check /\ users' = users /\ roles' = roles
      /\ clock' = clock /\ calling' \in [Callers -> BOOLEAN]
      /\ \/ mu' = mu
         \/ mu = Free /\ mu' \in {Free, [Free EXCEPT !.todo = "blocked", !.by = c]}
  BY DEF Call, Refuse, LoginBlocks, Enter, Return, IInv, TypeOK
<1>2. TypeOK'
  <2>1. CASE mu' = mu
    BY <1>1, <2>1 DEF IInv, TypeOK
  <2>2. CASE mu' = Free
    BY <1>1, <2>2 DEF IInv, TypeOK
  <2>3. CASE mu = Free /\ mu' = [Free EXCEPT !.todo = "blocked", !.by = c]
    <3>1. mu' \in MuType
      BY <2>3 DEF IInv, TypeOK, MuType
    <3> QED  BY <1>1, <3>1 DEF IInv, TypeOK, MuType
  <2> QED  BY <1>1, <2>1, <2>2, <2>3
<1>3. Underway'
  <2>1. CASE mu' = mu
    BY <1>1, <2>1 DEF IInv, Underway, Matches, MatchesBut, Lost
  <2>2. CASE mu = Free /\ mu'.todo \in Idle
    <3>1. \A s \in sessions' : Matches(s)'
      BY <1>1, <2>2 DEF IInv, Underway, Matches, Idle, Free
    <3> QED  BY <2>2, <3>1 DEF Underway, Idle
  <2> QED  BY <1>1, <2>1, <2>2 DEF Idle, Free
<1> QED  BY <1>1, <1>2, <1>3, SessionsStay

LEMMA OperationKeeps ==
    ASSUME IInv, NEW c \in Callers, Operation(c)
    PROVE  IInv'
<1>1. CASE Refuse(c)
  BY <1>1, WaitsKeep
<1>2. CASE DropSessions(c) \/ DropRoleSessions(c)
  BY <1>2, DropsKeep
<1>3. CASE DropRole(c)
  BY <1>3, DropRoleKeeps
<1>4. ASSUME NEW u \in UserNames, NEW R \in SUBSET RoleNames, CreateUser(c, u, R) PROVE IInv'
  BY <1>4, CreateUserKeeps
<1>5. ASSUME NEW u \in UserNames,
             \/ DisableUser(c, u) \/ DeleteUser(c, u) \/ ChangePassword(c, u)
             \/ \E r \in RoleNames : AddUserRole(c, u, r) \/ RemoveUserRole(c, u, r)
      PROVE  IInv'
  BY <1>5, UserCallsKeep
<1>6. ASSUME NEW u \in UserNames, EnableUser(c, u) PROVE IInv'
  BY <1>6, EnableUserKeeps
<1>7. ASSUME NEW u \in UserNames, Login(c, u) PROVE IInv'
  BY <1>7, LoginKeeps
<1>8. ASSUME NEW u \in UserNames, LoginFails(c, u) PROVE IInv'
  BY <1>8, LoginFailsKeeps
<1>9. ASSUME NEW u \in UserNames, LoginBlocks(c, u) PROVE IInv'
  BY <1>9, WaitsKeep
<1>10. ASSUME NEW r \in RoleNames,
              \/ CreateRole(c, r)
              \/ \E p \in Permissions : GrantPermission(c, r, p) \/ RevokePermission(c, r, p)
       PROVE  IInv'
  BY <1>10, RoleCallsKeep
<1>11. ASSUME NEW r \in RoleNames, DeleteRole(c, r) PROVE IInv'
  BY <1>11, DeleteRoleKeeps
<1> QED
  BY <1>1, <1>2, <1>3, <1>4, <1>5, <1>6, <1>7, <1>8, <1>9, <1>10, <1>11 DEF Operation

-----------------------------------------------------------------------------
(* The invariant is inductive: steps without the mutex *)

LEMMA LosesKeep ==
    ASSUME IInv, NEW s \in sessions, Logout(s) \/ RemoveExpired(s)
    PROVE  IInv'
<1>1. /\ sessions' = sessions \ {s}
      /\ UNCHANGED <<users, roles, mu, calling, clock, check>>
  BY DEF Logout, RemoveExpired
<1>2. TypeOK' /\ Underway' /\ Checked'
  <2>1. TypeOK' /\ Underway'
    BY <1>1 DEF IInv, TypeOK, Underway, Matches, MatchesBut, Lost
  <2> QED  BY <1>1, <2>1, CheckStays DEF IInv
<1>3. Limited'
  BY <1>1, FewerKeep DEF IInv
<1> QED  BY <1>2, <1>3 DEF IInv

LEMMA TickKeeps ==
    ASSUME IInv, Tick
    PROVE  IInv'
<1>1. clock < MaxClock /\ clock' = clock + 1
      /\ UNCHANGED <<users, roles, sessions, mu, calling, check>>
  BY DEF Tick
<1>2. TypeOK'
  <2>1. clock' \in 0..MaxClock
    <3>1. clock \in 0..MaxClock
      BY DEF IInv, TypeOK
    <3> QED  BY <1>1, <3>1, AclAssumption
  <2> QED  BY <1>1, <2>1 DEF IInv, TypeOK
<1>3. Underway'
  BY <1>1 DEF IInv, Underway, Matches, MatchesBut, Lost
<1> QED  BY <1>1, <1>2, <1>3, SessionsStay

LEMMA CheckSessionKeeps ==
    ASSUME IInv, NEW s \in sessions, NEW wanted \in SUBSET Permissions, CheckSession(s, wanted)
    PROVE  TypeOK' /\ Checked'
<1> DEFINE had == RolesOf(s.user) \cup {r \in RoleNames : <<s.user, r>> \in mu.taken}
           could == {r \in had : Gives(r, wanted)}
<1>1. /\ UNCHANGED <<users, roles, sessions, mu, calling, clock>>
      /\ check' = [at |-> "roles", roles |-> s.roles, wanted |-> wanted, role |-> AdminRole,
                  had |-> had, could |-> could]
  BY DEF CheckSession
<1>2. s.user \in UserNames /\ s.roles \in SUBSET RoleNames
  BY DEF IInv, TypeOK, Session
<1>3. had \in SUBSET RoleNames /\ could \in SUBSET RoleNames
  BY <1>2 DEF RolesOf, IInv, TypeOK
<1>4. s.roles \subseteq had
  <2>1. CASE Matches(s)
    BY <2>1 DEF Matches, RolesOf
  <2>2. CASE MatchesBut(s, mu.role) /\ Lost(s, mu.role)
    BY <1>2, <2>2 DEF MatchesBut, Lost, RolesOf
  <2>3. CASE \A r \in RoleNames : Lost(s, r)
    BY <1>2, <2>3 DEF Lost
  <2>4. mu.todo \in Idle \cup {"sessions of user", "users with role", "sessions with role"}
    BY DEF IInv, TypeOK, Idle
  <2>5. Matches(s) \/ (MatchesBut(s, mu.role) /\ Lost(s, mu.role)) \/ \A r \in RoleNames : Lost(s, r)
    BY <2>4 DEF IInv, Underway
  <2> HIDE DEF had
  <2> QED  BY <2>1, <2>2, <2>3, <2>5
<1>5. \A r \in had : Gives(r, wanted)' => r \in could
  BY <1>1 DEF Gives
<1> HIDE DEF had, could
<1>6. /\ check'.at = "roles" /\ check'.roles = s.roles /\ check'.had = had
      /\ check'.wanted = wanted /\ check'.could = could
  BY <1>1
<1>7. check' \in [at : {"roles"}, roles : SUBSET RoleNames, wanted : SUBSET Permissions,
                  had : SUBSET RoleNames, could : SUBSET RoleNames, role : RoleNames]
  BY <1>1, <1>2, <1>3, AclAssumption
<1>8. TypeOK'
  BY <1>1, <1>7 DEF IInv, TypeOK
<1>9. Checked'
  <2>1. \A r \in check'.had : Gives(r, check.wanted)' => r \in check'.could
    BY <1>5, <1>6 DEF Gives
  <2> QED  BY <1>4, <1>6, <2>1 DEF Checked
<1> QED  BY <1>8, <1>9

LEMMA CheckRoleKeeps ==
    ASSUME IInv, NEW r \in RoleNames, CheckRole(r)
    PROVE  TypeOK' /\ Checked'
<1>1. /\ UNCHANGED <<users, roles, sessions, mu, calling, clock>>
      /\ check.at = "roles" /\ r \in check.roles /\ r \in check.had
  BY DEF CheckRole, IInv, Checked
<1>2. CASE Gives(r, check.wanted)
  <2>1. check' = [check EXCEPT !.at = "granted", !.role = r]
    BY <1>2 DEF CheckRole
  <2>2. check'.at = "granted" /\ check'.role = r /\ check'.could = check.could
    BY <2>1 DEF IInv, TypeOK
  <2>3. r \in check.could
    BY <1>1, <1>2 DEF IInv, Checked
  <2>4. TypeOK'
    BY <1>1, <2>1 DEF IInv, TypeOK
  <2> QED  BY <2>2, <2>3, <2>4 DEF Checked
<1>3. CASE ~Gives(r, check.wanted)
  <2>1. check' = [check EXCEPT !.roles = @ \ {r}]
    BY <1>3 DEF CheckRole
  <2>2. /\ check'.at = "roles" /\ check'.roles = check.roles \ {r} /\ check'.had = check.had
        /\ check'.wanted = check.wanted /\ check'.could = check.could
    BY <1>1, <2>1 DEF IInv, TypeOK
  <2>3. TypeOK'
    BY <1>1, <2>1 DEF IInv, TypeOK
  <2>4. \A q \in check'.had : Gives(q, check.wanted)' => q \in check'.could
    BY <1>1, <2>2 DEF IInv, Checked, Gives
  <2> QED  BY <1>1, <2>2, <2>3, <2>4 DEF IInv, Checked
<1> QED  BY <1>2, <1>3

LEMMA ChecksKeep ==
    ASSUME IInv,
           \/ \E s \in sessions : \E wanted \in SUBSET Permissions \ {{}} : CheckSession(s, wanted)
           \/ \E r \in RoleNames : CheckRole(r)
           \/ CheckReturns
    PROVE  IInv'
<1>1. UNCHANGED <<users, roles, sessions, mu, calling, clock>>
  BY DEF CheckSession, CheckRole, CheckReturns
<1>2. Underway' /\ Limited'
  BY <1>1 DEF IInv, Underway, Matches, MatchesBut, Lost, Limited, SessionLimit, Of
<1>3. CASE CheckReturns
  BY <1>1, <1>2, <1>3, AclAssumption DEF CheckReturns, NoCheck, IInv, TypeOK, Checked
<1> QED  BY <1>2, <1>3, CheckSessionKeeps, CheckRoleKeeps DEF IInv

LEMMA StepKeeps == IInv /\ [Next]_vars => IInv'
<1> SUFFICES ASSUME IInv, [Next]_vars PROVE IInv'
  OBVIOUS
<1>1. ASSUME NEW c \in Callers, Call(c) PROVE IInv'
  BY <1>1, WaitsKeep
<1>2. ASSUME NEW c \in Callers, Operation(c) PROVE IInv'
  BY <1>2, OperationKeeps
<1>3. ASSUME NEW s \in sessions, Logout(s) \/ RemoveExpired(s) PROVE IInv'
  BY <1>3, LosesKeep
<1>4. CASE \/ \E s \in sessions : \E wanted \in SUBSET Permissions \ {{}} : CheckSession(s, wanted)
           \/ \E r \in RoleNames : CheckRole(r)
           \/ CheckReturns
  BY <1>4, ChecksKeep
<1>5. CASE Tick
  BY <1>5, TickKeeps
<1>6. CASE UNCHANGED vars
  <2>1. UNCHANGED <<users, roles, sessions, mu, calling, clock, check>>
    BY <1>6 DEF vars
  <2>2. TypeOK' /\ Underway'
    BY <2>1 DEF IInv, TypeOK, Underway, Matches, MatchesBut, Lost
  <2> QED  BY <2>1, <2>2, SessionsStay
<1> QED  BY <1>1, <1>2, <1>3, <1>4, <1>5, <1>6 DEF Next

-----------------------------------------------------------------------------
(* The theorems *)

\* The inductive invariant of users, sessions, the mutex and a check.
THEOREM IInvHolds == Spec => []IInv
<1> QED  BY InitIInv, StepKeeps, PTL DEF Spec

\* The variables keep their types; every session has an id within the bound.
THEOREM TypeCorrect == Spec => []TypeOK
<1>1. IInv => TypeOK
  BY DEF IInv
<1> QED  BY <1>1, IInvHolds, PTL

\* After every finished call of ACLManager the sessions agree with their users: nobody keeps
\* the rights of a role that is gone or of an account that is disabled or deleted.
THEOREM SessionsMatch == Spec => []SessionsMatchUsers
<1>1. IInv => SessionsMatchUsers
  BY DEF IInv, TypeOK, Session, Underway, Idle, Matches, SessionsMatchUsers, Known
<1> QED  BY <1>1, IInvHolds, PTL

\* enforceSessionLimitLocked keeps every user within the limit.
THEOREM LimitHolds == Spec => []SessionLimit
<1>1. IInv => SessionLimit
  BY DEF IInv, Limited
<1> QED  BY <1>1, IInvHolds, PTL

\* CheckPermission takes no mutex: a yes rests on a role that its user had when the session
\* was loaded, or that was being taken away, and that had the permission then or later.
THEOREM CheckHolds == Spec => []CheckIsJustified
<1>1. IInv => CheckIsJustified
  BY DEF IInv, Checked, CheckIsJustified
<1> QED  BY <1>1, IInvHolds, PTL
=============================================================================
