----------------------------- MODULE RangerSync -----------------------------
(***************************************************************************)
(* infra/ranger-admin/ranger-usersync/sync_users.py: a script that copies  *)
(* the groups, roles, users and memberships of Keycloak to Ranger.  It     *)
(* runs when an operator starts it, and only ever adds.  Keycloak and      *)
(* Ranger change meanwhile, every request may fail, and the script may     *)
(* die at any time; only a user's rows are written in one transaction.     *)
(*                                                                         *)
(* Groups and roles go through Ranger's API, users and memberships through *)
(* its database: x_portal_user with x_portal_user_role, which the UI       *)
(* reads, and x_user with x_group_users, which the policies use.           *)
(* sync_to_portal_users is called by nobody.                               *)
(***************************************************************************)
EXTENDS Integers, FiniteSets

CONSTANTS
    Users, Groups, Roles,
    Page,           \* the users that one answer of Keycloak holds
    None

CONSTANTS           \* bounds of the model
    MaxRuns, MaxChanges, MaxFaults

ASSUME RangerSyncAssumption ==
    /\ {Page, MaxRuns, MaxChanges, MaxFaults} \subseteq Nat
    /\ None \notin Users

VARIABLES
    keycloak,       \* its groups, users and memberships; the roles are Roles
    ranger,         \* its groups, roles, portal users, users and memberships
    pc,             \* where main is
    groups, roles, users,   \* what is left of the lists that main has fetched
    inserting,      \* the user that create_ranger_user found missing, or None
    grouping,       \* the user whose groups are fetched next, or None
    user_group_mappings,
    fail_count,
    count           \* counted for the bounds

VARIABLES           \* auxiliary: never read by the code
    fetched,        \* the users of the last list
    clean,          \* nothing failed or changed during this run
    seen            \* every membership that Keycloak ever had

lists == <<groups, roles, users>>
aux == <<fetched, clean, seen>>
vars == <<keycloak, ranger, pc, lists, inserting, grouping, user_group_mappings,
          fail_count, count, aux>>

Pcs == {"idle", "token", "groups", "roles", "users", "create_groups", "create_roles",
        "create_users", "add_users", "success", "failure"}
Memberships == Users \X Groups

TypeOK ==
    /\ keycloak \in [users: SUBSET Users, groups: SUBSET Groups,
                     members: SUBSET Memberships]
    /\ ranger \in [groups: SUBSET Groups, roles: SUBSET Roles, portal: SUBSET Users,
                   users: SUBSET Users, members: SUBSET Memberships]
    /\ pc \in Pcs
    /\ groups \subseteq Groups /\ roles \subseteq Roles /\ users \subseteq Users
    /\ inserting \in Users \cup {None} /\ grouping \in Users \cup {None}
    /\ user_group_mappings \subseteq Memberships
    /\ fail_count \in 0..Cardinality(Users)
    /\ count \in [runs: 0..MaxRuns, changes: 0..MaxChanges, faults: 0..MaxFaults]
    /\ fetched \subseteq Users /\ clean \in BOOLEAN /\ seen \subseteq Memberships

Idle == {"idle", "success", "failure"}

Init ==
    /\ keycloak = [users |-> Users, groups |-> Groups, members |-> {}]
    /\ ranger = [groups |-> {}, roles |-> {}, portal |-> {}, users |-> {}, members |-> {}]
    /\ pc = "idle"
    /\ groups = {} /\ roles = {} /\ users = {}
    /\ inserting = None /\ grouping = None
    /\ user_group_mappings = {} /\ fail_count = 0
    /\ count = [runs |-> 0, changes |-> 0, faults |-> 0]
    /\ fetched = {} /\ clean = TRUE /\ seen = {}

Counted(kind, max) == /\ count[kind] < max
                      /\ count' = [count EXCEPT ![kind] = @ + 1]

\* A request or a statement fails, or the script dies.
Fault == /\ Counted("faults", MaxFaults)
         /\ clean' = FALSE
NoFault == UNCHANGED <<count, clean>>

-----------------------------------------------------------------------------
(* Keycloak and Ranger change by themselves *)

Change(k, r) ==
    /\ Counted("changes", MaxChanges)
    /\ keycloak' = k /\ ranger' = r
    /\ seen' = seen \cup k.members
    /\ clean' = FALSE
    /\ UNCHANGED <<pc, lists, inserting, grouping, user_group_mappings, fail_count, fetched>>

Changes ==
    \/ \E u \in keycloak.users, g \in keycloak.groups :
          \/ Change([keycloak EXCEPT !.members = @ \cup {<<u, g>>}], ranger)
          \/ Change([keycloak EXCEPT !.members = @ \ {<<u, g>>}], ranger)
    \/ \E g \in keycloak.groups :
          Change([keycloak EXCEPT !.groups = @ \ {g}, !.members = @ \ (Users \X {g})],
                 ranger)
    \* Ranger's API creates a user for the policies, or its UI one for both.
    \/ \E u \in Users, portal \in BOOLEAN :
          Change(keycloak, [ranger EXCEPT !.users = @ \cup {u},
                                          !.portal = IF portal THEN @ \cup {u} ELSE @])

-----------------------------------------------------------------------------
(* main *)

Goto(next) == pc' = next
Stay == UNCHANGED <<keycloak, seen>>

Start ==
    /\ pc \in Idle
    /\ Counted("runs", MaxRuns)
    /\ Goto("token")
    /\ groups' = {} /\ roles' = {} /\ users' = {}
    /\ user_group_mappings' = {} /\ fail_count' = 0
    /\ clean' = TRUE /\ fetched' = {}
    /\ Stay /\ UNCHANGED <<ranger, inserting, grouping>>

\* get_keycloak_token: without a token by either grant the script ends.
GetToken ==
    /\ pc = "token"
    /\ \/ Goto("groups") /\ NoFault
       \/ Goto("failure") /\ Fault
    /\ Stay
    /\ UNCHANGED <<ranger, lists, inserting, grouping, user_group_mappings, fail_count, fetched>>

\* Groups and roles that cannot be fetched are taken to be none.
FetchGroups ==
    /\ pc = "groups" /\ Goto("roles")
    /\ \/ groups' = keycloak.groups /\ NoFault
       \/ groups' = {} /\ Fault
    /\ Stay
    /\ UNCHANGED <<ranger, roles, users, inserting, grouping, user_group_mappings,
                   fail_count, fetched>>

FetchRoles ==
    /\ pc = "roles" /\ Goto("users")
    /\ \/ roles' = Roles /\ NoFault
       \/ roles' = {} /\ Fault
    /\ Stay
    /\ UNCHANGED <<ranger, groups, users, inserting, grouping, user_group_mappings,
                   fail_count, fetched>>

\* One request without first and max: Keycloak answers with its first page.
\* Without users the script ends.
FetchUsers ==
    /\ pc = "users"
    /\ \/ \E page \in SUBSET keycloak.users :
             /\ \/ page = keycloak.users /\ Cardinality(page) <= Page
                \/ Cardinality(page) = Page
             /\ users' = page /\ fetched' = page
             /\ Goto("create_groups") /\ NoFault
       \/ Goto("failure") /\ Fault /\ UNCHANGED <<users, fetched>>
    /\ Stay
    /\ UNCHANGED <<ranger, groups, roles, inserting, grouping, user_group_mappings, fail_count>>

\* create_ranger_group and create_ranger_role: what exists is left as it is, a
\* failure is reported as a success.
CreateGroup(g) ==
    /\ pc = "create_groups" /\ g \in groups
    /\ groups' = groups \ {g}
    /\ \/ ranger' = [ranger EXCEPT !.groups = @ \cup {g}] /\ NoFault
       \/ UNCHANGED ranger /\ g \notin ranger.groups /\ Fault
    /\ Stay
    /\ UNCHANGED <<pc, roles, users, inserting, grouping, user_group_mappings,
                   fail_count, fetched>>

CreateRole(r) ==
    /\ pc = "create_roles" /\ r \in roles
    /\ roles' = roles \ {r}
    /\ \/ ranger' = [ranger EXCEPT !.roles = @ \cup {r}] /\ NoFault
       \/ UNCHANGED ranger /\ r \notin ranger.roles /\ Fault
    /\ Stay
    /\ UNCHANGED <<pc, groups, users, inserting, grouping, user_group_mappings,
                   fail_count, fetched>>

\* The loops of main end.
LoopEnds ==
    /\ \/ pc = "create_groups" /\ groups = {} /\ Goto("create_roles")
       \/ pc = "create_roles" /\ roles = {} /\ Goto("create_users")
       \/ /\ pc = "create_users" /\ users = {} /\ inserting = None /\ grouping = None
          /\ Goto("add_users")
       \/ /\ pc = "add_users" /\ user_group_mappings = {}
          /\ Goto(IF fail_count = 0 THEN "success" ELSE "failure")
    /\ Stay /\ NoFault
    /\ UNCHANGED <<ranger, lists, inserting, grouping, user_group_mappings,
                   fail_count, fetched>>

-----------------------------------------------------------------------------
(* create_ranger_user *)

InUsers(u) == pc = "create_users" /\ u \in users /\ inserting = None /\ grouping = None

UsersKept == /\ Stay
             /\ UNCHANGED <<pc, groups, roles, user_group_mappings, fetched>>

\* The bug: users are looked up where the policies look.
ExistsForPolicies(u) == u \in ranger.users

Exists(u) == u \in ranger.portal

\* The first statement looks for a portal user.
SelectUser(u) ==
    /\ InUsers(u)
    /\ users' = users \ {u}
    /\ IF Exists(u) THEN grouping' = u /\ UNCHANGED inserting
                    ELSE inserting' = u /\ UNCHANGED grouping
    /\ NoFault /\ UsersKept /\ UNCHANGED <<ranger, fail_count>>

\* The bug: the row of x_user is left to the next run.
InsertUserShown ==
    /\ inserting # None /\ inserting \notin ranger.portal
    /\ ranger' = [ranger EXCEPT !.portal = @ \cup {inserting}]
    /\ grouping' = inserting /\ inserting' = None
    /\ NoFault /\ UsersKept /\ UNCHANGED <<users, fail_count>>

\* Three inserts and a commit.  A row of x_user that is there is no conflict.
InsertUser ==
    /\ inserting # None /\ inserting \notin ranger.portal
    /\ ranger' = [ranger EXCEPT !.portal = @ \cup {inserting}, !.users = @ \cup {inserting}]
    /\ grouping' = inserting /\ inserting' = None
    /\ NoFault /\ UsersKept /\ UNCHANGED <<users, fail_count>>

\* A statement fails, also when the portal user has come meanwhile: nothing is
\* committed, and the user counts as failed.
InsertFails ==
    /\ inserting # None
    /\ IF inserting \in ranger.portal THEN NoFault ELSE Fault
    /\ fail_count' = fail_count + 1
    /\ inserting' = None
    /\ UsersKept /\ UNCHANGED <<ranger, users, grouping>>

\* The bug: a failed request leaves the groups of the user before.
GroupsOfLast(u) == user_group_mappings \cup {<<u, m[2]>> : m \in user_group_mappings}

\* get_user_groups answers with no groups when the request fails.
GroupsOfNone(u) == user_group_mappings

GetUserGroups ==
    /\ grouping # None
    /\ \/ /\ user_group_mappings' = user_group_mappings \cup
                 {m \in keycloak.members : m[1] = grouping}
          /\ NoFault
       \/ user_group_mappings' = GroupsOfNone(grouping) /\ Fault
    /\ grouping' = None
    /\ Stay /\ UNCHANGED <<ranger, pc, lists, inserting, fail_count, fetched>>

-----------------------------------------------------------------------------
\* add_user_to_group: both must be there, and its result is only counted.
AddUserToGroup(m) ==
    /\ pc = "add_users" /\ m \in user_group_mappings
    /\ user_group_mappings' = user_group_mappings \ {m}
    /\ \/ /\ ranger' = IF m[1] \in ranger.users /\ m[2] \in ranger.groups
                       THEN [ranger EXCEPT !.members = @ \cup {m}] ELSE ranger
          /\ NoFault
       \/ UNCHANGED ranger /\ Fault
    /\ Stay /\ UNCHANGED <<pc, lists, inserting, grouping, fail_count, fetched>>

\* The script dies; the open transaction is rolled back.
Crash ==
    /\ pc \notin Idle /\ Fault
    /\ Goto("idle")
    /\ groups' = {} /\ roles' = {} /\ users' = {}
    /\ inserting' = None /\ grouping' = None
    /\ user_group_mappings' = {} /\ fail_count' = 0
    /\ Stay /\ UNCHANGED <<ranger, fetched>>

Script ==
    \/ GetToken \/ FetchGroups \/ FetchRoles \/ FetchUsers \/ LoopEnds
    \/ \E g \in Groups : CreateGroup(g)
    \/ \E r \in Roles : CreateRole(r)
    \/ \E u \in Users : SelectUser(u)
    \/ InsertUser \/ InsertFails \/ GetUserGroups
    \/ \E m \in Memberships : AddUserToGroup(m)

Next == Changes \/ Start \/ Script \/ Crash

Spec == Init /\ [][Next]_vars

-----------------------------------------------------------------------------
(* Properties *)

\* Whatever fails and whenever the script dies, a user that the UI shows is one
\* that policies can name: the rows of a user come together (create_ranger_user,
\* one commit), or those of x_user were there before.
ShownUsersAreUsers == ranger.portal \subseteq ranger.users

\* An exit code of 0 means that every user of the list can log in and be named,
\* although a failed statement is only counted (main, the last line).
SuccessMeansUsers ==
    pc = "success" => fetched \subseteq ranger.portal \cap ranger.users

\* No membership is given that Keycloak never had, although users and groups
\* change between the list of the users, the requests for their groups and the
\* inserts (main, user_group_mappings).
NothingInvented == ranger.members \subseteq seen

\* A run during which nothing failed or changed copies everything, whatever the
\* runs before it left half done (main).
CleanRunCopies ==
    pc = "success" /\ clean =>
        /\ keycloak.groups \subseteq ranger.groups /\ Roles \subseteq ranger.roles
        /\ keycloak.users \subseteq ranger.portal \cap ranger.users
        /\ keycloak.members \subseteq ranger.members

\* main's doc: users, groups and roles are synchronised, so that after a
\* successful run Ranger has no membership that Keycloak does not have.
Synchronised == pc = "success" /\ clean => ranger.members \subseteq keycloak.members

=============================================================================
