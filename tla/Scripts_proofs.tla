---------------------------- MODULE Scripts_proofs ----------------------------
(***************************************************************************)
(* Proofs about the scripts that copy from one service to others.          *)
(*                                                                         *)
(* RangerSync, for any users, groups and roles, and any number of runs,    *)
(* changes and failures: what Ranger shows, that no membership is          *)
(* invented, and, if all users fit into one page, that a run during which  *)
(* nothing failed or changed copies everything.                            *)
(*                                                                         *)
(* News, for any sites, titles, lengths of the lists and number of         *)
(* overlapping runs: the types; that the stores agree wherever a run dies; *)
(* that a list has an article once; and that a list loses its oldest       *)
(* articles only.                                                          *)
(***************************************************************************)
EXTENDS RangerSync, News, FiniteSetTheorems, TLAPS

-----------------------------------------------------------------------------
(* The types, as far as the proofs need them *)

TypeInv ==
    /\ keycloak \in [users: SUBSET Users, groups: SUBSET Groups,
                     members: SUBSET Memberships]
    /\ ranger \in [groups: SUBSET Groups, roles: SUBSET Roles, portal: SUBSET Users,
                   users: SUBSET Users, members: SUBSET Memberships]
    /\ pc \in Pcs
    /\ users \subseteq Users
    /\ inserting \in Users \cup {None} /\ grouping \in Users \cup {None}
    /\ user_group_mappings \subseteq Memberships

\* What others than the script do to Ranger and Keycloak.
LEMMA ChangesType ==
    ASSUME TypeInv, Changes
    PROVE  /\ keycloak' \in [users: SUBSET Users, groups: SUBSET Groups,
                             members: SUBSET Memberships]
           /\ ranger' \in [groups: SUBSET Groups, roles: SUBSET Roles, portal: SUBSET Users,
                           users: SUBSET Users, members: SUBSET Memberships]
           /\ UNCHANGED <<pc, lists, inserting, grouping, user_group_mappings>>
           /\ seen' = seen \cup keycloak'.members /\ clean' = FALSE
           /\ ranger'.members = ranger.members
           /\ ranger.portal \subseteq ranger.users => ranger'.portal \subseteq ranger'.users
           /\ keycloak.members \subseteq keycloak.users \X keycloak.groups
                  => keycloak'.members \subseteq keycloak'.users \X keycloak'.groups
<1>1. CASE \E u \in keycloak.users, g \in keycloak.groups :
             \/ Change([keycloak EXCEPT !.members = @ \cup {<<u, g>>}], ranger)
             \/ Change([keycloak EXCEPT !.members = @ \ {<<u, g>>}], ranger)
  BY <1>1 DEF TypeInv, Memberships, Change, lists
<1>2. CASE \E g \in keycloak.groups :
             Change([keycloak EXCEPT !.groups = @ \ {g}, !.members = @ \ (Users \X {g})],
                      ranger)
  <2>1. PICK g \in keycloak.groups :
          Change([keycloak EXCEPT !.groups = @ \ {g}, !.members = @ \ (Users \X {g})],
                   ranger)
    BY <1>2
  <2>2. /\ keycloak'.users = keycloak.users /\ keycloak'.groups = keycloak.groups \ {g}
        /\ keycloak'.members = keycloak.members \ (Users \X {g})
        /\ keycloak' = [users |-> keycloak.users, groups |-> keycloak.groups \ {g},
                        members |-> keycloak.members \ (Users \X {g})]
    BY <2>1 DEF TypeInv, Change
  <2>3. ASSUME keycloak.members \subseteq keycloak.users \X keycloak.groups,
               NEW m \in keycloak.members \ (Users \X {g})
        PROVE  m \in keycloak.users \X (keycloak.groups \ {g})
    BY <2>3 DEF TypeInv, Memberships
  <2>4. QED
    BY <2>1, <2>2, <2>3 DEF TypeInv, Change, lists
<1>3. CASE \E u \in Users, portal \in BOOLEAN :
             Change(keycloak, [ranger EXCEPT !.users = @ \cup {u},
                                               !.portal = IF portal THEN @ \cup {u} ELSE @])
  <2>1. PICK u \in Users, portal \in BOOLEAN :
          Change(keycloak, [ranger EXCEPT !.users = @ \cup {u},
                                            !.portal = IF portal THEN @ \cup {u} ELSE @])
    BY <1>3
  <2>2. ranger' = [[ranger EXCEPT !.users = @ \cup {u}] EXCEPT
                     !.portal = IF portal THEN ranger.portal \cup {u} ELSE ranger.portal]
    BY <2>1 DEF Change
  <2>3. /\ ranger' \in [groups: SUBSET Groups, roles: SUBSET Roles, portal: SUBSET Users,
                         users: SUBSET Users, members: SUBSET Memberships]
        /\ ranger'.users = ranger.users \cup {u} /\ ranger'.members = ranger.members
        /\ ranger'.portal = ranger.portal \/ ranger'.portal = ranger.portal \cup {u}
    BY <2>2 DEF TypeInv
  <2>4. QED
    BY <2>1, <2>3 DEF TypeInv, Change, lists
<1>4. QED
  BY <1>1, <1>2, <1>3, Zenon DEF Changes

LEMMA TypeNext ==
    ASSUME TypeInv, [Next]_vars
    PROVE  TypeInv'
<1> USE DEF TypeInv, Goto, Stay, UsersKept
<1>1. CASE Changes
  BY <1>1, ChangesType DEF lists
<1>2. CASE Start
  BY <1>2 DEF Start, Pcs
<1>3. CASE GetToken \/ FetchGroups \/ FetchRoles
  BY <1>3 DEF GetToken, FetchGroups, FetchRoles, Pcs, lists
<1>4. CASE FetchUsers
  BY <1>4 DEF FetchUsers, Pcs
<1>5. ASSUME NEW g \in Groups, CreateGroup(g)
      PROVE  TypeInv'
  BY <1>5 DEF CreateGroup
<1>6. ASSUME NEW r \in Roles, CreateRole(r)
      PROVE  TypeInv'
  BY <1>6 DEF CreateRole
<1>7. CASE LoopEnds
  BY <1>7 DEF LoopEnds, Pcs, lists
<1>8. ASSUME NEW u \in Users, SelectUser(u)
      PROVE  TypeInv'
  BY <1>8 DEF SelectUser
<1>9. CASE InsertUser \/ InsertFails
  <2>1. CASE InsertUser
    <3>1. inserting \in Users
      BY <2>1 DEF InsertUser
    <3>2. ranger' = [[ranger EXCEPT !.portal = @ \cup {inserting}] EXCEPT
                       !.users = ranger.users \cup {inserting}]
      BY <2>1 DEF InsertUser
    <3>3. ranger' \in [groups: SUBSET Groups, roles: SUBSET Roles, portal: SUBSET Users,
                       users: SUBSET Users, members: SUBSET Memberships]
      BY <3>1, <3>2
    <3>4. QED
      BY <2>1, <3>1, <3>3 DEF InsertUser
  <2>2. CASE InsertFails
    BY <2>2 DEF InsertFails
  <2>3. QED
    BY <1>9, <2>1, <2>2
<1>10. CASE GetUserGroups
  BY <1>10 DEF GetUserGroups, GroupsOfNone, lists
<1>11. ASSUME NEW m \in Memberships, AddUserToGroup(m)
       PROVE  TypeInv'
  BY <1>11 DEF AddUserToGroup, lists
<1>12. CASE Crash
  BY <1>12 DEF Crash, Pcs
<1>13. CASE UNCHANGED vars
  BY <1>13 DEF vars, lists
<1>14. QED
  BY <1>1, <1>2, <1>3, <1>4, <1>5, <1>6, <1>7, <1>8, <1>9, <1>10, <1>11, <1>12, <1>13
     DEF Next, Script

LEMMA InitType ==
    ASSUME Init
    PROVE  TypeInv
BY DEF Init, TypeInv, Pcs

LEMMA TypeCorrect == Spec => []TypeInv
BY InitType, TypeNext, PTL DEF Spec

-----------------------------------------------------------------------------
(* Users *)

\* The script leaves the users of Ranger alone, or adds one to both tables.
LEMMA RangerUsers ==
    ASSUME TypeInv, Start \/ Script \/ Crash \/ UNCHANGED vars
    PROVE  \/ ranger'.portal = ranger.portal /\ ranger'.users = ranger.users
           \/ \E u \in Users : /\ ranger'.portal = ranger.portal \cup {u}
                               /\ ranger'.users = ranger.users \cup {u}
BY DEF TypeInv, Start, Script, Crash, vars, GetToken, FetchGroups, FetchRoles, FetchUsers,
       CreateGroup, CreateRole, LoopEnds, SelectUser, InsertUser, InsertFails,
       GetUserGroups, AddUserToGroup, UsersKept

\* A user that the UI shows is one that policies can name, wherever a run
\* failed or died and whatever else creates users.
THEOREM ShownUsersCorrect == Spec => []ShownUsersAreUsers
<1>1. Init => ShownUsersAreUsers
  BY DEF Init, ShownUsersAreUsers
<1>2. TypeInv /\ ShownUsersAreUsers /\ [Next]_vars => ShownUsersAreUsers'
  BY ChangesType, RangerUsers DEF Next, ShownUsersAreUsers
<1>3. QED
  BY <1>1, <1>2, TypeCorrect, PTL DEF Spec

-----------------------------------------------------------------------------
(* Memberships *)

\* What the script is about to add, it saw in Keycloak.
SeenInv ==
    /\ keycloak.members \subseteq seen
    /\ user_group_mappings \subseteq seen
    /\ NothingInvented

LEMMA SeenNext ==
    ASSUME TypeInv, SeenInv, [Next]_vars
    PROVE  SeenInv'
<1> USE DEF SeenInv, NothingInvented, Stay, UsersKept
<1>1. CASE Changes
  BY <1>1, ChangesType
<1>2. CASE GetUserGroups
  BY <1>2 DEF GetUserGroups, GroupsOfNone
<1>3. ASSUME NEW m \in Memberships, AddUserToGroup(m)
      PROVE  SeenInv'
  BY <1>3 DEF AddUserToGroup, TypeInv
<1>4. CASE InsertUser \/ InsertFails
  BY <1>4 DEF InsertUser, InsertFails, TypeInv
<1>6. CASE Start \/ GetToken \/ FetchGroups \/ FetchRoles \/ FetchUsers \/ LoopEnds \/ Crash
  BY <1>6 DEF Start, GetToken, FetchGroups, FetchRoles, FetchUsers, LoopEnds, Crash
<1>7. ASSUME NEW u \in Users, SelectUser(u)
      PROVE  SeenInv'
  BY <1>7 DEF SelectUser
<1>8. CASE UNCHANGED vars
  BY <1>8 DEF vars, aux
<1>5. ASSUME NEW g \in Groups, CreateGroup(g)
      PROVE  SeenInv'
  BY <1>5 DEF CreateGroup, TypeInv
<1>9. ASSUME NEW r \in Roles, CreateRole(r)
      PROVE  SeenInv'
  BY <1>9 DEF CreateRole, TypeInv
<1>10. QED
  BY <1>1, <1>2, <1>3, <1>4, <1>5, <1>6, <1>7, <1>8, <1>9 DEF Next, Script

\* No run gives a membership that Keycloak never had.
THEOREM NothingInventedCorrect == Spec => []NothingInvented
<1>1. Init => SeenInv
  BY DEF Init, SeenInv, NothingInvented
<1>2. SeenInv => NothingInvented
  BY DEF SeenInv
<1>3. QED
  BY <1>1, <1>2, SeenNext, TypeCorrect, PTL DEF Spec

-----------------------------------------------------------------------------
(* A run during which nothing failed or changed *)

\* Keycloak answers with all its users.
FewUsers == IsFiniteSet(Users) /\ Cardinality(Users) <= Page

AfterUsers == {"create_groups", "create_roles", "create_users", "add_users", "success"}
AfterRoles == {"users"} \cup AfterUsers
AfterGroups == {"roles"} \cup AfterRoles

\* Keycloak's memberships are of its users and groups; one user is at work,
\* in their loop; and a loop that is over has left nothing of its list.
DoneInv ==
    /\ keycloak.members \subseteq keycloak.users \X keycloak.groups
    /\ inserting = None \/ grouping = None
    /\ pc # "create_users" => inserting = None /\ grouping = None
    /\ pc \in AfterUsers \ {"create_groups"} => groups = {}
    /\ pc \in {"create_users", "add_users", "success"} => roles = {}
    /\ pc \in {"add_users", "success"} => users = {}
    /\ pc = "success" => user_group_mappings = {}

\* Whatever Keycloak has is copied, or is on the list of what is left.
GroupsLeft == pc \in AfterGroups => keycloak.groups \subseteq groups \cup ranger.groups
RolesLeft == pc \in AfterRoles => Roles \subseteq roles \cup ranger.roles
UsersLeft ==
    pc \in AfterUsers => keycloak.users \subseteq users \cup {inserting} \cup ranger.portal
MembersLeft ==
    pc \in AfterUsers => \A m \in keycloak.members :
        \/ m[1] \in users \cup {inserting, grouping}
        \/ m \in user_group_mappings \cup ranger.members
Missing == inserting # None => inserting \notin ranger.portal

CleanInv == clean => GroupsLeft /\ RolesLeft /\ UsersLeft /\ MembersLeft /\ Missing

LEMMA DoneNext ==
    ASSUME TypeInv, DoneInv, [Next]_vars
    PROVE  DoneInv'
<1> USE DEF DoneInv, AfterUsers, Goto, Stay, UsersKept, lists
<1>1. CASE Changes
  BY <1>1, ChangesType
<1>2. CASE Start \/ GetToken \/ FetchGroups \/ FetchRoles \/ FetchUsers \/ Crash
  BY <1>2 DEF Start, Idle, GetToken, FetchGroups, FetchRoles, FetchUsers, Crash
<1>3. ASSUME NEW g \in Groups, CreateGroup(g)
      PROVE  DoneInv'
  BY <1>3 DEF CreateGroup
<1>4. ASSUME NEW r \in Roles, CreateRole(r)
      PROVE  DoneInv'
  BY <1>4 DEF CreateRole
<1>5. CASE LoopEnds
  BY <1>5 DEF LoopEnds
<1>6. ASSUME NEW u \in Users, SelectUser(u)
      PROVE  DoneInv'
  BY <1>6 DEF SelectUser, InUsers
<1>7. CASE InsertUser \/ InsertFails \/ GetUserGroups
  BY <1>7 DEF InsertUser, InsertFails, GetUserGroups
<1>8. ASSUME NEW m \in Memberships, AddUserToGroup(m)
      PROVE  DoneInv'
  BY <1>8 DEF AddUserToGroup
<1>9. CASE UNCHANGED vars
  BY <1>9 DEF vars
<1>10. QED
  BY <1>1, <1>2, <1>3, <1>4, <1>5, <1>6, <1>7, <1>8, <1>9 DEF Next, Script

\* One page is all there is.
LEMMA WholePage ==
    ASSUME FewUsers, TypeInv, NEW page \in SUBSET keycloak.users,
           \/ page = keycloak.users /\ Cardinality(page) <= Page
           \/ Cardinality(page) = Page
    PROVE  page = keycloak.users
<1>1. page \subseteq keycloak.users /\ keycloak.users \subseteq Users
  BY DEF TypeInv
<1>2. Cardinality(Users) \in Nat /\ Page \in Nat
  BY FS_CardinalityType, RangerSyncAssumption DEF FewUsers
<1>3. Cardinality(page) = Page => page = Users
  BY <1>1, <1>2, FS_Subset, FS_CardinalityType DEF FewUsers
<1>4. QED
  BY <1>1, <1>3

LEMMA CleanNext ==
    ASSUME FewUsers, TypeInv, ShownUsersAreUsers, DoneInv, CleanInv, [Next]_vars
    PROVE  CleanInv'
<1> USE DEF CleanInv, GroupsLeft, RolesLeft, UsersLeft, MembersLeft, Missing, AfterUsers,
            AfterRoles, AfterGroups, Goto, Stay, UsersKept, lists, Fault, NoFault
<1>1. CASE Changes
  BY <1>1, ChangesType
<1>2. CASE Start
  BY <1>2 DEF Start, DoneInv, Idle
<1>3. CASE GetToken \/ FetchGroups \/ FetchRoles
  BY <1>3 DEF GetToken, FetchGroups, FetchRoles
<1>4. CASE FetchUsers
  <2>1. CASE \E page \in SUBSET keycloak.users :
                /\ \/ page = keycloak.users /\ Cardinality(page) <= Page
                   \/ Cardinality(page) = Page
                /\ users' = page
    <3>1. users' = keycloak.users
      BY <2>1, WholePage
    <3>2. \A m \in keycloak.members : m[1] \in keycloak.users
      BY DEF DoneInv
    <3>3. pc = "users" /\ inserting = None /\ UNCHANGED <<keycloak, ranger, groups, roles,
             inserting, grouping, user_group_mappings>>
      BY <1>4 DEF FetchUsers, DoneInv
    <3>4. clean' => clean
      BY <1>4 DEF FetchUsers
    <3>5. QED
      BY <3>1, <3>2, <3>3, <3>4
  <2>2. CASE clean' = FALSE
    BY <2>2
  <2>3. QED
    BY <1>4, <2>1, <2>2 DEF FetchUsers
<1>5. ASSUME NEW g \in Groups, CreateGroup(g)
      PROVE  CleanInv'
  BY <1>5 DEF CreateGroup, TypeInv
<1>6. ASSUME NEW r \in Roles, CreateRole(r)
      PROVE  CleanInv'
  BY <1>6 DEF CreateRole, TypeInv
<1>7. CASE LoopEnds
  BY <1>7 DEF LoopEnds
<1>8. ASSUME NEW u \in Users, SelectUser(u)
      PROVE  CleanInv'
  <2>1. None \notin keycloak.users
    BY RangerSyncAssumption DEF TypeInv
  <2>2. QED
    BY <1>8, <2>1 DEF SelectUser, InUsers, Exists
<1>9. CASE InsertUser
  <2>1. ranger'.portal = ranger.portal \cup {inserting}
        /\ ranger'.groups = ranger.groups /\ ranger'.roles = ranger.roles
        /\ ranger'.members = ranger.members
    BY <1>9 DEF InsertUser, TypeInv
  <2>2. grouping = None
    BY <1>9 DEF InsertUser, DoneInv
  <2>3. QED
    BY <1>9, <2>1, <2>2 DEF InsertUser
<1>10. CASE InsertFails
  BY <1>10 DEF InsertFails
<1>11. CASE GetUserGroups
  BY <1>11 DEF GetUserGroups
<1>12. ASSUME NEW m \in Memberships, AddUserToGroup(m)
       PROVE  CleanInv'
  <2>1. CASE ~clean'
    BY <2>1
  <2>2. CASE clean'
    <3>1. clean /\ pc = "add_users" /\ inserting = None /\ grouping = None
          /\ groups = {} /\ users = {}
      BY <1>12, <2>2 DEF AddUserToGroup, DoneInv
    <3>2. m \in keycloak.members => m[1] \in ranger.users /\ m[2] \in ranger.groups
      <4>1. keycloak.groups \subseteq ranger.groups
        BY <3>1
      <4>2. keycloak.users \subseteq ranger.users
        BY <3>1, RangerSyncAssumption DEF ShownUsersAreUsers, TypeInv
      <4>3. QED
        BY <4>1, <4>2 DEF DoneInv
    <3>3. m \in keycloak.members => m \in ranger'.members
      BY <1>12, <2>2, <3>2 DEF AddUserToGroup, TypeInv
    <3>4. ranger.members \subseteq ranger'.members /\ ranger'.portal = ranger.portal
          /\ ranger'.groups = ranger.groups /\ ranger'.roles = ranger.roles
      BY <1>12 DEF AddUserToGroup, TypeInv
    <3>5. user_group_mappings' = user_group_mappings \ {m}
          /\ UNCHANGED <<keycloak, pc, groups, roles, users, inserting, grouping>>
      BY <1>12 DEF AddUserToGroup
    <3>6. QED
      BY <3>1, <3>3, <3>4, <3>5
  <2>3. QED
    BY <2>1, <2>2
<1>13. CASE Crash
  BY <1>13 DEF Crash
<1>14. CASE UNCHANGED vars
  BY <1>14 DEF vars, aux
<1>15. QED
  BY <1>1, <1>2, <1>3, <1>4, <1>5, <1>6, <1>7, <1>8, <1>9, <1>10, <1>11, <1>12, <1>13, <1>14
     DEF Next, Script

LEMMA CleanCopies ==
    ASSUME TypeInv, ShownUsersAreUsers, DoneInv, CleanInv
    PROVE  CleanRunCopies
<1> SUFFICES ASSUME pc = "success", clean
             PROVE  /\ keycloak.groups \subseteq ranger.groups /\ Roles \subseteq ranger.roles
                    /\ keycloak.users \subseteq ranger.portal \cap ranger.users
                    /\ keycloak.members \subseteq ranger.members
  BY DEF CleanRunCopies
<1>1. groups = {} /\ roles = {} /\ users = {} /\ user_group_mappings = {}
      /\ inserting = None /\ grouping = None
  BY DEF DoneInv, AfterUsers
<1>2. GroupsLeft /\ RolesLeft /\ UsersLeft /\ MembersLeft
  BY DEF CleanInv
<1>3. keycloak.users \subseteq Users /\ None \notin Users
  BY RangerSyncAssumption DEF TypeInv
<1>4. \A m \in keycloak.members : m[1] \in Users
  BY <1>3 DEF DoneInv
<1>5. QED
  BY <1>1, <1>2, <1>3, <1>4
     DEF GroupsLeft, RolesLeft, UsersLeft, MembersLeft, AfterUsers, AfterRoles, AfterGroups,
         ShownUsersAreUsers

\* If Keycloak has no more users than one of its answers holds, a run during
\* which nothing failed or changed copies everything, whatever the runs before
\* it left half done.
THEOREM CleanRunCopiesCorrect ==
    ASSUME FewUsers
    PROVE  Spec => []CleanRunCopies
<1>1. Init => DoneInv /\ CleanInv
  BY DEF Init, DoneInv, CleanInv, AfterUsers, AfterRoles, AfterGroups,
         GroupsLeft, RolesLeft, UsersLeft, MembersLeft, Missing
<1>2. QED
  BY <1>1, TypeCorrect, ShownUsersCorrect, DoneNext, CleanNext, CleanCopies, PTL DEF Spec

-----------------------------------------------------------------------------
(* News *)

LEMMA Bounds ==
    /\ Articles \subseteq Int /\ IsFiniteSet(Articles)
    /\ SeenMax \in Nat /\ AllMax \in Nat /\ SiteMax \in Nat /\ MaxLosses \in Nat
    /\ LastHour \in Nat \ {0}
    /\ Titles # {} /\ Absent \notin Titles /\ Absent \notin [Articles -> 0..2]
BY NewsAssumption

-----------------------------------------------------------------------------
(* Sorted sets *)

\* ZADD: the members of both, with the scores of the first.
LEMMA MergeFacts ==
    ASSUME NEW f, NEW g
    PROVE  /\ DOMAIN Over(f, g) = DOMAIN f \cup DOMAIN g
           /\ \A x \in DOMAIN f : Over(f, g)[x] = f[x]
           /\ \A x \in DOMAIN g \ DOMAIN f : Over(f, g)[x] = g[x]
BY DEF Over

LEMMA MinOfTwo ==
    ASSUME NEW x \in Nat, NEW y \in Nat
    PROVE  Min({x, y}) \in {x, y} /\ Min({x, y}) <= x /\ Min({x, y}) <= y
<1> DEFINE m == IF x <= y THEN x ELSE y
<1>1. m \in {x, y} /\ \A z \in {x, y} : m <= z
  OBVIOUS
<1>2. Min({x, y}) \in {x, y} /\ \A z \in {x, y} : Min({x, y}) <= z
  BY <1>1 DEF Min
<1>3. QED
  BY <1>2

LEMMA TrimRestricts ==
    ASSUME NEW set, NEW max, NEW t \in Trim(set, max)
    PROVE  DOMAIN t \subseteq DOMAIN set /\ \A m \in DOMAIN t : t[m] = set[m]
BY DEF Trim, Restrict

\* The highest scores stay, max of them if there are more.
LEMMA TrimKeeps ==
    ASSUME NEW set, IsFiniteSet(DOMAIN set), NEW max \in Nat, NEW t \in Trim(set, max)
    PROVE  /\ IsFiniteSet(DOMAIN t) /\ Cardinality(DOMAIN t) <= max
           /\ DOMAIN t # DOMAIN set =>
                 /\ Cardinality(DOMAIN t) = max
                 /\ \A m \in DOMAIN t, n \in DOMAIN set \ DOMAIN t : set[m] >= set[n]
<1>1. PICK Q \in SUBSET DOMAIN set :
        /\ Cardinality(Q) = Min({max, Cardinality(DOMAIN set)})
        /\ \A m \in Q, n \in DOMAIN set \ Q : set[m] >= set[n]
        /\ t = Restrict(set, Q)
  BY DEF Trim
<1>2. DOMAIN t = Q
  BY <1>1 DEF Restrict
<1>3. Cardinality(DOMAIN set) \in Nat
  BY FS_CardinalityType
<1>4. IsFiniteSet(Q) /\ (Cardinality(DOMAIN set) = Cardinality(Q) => DOMAIN set = Q)
  BY FS_Subset
<1>5. Cardinality(Q) \in {max, Cardinality(DOMAIN set)} /\ Cardinality(Q) <= max
  BY <1>1, <1>3, MinOfTwo
<1>6. QED
  BY <1>1, <1>2, <1>4, <1>5

-----------------------------------------------------------------------------
(* The types *)

\* What a run has marked, or is going to, it has scraped; it marks at last.
RunOK(run) ==
    /\ run.pipe \subseteq DOMAIN run.batch /\ run.todo \subseteq DOMAIN run.batch
    /\ run.pc # "redis" => run.pipe = {}

RunsOK == \A c \in Crawls : crawls[c] # Absent => RunOK(crawls[c])

NewsTypeInv == NewsTypeOK /\ RunsOK

LEMMA RunType ==
    ASSUME NewsTypeInv, NEW c \in Crawls, crawls[c] # Absent
    PROVE  crawls[c] \in Crawl /\ RunOK(crawls[c])
BY DEF NewsTypeInv, NewsTypeOK, RunsOK, Maybe

LEMMA SomeType ==
    ASSUME NEW S, NEW T, NEW f
    PROVE  f \in Some(S, T) <=> \E R \in SUBSET S : f \in [R -> T]
BY DEF Some

LEMMA BecomesType ==
    ASSUME NewsTypeInv, NEW c \in Crawls, NEW run, Becomes(c, run),
           run = Absent \/ (run \in Crawl /\ RunOK(run))
    PROVE  crawls' \in [Crawls -> Maybe(Crawl)] /\ RunsOK'
BY DEF Becomes, NewsTypeInv, NewsTypeOK, RunsOK, RunOK, Maybe

\* What Execute makes of a list: first the members it adds.
Added(c, l) ==
    [m \in {<<a, crawls[c].batch[a]>> : a \in crawls[c].pipe \cap Of(l)} |-> crawls[c].at]

LEMMA OfArticles ==
    ASSUME NEW l \in Lists
    PROVE  Of(l) \subseteq Articles /\ Length(l) \in Nat
BY Bounds DEF Lists, Of, Articles, Length

LEMMA ExecuteLists ==
    ASSUME NEW c \in Crawls, Execute(c), NEW l \in Lists
    PROVE  news_lists'[l] \in Trim(Over(Added(c, l), news_lists[l]), Length(l))
BY DEF Execute, Added

LEMMA ExecuteArticles ==
    ASSUME NEW c \in Crawls, Execute(c)
    PROVE  /\ DOMAIN articles' = DOMAIN articles \cup crawls[c].pipe
           /\ \A a \in crawls[c].pipe : articles'[a] = crawls[c].at
           /\ \A a \in DOMAIN articles \ crawls[c].pipe : articles'[a] = articles[a]
<1> DEFINE new == [a \in crawls[c].pipe |-> crawls[c].at]
<1>1. articles' = Over(new, articles)
  BY DEF Execute
<1>2. DOMAIN new = crawls[c].pipe /\ \A a \in crawls[c].pipe : new[a] = crawls[c].at
  OBVIOUS
<1> HIDE DEF new
<1>3. QED
  BY <1>1, <1>2 DEF Over

\* The members added are articles of the list with a title.
LEMMA AddedFacts ==
    ASSUME NewsTypeInv, NEW c \in Crawls, crawls[c] # Absent, NEW l \in Lists
    PROVE  /\ DOMAIN Added(c, l) \subseteq Members
           /\ \A m \in DOMAIN Added(c, l) :
                 /\ m[1] \in crawls[c].pipe \cap Of(l)
                 /\ m = <<m[1], crawls[c].batch[m[1]]>>
                 /\ Added(c, l)[m] = crawls[c].at
           /\ \A a \in crawls[c].pipe \cap Of(l) :
                 <<a, crawls[c].batch[a]>> \in DOMAIN Added(c, l)
<1>1. crawls[c].pipe \subseteq DOMAIN crawls[c].batch
      /\ \E R \in SUBSET Articles : crawls[c].batch \in [R -> Titles]
  BY RunType, SomeType DEF Crawl, RunOK
<1>2. \A a \in crawls[c].pipe : a \in Articles /\ crawls[c].batch[a] \in Titles
  BY <1>1
<1>3. QED
  BY <1>2 DEF Added, Members

LEMMA NewsInitType ==
    ASSUME NewsInit
    PROVE  NewsTypeInv
<1>1. FirstTitle \in Titles
  BY Bounds DEF FirstTitle
<1>2. DOMAIN Nothing = {}
  BY DEF Nothing
<1>3. front \in [Articles -> Maybe(Titles)]
  BY <1>1 DEF NewsInit, Maybe
<1>4. QED
  BY <1>2, <1>3, Bounds DEF NewsInit, NewsTypeInv, NewsTypeOK, RunsOK, Maybe, Partial, Time

LEMMA NewsNextType ==
    ASSUME NewsTypeInv, [NewsNext]_newsVars
    PROVE  NewsTypeInv'
<1> USE Bounds
<1>1. CASE Hour
  <2>1. front' \in [Articles -> Maybe(Titles)]
    BY <1>1 DEF Hour, NewsTypeInv, NewsTypeOK
  <2>2. hour' \in Time
    BY <1>1 DEF Hour, NewsTypeInv, NewsTypeOK, Time
  <2>3. QED
    BY <1>1, <2>1, <2>2 DEF Hour, Redis, Aux, NewsTypeInv, NewsTypeOK, RunsOK, RunOK, Partial
<1>2. ASSUME NEW c \in Crawls, Scrape(c)
      PROVE  NewsTypeInv'
  <2>1. PICK got \in SUBSET {a \in Articles : front[a] # Absent} :
          /\ faults' \in {faults, faults + 1}
          /\ Becomes(c, Run(hour, [a \in got |-> front[a]]))
    BY <1>2 DEF Scrape
  <2> DEFINE batch == [a \in got |-> front[a]]
  <2>2. batch \in Some(Articles, Titles) /\ DOMAIN batch = got /\ got \subseteq Articles
    <3>1. got \in SUBSET Articles /\ batch \in [got -> Titles]
      BY DEF NewsTypeInv, NewsTypeOK, Maybe
    <3>2. QED
      BY <3>1, SomeType
  <2> HIDE DEF batch
  <2>3. Run(hour, batch) \in Crawl /\ RunOK(Run(hour, batch))
    BY <2>2 DEF Run, Crawl, RunOK, Maybe, NewsTypeInv, NewsTypeOK
  <2>4. crawls' \in [Crawls -> Maybe(Crawl)] /\ RunsOK'
    BY <2>1, <2>3, BecomesType DEF batch
  <2>5. faults' \in 0..MaxLosses
    BY <1>2, <2>1 DEF Scrape, NewsTypeInv, NewsTypeOK
  <2>6. QED
    BY <1>2, <2>4, <2>5 DEF Scrape, Redis, Aux, NewsTypeInv, NewsTypeOK, Partial
<1>3. ASSUME NEW c \in Crawls, ReadTable(c)
      PROVE  NewsTypeInv'
  <2> DEFINE k == IF table = Absent THEN Absent ELSE {a \in Articles : table[a] > 0}
  <2>1. k \in Maybe(SUBSET Articles)
    BY DEF Maybe
  <2>2. Becomes(c, [crawls[c] EXCEPT !.pc = "read", !.known = k]) /\ crawls[c] # Absent
        /\ crawls[c].pc = "scraped"
    BY <1>3 DEF ReadTable, At
  <2> HIDE DEF k
  <2>3. crawls[c] \in Crawl /\ RunOK(crawls[c])
    BY <2>2, RunType
  <2>4. [crawls[c] EXCEPT !.pc = "read", !.known = k] \in Crawl
        /\ RunOK([crawls[c] EXCEPT !.pc = "read", !.known = k])
    BY <2>1, <2>2, <2>3 DEF Crawl, RunOK
  <2>5. crawls' \in [Crawls -> Maybe(Crawl)] /\ RunsOK'
    BY <2>2, <2>4, BecomesType
  <2>6. QED
    BY <1>3, <2>5 DEF ReadTable, Redis, Aux, NewsTypeInv, NewsTypeOK, Partial
<1>4. ASSUME NEW c \in Crawls, WriteTable(c)
      PROVE  NewsTypeInv'
  <2>1. crawls[c] \in Crawl /\ RunOK(crawls[c]) /\ crawls[c].pc = "read"
    BY <1>4, RunType DEF WriteTable, At
  <2>2. AfterTable(c) \in Crawl /\ RunOK(AfterTable(c))
    BY <2>1 DEF AfterTable, Crawl, RunOK, Maybe
  <2>3. crawls' \in [Crawls -> Maybe(Crawl)] /\ RunsOK'
    BY <1>4, <2>2, BecomesType DEF WriteTable
  <2>4. table' \in Maybe([Articles -> 0..2])
    <3> DEFINE rows == IF table = Absent THEN [a \in Articles |-> 0] ELSE table
    <3>1. rows \in [Articles -> 0..2]
      BY DEF NewsTypeInv, NewsTypeOK, Maybe
    <3> DEFINE new == DOMAIN crawls[c].batch
                       \ (IF crawls[c].known = Absent THEN {} ELSE crawls[c].known)
               more == [a \in Articles |->
                          IF a \in new /\ rows[a] < 2 THEN rows[a] + 1 ELSE rows[a]]
    <3>2. table' = table \/ table' = more
      BY <1>4 DEF WriteTable
    <3> HIDE DEF rows, new
    <3>3. more \in [Articles -> 0..2]
      BY <3>1
    <3>4. QED
      BY <3>2, <3>3 DEF NewsTypeInv, NewsTypeOK, Maybe
  <2>5. QED
    BY <1>4, <2>3, <2>4 DEF WriteTable, Redis, Aux, NewsTypeInv, NewsTypeOK, Partial
<1>5. ASSUME NEW c \in Crawls, NEW a \in Articles, Mark(c, a)
      PROVE  NewsTypeInv'
  <2> DEFINE new == IF a \in DOMAIN seen_ids THEN {} ELSE {a}
             marks == [n \in new |-> crawls[c].at]
             next == [crawls[c] EXCEPT !.todo = @ \ {a}, !.pipe = @ \cup new]
  <2>1. /\ seen_ids' = Over(marks, seen_ids) /\ Becomes(c, next)
        /\ returned' = returned \cup {n \in new : Written(n)}
        /\ crawls[c] # Absent /\ crawls[c].pc = "redis" /\ a \in crawls[c].todo
    BY <1>5 DEF Mark, At, IsFirst
  <2>2. crawls[c] \in Crawl /\ RunOK(crawls[c]) /\ new \subseteq {a}
    BY <2>1, RunType
  <2>3. /\ DOMAIN marks = new /\ \A n \in new : marks[n] = crawls[c].at
        /\ \A n \in new : n \notin DOMAIN seen_ids
    OBVIOUS
  <2> HIDE DEF new, marks
  <2>4. next \in Crawl /\ RunOK(next)
    BY <2>1, <2>2 DEF Crawl, RunOK
  <2> HIDE DEF next
  <2>5. crawls' \in [Crawls -> Maybe(Crawl)] /\ RunsOK'
    BY <2>1, <2>4, BecomesType
  <2>6. Partial(seen_ids', Articles, Time)
    <3>1. DOMAIN seen_ids' = DOMAIN seen_ids \cup new
      BY <2>1, <2>3 DEF Over
    <3>2. /\ \A n \in DOMAIN seen_ids : seen_ids'[n] = seen_ids[n]
          /\ \A n \in new : seen_ids'[n] = crawls[c].at
      BY <2>1, <2>3 DEF Over
    <3>3. QED
      BY <2>2, <3>1, <3>2 DEF Partial, Crawl, NewsTypeInv, NewsTypeOK
  <2>7. QED
    BY <1>5, <2>1, <2>2, <2>5, <2>6 DEF Mark, NewsTypeInv, NewsTypeOK, Partial
<1>6. ASSUME NEW c \in Crawls, Execute(c)
      PROVE  NewsTypeInv'
  <2>1. crawls[c] # Absent /\ crawls[c] \in Crawl /\ RunOK(crawls[c])
    BY <1>6, RunType DEF Execute, At
  <2>2. crawls' \in [Crawls -> Maybe(Crawl)] /\ RunsOK'
    BY <1>6, BecomesType DEF Execute
  <2>3. Partial(seen_ids', Articles, Time)
    BY <1>6, TrimRestricts DEF Execute, Partial, NewsTypeInv, NewsTypeOK
  <2>4. Partial(articles', Articles, Time)
    BY <1>6, <2>1, ExecuteArticles DEF Crawl, RunOK, Partial, NewsTypeInv, NewsTypeOK
  <2>5. ASSUME NEW l \in Lists
        PROVE  Partial(news_lists'[l], Members, Time)
    <3> DEFINE merged == Over(Added(c, l), news_lists[l])
    <3>1. DOMAIN merged \subseteq Members /\ \A m \in DOMAIN merged : merged[m] \in Time
      <4> DEFINE added == Added(c, l)
      <4>1. DOMAIN added \subseteq Members /\ \A m \in DOMAIN added : added[m] \in Time
        BY <2>1, AddedFacts DEF Crawl
      <4>2. DOMAIN news_lists[l] \subseteq Members
            /\ \A m \in DOMAIN news_lists[l] : news_lists[l][m] \in Time
        BY DEF Partial, NewsTypeInv, NewsTypeOK
      <4>3. merged = Over(added, news_lists[l])
        OBVIOUS
      <4> HIDE DEF added, merged
      <4>4. QED
        BY <4>1, <4>2, <4>3 DEF Over
    <3>2. news_lists'[l] \in Trim(merged, Length(l))
      BY <1>6, ExecuteLists
    <3> HIDE DEF merged
    <3>3. QED
      BY <3>1, <3>2, TrimRestricts DEF Partial
  <2>6. QED
    BY <1>6, <2>2, <2>3, <2>4, <2>5 DEF Execute, Aux, NewsTypeInv, NewsTypeOK
<1>7. ASSUME NEW c \in Crawls, Dies(c)
      PROVE  NewsTypeInv'
  <2>1. crawls[c] \in Crawl
    BY <1>7, RunType DEF Dies
  <2>2. crawls' \in [Crawls -> Maybe(Crawl)] /\ RunsOK'
    BY <1>7, BecomesType DEF Dies
  <2>3. faults' \in 0..MaxLosses /\ lost' \subseteq Articles
    BY <1>7, <2>1 DEF Dies, Crawl, NewsTypeInv, NewsTypeOK
  <2>4. QED
    BY <1>7, <2>2, <2>3 DEF Dies, Redis, NewsTypeInv, NewsTypeOK, Partial
<1>8. CASE UNCHANGED newsVars
  BY <1>8 DEF newsVars, Redis, Aux, NewsTypeInv, NewsTypeOK, RunsOK, RunOK, Partial
<1>9. QED
  BY <1>1, <1>2, <1>3, <1>4, <1>5, <1>6, <1>7, <1>8 DEF NewsNext

\* Every variable of the crawler, and of its stores, keeps its type.
THEOREM NewsTypeCorrect == NewsSpec => []NewsTypeOK
<1>1. NewsTypeInv => NewsTypeOK
  BY DEF NewsTypeInv
<1>2. QED
  BY <1>1, NewsInitType, NewsNextType, PTL DEF NewsSpec

-----------------------------------------------------------------------------
(* The stores *)

InTable(a) == table # Absent /\ table[a] > 0

\* A run comes to Redis with articles that the table has.
TableInv ==
    /\ \A a \in DOMAIN articles : InTable(a)
    /\ \A c \in Crawls : crawls[c] # Absent =>
          /\ crawls[c].pc = "redis" => \A a \in DOMAIN crawls[c].batch : InTable(a)
          /\ crawls[c].pc = "read" /\ crawls[c].known # Absent =>
                \A a \in crawls[c].known : InTable(a)

LEMMA BecomesOther ==
    ASSUME NewsTypeInv, NEW c \in Crawls, NEW run, Becomes(c, run)
    PROVE  crawls'[c] = run /\ \A d \in Crawls \ {c} : crawls'[d] = crawls[d]
BY DEF Becomes, NewsTypeInv, NewsTypeOK

LEMMA BatchArticles ==
    ASSUME NewsTypeInv, NEW c \in Crawls, crawls[c] # Absent
    PROVE  DOMAIN crawls[c].batch \subseteq Articles
BY RunType, SomeType DEF Crawl

\* What Mark does: the article is in the pipeline if its id was new.
MarkNew(a) == IF a \in DOMAIN seen_ids THEN {} ELSE {a}

LEMMA MarkFacts ==
    ASSUME NewsTypeInv, NEW c \in Crawls, NEW a \in Articles, Mark(c, a)
    PROVE  /\ crawls[c] # Absent /\ crawls'[c] # Absent /\ a \in crawls[c].todo
           /\ crawls[c].pc = "redis" /\ crawls'[c].pc = "redis"
           /\ crawls'[c].batch = crawls[c].batch /\ crawls'[c].at = crawls[c].at
           /\ crawls'[c].pipe = crawls[c].pipe \cup MarkNew(a)
           /\ DOMAIN seen_ids' = DOMAIN seen_ids \cup MarkNew(a)
           /\ returned' = returned \cup {n \in MarkNew(a) : Written(n)}
           /\ \A d \in Crawls \ {c} : crawls'[d] = crawls[d]
<1> DEFINE new == MarkNew(a)
           marks == [n \in new |-> crawls[c].at]
           next == [crawls[c] EXCEPT !.todo = @ \ {a}, !.pipe = @ \cup new]
<1>1. /\ seen_ids' = Over(marks, seen_ids) /\ Becomes(c, next)
      /\ returned' = returned \cup {n \in new : Written(n)}
      /\ crawls[c] # Absent /\ crawls[c].pc = "redis" /\ a \in crawls[c].todo
  BY DEF Mark, At, IsFirst, MarkNew
<1>2. crawls[c] \in Crawl
  BY <1>1, RunType
<1>3. DOMAIN marks = new /\ new \subseteq {a}
  BY DEF MarkNew
<1> HIDE DEF new, marks
<1>4. /\ next \in Crawl /\ next.pc = "redis" /\ next.batch = crawls[c].batch
      /\ next.at = crawls[c].at /\ next.pipe = crawls[c].pipe \cup new
  BY <1>1, <1>2, <1>3 DEF Crawl
<1> HIDE DEF next
<1>5. crawls'[c] = next /\ \A d \in Crawls \ {c} : crawls'[d] = crawls[d]
  BY <1>1, BecomesOther
<1>6. DOMAIN seen_ids' = DOMAIN seen_ids \cup new
  BY <1>1, <1>3 DEF Over
<1>7. QED
  BY <1>1, <1>4, <1>5, <1>6, CrawlAssumption DEF new

\* The table after a run has appended what it did not find.
LEMMA WriteTableRows ==
    ASSUME NewsTypeInv, TableInv, NEW c \in Crawls, WriteTable(c)
    PROVE  /\ \A a \in Articles : InTable(a) => InTable(a)'
           /\ crawls'[c] # Absent => \A a \in DOMAIN crawls[c].batch : InTable(a)'
<1> USE Bounds
<1> DEFINE rows == IF table = Absent THEN [a \in Articles |-> 0] ELSE table
           known == crawls[c].known
           new == DOMAIN crawls[c].batch \ (IF known = Absent THEN {} ELSE known)
           more == [a \in Articles |->
                      IF a \in new /\ rows[a] < 2 THEN rows[a] + 1 ELSE rows[a]]
<1>1. rows \in [Articles -> 0..2] /\ \A a \in Articles : InTable(a) => rows[a] > 0
  BY DEF NewsTypeInv, NewsTypeOK, Maybe, InTable
<1>2. \/ Becomes(c, Absent) /\ table' = table
      \/ table' = more
  BY DEF WriteTable
<1>3. crawls[c] # Absent /\ crawls[c].pc = "read"
  BY DEF WriteTable, At
<1>4. known # Absent => \A a \in known : InTable(a)
  BY <1>3 DEF TableInv
<1>5. \A a \in DOMAIN crawls[c].batch : a \in new \/ InTable(a)
  BY <1>4
<1>6. DOMAIN crawls[c].batch \subseteq Articles
  BY <1>3, BatchArticles
<1> HIDE DEF rows, known, new
<1>7. CASE table' = more
  <2>1. more \in [Articles -> 0..2]
    BY <1>1
  <2>2. \A a \in Articles : a \in new \/ rows[a] > 0 => more[a] > 0
    BY <1>1
  <2> HIDE DEF more
  <2>3. table' # Absent
    BY <1>7, <2>1
  <2>4. QED
    BY <1>1, <1>5, <1>6, <1>7, <2>2, <2>3 DEF InTable
<1>8. CASE Becomes(c, Absent) /\ table' = table
  BY <1>8, BecomesOther DEF InTable
<1>9. QED
  BY <1>2, <1>7, <1>8

LEMMA TableNext ==
    ASSUME NewsTypeInv, TableInv, [NewsNext]_newsVars
    PROVE  TableInv'
<1>1. CASE Hour
  BY <1>1 DEF Hour, Redis, TableInv, InTable
<1>2. ASSUME NEW c \in Crawls, Scrape(c)
      PROVE  TableInv'
  <2>1. PICK got : Becomes(c, Run(hour, [a \in got |-> front[a]]))
    BY <1>2 DEF Scrape
  <2>2. crawls'[c].pc = "scraped" /\ \A d \in Crawls \ {c} : crawls'[d] = crawls[d]
    BY <2>1, BecomesOther DEF Run
  <2>3. QED
    BY <1>2, <2>2 DEF Scrape, Redis, TableInv, InTable
<1>3. ASSUME NEW c \in Crawls, ReadTable(c)
      PROVE  TableInv'
  <2> DEFINE k == IF table = Absent THEN Absent ELSE {a \in Articles : table[a] > 0}
  <2>1. k # Absent => \A a \in k : InTable(a)
    BY DEF InTable
  <2>2. Becomes(c, [crawls[c] EXCEPT !.pc = "read", !.known = k]) /\ crawls[c] # Absent
    BY <1>3 DEF ReadTable, At
  <2> HIDE DEF k
  <2>3. crawls[c] \in Crawl
    BY <2>2, RunType
  <2> DEFINE run == [crawls[c] EXCEPT !.pc = "read", !.known = k]
  <2>6. run.pc = "read" /\ run.known = k
    BY <2>3 DEF Crawl
  <2>7. Becomes(c, run)
    BY <2>2
  <2> HIDE DEF run
  <2>4. /\ crawls'[c].pc = "read" /\ crawls'[c].known = k
        /\ \A d \in Crawls \ {c} : crawls'[d] = crawls[d]
    BY <2>6, <2>7, BecomesOther
  <2>5. QED
    BY <1>3, <2>1, <2>4 DEF ReadTable, Redis, TableInv, InTable
<1>4. ASSUME NEW c \in Crawls, WriteTable(c)
      PROVE  TableInv'
  <2>1. crawls[c] # Absent /\ crawls[c] \in Crawl
    BY <1>4, RunType DEF WriteTable, At
  <2>2. AfterTable(c).pc = "redis" /\ AfterTable(c).batch = crawls[c].batch
    BY <2>1 DEF AfterTable, Crawl
  <2>3. /\ crawls'[c] = Absent \/ crawls'[c] = AfterTable(c)
        /\ \A d \in Crawls \ {c} : crawls'[d] = crawls[d]
    BY <1>4, BecomesOther DEF WriteTable
  <2>4. /\ \A a \in Articles : InTable(a) => InTable(a)'
        /\ crawls'[c] # Absent => \A a \in DOMAIN crawls[c].batch : InTable(a)'
    BY <1>4, WriteTableRows
  <2>5. /\ \A a \in DOMAIN articles : a \in Articles
        /\ \A d \in Crawls : crawls[d] # Absent =>
              /\ DOMAIN crawls[d].batch \subseteq Articles
              /\ crawls[d].known # Absent => crawls[d].known \subseteq Articles
    BY RunType, BatchArticles DEF NewsTypeInv, NewsTypeOK, Partial, Crawl, Maybe
  <2>6. \A a \in DOMAIN articles' : InTable(a)'
    BY <1>4, <2>4, <2>5 DEF WriteTable, Redis, TableInv
  <2>7. ASSUME NEW d \in Crawls, crawls'[d] # Absent
        PROVE  /\ crawls'[d].pc = "redis" => \A a \in DOMAIN crawls'[d].batch : InTable(a)'
               /\ crawls'[d].pc = "read" /\ crawls'[d].known # Absent =>
                     \A a \in crawls'[d].known : InTable(a)'
    <3>1. CASE d = c
      BY <2>2, <2>3, <2>4, <2>7, <3>1
    <3>2. CASE d # c
      BY <2>3, <2>4, <2>5, <2>7, <3>2 DEF TableInv
    <3>3. QED
      BY <3>1, <3>2
  <2>8. QED
    BY <2>6, <2>7 DEF TableInv
<1>5. ASSUME NEW c \in Crawls, NEW a \in Articles, Mark(c, a)
      PROVE  TableInv'
  <2>2. crawls[c] # Absent /\ crawls[c].pc = "redis"
    BY <1>5 DEF Mark, At
  <2>3. /\ crawls'[c].pc = "redis" /\ crawls'[c].batch = crawls[c].batch
        /\ \A d \in Crawls \ {c} : crawls'[d] = crawls[d]
    BY <1>5, MarkFacts
  <2>4. QED
    BY <1>5, <2>2, <2>3 DEF Mark, TableInv, InTable
<1>6. ASSUME NEW c \in Crawls, Execute(c)
      PROVE  TableInv'
  <2>1. crawls[c] # Absent /\ crawls[c].pc = "redis" /\ RunOK(crawls[c])
    BY <1>6, RunType DEF Execute, At
  <2>2. crawls'[c] = Absent /\ \A d \in Crawls \ {c} : crawls'[d] = crawls[d]
    BY <1>6, BecomesOther DEF Execute
  <2>3. \A a \in DOMAIN articles' : InTable(a)
    BY <1>6, <2>1, ExecuteArticles DEF TableInv, RunOK
  <2>4. QED
    BY <1>6, <2>2, <2>3 DEF Execute, TableInv, InTable
<1>7. ASSUME NEW c \in Crawls, Dies(c)
      PROVE  TableInv'
  <2>1. crawls'[c] = Absent /\ \A d \in Crawls \ {c} : crawls'[d] = crawls[d]
    BY <1>7, BecomesOther DEF Dies
  <2>2. QED
    BY <1>7, <2>1 DEF Dies, Redis, TableInv, InTable
<1>8. CASE UNCHANGED newsVars
  BY <1>8 DEF newsVars, TableInv, InTable
<1>9. QED
  BY <1>1, <1>2, <1>3, <1>4, <1>5, <1>6, <1>7, <1>8 DEF NewsNext

\* An id that leaves the pipelines is in the article keys, or lost.
LEMMA MarkedNext ==
    ASSUME NewsTypeInv, MarkedIsWritten, [NewsNext]_newsVars
    PROVE  MarkedIsWritten'
<1>1. ASSUME NEW c \in Crawls, crawls[c] # Absent => crawls[c].pipe \subseteq DOMAIN articles' \cup lost',
             DOMAIN seen_ids' \subseteq DOMAIN seen_ids,
             DOMAIN articles \subseteq DOMAIN articles', lost \subseteq lost',
             \A d \in Crawls \ {c} : crawls'[d] = crawls[d]
      PROVE  MarkedIsWritten'
  BY <1>1 DEF MarkedIsWritten
<1>2. CASE Hour
  BY <1>2 DEF Hour, Redis, Aux, MarkedIsWritten
<1>3. ASSUME NEW c \in Crawls, Scrape(c)
      PROVE  MarkedIsWritten'
  <2>1. PICK got : Becomes(c, Run(hour, [a \in got |-> front[a]]))
    BY <1>3 DEF Scrape
  <2>2. crawls[c] = Absent /\ \A d \in Crawls \ {c} : crawls'[d] = crawls[d]
    BY <1>3, <2>1, BecomesOther DEF Scrape
  <2>3. QED
    BY <1>1, <1>3, <2>2 DEF Scrape, Redis, Aux
<1>4. ASSUME NEW c \in Crawls, ReadTable(c)
      PROVE  MarkedIsWritten'
  <2>1. PICK run : Becomes(c, run)
    BY <1>4 DEF ReadTable
  <2>2. crawls[c].pipe = {}
    BY <1>4, RunType DEF ReadTable, At, RunOK
  <2>3. \A d \in Crawls \ {c} : crawls'[d] = crawls[d]
    BY <2>1, BecomesOther
  <2>4. QED
    BY <1>1, <1>4, <2>2, <2>3 DEF ReadTable, Redis, Aux
<1>5. ASSUME NEW c \in Crawls, WriteTable(c)
      PROVE  MarkedIsWritten'
  <2>1. PICK run : Becomes(c, run)
    BY <1>5 DEF WriteTable
  <2>2. crawls[c].pipe = {}
    BY <1>5, RunType DEF WriteTable, At, RunOK
  <2>3. \A d \in Crawls \ {c} : crawls'[d] = crawls[d]
    BY <2>1, BecomesOther
  <2>4. QED
    BY <1>1, <1>5, <2>2, <2>3 DEF WriteTable, Redis, Aux
<1>6. ASSUME NEW c \in Crawls, NEW a \in Articles, Mark(c, a)
      PROVE  MarkedIsWritten'
  <2>1. UNCHANGED <<articles, lost>>
    BY <1>6 DEF Mark
  <2>2. /\ crawls[c] # Absent /\ crawls'[c] # Absent
        /\ crawls'[c].pipe = crawls[c].pipe \cup MarkNew(a)
        /\ DOMAIN seen_ids' = DOMAIN seen_ids \cup MarkNew(a)
        /\ \A d \in Crawls \ {c} : crawls'[d] = crawls[d]
    BY <1>6, MarkFacts
  <2>3. ASSUME NEW b \in DOMAIN seen_ids',
               b \notin DOMAIN articles \cup lost
        PROVE  \E d \in Crawls : crawls'[d] # Absent /\ b \in crawls'[d].pipe
    <3>1. CASE b \in MarkNew(a)
      BY <2>2, <3>1
    <3>2. CASE b \in DOMAIN seen_ids
      <4>1. PICK d \in Crawls : crawls[d] # Absent /\ b \in crawls[d].pipe
        BY <2>3, <3>2 DEF MarkedIsWritten
      <4>2. crawls'[d] # Absent /\ b \in crawls'[d].pipe
        BY <2>2, <4>1
      <4>3. QED
        BY <4>2
    <3>3. QED
      BY <2>2, <2>3, <3>1, <3>2
  <2>4. QED
    BY <2>1, <2>3 DEF MarkedIsWritten
<1>7. ASSUME NEW c \in Crawls, Execute(c)
      PROVE  MarkedIsWritten'
  <2>1. \A d \in Crawls \ {c} : crawls'[d] = crawls[d]
    BY <1>7, BecomesOther DEF Execute
  <2>2. DOMAIN seen_ids' \subseteq DOMAIN seen_ids
    BY <1>7, TrimRestricts DEF Execute
  <2>3. QED
    BY <1>1, <1>7, <2>1, <2>2, ExecuteArticles DEF Execute, Aux
<1>8. ASSUME NEW c \in Crawls, Dies(c)
      PROVE  MarkedIsWritten'
  <2>1. \A d \in Crawls \ {c} : crawls'[d] = crawls[d]
    BY <1>8, BecomesOther DEF Dies
  <2>2. QED
    BY <1>1, <1>8, <2>1 DEF Dies, Redis
<1>9. CASE UNCHANGED newsVars
  BY <1>9 DEF newsVars, Redis, Aux, MarkedIsWritten
<1>10. QED
  BY <1>2, <1>3, <1>4, <1>5, <1>6, <1>7, <1>8, <1>9 DEF NewsNext

\* What one store has, the store that is written before it has too: an id that
\* is marked has its article, or a run that is going to write it, and what
\* Redis shows, the lakehouse has.
THEOREM StoresAgreeCorrect == NewsSpec => []StoresAgree
<1>1. NewsInit => NewsTypeInv /\ TableInv /\ MarkedIsWritten
  BY NewsInitType DEF NewsInit, TableInv, MarkedIsWritten, Nothing
<1>2. NewsTypeInv /\ TableInv /\ MarkedIsWritten /\ [NewsNext]_newsVars
      => (NewsTypeInv /\ TableInv /\ MarkedIsWritten)'
  BY NewsNextType, TableNext, MarkedNext
<1>3. TableInv /\ MarkedIsWritten => StoresAgree
  BY DEF StoresAgree, LakehouseHasAll, TableInv, InTable
<1>4. QED
  BY <1>1, <1>2, <1>3, PTL DEF NewsSpec

-----------------------------------------------------------------------------
(* The lists *)

PipeOf(c) == IF crawls[c] = Absent THEN {} ELSE crawls[c].pipe

\* All that the lists depend on changes when a run marks, or executes.
LEMMA Steps ==
    ASSUME NewsTypeInv, [NewsNext]_newsVars
    PROVE  \/ /\ UNCHANGED <<news_lists, articles, returned>>
              /\ \A c \in Crawls : PipeOf(c)' \subseteq PipeOf(c)
           \/ \E c \in Crawls, a \in Articles : Mark(c, a)
           \/ \E c \in Crawls : Execute(c)
<1> DEFINE Same == \A c \in Crawls : PipeOf(c)' \subseteq PipeOf(c)
<1>1. ASSUME NEW c \in Crawls, NEW run, Becomes(c, run),
             run = Absent \/ run.pipe \subseteq PipeOf(c)
      PROVE  Same
  BY <1>1, BecomesOther DEF PipeOf
<1>2. CASE Hour
  BY <1>2 DEF Hour, Redis, Aux, PipeOf
<1>3. ASSUME NEW c \in Crawls, Scrape(c)
      PROVE  UNCHANGED <<news_lists, articles, returned>> /\ Same
  <2>1. PICK got : Becomes(c, Run(hour, [a \in got |-> front[a]]))
    BY <1>3 DEF Scrape
  <2>2. Run(hour, [a \in got |-> front[a]]).pipe = {}
    BY DEF Run
  <2>3. QED
    BY <1>1, <1>3, <2>1, <2>2 DEF Scrape, Redis, Aux
<1>4. ASSUME NEW c \in Crawls, ReadTable(c)
      PROVE  UNCHANGED <<news_lists, articles, returned>> /\ Same
  <2> DEFINE k == IF table = Absent THEN Absent ELSE {a \in Articles : table[a] > 0}
             run == [crawls[c] EXCEPT !.pc = "read", !.known = k]
  <2>1. Becomes(c, run) /\ crawls[c] # Absent
    BY <1>4 DEF ReadTable, At
  <2>2. crawls[c] \in Crawl
    BY <2>1, RunType
  <2> HIDE DEF k
  <2>3. run.pipe = crawls[c].pipe
    BY <2>2 DEF Crawl
  <2> HIDE DEF run
  <2>4. run.pipe \subseteq PipeOf(c)
    BY <2>1, <2>3 DEF PipeOf
  <2>5. Same
    BY <1>1, <2>1, <2>4
  <2>6. QED
    BY <1>4, <2>5 DEF ReadTable, Redis, Aux
<1>5. ASSUME NEW c \in Crawls, WriteTable(c)
      PROVE  UNCHANGED <<news_lists, articles, returned>> /\ Same
  <2>1. crawls[c] # Absent /\ crawls[c] \in Crawl
    BY <1>5, RunType DEF WriteTable, At
  <2>2. AfterTable(c).pipe = PipeOf(c)
    BY <2>1 DEF AfterTable, Crawl, PipeOf
  <2>3. Becomes(c, Absent) \/ Becomes(c, AfterTable(c))
    BY <1>5 DEF WriteTable
  <2>4. Same
    BY <1>1, <2>2, <2>3
  <2>5. QED
    BY <1>5, <2>4 DEF WriteTable, Redis, Aux
<1>6. ASSUME NEW c \in Crawls, Dies(c)
      PROVE  UNCHANGED <<news_lists, articles, returned>> /\ Same
  BY <1>1, <1>6 DEF Dies, Redis
<1>7. CASE UNCHANGED newsVars
  BY <1>7 DEF newsVars, Redis, Aux, PipeOf
<1>8. QED
  BY <1>2, <1>3, <1>4, <1>5, <1>6, <1>7 DEF NewsNext

\* An article that has not come back is in one pipeline, or was written; what
\* a list shows was written, and is of the list.
Fresh ==
    /\ \A c \in Crawls : \A a \in PipeOf(c) : a \notin returned =>
          /\ a \notin DOMAIN articles
          /\ \A d \in Crawls \ {c} : a \notin PipeOf(d)
    /\ \A l \in Lists : \A m \in DOMAIN news_lists[l] : m[1] \in Of(l) \cap DOMAIN articles

\* What Mark and Execute do to the pipelines.
LEMMA MarkPipes ==
    ASSUME NewsTypeInv, NEW c \in Crawls, NEW a \in Articles, Mark(c, a)
    PROVE  /\ PipeOf(c)' = PipeOf(c) \cup MarkNew(a)
           /\ \A d \in Crawls \ {c} : PipeOf(d)' = PipeOf(d)
           /\ UNCHANGED <<news_lists, articles>>
           /\ returned' = returned \cup {n \in MarkNew(a) : Written(n)}
BY MarkFacts DEF PipeOf, Mark

LEMMA ExecutePipes ==
    ASSUME NewsTypeInv, NEW c \in Crawls, Execute(c)
    PROVE  /\ crawls[c] # Absent /\ PipeOf(c) = crawls[c].pipe
           /\ PipeOf(c)' = {} /\ \A d \in Crawls \ {c} : PipeOf(d)' = PipeOf(d)
           /\ DOMAIN articles' = DOMAIN articles \cup PipeOf(c)
           /\ returned' = returned
<1>1. crawls[c] # Absent /\ Becomes(c, Absent) /\ returned' = returned
  BY DEF Execute, At, Aux
<1>2. crawls'[c] = Absent /\ \A d \in Crawls \ {c} : crawls'[d] = crawls[d]
  BY <1>1, BecomesOther
<1>3. QED
  BY <1>1, <1>2, ExecuteArticles DEF PipeOf

LEMMA FreshNext ==
    ASSUME NewsTypeInv, Fresh, [NewsNext]_newsVars
    PROVE  Fresh'
<1>1. CASE /\ UNCHANGED <<news_lists, articles, returned>>
           /\ \A c \in Crawls : PipeOf(c)' \subseteq PipeOf(c)
  BY <1>1 DEF Fresh
<1>2. ASSUME NEW c \in Crawls, NEW a \in Articles, Mark(c, a)
      PROVE  Fresh'
  <2>1. /\ PipeOf(c)' = PipeOf(c) \cup MarkNew(a)
        /\ \A d \in Crawls \ {c} : PipeOf(d)' = PipeOf(d)
        /\ UNCHANGED <<news_lists, articles>>
        /\ returned' = returned \cup {n \in MarkNew(a) : Written(n)}
    BY <1>2, MarkPipes
  <2>2. ASSUME NEW n \in MarkNew(a), n \notin returned'
        PROVE  n \notin DOMAIN articles /\ \A d \in Crawls : n \notin PipeOf(d)
    BY <2>1, <2>2 DEF Written, PipeOf
  <2>3. ASSUME NEW d \in Crawls, NEW b \in PipeOf(d)', b \notin returned'
        PROVE  b \notin DOMAIN articles' /\ \A e \in Crawls \ {d} : b \notin PipeOf(e)'
    <3>1. CASE b \in MarkNew(a)
      <4>1. d = c
        BY <2>1, <2>2, <2>3, <3>1
      <4>2. QED
        BY <2>1, <2>2, <2>3, <3>1, <4>1
    <3>2. CASE b \notin MarkNew(a)
      <4>1. b \in PipeOf(d) /\ b \notin returned
        BY <2>1, <2>3, <3>2
      <4>2. \A e \in Crawls : b \in PipeOf(e)' => b \in PipeOf(e)
        BY <2>1, <3>2
      <4>3. QED
        BY <2>1, <4>1, <4>2 DEF Fresh
    <3>3. QED
      BY <3>1, <3>2
  <2>4. QED
    BY <2>1, <2>3 DEF Fresh
<1>3. ASSUME NEW c \in Crawls, Execute(c)
      PROVE  Fresh'
  <2>1. /\ crawls[c] # Absent /\ PipeOf(c) = crawls[c].pipe
        /\ PipeOf(c)' = {} /\ \A d \in Crawls \ {c} : PipeOf(d)' = PipeOf(d)
        /\ DOMAIN articles' = DOMAIN articles \cup PipeOf(c)
        /\ returned' = returned
    BY <1>3, ExecutePipes
  <2>2. ASSUME NEW l \in Lists, NEW m \in DOMAIN news_lists'[l]
        PROVE  m[1] \in Of(l) \cap DOMAIN articles'
    <3>1. m \in DOMAIN Over(Added(c, l), news_lists[l])
      BY <1>3, <2>2, ExecuteLists, TrimRestricts
    <3>2. m \in DOMAIN Added(c, l) \/ m \in DOMAIN news_lists[l]
      BY <3>1 DEF Over
    <3>3. QED
      BY <2>1, <3>2, AddedFacts DEF Fresh
  <2>3. \A d \in Crawls : \A a \in PipeOf(d)' : a \notin returned' =>
          a \notin DOMAIN articles' /\ \A e \in Crawls \ {d} : a \notin PipeOf(e)'
    BY <2>1 DEF Fresh
  <2>4. QED
    BY <2>2, <2>3 DEF Fresh
<1>4. QED
  BY <1>1, <1>2, <1>3, Steps

LEMMA OnceNext ==
    ASSUME NewsTypeInv, Fresh, ListedOnce, [NewsNext]_newsVars
    PROVE  ListedOnce'
<1>1. CASE UNCHANGED <<news_lists, articles, returned>>
  BY <1>1 DEF ListedOnce
<1>2. ASSUME NEW c \in Crawls, NEW a \in Articles, Mark(c, a)
      PROVE  ListedOnce'
  BY <1>2, MarkPipes DEF ListedOnce
<1>3. ASSUME NEW c \in Crawls, Execute(c)
      PROVE  ListedOnce'
  <2>1. crawls[c] # Absent /\ PipeOf(c) = crawls[c].pipe /\ returned' = returned
    BY <1>3, ExecutePipes
  <2>2. ASSUME NEW l \in Lists, NEW m \in DOMAIN news_lists'[l], NEW n \in DOMAIN news_lists'[l],
               m[1] = n[1], m[1] \notin returned'
        PROVE  m = n
    <3>1. {m, n} \subseteq DOMAIN Over(Added(c, l), news_lists[l])
      BY <1>3, <2>2, ExecuteLists, TrimRestricts
    <3>2. \A k \in {m, n} : k \in DOMAIN Added(c, l) \/ k \in DOMAIN news_lists[l]
      BY <3>1 DEF Over
    <3>3. \A k \in DOMAIN Added(c, l) :
            k[1] \in PipeOf(c) /\ k = <<k[1], crawls[c].batch[k[1]]>>
      BY <2>1, AddedFacts
    <3>4. \A k \in DOMAIN news_lists[l] : k[1] \in DOMAIN articles
      BY DEF Fresh
    <3>5. m[1] \in PipeOf(c) => m[1] \notin DOMAIN articles
      BY <2>1, <2>2 DEF Fresh
    <3>6. CASE m \in DOMAIN Added(c, l)
      BY <2>2, <3>2, <3>3, <3>4, <3>5, <3>6
    <3>7. CASE m \in DOMAIN news_lists[l]
      <4>1. n \in DOMAIN news_lists[l]
        BY <2>2, <3>2, <3>3, <3>4, <3>5, <3>7
      <4>2. QED
        BY <2>1, <2>2, <3>7, <4>1 DEF ListedOnce
    <3>8. QED
      BY <3>2, <3>6, <3>7
  <2>3. QED
    BY <2>2 DEF ListedOnce
<1>4. QED
  BY <1>1, <1>2, <1>3, Steps

LEMMA NewsInitFresh ==
    ASSUME NewsInit
    PROVE  Fresh /\ ListedOnce
BY DEF NewsInit, Fresh, ListedOnce, PipeOf, Nothing

\* However many runs overlap, and whatever becomes of the titles meanwhile, a
\* list has an article once, unless its id had been forgotten when it came back.
THEOREM ListedOnceCorrect == NewsSpec => []ListedOnce
<1>1. NewsInit => NewsTypeInv /\ Fresh /\ ListedOnce
  BY NewsInitType, NewsInitFresh
<1>2. NewsTypeInv /\ Fresh /\ ListedOnce /\ [NewsNext]_newsVars => (NewsTypeInv /\ Fresh /\ ListedOnce)'
  BY NewsNextType, FreshNext, OnceNext
<1>3. QED
  BY <1>1, <1>2, PTL DEF NewsSpec

-----------------------------------------------------------------------------
(* What the lists lose *)

LEMMA AddedFinite ==
    ASSUME NewsTypeInv, NEW c \in Crawls, crawls[c] # Absent, NEW l \in Lists
    PROVE  IsFiniteSet(DOMAIN Added(c, l))
<1> DEFINE S == crawls[c].pipe \cap Of(l)
           f == [a \in S |-> <<a, crawls[c].batch[a]>>]
<1>1. IsFiniteSet(S)
  <2>1. S \in SUBSET Articles
    BY OfArticles
  <2>2. QED
    BY <2>1, Bounds, FS_Subset
<1>2. f \in Surjection(S, DOMAIN Added(c, l))
  BY DEF Surjection, Added
<1>3. QED
  BY <1>1, <1>2, FS_Surjection

\* A list is finite and no longer than it may be.
Short ==
    \A l \in Lists : /\ IsFiniteSet(DOMAIN news_lists[l])
                     /\ Cardinality(DOMAIN news_lists[l]) <= Length(l)

LEMMA ShortNext ==
    ASSUME NewsTypeInv, Short, [NewsNext]_newsVars
    PROVE  Short'
<1>1. CASE UNCHANGED news_lists
  BY <1>1 DEF Short
<1>2. ASSUME NEW c \in Crawls, Execute(c)
      PROVE  Short'
  <2>1. ASSUME NEW l \in Lists
        PROVE  /\ IsFiniteSet(DOMAIN news_lists'[l])
               /\ Cardinality(DOMAIN news_lists'[l]) <= Length(l)
    <3> DEFINE merged == Over(Added(c, l), news_lists[l])
    <3>1. DOMAIN merged = DOMAIN Added(c, l) \cup DOMAIN news_lists[l]
      BY DEF Over
    <3>2. IsFiniteSet(DOMAIN merged)
      <4>1. IsFiniteSet(DOMAIN Added(c, l)) /\ IsFiniteSet(DOMAIN news_lists[l])
        BY <1>2, AddedFinite, ExecutePipes DEF Short
      <4>2. QED
        BY <3>1, <4>1, FS_Union
    <3>3. news_lists'[l] \in Trim(merged, Length(l)) /\ Length(l) \in Nat
      BY <1>2, ExecuteLists, OfArticles
    <3> HIDE DEF merged
    <3>4. QED
      BY <3>2, <3>3, TrimKeeps
  <2>2. QED
    BY <2>1 DEF Short
<1>3. QED
  BY <1>1, <1>2, Steps, MarkPipes

\* All scores of a full list are at least t.
Full(list, max, t) ==
    Cardinality(DOMAIN list) = max /\ \A m \in DOMAIN list : list[m] >= t

Shows(list, a) == \E m \in DOMAIN list : m[1] = a

\* A list with which no article came back: its scores are those of the
\* articles, and it lost only what was no newer than all that it shows.
Newest(l) ==
    /\ \A m \in DOMAIN news_lists[l] : news_lists[l][m] = articles[m[1]]
    /\ \A a \in Of(l) \cap DOMAIN articles :
          Shows(news_lists[l], a) \/ Full(news_lists[l], Length(l), articles[a])

\* Members with at least the score t fill a sorted set: they fill what is left
\* of it, with others, when it is trimmed.
LEMMA TrimStaysFull ==
    ASSUME NEW set, IsFiniteSet(DOMAIN set), \A m \in DOMAIN set : set[m] \in Int,
           NEW max \in Nat, NEW tr \in Trim(set, max), NEW t \in Int,
           NEW Q \in SUBSET DOMAIN set, Cardinality(Q) = max,
           \A m \in Q : set[m] >= t
    PROVE  Full(tr, max, t)
<1>1. /\ IsFiniteSet(DOMAIN tr) /\ Cardinality(DOMAIN tr) <= max
      /\ DOMAIN tr # DOMAIN set =>
            /\ Cardinality(DOMAIN tr) = max
            /\ \A m \in DOMAIN tr, n \in DOMAIN set \ DOMAIN tr : set[m] >= set[n]
  BY TrimKeeps
<1>2. DOMAIN tr \subseteq DOMAIN set /\ \A m \in DOMAIN tr : tr[m] = set[m]
  BY TrimRestricts
<1>3. CASE Q \subseteq DOMAIN tr
  <2>1. Cardinality(Q) <= Cardinality(DOMAIN tr)
        /\ (Cardinality(DOMAIN tr) = Cardinality(Q) => DOMAIN tr = Q)
    BY <1>1, <1>3, FS_Subset
  <2>2. Cardinality(DOMAIN tr) \in Nat
    BY <1>1, FS_CardinalityType
  <2>3. Cardinality(DOMAIN tr) = max /\ DOMAIN tr = Q
    BY <1>1, <2>1, <2>2
  <2>4. QED
    BY <1>2, <2>3 DEF Full
<1>4. CASE ~ (Q \subseteq DOMAIN tr)
  <2>1. PICK n \in Q : n \in DOMAIN set \ DOMAIN tr
    BY <1>4
  <2>2. Cardinality(DOMAIN tr) = max /\ \A m \in DOMAIN tr : set[m] >= set[n]
    BY <1>1, <2>1
  <2>3. \A m \in DOMAIN tr : set[m] \in Int /\ set[n] \in Int /\ set[n] >= t
    BY <1>2, <2>1
  <2>4. \A m \in DOMAIN tr : tr[m] >= t
    BY <1>2, <2>2, <2>3
  <2>5. QED
    BY <2>2, <2>4 DEF Full
<1>5. QED
  BY <1>3, <1>4

\* A member of a sorted set is there after a trim, or the set is full of others
\* with at least its score.
LEMMA TrimShows ==
    ASSUME NEW set, IsFiniteSet(DOMAIN set),
           NEW max \in Nat, NEW tr \in Trim(set, max), NEW m \in DOMAIN set
    PROVE  m \in DOMAIN tr \/ Full(tr, max, set[m])
<1>1. DOMAIN tr # DOMAIN set =>
        /\ Cardinality(DOMAIN tr) = max
        /\ \A k \in DOMAIN tr, n \in DOMAIN set \ DOMAIN tr : set[k] >= set[n]
  BY TrimKeeps
<1>2. \A k \in DOMAIN tr : tr[k] = set[k]
  BY TrimRestricts
<1>3. QED
  BY <1>1, <1>2 DEF Full

LEMMA ExecuteNewest ==
    ASSUME NewsTypeInv, Fresh, Short, NEW c \in Crawls, Execute(c),
           NEW l \in Lists, Of(l) \cap returned = {}, Newest(l)
    PROVE  Newest(l)'
<1> DEFINE old == news_lists[l]
           added == Added(c, l)
           merged == Over(added, old)
           list == news_lists'[l]
<1>1. /\ crawls[c] # Absent /\ PipeOf(c) = crawls[c].pipe
      /\ DOMAIN articles' = DOMAIN articles \cup PipeOf(c)
  BY ExecutePipes
<1>2. /\ \A a \in PipeOf(c) : articles'[a] = crawls[c].at
      /\ \A a \in DOMAIN articles \ PipeOf(c) : articles'[a] = articles[a]
  BY <1>1, ExecuteArticles
<1>3. /\ \A m \in DOMAIN added : m[1] \in PipeOf(c) \cap Of(l) /\ added[m] = crawls[c].at
      /\ \A a \in PipeOf(c) \cap Of(l) : <<a, crawls[c].batch[a]>> \in DOMAIN added
  BY <1>1, AddedFacts
<1>4. \A m \in DOMAIN old :
        /\ m[1] \in Of(l) \cap DOMAIN articles /\ old[m] = articles[m[1]]
        /\ articles'[m[1]] = articles[m[1]]
  <2>1. \A a \in Of(l) \cap DOMAIN articles : a \notin PipeOf(c)
    BY DEF Fresh
  <2>2. QED
    BY <1>2, <2>1 DEF Fresh, Newest
<1>5. DOMAIN added \cap DOMAIN old = {}
  BY <1>3, <1>4 DEF Fresh
<1>6. /\ \A a \in DOMAIN articles : articles[a] \in Int
      /\ \A a \in DOMAIN articles' : articles'[a] \in Int
  <2>1. Partial(articles, Articles, Time) /\ Partial(articles', Articles, Time)
    <3>1. NewsTypeInv'
      BY NewsNextType DEF NewsNext
    <3>2. QED
      BY <3>1 DEF NewsTypeInv, NewsTypeOK
  <2>2. QED
    BY <2>1 DEF Partial, Time
<1>7. list \in Trim(merged, Length(l)) /\ Length(l) \in Nat
  BY ExecuteLists, OfArticles
<1>8. IsFiniteSet(DOMAIN added) /\ IsFiniteSet(DOMAIN old)
  BY <1>1, AddedFinite DEF Short
<1> HIDE DEF old, added
<1>9. /\ DOMAIN merged = DOMAIN added \cup DOMAIN old
      /\ \A m \in DOMAIN added : merged[m] = added[m]
      /\ \A m \in DOMAIN old : merged[m] = old[m]
  BY <1>5 DEF Over
<1> HIDE DEF merged
<1>10. IsFiniteSet(DOMAIN merged)
  BY <1>8, <1>9, FS_Union
<1>11. \A m \in DOMAIN merged :
         m[1] \in Of(l) \cap DOMAIN articles' /\ merged[m] = articles'[m[1]]
  BY <1>1, <1>2, <1>3, <1>4, <1>9
<1>12. DOMAIN list \subseteq DOMAIN merged /\ \A m \in DOMAIN list : list[m] = merged[m]
  BY <1>7, TrimRestricts
<1> HIDE DEF list
<1>13. ASSUME NEW a \in Of(l) \cap DOMAIN articles'
       PROVE  Shows(list, a) \/ Full(list, Length(l), articles'[a])
  <2>1. ASSUME NEW m \in DOMAIN merged, m[1] = a
        PROVE  Shows(list, a) \/ Full(list, Length(l), articles'[a])
    <3>1. m \in DOMAIN list \/ Full(list, Length(l), merged[m])
      BY <1>7, <1>10, TrimShows
    <3>2. QED
      BY <1>11, <2>1, <3>1 DEF Shows
  <2>2. CASE a \in PipeOf(c)
    <3>1. <<a, crawls[c].batch[a]>> \in DOMAIN merged
      BY <1>3, <1>9, <2>2
    <3>2. QED
      BY <2>1, <3>1
  <2>3. CASE a \notin PipeOf(c)
    <3>1. a \in DOMAIN articles /\ articles'[a] = articles[a]
      BY <1>1, <1>2, <2>3
    <3>2. Shows(old, a) \/ Full(old, Length(l), articles[a])
      BY <3>1 DEF Newest, old
    <3>3. CASE Shows(old, a)
      BY <1>9, <2>1, <3>3 DEF Shows
    <3>4. CASE Full(old, Length(l), articles[a])
      <4> DEFINE Q == DOMAIN old
      <4>1. Q \in SUBSET DOMAIN merged /\ Cardinality(Q) = Length(l)
            /\ \A m \in Q : merged[m] >= articles[a]
        BY <1>9, <3>4 DEF Full
      <4>2. \A m \in DOMAIN merged : merged[m] \in Int
        BY <1>6, <1>11
      <4>3. articles[a] \in Int
        BY <1>6, <3>1
      <4> HIDE DEF Q
      <4>4. Full(list, Length(l), articles[a])
        BY <1>7, <1>10, <4>1, <4>2, <4>3, TrimStaysFull
      <4>5. QED
        BY <3>1, <4>4
    <3>5. QED
      BY <3>2, <3>3, <3>4
  <2>4. QED
    BY <2>2, <2>3
<1>14. \A m \in DOMAIN list : list[m] = articles'[m[1]]
  BY <1>11, <1>12
<1>15. QED
  BY <1>13, <1>14 DEF Newest, list, Shows, Full

AllNewest == \A l \in Lists : Of(l) \cap returned = {} => Newest(l)

LEMMA NewestNext ==
    ASSUME NewsTypeInv, Fresh, Short, AllNewest, [NewsNext]_newsVars
    PROVE  AllNewest'
<1>1. CASE UNCHANGED <<news_lists, articles, returned>>
  BY <1>1 DEF AllNewest, Newest, Shows, Full
<1>2. ASSUME NEW c \in Crawls, NEW a \in Articles, Mark(c, a)
      PROVE  AllNewest'
  BY <1>2, MarkPipes DEF AllNewest, Newest, Shows, Full
<1>3. ASSUME NEW c \in Crawls, Execute(c)
      PROVE  AllNewest'
  BY <1>3, ExecutePipes, ExecuteNewest DEF AllNewest
<1>4. QED
  BY <1>1, <1>2, <1>3, Steps

\* What a list has lost was no newer than all that it shows, in whatever order
\* overlapping runs execute their pipelines, as long as no article came back.
THEOREM ListsKeepNewestCorrect == NewsSpec => []ListsKeepNewest
<1> DEFINE Inv == NewsTypeInv /\ Fresh /\ Short /\ AllNewest
<1>1. NewsInit => Inv
  <2> HAVE NewsInit
  <2>1. \A l \in Lists : DOMAIN news_lists[l] = {}
    BY DEF NewsInit, Nothing
  <2>2. Short
    BY <2>1, OfArticles, FS_EmptySet DEF Short
  <2>3. AllNewest
    BY <2>1 DEF NewsInit, Nothing, AllNewest, Newest
  <2>4. QED
    BY <2>2, <2>3, NewsInitType, NewsInitFresh
<1>2. Inv /\ [NewsNext]_newsVars => Inv'
  BY NewsNextType, FreshNext, ShortNext, NewestNext
<1>3. Inv => ListsKeepNewest
  BY DEF AllNewest, Newest, Shows, Full, ListsKeepNewest
<1>4. QED
  BY <1>1, <1>2, <1>3, PTL DEF NewsSpec

=============================================================================
