------------------------------- MODULE Staff -------------------------------
(***************************************************************************)
(* Who administers the shop: users.role and is_active (UserService and the *)
(* /users router), staff roles with their permissions and who holds which  *)
(* (RoleService, AccessService), and scripts/bootstrap_admin.              *)
(*                                                                         *)
(* A request first loads the actor (user row, assignment, role) to decide  *)
(* whether it may act, and the target. Changes that could leave nobody to  *)
(* manage roles then lock every active administrator's row, count who      *)
(* remains and write. The count reads the database for everyone but uses   *)
(* the objects the session has already loaded, which are not refreshed.    *)
(***************************************************************************)
EXTENDS Common, Naturals, FiniteSets

CONSTANTS
    StaffUsers,      \* accounts
    Roles,           \* roles administrators create
    Owner, NoAccess, \* the two system roles
    MaxChanges       \* bound: requests started

ASSUME RolesAssumption ==
    Owner # NoAccess /\ Owner # None /\ NoAccess # None /\ Roles \cap {None, Owner, NoAccess} = {} /\ None \notin StaffUsers

\* The permissions the operations below ask for.
Permissions == {"roles.manage", "customers.manage"}
AllRoles == Roles \cup {Owner, NoAccess}

\* A role without permissions is not an absent one.
ASSUME NoRoleAssumption == \A new \in SUBSET Permissions : new # None

VARIABLES
    member,     \* users rows with their assignment: admin, active, role
    perms,      \* permissions of each created role; None if it does not exist
    edit,       \* requests in progress
    changes,
    granted,    \* history: administrators that were deliberately given what they hold
    reliedOnOld \* history: a request relied on a row that had changed since it loaded it

staffVars == <<member, perms, edit, changes, granted, reliedOnOld>>

NoEdit == [op |-> "none", actor |-> None, target |-> None, role |-> None, new |-> {}, checked |-> FALSE,
         me |-> None, it |-> None, perms |-> [r \in Roles |-> None]]

\* A user and the staff_role_assignments row that goes with it.
Account(admin) == [admin |-> admin, active |-> TRUE, role |-> IF admin THEN Owner ELSE None]

\* The migration gives every administrator the Owner role.
StaffInit ==
    /\ \E admins \in (SUBSET StaffUsers) \ {{}} :
         /\ member = [u \in StaffUsers |-> Account(u \in admins)]
         /\ granted = admins
    /\ perms = [r \in Roles |-> None]
    /\ edit = [p \in Requests |-> NoEdit]
    /\ changes = 0 /\ reliedOnOld = FALSE

-----------------------------------------------------------------------------
\* role_permissions: no role (a legacy administrator) or Owner is everything; a created role
\* is what it stores.
RolePermissions(r, stored) ==
    CASE r \in {None, Owner} -> Permissions
      [] r = NoAccess -> {}
      [] OTHER -> stored[r]

\* AccessService.resolve: only an active administrator holds permissions.
Access(row, stored) == IF row.admin /\ row.active THEN RolePermissions(row.role, stored) ELSE {}

ActiveAdmins == {u \in StaffUsers : member[u].admin /\ member[u].active}
Managers == {u \in StaffUsers : "roles.manage" \in Access(member[u], perms)}

\* Roles whose objects the session of p loaded before it took any lock.
Loaded(p) == {edit[p].me.role, edit[p].role} \cap Roles

\* The permissions p sees: those of the objects it holds, else the table's.
SeenPermissions(p) == [r \in Roles |-> IF r \in Loaded(p) THEN edit[p].perms[r] ELSE perms[r]]

\* The role p sees a user hold: its own assignment was loaded with the actor.
SeenRole(p, u) == IF u = edit[p].actor THEN edit[p].me.role ELSE member[u].role

\* Something p relies on is no longer so.
ReliesOnOld(p) ==
    \/ member[edit[p].actor] # edit[p].me
    \/ edit[p].target # None /\ member[edit[p].target] # edit[p].it
    \/ \E r \in Loaded(p) : perms[r] # edit[p].perms[r]

\* Mutant: the administrators are counted without FOR UPDATE.
AdminsFreeAlways(p) == TRUE

\* No other request holds the locks on the administrators' rows.
AdminsFree(p) == \A q \in Requests \ {p} : ~edit[q].checked

-----------------------------------------------------------------------------
\* require_permission and the conditions of the /users router on the actor's loaded row.
MayAct(op, actor, target) ==
    LET mine == Access(member[actor], perms) IN
    CASE op \in {"assign", "update"} -> "roles.manage" \in mine
      [] op \in {"promote", "demote"} -> "roles.manage" \in mine /\ (target # actor => "customers.manage" \in mine)
      [] op = "deactivate" -> target = actor \/ "customers.manage" \in mine

\* A request arrives: actor and target are loaded. target is None for a change of a role.
Arrive(p, op, actor, target, r, new) ==
    /\ edit[p] = NoEdit /\ changes < MaxChanges
    /\ changes' = changes + 1
    /\ member[actor].active
    /\ MayAct(op, actor, target)
    /\ op = "assign" => member[target].admin /\ member[target].active /\ (r \in Roles => perms[r] # None)
    /\ op = "update" => perms[r] # None
    /\ edit' = [edit EXCEPT ![p] =
          [op |-> op, actor |-> actor, target |-> target, role |-> r, new |-> new, checked |-> FALSE,
           me |-> member[actor], it |-> IF target = None THEN None ELSE member[target],
           perms |-> [x \in Roles |-> IF x \in {member[actor].role, r} THEN perms[x] ELSE None]]]
    /\ UNCHANGED <<member, perms, granted, reliedOnOld>>

\* Whether the operation checks that administrators remain, as the loaded rows tell it.
Checks(p) ==
    CASE edit[p].op = "assign" -> TRUE
      [] edit[p].op = "update" -> "roles.manage" \notin edit[p].new
      [] edit[p].op \in {"demote", "deactivate"} -> edit[p].it.admin /\ edit[p].it.active
      [] OTHER -> FALSE

\* What p believes a user will hold after its change; {} for one who leaves the staff.
After(p, u) ==
    LET op == edit[p].op IN
    CASE op \in {"demote", "deactivate"} /\ u = edit[p].target -> {}
      [] op = "assign" /\ u = edit[p].target -> RolePermissions(edit[p].role, SeenPermissions(p))
      [] op = "update" /\ SeenRole(p, u) = edit[p].role -> edit[p].new
      [] OTHER -> RolePermissions(SeenRole(p, u), SeenPermissions(p))

\* assert_role_manager_remains (and, for one who leaves, _assert_not_last_admin): the active
\* administrators' rows are locked and one of them must still manage roles.
Check(p) ==
    /\ edit[p].op # "none" /\ ~edit[p].checked /\ Checks(p)
    /\ AdminsFree(p)
    /\ \E u \in ActiveAdmins : "roles.manage" \in After(p, u)
    /\ edit' = [edit EXCEPT ![p].checked = TRUE]
    /\ UNCHANGED <<member, perms, changes, granted, reliedOnOld>>

\* The change is refused, or the request fails: everything rolls back.
Refuse(p) ==
    /\ edit[p] # NoEdit
    /\ edit' = [edit EXCEPT ![p] = NoEdit]
    /\ UNCHANGED <<member, perms, changes, granted, reliedOnOld>>

\* start_with_no_access.
PromotedRole(u) == NoAccess

\* remove_assignment of somebody who is no longer an administrator.
LeftStaff(row) == [row EXCEPT !.admin = FALSE, !.role = None]

\* The rows after the change of p. A column is written only if it differs from what p loaded.
Changed(p) ==
    LET t == edit[p].target IN
    CASE edit[p].op = "assign" -> [member EXCEPT ![t].role = edit[p].role]
      [] edit[p].op = "promote" -> IF edit[p].it.admin THEN member
                                  ELSE [member EXCEPT ![t].admin = TRUE, ![t].role = PromotedRole(t)]
      [] edit[p].op = "demote" -> IF edit[p].it.admin THEN [member EXCEPT ![t] = LeftStaff(@)] ELSE member
      [] edit[p].op = "deactivate" -> [member EXCEPT ![t].active = FALSE]
      [] OTHER -> member

\* The change is written and committed. A role deleted meanwhile fails on the foreign key; a
\* row that another request holds is waited for.
Commit(p) ==
    LET t == edit[p].target IN
    /\ edit[p].op # "none" /\ (Checks(p) => edit[p].checked)
    /\ t \in ActiveAdmins => AdminsFree(p)
    /\ edit[p].role \in Roles => perms[edit[p].role] # None
    /\ member' = Changed(p)
    /\ perms' = IF edit[p].op = "update" THEN [perms EXCEPT ![edit[p].role] = edit[p].new] ELSE perms
    /\ granted' = CASE edit[p].op = "assign" -> granted \cup {t}
                    [] edit[p].op = "demote" /\ edit[p].it.admin -> granted \ {t}
                    [] OTHER -> granted
    /\ reliedOnOld' = (reliedOnOld \/ ReliesOnOld(p))
    /\ edit' = [edit EXCEPT ![p] = NoEdit]
    /\ UNCHANGED changes

\* create_role.
CreateRole(r, new) ==
    /\ Managers # {} /\ perms[r] = None
    /\ perms' = [perms EXCEPT ![r] = new]
    /\ UNCHANGED <<member, edit, changes, granted, reliedOnOld>>

\* delete_role: the role row is locked, and a role somebody holds stays.
DeleteRole(r) ==
    /\ Managers # {} /\ perms[r] # None
    /\ \A u \in StaffUsers : member[u].role # r
    /\ \A p \in Requests : ~(edit[p].op = "assign" /\ edit[p].checked /\ edit[p].role = r)
    /\ perms' = [perms EXCEPT ![r] = None]
    /\ UNCHANGED <<member, edit, changes, granted, reliedOnOld>>

\* bootstrap_admin: an existing account becomes an administrator; assignments are not touched.
Bootstrap(u) ==
    /\ changes < MaxChanges /\ changes' = changes + 1
    /\ ~member[u].admin
    /\ member' = [member EXCEPT ![u].admin = TRUE]
    /\ granted' = granted \cup {u}
    /\ UNCHANGED <<perms, edit, reliedOnOld>>

-----------------------------------------------------------------------------
\* /admin/roles and /admin/staff.
RoleEndpoints(p, actor) ==
    \/ \E target \in StaffUsers, r \in AllRoles : Arrive(p, "assign", actor, target, r, {})
    \/ \E r \in Roles, new \in SUBSET Permissions : Arrive(p, "update", actor, None, r, new)

\* /users.
UserEndpoints(p, actor) ==
    \E target \in StaffUsers, op \in {"promote", "demote", "deactivate"} : Arrive(p, op, actor, target, None, {})

StaffNext ==
    \/ \E p \in Requests :
         \/ Check(p) \/ Refuse(p) \/ Commit(p)
         \/ \E actor \in StaffUsers : RoleEndpoints(p, actor) \/ UserEndpoints(p, actor)
    \/ \E r \in Roles : DeleteRole(r) \/ \E new \in SUBSET Permissions : CreateRole(r, new)
    \/ \E u \in StaffUsers : Bootstrap(u)

StaffSpec == StaffInit /\ [][StaffNext]_staffVars

-----------------------------------------------------------------------------
\* Somebody can always manage roles, however the changes of administrators interleave, as long
\* as no request relied on a row that changed after it loaded it (AccessService: "Refuses a
\* change that would leave no active administrator able to manage roles").
ManagerRemains == Managers # {} \/ reliedOnOld

\* Nobody administers anything they were not given: a promoted account holds nothing until a
\* role is assigned to it, and a role held before does not come back with a new promotion
\* (router: "the old role must not come back on re-promotion").
OnlyGrantedAccess == \A u \in StaffUsers : Access(member[u], perms) # {} => u \in granted

\* The shop is always administered, and only by those it was given to: however the changes of administrators interleave,
\* somebody can manage roles and nobody holds what they were not given (role_service.py, access_service.py).
ShopIsAdministered == ManagerRemains /\ OnlyGrantedAccess
=============================================================================
