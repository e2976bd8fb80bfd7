------------------------------- MODULE Roles -------------------------------
(***************************************************************************)
(* Roles, groups and the permissions they give                             *)
(* (internal/access/authorization/rbac and internal/identity/groups).      *)
(*                                                                         *)
(* An administrator acts for one tenant, the one of the token, and names   *)
(* users, roles and groups by id.  Every change is a transaction with one  *)
(* statement that matters: the checks a handler makes before it concern    *)
(* a role's or a group's tenant, which never changes, and a group deleted  *)
(* meanwhile fails the foreign key.  Check, Explain and                    *)
(* EffectivePermissions are one SELECT each.                               *)
(***************************************************************************)
EXTENDS Naturals, FiniteSets

CONSTANTS Tenant, User, Role, Group, Permission, None

ASSUME RolesAssumption == None \notin Tenant \cup Group

VARIABLES
  roleTenant,  \* tenant_id of a role, None before it exists
  permissions, \* rows of rbac.role_permissions
  userRoles,   \* rows of rbac.user_roles: user, tenant, role
  groupTenant, \* tenant_id of a group, None when there is no such group
  parent,      \* parent_id
  members,     \* rows of tenant.group_members: group, user, tenant
  groupRoles,  \* rows of rbac.group_roles: group, role, tenant
  by           \* history: the tenant whose administrator acted last

roleVars == <<roleTenant, permissions, userRoles>>
groupVars == <<groupTenant, parent, members, groupRoles>>
vars == <<roleVars, groupVars, by>>

TypeOK ==
  /\ roleTenant \in [Role -> Tenant \cup {None}]
  /\ permissions \subseteq Role \X Permission
  /\ userRoles \subseteq User \X Tenant \X Role
  /\ groupTenant \in [Group -> Tenant \cup {None}]
  /\ parent \in [Group -> Group \cup {None}]
  /\ members \subseteq Group \X User \X Tenant
  /\ groupRoles \subseteq Group \X Role \X Tenant
  /\ by \in Tenant \cup {None}

Init ==
  /\ roleTenant = [r \in Role |-> None]
  /\ permissions = {} /\ userRoles = {}
  /\ groupTenant = [g \in Group |-> None]
  /\ parent = [g \in Group |-> None]
  /\ members = {} /\ groupRoles = {}
  /\ by = None

Roles == {r \in Role : roleTenant[r] # None}
Groups == {g \in Group : groupTenant[g] # None}

-----------------------------------------------------------------------------
(* Roles                                                                   *)

CreateRole(t, r) ==
  /\ r \notin Roles
  /\ roleTenant' = [roleTenant EXCEPT ![r] = t]
  /\ by' = t
  /\ UNCHANGED <<permissions, userRoles, groupVars>>

(* scopedRole: a role's permissions are its own tenant's business.         *)
GrantPermission(t, r, p) ==
  /\ roleTenant[r] = t
  /\ permissions' = permissions \cup {<<r, p>>}
  /\ by' = t
  /\ UNCHANGED <<roleTenant, userRoles, groupVars>>

RevokePermission(t, r, p) ==
  /\ roleTenant[r] = t
  /\ permissions' = permissions \ {<<r, p>>}
  /\ by' = t
  /\ UNCHANGED <<roleTenant, userRoles, groupVars>>

(* AssignRole: the tenant of the role is not looked at.                    *)
AssignRole(t, u, r) ==
  /\ r \in Roles
  /\ userRoles' = userRoles \cup {<<u, t, r>>}
  /\ by' = t
  /\ UNCHANGED <<roleTenant, permissions, groupVars>>

UnassignRole(t, u, r) ==
  /\ userRoles' = userRoles \ {<<u, t, r>>}
  /\ by' = t
  /\ UNCHANGED <<roleTenant, permissions, groupVars>>

-----------------------------------------------------------------------------
(* Groups                                                                  *)

(* Create and Update: any group may be the parent.                         *)
CreateGroup(t, g, q) ==
  /\ g \notin Groups
  /\ q \in Groups \cup {None}
  /\ groupTenant' = [groupTenant EXCEPT ![g] = t]
  /\ parent' = [parent EXCEPT ![g] = q]
  /\ by' = t
  /\ UNCHANGED <<roleVars, members, groupRoles>>

UpdateGroup(t, g, q) ==
  /\ groupTenant[g] = t
  /\ q \in Groups \cup {None}
  /\ parent' = [parent EXCEPT ![g] = q]
  /\ by' = t
  /\ UNCHANGED <<roleVars, groupTenant, members, groupRoles>>

(* What goes with a group: its children, theirs, and so on.                *)
Cascade(g) ==
  {h \in Groups :
     \A S \in SUBSET Group :
       g \in S /\ (\A c \in Group : parent[c] \in S => c \in S) => h \in S}

(* Delete; the rows that refer to a deleted group go with it.              *)
DeleteGroup(t, g) ==
  LET D == Cascade(g) IN
  /\ groupTenant[g] = t
  /\ groupTenant' = [h \in Group |-> IF h \in D THEN None ELSE groupTenant[h]]
  /\ parent' = [h \in Group |-> IF h \in D THEN None ELSE parent[h]]
  /\ members' = {m \in members : m[1] \notin D}
  /\ groupRoles' = {m \in groupRoles : m[1] \notin D}
  /\ by' = t
  /\ UNCHANGED roleVars

(* AddMember: the tenant of the user is not looked at, and a row of the    *)
(* same group and user stays as it is.                                     *)
AddMember(t, g, u) ==
  /\ groupTenant[g] = t
  /\ members' = IF \E x \in Tenant : <<g, u, x>> \in members THEN members
                ELSE members \cup {<<g, u, t>>}
  /\ by' = t
  /\ UNCHANGED <<roleVars, groupTenant, parent, groupRoles>>

RemoveMember(t, g, u) ==
  /\ members' = members \ {<<g, u, t>>}
  /\ by' = t
  /\ UNCHANGED <<roleVars, groupTenant, parent, groupRoles>>

(* Mutant: the EXISTS over the roles is left out.                          *)
AssignAnyRoleToGroup(t, g, r) ==
  /\ groupTenant[g] = t /\ r \in Roles
  /\ groupRoles' = IF \E x \in Tenant : <<g, r, x>> \in groupRoles THEN groupRoles
                   ELSE groupRoles \cup {<<g, r, t>>}
  /\ by' = t
  /\ UNCHANGED <<roleVars, groupTenant, parent, members>>

(* AssignRoleToGroup: group and role are both the tenant's.                *)
AssignRoleToGroup(t, g, r) ==
  /\ groupTenant[g] = t /\ roleTenant[r] = t
  /\ groupRoles' = IF \E x \in Tenant : <<g, r, x>> \in groupRoles THEN groupRoles
                   ELSE groupRoles \cup {<<g, r, t>>}
  /\ by' = t
  /\ UNCHANGED <<roleVars, groupTenant, parent, members>>

RemoveRoleFromGroup(t, g, r) ==
  /\ groupRoles' = groupRoles \ {<<g, r, t>>}
  /\ by' = t
  /\ UNCHANGED <<roleVars, groupTenant, parent, members>>

Administer(t) ==
  \/ \E r \in Role : CreateRole(t, r)
  \/ \E r \in Role, p \in Permission : GrantPermission(t, r, p) \/ RevokePermission(t, r, p)
  \/ \E u \in User, r \in Role : AssignRole(t, u, r) \/ UnassignRole(t, u, r)
  \/ \E g \in Group, q \in Group \cup {None} : CreateGroup(t, g, q) \/ UpdateGroup(t, g, q)
  \/ \E g \in Group : DeleteGroup(t, g)
  \/ \E g \in Group, u \in User : AddMember(t, g, u) \/ RemoveMember(t, g, u)
  \/ \E g \in Group, r \in Role : AssignRoleToGroup(t, g, r) \/ RemoveRoleFromGroup(t, g, r)

Next == \E t \in Tenant : Administer(t)

Spec == Init /\ [][Next]_vars

-----------------------------------------------------------------------------
(* Decisions                                                               *)

(* Mutant: a role held in any tenant counts.                               *)
ByRoleAnywhere(u, t, p) ==
  \E r \in Role, x \in Tenant : <<u, x, r>> \in userRoles /\ <<r, p>> \in permissions

(* The two arms of CheckPermission and ListEffectivePermissions.           *)
ByRole(u, t, p) ==
  \E r \in Role : <<u, t, r>> \in userRoles /\ <<r, p>> \in permissions

ByGroup(u, t, p) ==
  \E g \in Group, r \in Role :
    <<g, u, t>> \in members /\ <<g, r, t>> \in groupRoles /\ <<r, p>> \in permissions

Check(u, t, p) == ByRole(u, t, p) \/ ByGroup(u, t, p)

(* ExplainGrants: the same, joined with the rows of groups and roles; a    *)
(* path is a group, or None for a role given directly, and a role.         *)
Explain(u, t, p) ==
  {s \in (Groups \cup {None}) \X Roles :
     /\ <<s[2], p>> \in permissions
     /\ IF s[1] = None THEN <<u, t, s[2]>> \in userRoles
        ELSE /\ groupTenant[s[1]] = t
             /\ <<s[1], u, t>> \in members
             /\ <<s[1], s[2], t>> \in groupRoles}

-----------------------------------------------------------------------------
(* Properties                                                              *)

(* Nobody but a tenant's own administrator gives anybody a permission in   *)
(* the tenant by way of a group: not by what is put into a role, a group   *)
(* or a group's roles, in whatever order.  AssignRoleToGroup, rbac.go:163. *)
GroupGrantsAreHomeMade ==
  [][\A u \in User, t \in Tenant, p \in Permission :
       ByGroup(u, t, p)' /\ ~ByGroup(u, t, p) => by' = t]_vars

(* Check says yes exactly when Explain has a path to show, although the    *)
(* one joins tables the other does not: no row outlives the role or the    *)
(* group it refers to or has another tenant than the group.  rbac.go:284.  *)
DecisionsAgree ==
  \A u \in User, t \in Tenant, p \in Permission :
    Check(u, t, p) <=> Explain(u, t, p) # {}

=============================================================================
