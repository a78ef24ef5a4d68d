-------------------------------- MODULE RBAC --------------------------------
(***************************************************************************)
(* RBAC (app/common/security/rbac.go) and the checks of                    *)
(* middlewares/rbac_enhanced.go.  Every operation holds the one lock.      *)
(*                                                                         *)
(* A user's list of permissions holds a copy of a permission for each role *)
(* it came with, and those its caller gave it: it is a bag.  AddUser and   *)
(* UpdateUser take whatever lists their caller gives, which name a role    *)
(* once and need not agree with the roles.                                 *)
(*                                                                         *)
(* History variables: `replaced`, whether a role was changed other than by *)
(* assigning and removing; `direct`, the copies a user's list came with    *)
(* beyond one for every role that grants the permission; `odd`, the users  *)
(* whose list came without such a copy, or with a role that was not there. *)
(***************************************************************************)
EXTENDS Naturals, FiniteSets, Functions

CONSTANTS
    User, Role, Permission,
    Target,      \* pairs of a resource and an action
    Entry,       \* the lists callers give a user: [roles, copies]
    MaxCopies    \* bound on the copies of a permission in a user's list

VARIABLES
    users,        \* user -> its roles and the copies of each permission
    roles,        \* role -> its permissions
    permissions,  \* permission -> its target
    replaced, direct, odd

userVars == <<users, direct, odd>>
vars == <<userVars, roles, permissions, replaced>>

Has(f, x) == x \in DOMAIN f
With(f, x, value) == [y \in DOMAIN f \cup {x} |-> IF y = x THEN value ELSE f[y]]
Without(f, x) == Restrict(f, DOMAIN f \ {x})

NoCopies == [p \in Permission |-> 0]

Init ==
    /\ users = <<>> /\ roles = <<>> /\ permissions = <<>> /\ replaced = FALSE
    /\ direct = [u \in User |-> NoCopies] /\ odd = {}

Aims(p, t) == Has(permissions, p) /\ permissions[p] = t

\* How many of the roles rs grant p.
Granting(rs, p) == Cardinality({r \in rs : Has(roles, r) /\ p \in roles[r]})

-----------------------------------------------------------------------------
AddRole(r, ps) ==
    /\ ~Has(roles, r)
    /\ roles' = With(roles, r, ps)
    /\ UNCHANGED <<userVars, permissions, replaced>>

\* The users' lists are not touched.
UpdateRole(r, ps) ==
    /\ Has(roles, r)
    /\ roles' = With(roles, r, ps) /\ replaced' = TRUE
    /\ UNCHANGED <<userVars, permissions>>

\* Users keep the role in their lists, and the permissions that came with it.
DeleteRole(r) ==
    /\ Has(roles, r)
    /\ roles' = Without(roles, r) /\ replaced' = TRUE
    /\ UNCHANGED <<userVars, permissions>>

AddPermission(p, t) ==
    /\ ~Has(permissions, p)
    /\ permissions' = With(permissions, p, t)
    /\ UNCHANGED <<userVars, roles, replaced>>

UpdatePermission(p, t) ==
    /\ Has(permissions, p)
    /\ permissions' = With(permissions, p, t)
    /\ UNCHANGED <<userVars, roles, replaced>>

DeletePermission(p) ==
    /\ Has(permissions, p)
    /\ permissions' = Without(permissions, p)
    /\ UNCHANGED <<userVars, roles, replaced>>

\* rbac.users[user.ID] = user, with the lists the caller gives.
Put(u, e) ==
    /\ users' = With(users, u, e)
    /\ direct' = [direct EXCEPT ![u] = [p \in Permission |->
           IF e.copies[p] > Granting(e.roles, p) THEN e.copies[p] - Granting(e.roles, p) ELSE 0]]
    /\ odd' = IF /\ e.roles \subseteq DOMAIN roles
                 /\ \A p \in Permission : e.copies[p] >= Granting(e.roles, p)
              THEN odd \ {u} ELSE odd \cup {u}
    /\ UNCHANGED <<roles, permissions, replaced>>

AddUser(u, e) == ~Has(users, u) /\ Put(u, e)

UpdateUser(u, e) == Has(users, u) /\ Put(u, e)

DeleteUser(u) ==
    /\ Has(users, u)
    /\ users' = Without(users, u)
    /\ direct' = [direct EXCEPT ![u] = NoCopies] /\ odd' = odd \ {u}
    /\ UNCHANGED <<roles, permissions, replaced>>

-----------------------------------------------------------------------------
\* One more copy of each of ps.
Added(copies, ps) == [p \in Permission |-> IF p \in ps THEN copies[p] + 1 ELSE copies[p]]

\* The first copy of each of ps, where there is one.
Removed(copies, ps) ==
    [p \in Permission |-> IF p \in ps /\ copies[p] > 0 THEN copies[p] - 1 ELSE copies[p]]

AssignRoleToUser(u, r) ==
    /\ Has(users, u) /\ Has(roles, r) /\ r \notin users[u].roles
    /\ \A p \in roles[r] : users[u].copies[p] < MaxCopies
    /\ users' = [users EXCEPT ![u] = [roles |-> @.roles \cup {r},
                                      copies |-> Added(@.copies, roles[r])]]
    /\ UNCHANGED <<roles, permissions, replaced, direct, odd>>

RemoveRoleFromUser(u, r) ==
    /\ Has(users, u) /\ r \in users[u].roles
    /\ users' = [users EXCEPT ![u] =
           [roles |-> @.roles \ {r},
            copies |-> IF Has(roles, r) THEN Removed(@.copies, roles[r]) ELSE @.copies]]
    /\ UNCHANGED <<roles, permissions, replaced, direct, odd>>

\* f(copies, {p}) for every user that has the role.
ForHolders(r, f(_, _), p) ==
    [u \in DOMAIN users |->
        IF r \in users[u].roles THEN [users[u] EXCEPT !.copies = f(@, {p})] ELSE users[u]]

AssignPermissionToRole(r, p) ==
    /\ Has(roles, r) /\ Has(permissions, p) /\ p \notin roles[r]
    /\ \A u \in DOMAIN users : users[u].copies[p] < MaxCopies
    /\ roles' = [roles EXCEPT ![r] = @ \cup {p}]
    /\ users' = ForHolders(r, Added, p)
    /\ UNCHANGED <<permissions, replaced, direct, odd>>

RemovePermissionFromRole(r, p) ==
    /\ Has(roles, r) /\ p \in roles[r]
    /\ roles' = [roles EXCEPT ![r] = @ \ {p}]
    /\ users' = ForHolders(r, Removed, p)
    /\ UNCHANGED <<permissions, replaced, direct, odd>>

Next ==
    \/ \E r \in Role :
          \/ \E ps \in SUBSET Permission : AddRole(r, ps) \/ UpdateRole(r, ps)
          \/ DeleteRole(r)
          \/ \E u \in User : AssignRoleToUser(u, r) \/ RemoveRoleFromUser(u, r)
          \/ \E p \in Permission : AssignPermissionToRole(r, p) \/ RemovePermissionFromRole(r, p)
    \/ \E p \in Permission :
          \/ \E t \in Target : AddPermission(p, t) \/ UpdatePermission(p, t)
          \/ DeletePermission(p)
    \/ \E u \in User : (\E e \in Entry : AddUser(u, e) \/ UpdateUser(u, e)) \/ DeleteUser(u)

Spec == Init /\ [][Next]_vars

-----------------------------------------------------------------------------
HasPermission(u, t) ==
    /\ Has(users, u)
    /\ \/ \E p \in Permission : users[u].copies[p] > 0 /\ Aims(p, t)
       \/ \E r \in users[u].roles : Has(roles, r) /\ \E p \in roles[r] : Aims(p, t)

HasRole(u, r) == Has(users, u) /\ r \in users[u].roles

GetUserRoles(u) == {r \in users[u].roles : Has(roles, r)}

\* The checks of the middlewares: a route without requirements lets everybody pass.
PermissionCheckMiddleware(u, required) ==
    required = {} \/ \E t \in required : HasPermission(u, t)

RoleCheckMiddleware(u, required) == \E r \in required : HasRole(u, r)

ResourceBasedMiddleware(u, t) == HasPermission(u, t)

\* getUserDataScope with one role of administrators and one of managers.
DataScope(u, admin, manager) ==
    IF ~Has(users, u) THEN 5
    ELSE IF admin \in GetUserRoles(u) THEN 1
    ELSE IF manager \in GetUserRoles(u) THEN 3 ELSE 5

\* The type invariant of the roles.
TypeOK ==
    /\ DOMAIN users \subseteq User /\ DOMAIN roles \subseteq Role
    /\ DOMAIN permissions \subseteq Permission /\ replaced \in BOOLEAN
    /\ direct \in [User -> [Permission -> 0 .. MaxCopies]] /\ odd \subseteq User
    /\ \A r \in DOMAIN roles : roles[r] \subseteq Permission
    /\ \A p \in DOMAIN permissions : permissions[p] \in Target
    /\ \A u \in DOMAIN users :
          users[u] \in [roles : SUBSET Role, copies : [Permission -> 0 .. MaxCopies]]

\* As long as roles are changed only by assigning and removing, a user's list never holds
\* more copies of a permission than the roles that grant it and what its caller gave, and
\* exactly so many when that list agreed with the roles: removing one of two roles with the
\* same permission does not take it away, and removing the last one does.
CopiesAreRoles ==
    ~replaced =>
        \A u \in DOMAIN users, p \in Permission :
            /\ users[u].copies[p] <= direct[u][p] + Granting(users[u].roles, p)
            /\ u \notin odd => users[u].copies[p] = direct[u][p] + Granting(users[u].roles, p)

\* Then the middlewares let a user in only when a role of the user or what its caller gave
\* grants it, and do so whenever one of them does unless that list did not agree.
Granted(u, p) == direct[u][p] > 0 \/ \E r \in GetUserRoles(u) : p \in roles[r]
GrantedByRoles ==
    ~replaced =>
        \A u \in User, t \in Target :
            /\ PermissionCheckMiddleware(u, {t}) =>
                  Has(users, u) /\ \E p \in Permission : Granted(u, p) /\ Aims(p, t)
            /\ Has(users, u) /\ u \notin odd =>
                  \A p \in Permission :
                      Granted(u, p) /\ Aims(p, t) => PermissionCheckMiddleware(u, {t})

\* Whatever happens, somebody who passes for a target has a permission for it that exists,
\* and somebody with the scope of a role also passes the check for that role.
GrantsExist ==
    \A u \in User :
        /\ \A t \in Target : ResourceBasedMiddleware(u, t) => t \in Range(permissions)
        /\ \A r \in Role : DataScope(u, r, r) = 1 => RoleCheckMiddleware(u, {r})

\* UpdateRole and DeleteRole: nobody has what none of the user's roles grants.
OnlyByRoles ==
    \A u \in DOMAIN users, t \in Target :
        HasPermission(u, t) => \E r \in GetUserRoles(u) : \E p \in roles[r] : Aims(p, t)
=============================================================================
