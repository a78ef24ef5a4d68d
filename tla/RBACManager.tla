---------------------------- MODULE RBACManager ----------------------------
(***************************************************************************)
(* RBACManager (app/common/security/rbac_manager.go): users, roles,        *)
(* permissions and policies under one lock, and an Enforcer that is told   *)
(* the rules of the policies one by one.  The enforcer is external: adding *)
(* a rule may fail, and the operation ends there; removing one may fail,   *)
(* and the operation does not notice.                                      *)
(*                                                                         *)
(* A user's permissions are a set here: AssignRole adds what is missing.   *)
(* CreateUser and UpdateUser take whatever lists their caller gives, which *)
(* name nothing twice; an update of a permission changes its description.  *)
(* Callers give objects of their own, and every rule its own id.           *)
(***************************************************************************)
EXTENDS Naturals, FiniteSets, Functions

CONSTANTS
    User, Role, Permission, Policy, Rule,
    Entry    \* the lists callers give a user: [roles, permissions]

VARIABLES
    users,        \* user -> its roles and permissions
    roles,        \* role -> its permissions
    permissions,
    policies,     \* policy -> its rules
    enforced,     \* the rules of the enforcer, as <<policy, rule>>
    unknown,      \* history: <<user, role>>, a list named a role that was not there
    partial,      \* history: policies a rule of which was refused since they were last recorded
    stray         \* history: rules of the enforcer that were not removed, or of a refused update

accessVars == <<users, roles, permissions, unknown>>
policyVars == <<policies, enforced, partial, stray>>
vars == <<accessVars, policyVars>>

With(f, x, value) == [y \in DOMAIN f \cup {x} |-> IF y = x THEN value ELSE f[y]]
Without(f, x) == Restrict(f, DOMAIN f \ {x})

Init ==
    /\ users = <<>> /\ roles = <<>> /\ permissions = {}
    /\ policies = <<>> /\ enforced = {} /\ unknown = {} /\ partial = {} /\ stray = {}

-----------------------------------------------------------------------------
CreateRole(r, ps) ==
    /\ r \notin DOMAIN roles /\ roles' = With(roles, r, ps)
    /\ UNCHANGED <<users, permissions, unknown, policyVars>>

UpdateRole(r, ps) ==
    /\ r \in DOMAIN roles /\ roles' = With(roles, r, ps)
    /\ UNCHANGED <<users, permissions, unknown, policyVars>>

\* Mutant: the users keep the role.
StripRoleNobody(r) == users

StripRole(r) == [u \in DOMAIN users |-> [users[u] EXCEPT !.roles = @ \ {r}]]

\* The role leaves the users' lists; the permissions that came with it stay.
DeleteRole(r) ==
    /\ r \in DOMAIN roles
    /\ roles' = Without(roles, r) /\ users' = StripRole(r)
    /\ unknown' = {x \in unknown : x[2] # r}
    /\ UNCHANGED <<permissions, policyVars>>

CreatePermission(p) ==
    /\ p \notin permissions /\ permissions' = permissions \cup {p}
    /\ UNCHANGED <<users, roles, unknown, policyVars>>

DeletePermission(p) ==
    /\ p \in permissions
    /\ permissions' = permissions \ {p}
    /\ roles' = [r \in DOMAIN roles |-> roles[r] \ {p}]
    /\ users' = [u \in DOMAIN users |-> [users[u] EXCEPT !.permissions = @ \ {p}]]
    /\ UNCHANGED <<unknown, policyVars>>

\* rm.users[user.ID] = user, with the lists the caller gives.
Put(u, e) ==
    /\ users' = With(users, u, e)
    /\ unknown' = {x \in unknown : x[1] # u} \cup {u} \X (e.roles \ DOMAIN roles)
    /\ UNCHANGED <<roles, permissions, policyVars>>

CreateUser(u, e) == u \notin DOMAIN users /\ Put(u, e)

UpdateUser(u, e) == u \in DOMAIN users /\ Put(u, e)

DeleteUser(u) ==
    /\ u \in DOMAIN users /\ users' = Without(users, u)
    /\ unknown' = {x \in unknown : x[1] # u}
    /\ UNCHANGED <<roles, permissions, policyVars>>

-----------------------------------------------------------------------------
AssignRole(u, r) ==
    /\ u \in DOMAIN users /\ r \in DOMAIN roles /\ r \notin users[u].roles
    /\ users' = [users EXCEPT ![u] = [roles |-> @.roles \cup {r},
                                      permissions |-> @.permissions \cup roles[r]]]
    /\ UNCHANGED <<unknown, roles, permissions, policyVars>>

GrantedBy(rs) == UNION {roles[r] : r \in rs \cap DOMAIN roles}

\* The permissions are computed anew: the ones assigned directly are gone as well.
RevokeRole(u, r) ==
    /\ u \in DOMAIN users
    /\ users' = [users EXCEPT ![u] = [roles |-> @.roles \ {r},
                                      permissions |-> GrantedBy(@.roles \ {r})]]
    /\ UNCHANGED <<unknown, roles, permissions, policyVars>>

AssignPermission(u, p) ==
    /\ u \in DOMAIN users /\ p \in permissions /\ p \notin users[u].permissions
    /\ users' = [users EXCEPT ![u].permissions = @ \cup {p}]
    /\ UNCHANGED <<unknown, roles, permissions, policyVars>>

RevokePermission(u, p) ==
    /\ u \in DOMAIN users
    /\ users' = [users EXCEPT ![u].permissions = @ \ {p}]
    /\ UNCHANGED <<unknown, roles, permissions, policyVars>>

-----------------------------------------------------------------------------
Tagged(pol, rules) == {pol} \X rules

\* RemovePolicy for every rule of the policy; the removal of the rules kept fails.
Unenforced(pol, kept) == enforced \ Tagged(pol, policies[pol] \ kept)

\* The policy is recorded first; when a rule is refused the rest is not added.
CreatePolicy(pol, rules) ==
    /\ pol \notin DOMAIN policies
    /\ policies' = With(policies, pol, rules)
    /\ \/ enforced' = enforced \cup Tagged(pol, rules) /\ partial' = partial \ {pol}
       \/ \E some \in SUBSET rules \ {rules} :
             enforced' = enforced \cup Tagged(pol, some) /\ partial' = partial \cup {pol}
    /\ UNCHANGED <<stray, accessVars>>

\* The new policy is recorded last; when a rule is refused the old one stays recorded.
UpdatePolicy(pol, rules) ==
    /\ pol \in DOMAIN policies
    /\ \E kept \in SUBSET policies[pol] :
          \/ /\ enforced' = Unenforced(pol, kept) \cup Tagged(pol, rules)
             /\ policies' = With(policies, pol, rules) /\ partial' = partial \ {pol}
             /\ stray' = (stray \cup Tagged(pol, kept)) \cap enforced'
          \/ \E some \in SUBSET rules \ {rules} :
                /\ enforced' = Unenforced(pol, kept) \cup Tagged(pol, some)
                /\ partial' = partial \cup {pol} /\ UNCHANGED policies
                /\ stray' = (stray \cup Tagged(pol, kept \cup some)) \cap enforced'
    /\ UNCHANGED accessVars

DeletePolicy(pol) ==
    /\ pol \in DOMAIN policies /\ policies' = Without(policies, pol)
    /\ \E kept \in SUBSET policies[pol] :
          /\ enforced' = Unenforced(pol, kept)
          /\ stray' = (stray \cup Tagged(pol, kept)) \cap enforced'
    /\ partial' = partial \ {pol}
    /\ UNCHANGED accessVars

AccessNext ==
    \/ \E r \in Role : (\E ps \in SUBSET Permission : CreateRole(r, ps) \/ UpdateRole(r, ps))
                       \/ DeleteRole(r)
    \/ \E p \in Permission : CreatePermission(p) \/ DeletePermission(p)
    \/ \E u \in User :
          \/ \E e \in Entry : CreateUser(u, e) \/ UpdateUser(u, e)
          \/ DeleteUser(u)
          \/ \E r \in Role : AssignRole(u, r) \/ RevokeRole(u, r)
          \/ \E p \in Permission : AssignPermission(u, p) \/ RevokePermission(u, p)

PolicyNext ==
    \E pol \in Policy :
        \/ \E rules \in SUBSET Rule : CreatePolicy(pol, rules) \/ UpdatePolicy(pol, rules)
        \/ DeletePolicy(pol)

Next == AccessNext \/ PolicyNext

Spec == Init /\ [][Next]_vars

-----------------------------------------------------------------------------
\* The type invariant of the manager.
TypeOK ==
    /\ DOMAIN users \subseteq User /\ DOMAIN roles \subseteq Role
    /\ permissions \subseteq Permission /\ DOMAIN policies \subseteq Policy
    /\ \A u \in DOMAIN users : users[u] \in [roles : SUBSET Role, permissions : SUBSET Permission]
    /\ enforced \subseteq Policy \X Rule /\ partial \subseteq Policy
    /\ stray \subseteq enforced /\ unknown \subseteq User \X Role

\* A role of a user that is not there was already missing when the user's list was given: a
\* deletion takes the role from every user, also from those that were given it before it was
\* created.
RolesExist ==
    \A u \in DOMAIN users : \A r \in users[u].roles : r \in DOMAIN roles \/ <<u, r>> \in unknown

\* The enforcer lacks a recorded rule only where it refused one since, and has no others than
\* the recorded ones but for those it did not remove and those of an update it refused: a
\* removal that fails unnoticed leaves too many rules, never too few.
EnforcerMatches ==
    /\ \A pol \in DOMAIN policies \ partial : Tagged(pol, policies[pol]) \subseteq enforced
    /\ \A x \in enforced \ stray : x[1] \in DOMAIN policies /\ x[2] \in policies[x[1]]

\* A deleted policy leaves no rule behind, also when one of its rules was refused or not removed.
DeletedIsUnenforced ==
    \A e \in enforced : e[1] \in DOMAIN policies
=============================================================================
