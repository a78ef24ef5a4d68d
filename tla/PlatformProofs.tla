--------------------------- MODULE PlatformProofs ---------------------------
(***************************************************************************)
(* Proofs about the parts MCPlatform checks on small instances, the        *)
(* registration and discovery of services excepted (ResilienceProofs), and *)
(* about the rate limiters, for every value of their constants. Each       *)
(* theorem is about one of the parts. Their constants and variables have   *)
(* here the names they have in their modules; where two share a name, no   *)
(* theorem is about both.                                                  *)
(***************************************************************************)
EXTENDS Integers, Sequences, FiniteSets, FiniteSetTheorems, SequenceTheorems,
        WellFoundedInduction, TLAPS

-----------------------------------------------------------------------------
(***************************************************************************)
(* RefreshTokens, for any number of callers, tokens, keys and secrets.     *)
(***************************************************************************)
CONSTANTS Caller, Token, Key, Secret, NoToken, NoKey, NoSecret

VARIABLES keys, currentKeyID, rotated, tokens, used, expired, issued, access, at, token, key

Tokens == INSTANCE RefreshTokens

\* A caller that has looked a token up holds one that was issued, and who is about to save
\* it has marked it: the object is dead before it can be put back.
HeldInv ==
    \A c \in Caller :
        /\ at[c] \in {"check", "mark", "save"} => token[c] \in issued
        /\ at[c] = "save" => token[c] \in used

\* Who is about to sign holds the secret of the current key, unless a change of the keys has
\* overtaken it, and the id of every header is that of a key.
KeyInv ==
    /\ currentKeyID \in DOMAIN keys \cup {NoKey}
    /\ \A c \in Caller : at[c] = "sign" => /\ currentKeyID \in DOMAIN keys
                                           /\ key[c] \in Secret
                                           /\ c \notin rotated => key[c] = keys[currentKeyID]
    /\ \A a \in access : a.kid \in DOMAIN keys

TokenInv == Tokens!TypeOK /\ HeldInv /\ KeyInv /\ Tokens!SignedValidates

\* A behaviour of the token manager has the invariant in every state.
LEMMA TokenInductive ==
    ASSUME NoKey \notin Key
    PROVE  Tokens!Spec => []TokenInv
  <1>1. Tokens!Init => TokenInv
    BY DEF Tokens!Init, TokenInv, Tokens!TypeOK, HeldInv, KeyInv, Tokens!SignedValidates,
       Tokens!Range
  <1>2. TokenInv /\ [Tokens!Next]_(Tokens!vars) => TokenInv'
    <2> SUFFICES ASSUME TokenInv, [Tokens!Next]_(Tokens!vars)
                 PROVE  TokenInv'
      OBVIOUS
    <2> USE DEF TokenInv, HeldInv, KeyInv, Tokens!keyVars, Tokens!storeVars, Tokens!Moves
    <2>1. ASSUME NEW k \in Key, NEW s \in Secret, Tokens!GenerateKeyPair(k, s)
          PROVE  TokenInv'
      <3> USE <2>1 DEF Tokens!GenerateKeyPair, Tokens!WithKey
      <3>1. /\ DOMAIN keys' = DOMAIN keys \cup {k} /\ keys'[k] = s
            /\ \A i \in DOMAIN keys : keys'[i] = keys[i]
        OBVIOUS
      <3>2. Tokens!TypeOK'
        BY <3>1 DEF Tokens!TypeOK, Tokens!Range, Tokens!Signing
      <3>3. HeldInv' /\ KeyInv'
        BY <3>1 DEF Tokens!TypeOK, Tokens!Signing
      <3>4. Tokens!SignedValidates'
        BY <3>1 DEF Tokens!SignedValidates, Tokens!ValidateAccessToken
      <3> QED
        BY <3>2, <3>3, <3>4
    <2>2. ASSUME NEW k \in Key, NEW s \in Secret, Tokens!SetKey(k, s)
          PROVE  TokenInv'
      <3> USE <2>2 DEF Tokens!SetKey, Tokens!WithKey
      <3>1. /\ DOMAIN keys' = DOMAIN keys \cup {k} /\ keys'[k] = s
            /\ \A i \in DOMAIN keys : i # k => keys'[i] = keys[i]
        OBVIOUS
      <3>2. ASSUME NEW b \in access'
            PROVE  \E a \in access :
                      /\ b.kid = a.kid /\ b.key = a.key /\ b.live = a.live
                      /\ b.torn <=> a.torn \/ (a.kid = k /\ Tokens!Replaces(k, s))
                      /\ b \in [kid : Key, key : Secret, live : BOOLEAN, torn : BOOLEAN]
        <4>1. PICK a \in access :
                 b = [a EXCEPT !.torn = @ \/ (a.kid = k /\ Tokens!Replaces(k, s))]
          BY <3>2
        <4>2. a \in [kid : Key, key : Secret, live : BOOLEAN, torn : BOOLEAN]
          BY DEF Tokens!TypeOK
        <4>3. /\ b.kid = a.kid /\ b.key = a.key /\ b.live = a.live
              /\ b.torn = (a.torn \/ (a.kid = k /\ Tokens!Replaces(k, s)))
          BY <4>1, <4>2
        <4>4. b \in [kid : Key, key : Secret, live : BOOLEAN, torn : BOOLEAN]
          BY <4>1, <4>2
        <4> QED
          BY <4>3, <4>4
      <3>3. Tokens!TypeOK'
        <4>1. access' \subseteq [kid : Key, key : Secret, live : BOOLEAN, torn : BOOLEAN]
          BY <3>2
        <4>2. DOMAIN keys' \subseteq Key /\ Tokens!Range(keys)' \subseteq Secret
          BY <3>1 DEF Tokens!TypeOK, Tokens!Range
        <4> HIDE DEF Tokens!WithKey
        <4> QED
          BY <4>1, <4>2 DEF Tokens!TypeOK, Tokens!Signing
      <3>4. HeldInv' /\ KeyInv'
        BY <3>1, <3>2 DEF Tokens!TypeOK, Tokens!Signing, Tokens!Replaces
      <3>5. Tokens!SignedValidates'
        BY <3>1, <3>2 DEF Tokens!SignedValidates, Tokens!ValidateAccessToken, Tokens!Replaces
      <3> QED
        BY <3>3, <3>4, <3>5
    <2>3. ASSUME NEW k \in Key, Tokens!SetCurrentKey(k) PROVE TokenInv'
      BY <2>3 DEF Tokens!SetCurrentKey, Tokens!TypeOK, Tokens!Signing, Tokens!SignedValidates,
                  Tokens!ValidateAccessToken
    <2> USE DEF Tokens!TypeOK, Tokens!SignedValidates, Tokens!ValidateAccessToken
    <2>4. ASSUME NEW c \in Caller, Tokens!GenerateTokenPair(c) PROVE TokenInv'
      BY <2>4 DEF Tokens!GenerateTokenPair
    <2>5. ASSUME NEW c \in Caller, Tokens!ReadKey(c) PROVE TokenInv'
      <3>1. currentKeyID \in DOMAIN keys => keys[currentKeyID] \in Secret
        BY DEF Tokens!Range
      <3> QED
        BY <2>5, <3>1 DEF Tokens!ReadKey
    <2>6. ASSUME NEW c \in Caller, Tokens!GenerateAccessToken(c) PROVE TokenInv'
      <3> DEFINE b == [kid |-> currentKeyID, key |-> key[c], live |-> TRUE,
                       torn |-> c \in rotated]
      <3>1. b \in [kid : Key, key : Secret, live : BOOLEAN, torn : BOOLEAN]
        BY <2>6 DEF Tokens!GenerateAccessToken
      <3>2. b.kid = currentKeyID /\ b.key = key[c] /\ b.torn = (c \in rotated)
        OBVIOUS
      <3>3. access' = access \cup {b}
        BY <2>6 DEF Tokens!GenerateAccessToken
      <3> HIDE DEF b
      <3> QED
        BY <2>6, <3>1, <3>2, <3>3 DEF Tokens!GenerateAccessToken
    <2>7. ASSUME NEW c \in Caller, Tokens!GenerateRefreshToken(c) PROVE TokenInv'
      BY <2>7 DEF Tokens!GenerateRefreshToken
    <2>8. ASSUME NEW c \in Caller, NEW t \in Token, Tokens!Get(c, t) PROVE TokenInv'
      BY <2>8 DEF Tokens!Get
    <2>9. ASSUME NEW c \in Caller, Tokens!CheckToken(c) PROVE TokenInv'
      BY <2>9 DEF Tokens!CheckToken
    <2>10. ASSUME NEW c \in Caller, Tokens!MarkUsed(c) PROVE TokenInv'
      BY <2>10 DEF Tokens!MarkUsed
    <2>11. ASSUME NEW c \in Caller, Tokens!SaveUsed(c) PROVE TokenInv'
      BY <2>11 DEF Tokens!SaveUsed
    <2>12. ASSUME NEW t \in Token, Tokens!RevokeRefreshToken(t) \/ Tokens!Expires(t)
           PROVE  TokenInv'
      BY <2>12 DEF Tokens!RevokeRefreshToken, Tokens!Expires
    <2>13. CASE Tokens!RevokeUserTokens \/ Tokens!CleanupExpiredTokens
      BY <2>13 DEF Tokens!RevokeUserTokens, Tokens!CleanupExpiredTokens
    <2>14. ASSUME NEW a \in access, Tokens!AccessExpires(a) PROVE TokenInv'
      <3>1. /\ [a EXCEPT !.live = FALSE] \in [kid : Key, key : Secret, live : BOOLEAN,
                                              torn : BOOLEAN]
            /\ [a EXCEPT !.live = FALSE].kid = a.kid
            /\ ~[a EXCEPT !.live = FALSE].live
        OBVIOUS
      <3> QED
        BY <2>14, <3>1 DEF Tokens!AccessExpires
    <2>15. CASE UNCHANGED Tokens!vars
      BY <2>15 DEF Tokens!vars
    <2> QED
      BY <2>1, <2>2, <2>3, <2>4, <2>5, <2>6, <2>7, <2>8, <2>9, <2>10, <2>11, <2>12, <2>13,
         <2>14,
         <2>15
      DEF Tokens!Next, Tokens!RefreshAccessToken
  <1> QED
    BY <1>1, <1>2, PTL DEF Tokens!Spec

\* A refresh token that was used, revoked or has expired never works again, whatever refreshes,
\* revocations and clean-ups overlap: the late Save puts back a token that is marked.
THEOREM DeadTokensStayDead ==
    ASSUME NoKey \notin Key
    PROVE  Tokens!Spec => [][Tokens!DeadStaysDead]_(Tokens!vars)
  <1>1. TokenInv /\ [Tokens!Next]_(Tokens!vars) => [Tokens!DeadStaysDead]_(Tokens!vars)
    <2> SUFFICES ASSUME TokenInv, Tokens!Next, NEW t \in issued, ~Tokens!Refreshable(t)
                 PROVE  ~Tokens!Refreshable(t)'
      BY DEF Tokens!DeadStaysDead
    <2>1. used \subseteq used' /\ expired \subseteq expired'
      BY DEF Tokens!Next, Tokens!GenerateKeyPair, Tokens!SetKey, Tokens!SetCurrentKey,
         Tokens!GenerateTokenPair, Tokens!ReadKey,
         Tokens!GenerateAccessToken, Tokens!GenerateRefreshToken, Tokens!RefreshAccessToken,
         Tokens!Get, Tokens!CheckToken, Tokens!MarkUsed,
         Tokens!SaveUsed, Tokens!RevokeRefreshToken, Tokens!Expires, Tokens!RevokeUserTokens,
         Tokens!CleanupExpiredTokens, Tokens!AccessExpires, Tokens!storeVars
    <2>2. CASE \E c \in Caller : Tokens!SaveUsed(c)
      BY <2>1, <2>2 DEF Tokens!SaveUsed, Tokens!Refreshable, TokenInv, HeldInv
    <2>3. CASE \E c \in Caller : Tokens!GenerateRefreshToken(c)
      BY <2>1, <2>3 DEF Tokens!GenerateRefreshToken, Tokens!Refreshable
    <2>4. CASE \A c \in Caller : ~Tokens!SaveUsed(c) /\ ~Tokens!GenerateRefreshToken(c)
      <3>1. tokens' \subseteq tokens
        BY <2>4 DEF Tokens!Next, Tokens!GenerateKeyPair, Tokens!SetKey, Tokens!SetCurrentKey,
           Tokens!GenerateTokenPair, Tokens!ReadKey,
           Tokens!GenerateAccessToken, Tokens!RefreshAccessToken, Tokens!Get,
           Tokens!CheckToken, Tokens!MarkUsed,
           Tokens!RevokeRefreshToken, Tokens!Expires, Tokens!RevokeUserTokens,
           Tokens!CleanupExpiredTokens, Tokens!AccessExpires, Tokens!storeVars
      <3> QED
        BY <2>1, <3>1 DEF Tokens!Refreshable
    <2> QED
      BY <2>2, <2>3, <2>4
  <1> QED
    BY <1>1, TokenInductive, PTL DEF Tokens!Spec

\* An access token validates until it expires, for any number of keys, also those that are
\* generated, set and made current meanwhile, unless its id was given another secret or a
\* change of the keys came between the two reads of the one that signed it.
THEOREM SignedStaysValid ==
    ASSUME NoKey \notin Key
    PROVE  Tokens!Spec => []Tokens!SignedValidates
  <1>1. TokenInv => Tokens!SignedValidates
    BY DEF TokenInv
  <1> QED
    BY <1>1, TokenInductive, PTL

-----------------------------------------------------------------------------
(***************************************************************************)
(* RBACManager, for any users, roles, permissions, policies and rules.     *)
(***************************************************************************)
CONSTANTS User, Role, Permission, Policy, Rule, Entry

VARIABLES users, roles, permissions, policies, enforced, unknown, partial, stray

Policies == INSTANCE RBACManager

UserRecord == [roles : SUBSET Role, permissions : SUBSET Permission]
PolicyAssumption == Entry \subseteq UserRecord

\* The rules the enforcer has, those that are recorded, and those it should not have.
EnforcedRule(pol, r) == <<pol, r>> \in enforced
RecordedRule(pol, r) == pol \in DOMAIN policies /\ r \in policies[pol]
StrayRule(pol, r) == <<pol, r>> \in stray

PoliciesInv ==
    /\ Policies!TypeOK
    /\ \A pol \in DOMAIN policies : policies[pol] \subseteq Rule
    /\ \A r \in DOMAIN roles : roles[r] \subseteq Permission
    /\ Policies!RolesExist
    /\ \A pol \in Policy, r \in Rule :
          /\ RecordedRule(pol, r) => pol \in partial \/ EnforcedRule(pol, r)
          /\ EnforcedRule(pol, r) => RecordedRule(pol, r) \/ StrayRule(pol, r)

\* A map with an entry added, and with one removed.
Extended(f, f2, x, value) ==
    /\ DOMAIN f2 = DOMAIN f \cup {x} /\ f2[x] = value
    /\ \A y \in DOMAIN f : y # x => f2[y] = f[y]
Reduced(f, f2, x) ==
    /\ DOMAIN f2 = DOMAIN f \ {x}
    /\ \A y \in DOMAIN f \ {x} : f2[y] = f[y]

\* What With and Without do.
LEMMA PolicyMaps ==
    ASSUME NEW f, NEW x, NEW value
    PROVE  /\ Extended(f, Policies!With(f, x, value), x, value)
           /\ Reduced(f, Policies!Without(f, x), x)
  BY DEF Policies!With, Policies!Without, Policies!Restrict, Extended, Reduced

\* The operations on users, roles and permissions.
LEMMA AccessStep ==
    ASSUME PolicyAssumption, PoliciesInv, Policies!AccessNext
    PROVE  PoliciesInv'
  <1> DEFINE UserOK(x) == x \in UserRecord
             Access == /\ DOMAIN users \subseteq User /\ DOMAIN roles \subseteq Role
                       /\ permissions \subseteq Permission
                       /\ \A u \in DOMAIN users : UserOK(users[u])
                       /\ \A r \in DOMAIN roles : roles[r] \subseteq Permission
                       /\ unknown \subseteq User \X Role
                       /\ \A u \in DOMAIN users : \A r \in users[u].roles :
                             r \in DOMAIN roles \/ <<u, r>> \in unknown
  <1>1. Access
    BY DEF PoliciesInv, Policies!TypeOK, Policies!RolesExist, UserRecord
  <1>2. SUFFICES Access' /\ UNCHANGED <<policies, enforced, partial, stray>>
    BY <1>2 DEF PoliciesInv, Policies!TypeOK, Policies!RolesExist, EnforcedRule, RecordedRule,
       StrayRule, UserRecord
  <1> USE DEF Policies!policyVars
  <1> DEFINE Same == UNCHANGED <<policies, enforced, partial, stray>>
  <1>3. ASSUME NEW r \in Role, NEW ps \in SUBSET Permission,
               Policies!CreateRole(r, ps) \/ Policies!UpdateRole(r, ps)
        PROVE  Access' /\ Same
    <2>1. Extended(roles, roles', r, ps) /\ UNCHANGED <<users, permissions, unknown>> /\ Same
      BY <1>3, PolicyMaps DEF Policies!CreateRole, Policies!UpdateRole
    <2> QED
      BY <1>1, <2>1 DEF Extended
  <1>4. ASSUME NEW r \in Role, Policies!DeleteRole(r)
        PROVE  Access' /\ Same
    <2>1. /\ Reduced(roles, roles', r) /\ UNCHANGED permissions /\ Same
          /\ users' = [u \in DOMAIN users |-> [users[u] EXCEPT !.roles = @ \ {r}]]
          /\ unknown' = {x \in unknown : x[2] # r}
      BY <1>4, PolicyMaps DEF Policies!DeleteRole, Policies!StripRole
    <2>2. \A u \in DOMAIN users : /\ UserOK(users'[u])
                                  /\ users'[u].roles = users[u].roles \ {r}
      BY <1>1, <2>1 DEF UserRecord
    <2>3. \A u, q : <<u, q>> \in unknown /\ q # r => <<u, q>> \in unknown'
      BY <2>1
    <2>4. \A u \in DOMAIN users' : \A q \in users'[u].roles :
             q \in DOMAIN roles' \/ <<u, q>> \in unknown'
      <3> SUFFICES ASSUME NEW u \in DOMAIN users, NEW q \in users'[u].roles
                   PROVE  q \in DOMAIN roles' \/ <<u, q>> \in unknown'
        BY <2>1
      <3>1. q \in users[u].roles /\ q # r
        BY <2>2
      <3> QED
        BY <1>1, <2>1, <2>3, <3>1 DEF Reduced
    <2> QED
      BY <1>1, <2>1, <2>2, <2>4 DEF Reduced
  <1>5. ASSUME NEW p \in Permission, Policies!CreatePermission(p)
        PROVE  Access' /\ Same
    BY <1>1, <1>5 DEF Policies!CreatePermission
  <1>6. ASSUME NEW p \in Permission, Policies!DeletePermission(p)
        PROVE  Access' /\ Same
    <2>1. /\ users' = [u \in DOMAIN users |-> [users[u] EXCEPT !.permissions = @ \ {p}]]
          /\ roles' = [r \in DOMAIN roles |-> roles[r] \ {p}]
          /\ permissions' = permissions \ {p} /\ UNCHANGED unknown /\ Same
      BY <1>6 DEF Policies!DeletePermission
    <2>2. \A u \in DOMAIN users : UserOK(users'[u]) /\ users'[u].roles = users[u].roles
      BY <1>1, <2>1 DEF UserRecord
    <2> QED
      BY <1>1, <2>1, <2>2
  <1>7. ASSUME NEW u \in User, NEW e \in Entry, Policies!Put(u, e)
        PROVE  Access' /\ Same
    <2>1. /\ Extended(users, users', u, e) /\ UNCHANGED <<roles, permissions>> /\ Same
          /\ unknown' = {x \in unknown : x[1] # u} \cup {u} \X (e.roles \ DOMAIN roles)
      BY <1>7, PolicyMaps DEF Policies!Put
    <2>2. UserOK(e) /\ e.roles \subseteq Role
      BY DEF PolicyAssumption, UserRecord
    <2>3. \A v, q : <<v, q>> \in unknown /\ v # u => <<v, q>> \in unknown'
      BY <2>1
    <2>4. \A q \in e.roles : q \in DOMAIN roles \/ <<u, q>> \in unknown'
      BY <2>1
    <2>5. unknown' \subseteq User \X Role
      BY <1>1, <2>1, <2>2
    <2> HIDE DEF UserOK
    <2>6. \A v \in DOMAIN users' : /\ UserOK(users'[v]) /\ v \in User
                                  /\ \A q \in users'[v].roles :
                                        q \in DOMAIN roles \/ <<v, q>> \in unknown'
      <3> SUFFICES ASSUME NEW v \in DOMAIN users'
                   PROVE  /\ UserOK(users'[v]) /\ v \in User
                          /\ \A q \in users'[v].roles :
                                q \in DOMAIN roles \/ <<v, q>> \in unknown'
        OBVIOUS
      <3>1. CASE v = u
        BY <2>1, <2>2, <2>4, <3>1 DEF Extended
      <3>2. CASE v # u
        BY <1>1, <2>1, <2>3, <3>2 DEF Extended
      <3> QED
        BY <3>1, <3>2
    <2> QED
      BY <1>1, <2>1, <2>5, <2>6
  <1>8. ASSUME NEW u \in User, Policies!DeleteUser(u)
        PROVE  Access' /\ Same
    <2>1. /\ Reduced(users, users', u) /\ UNCHANGED <<roles, permissions>> /\ Same
          /\ unknown' = {x \in unknown : x[1] # u}
      BY <1>8, PolicyMaps DEF Policies!DeleteUser
    <2>2. \A v, q : <<v, q>> \in unknown /\ v # u => <<v, q>> \in unknown'
      BY <2>1
    <2> HIDE DEF UserOK
    <2> QED
      BY <1>1, <2>1, <2>2 DEF Reduced
  <1>9. ASSUME NEW u \in User, NEW r \in Role, Policies!AssignRole(u, r) \/ Policies!RevokeRole(u, r)
        PROVE  Access' /\ Same
    <2>1. /\ u \in DOMAIN users /\ UserOK(users[u])
          /\ UNCHANGED <<roles, permissions, unknown>> /\ Same
      BY <1>1, <1>9 DEF Policies!AssignRole, Policies!RevokeRole
    <2>2. \A rs : Policies!GrantedBy(rs) \subseteq Permission
      BY <1>1 DEF Policies!GrantedBy
    <2>3. PICK rs \in SUBSET Role, ps \in SUBSET Permission :
             /\ users' = [users EXCEPT ![u] = [roles |-> rs, permissions |-> ps]]
             /\ \A q \in rs : q \in users[u].roles \/ q \in DOMAIN roles
      <3>1. CASE Policies!AssignRole(u, r)
        <4>1. /\ users[u].roles \cup {r} \subseteq Role
              /\ \A q \in users[u].roles \cup {r} : q \in users[u].roles \/ q \in DOMAIN roles
          BY <2>1, <3>1 DEF Policies!AssignRole, UserRecord
        <4>2. users[u].permissions \cup roles[r] \subseteq Permission
          BY <1>1, <2>1, <3>1 DEF Policies!AssignRole, UserRecord
        <4> QED
          BY <3>1, <4>1, <4>2 DEF Policies!AssignRole
      <3>2. CASE Policies!RevokeRole(u, r)
        <4>1. /\ users[u].roles \ {r} \in SUBSET Role
              /\ Policies!GrantedBy(users[u].roles \ {r}) \in SUBSET Permission
          BY <2>1, <2>2 DEF UserRecord
        <4>2. users' = [users EXCEPT ![u] =
                 [roles |-> users[u].roles \ {r},
                  permissions |-> Policies!GrantedBy(users[u].roles \ {r})]]
          BY <2>1, <3>2 DEF Policies!RevokeRole
        <4> QED
          BY <4>1, <4>2
      <3> QED
        BY <1>9, <3>1, <3>2
    <2>4. UserOK([roles |-> rs, permissions |-> ps])
      BY <2>3 DEF UserRecord
    <2> QED
      BY <1>1, <2>1, <2>3, <2>4
  <1>10. ASSUME NEW u \in User, NEW p \in Permission,
                Policies!AssignPermission(u, p) \/ Policies!RevokePermission(u, p)
         PROVE  Access' /\ Same
    <2>1. /\ u \in DOMAIN users /\ UserOK(users[u])
          /\ UNCHANGED <<roles, permissions, unknown>> /\ Same
      BY <1>1, <1>10 DEF Policies!AssignPermission, Policies!RevokePermission
    <2>2. PICK ps \in SUBSET Permission :
             users' = [users EXCEPT ![u] = [users[u] EXCEPT !.permissions = ps]]
      <3>1. users[u].permissions \cup {p} \in SUBSET Permission
            /\ users[u].permissions \ {p} \in SUBSET Permission
        BY <2>1 DEF UserRecord
      <3> QED
        BY <1>10, <3>1 DEF Policies!AssignPermission, Policies!RevokePermission
    <2>3. /\ UserOK([users[u] EXCEPT !.permissions = ps])
          /\ [users[u] EXCEPT !.permissions = ps].roles = users[u].roles
      BY <2>1 DEF UserRecord
    <2> QED
      BY <1>1, <2>1, <2>2, <2>3
  <1> HIDE DEF Access, Same
  <1> QED
    BY <1>3, <1>4, <1>5, <1>6, <1>7, <1>8, <1>9, <1>10
       DEF Policies!AccessNext, Policies!CreateUser, Policies!UpdateUser, Same

\* The operations on policies.
LEMMA PolicyStep ==
    ASSUME PoliciesInv, Policies!PolicyNext
    PROVE  PoliciesInv'
  <1> DEFINE Matches == \A pol \in Policy, r \in Rule :
                           /\ RecordedRule(pol, r) => pol \in partial \/ EnforcedRule(pol, r)
                           /\ EnforcedRule(pol, r) => RecordedRule(pol, r) \/ StrayRule(pol, r)
             Rules == /\ DOMAIN policies \subseteq Policy /\ enforced \subseteq Policy \X Rule
                      /\ partial \subseteq Policy /\ stray \subseteq enforced
                      /\ \A pol \in DOMAIN policies : policies[pol] \subseteq Rule
             Same == UNCHANGED <<users, roles, permissions, unknown>>
  <1>1. Rules /\ Matches
    BY DEF PoliciesInv, Policies!TypeOK
  <1>2. SUFFICES Rules' /\ Matches' /\ Same
    BY <1>2 DEF PoliciesInv, Policies!TypeOK, Policies!RolesExist
  <1> USE DEF Policies!accessVars, Policies!Tagged
  <1>3. ASSUME NEW pol \in Policy, NEW rules \in SUBSET Rule, Policies!CreatePolicy(pol, rules)
        PROVE  Rules' /\ Matches' /\ Same
    <2>1. /\ pol \notin DOMAIN policies /\ Extended(policies, policies', pol, rules)
          /\ stray' = stray /\ Same
      BY <1>3, PolicyMaps DEF Policies!CreatePolicy
    <2>2. PICK some \in SUBSET Rule :
             /\ enforced' = enforced \cup ({pol} \X some)
             /\ some \subseteq rules
             /\ (some = rules /\ partial' = partial \ {pol}) \/ partial' = partial \cup {pol}
      BY <1>3 DEF Policies!CreatePolicy
    <2>3. \A q \in Policy, r \in Rule :
             EnforcedRule(q, r)' <=> EnforcedRule(q, r) \/ (q = pol /\ r \in some)
      BY <2>2 DEF EnforcedRule
    <2>4. \A q \in Policy, r \in Rule :
             RecordedRule(q, r)' <=> RecordedRule(q, r) \/ (q = pol /\ r \in rules)
      BY <2>1 DEF RecordedRule, Extended
    <2>5. Rules'
      BY <1>1, <2>1, <2>2 DEF Extended
    <2> QED
      BY <1>1, <2>1, <2>2, <2>3, <2>4, <2>5 DEF RecordedRule, StrayRule
  <1>4. ASSUME NEW pol \in Policy, NEW rules \in SUBSET Rule, Policies!UpdatePolicy(pol, rules)
        PROVE  Rules' /\ Matches' /\ Same
    <2>1. pol \in DOMAIN policies /\ Same
      BY <1>4 DEF Policies!UpdatePolicy
    <2>2. PICK kept \in SUBSET policies[pol], some \in SUBSET rules, added \in SUBSET rules :
             /\ enforced' = (enforced \ ({pol} \X (policies[pol] \ kept))) \cup ({pol} \X some)
             /\ stray' = (stray \cup ({pol} \X (kept \cup added))) \cap enforced'
             /\ \/ /\ some = rules /\ partial' = partial \ {pol}
                   /\ Extended(policies, policies', pol, rules)
                \/ /\ added = some
                   /\ partial' = partial \cup {pol} /\ policies' = policies
      <3>1. PICK kept \in SUBSET policies[pol] :
               \/ /\ enforced' = (enforced \ ({pol} \X (policies[pol] \ kept))) \cup ({pol} \X rules)
                  /\ policies' = Policies!With(policies, pol, rules)
                  /\ partial' = partial \ {pol}
                  /\ stray' = (stray \cup ({pol} \X kept)) \cap enforced'
               \/ \E some \in SUBSET rules \ {rules} :
                     /\ enforced' = (enforced \ ({pol} \X (policies[pol] \ kept))) \cup ({pol} \X some)
                     /\ partial' = partial \cup {pol} /\ policies' = policies
                     /\ stray' = (stray \cup ({pol} \X (kept \cup some))) \cap enforced'
        BY <1>4 DEF Policies!UpdatePolicy, Policies!Unenforced
      <3>2. CASE /\ enforced' = (enforced \ ({pol} \X (policies[pol] \ kept))) \cup ({pol} \X rules)
                 /\ policies' = Policies!With(policies, pol, rules)
                 /\ partial' = partial \ {pol}
                 /\ stray' = (stray \cup ({pol} \X kept)) \cap enforced'
        <4>1. kept = kept \cup {}
          OBVIOUS
        <4>2. stray' = (stray \cup ({pol} \X (kept \cup {}))) \cap enforced'
          BY <3>2, <4>1
        <4>3. Extended(policies, policies', pol, rules)
          BY <3>2, PolicyMaps
        <4>4. rules \in SUBSET rules /\ {} \in SUBSET rules
          OBVIOUS
        <4> QED
          BY <3>2, <4>2, <4>3, <4>4, ZenonT(30)
      <3>3. ASSUME NEW some \in SUBSET rules,
                   /\ enforced' = (enforced \ ({pol} \X (policies[pol] \ kept))) \cup ({pol} \X some)
                   /\ partial' = partial \cup {pol} /\ policies' = policies
                   /\ stray' = (stray \cup ({pol} \X (kept \cup some))) \cap enforced'
            PROVE  \E new \in SUBSET rules, added \in SUBSET rules :
                      /\ enforced' = (enforced \ ({pol} \X (policies[pol] \ kept))) \cup ({pol} \X new)
                      /\ stray' = (stray \cup ({pol} \X (kept \cup added))) \cap enforced'
                      /\ added = new
                      /\ partial' = partial \cup {pol} /\ policies' = policies
        BY <3>3
      <3> QED
        BY <3>1, <3>2, <3>3
    <2>3. \A q \in Policy, r \in Rule :
             EnforcedRule(q, r)' <=>
                 IF q = pol THEN (EnforcedRule(q, r) /\ r \notin policies[pol] \ kept) \/ r \in some
                 ELSE EnforcedRule(q, r)
      BY <2>2 DEF EnforcedRule
    <2>4. \A q \in Policy, r \in Rule :
             StrayRule(q, r)' <=>
                 /\ EnforcedRule(q, r)'
                 /\ StrayRule(q, r) \/ (q = pol /\ r \in kept \cup added)
      BY <2>2 DEF StrayRule, EnforcedRule
    <2>5. \A q \in Policy, r \in Rule : q # pol => (RecordedRule(q, r)' <=> RecordedRule(q, r))
      BY <2>2 DEF RecordedRule, Extended
    <2>6. Extended(policies, policies', pol, rules)
             => \A r \in Rule : RecordedRule(pol, r)' <=> r \in rules
      BY DEF RecordedRule, Extended
    <2>7. \A r \in Rule : RecordedRule(pol, r) <=> r \in policies[pol]
      BY <2>1 DEF RecordedRule
    <2>8. Rules'
      BY <1>1, <2>1, <2>2 DEF Extended
    <2>9. Matches'
      <3> SUFFICES ASSUME NEW q \in Policy, NEW r \in Rule
                   PROVE  /\ RecordedRule(q, r)' => q \in partial' \/ EnforcedRule(q, r)'
                          /\ EnforcedRule(q, r)' => RecordedRule(q, r)' \/ StrayRule(q, r)'
        OBVIOUS
      <3>1. CASE q # pol
        BY <1>1, <2>2, <2>3, <2>4, <2>5, <3>1
      <3>2. CASE q = pol /\ some = rules /\ Extended(policies, policies', pol, rules)
        BY <1>1, <2>3, <2>4, <2>6, <2>7, <3>2
      <3>3. CASE q = pol /\ added = some /\ pol \in partial' /\ policies' = policies
        <4>1. RecordedRule(q, r)' <=> RecordedRule(q, r)
          BY <3>3 DEF RecordedRule
        <4> QED
          BY <1>1, <2>3, <2>4, <2>7, <3>3, <4>1
      <3> QED
        BY <2>2, <3>1, <3>2, <3>3
    <2> QED
      BY <2>1, <2>8, <2>9
  <1>5. ASSUME NEW pol \in Policy, Policies!DeletePolicy(pol)
        PROVE  Rules' /\ Matches' /\ Same
    <2>1. /\ pol \in DOMAIN policies /\ Reduced(policies, policies', pol)
          /\ partial' = partial \ {pol} /\ Same
      BY <1>5, PolicyMaps DEF Policies!DeletePolicy
    <2>2. PICK kept \in SUBSET policies[pol] :
             /\ enforced' = enforced \ ({pol} \X (policies[pol] \ kept))
             /\ stray' = (stray \cup ({pol} \X kept)) \cap enforced'
      BY <1>5 DEF Policies!DeletePolicy, Policies!Unenforced
    <2>3. \A q \in Policy, r \in Rule :
             EnforcedRule(q, r)' <=> EnforcedRule(q, r) /\ ~(q = pol /\ r \in policies[pol] \ kept)
      BY <2>2 DEF EnforcedRule
    <2>4. \A q \in Policy, r \in Rule :
             StrayRule(q, r)' <=>
                 /\ EnforcedRule(q, r)'
                 /\ StrayRule(q, r) \/ (q = pol /\ r \in kept)
      BY <2>2 DEF StrayRule, EnforcedRule
    <2>5. \A q \in Policy, r \in Rule :
             RecordedRule(q, r)' <=> RecordedRule(q, r) /\ q # pol
      BY <2>1 DEF RecordedRule, Reduced
    <2>6. Rules'
      BY <1>1, <2>1, <2>2 DEF Reduced
    <2> QED
      BY <1>1, <2>1, <2>3, <2>4, <2>5, <2>6 DEF RecordedRule
  <1> HIDE DEF Rules, Matches, Same
  <1> QED
    BY <1>3, <1>4, <1>5 DEF Policies!PolicyNext

\* A user has only roles that exist or were missing already when its list was given; the
\* enforcer lacks a recorded rule only where it refused one since, and has too many only by
\* removals that failed and updates it refused, whatever is created, updated, deleted, refused
\* and not removed in between.
THEOREM PolicySafety ==
    ASSUME PolicyAssumption
    PROVE  Policies!Spec =>
              [](Policies!TypeOK /\ Policies!RolesExist /\ Policies!EnforcerMatches)
  <1>1. Policies!Init => PoliciesInv
    BY DEF Policies!Init, PoliciesInv, Policies!TypeOK, Policies!RolesExist, EnforcedRule,
       RecordedRule
  <1>2. PoliciesInv /\ [Policies!Next]_(Policies!vars) => PoliciesInv'
    <2>1. ASSUME PoliciesInv, UNCHANGED Policies!vars PROVE PoliciesInv'
      BY <2>1 DEF Policies!vars, Policies!accessVars, Policies!policyVars, PoliciesInv,
         Policies!TypeOK, Policies!RolesExist, EnforcedRule, RecordedRule, StrayRule
    <2> QED
      BY <2>1, AccessStep, PolicyStep DEF Policies!Next
  <1>3. PoliciesInv => Policies!RolesExist /\ Policies!EnforcerMatches
    <2> SUFFICES ASSUME PoliciesInv PROVE Policies!EnforcerMatches
      BY DEF PoliciesInv
    <2>1. /\ enforced \subseteq Policy \X Rule /\ DOMAIN policies \subseteq Policy
          /\ \A pol \in DOMAIN policies : policies[pol] \subseteq Rule
      BY DEF PoliciesInv, Policies!TypeOK
    <2>2. ASSUME NEW pol \in DOMAIN policies \ partial, NEW x \in {pol} \X policies[pol]
          PROVE  x \in enforced
      <3>1. PICK r \in policies[pol] : x = <<pol, r>>
        OBVIOUS
      <3> QED
        BY <2>1, <3>1 DEF PoliciesInv, EnforcedRule, RecordedRule
    <2>3. ASSUME NEW x \in enforced \ stray
          PROVE  x[1] \in DOMAIN policies /\ x[2] \in policies[x[1]]
      <3>1. x = <<x[1], x[2]>> /\ x[1] \in Policy /\ x[2] \in Rule
        BY <2>1
      <3>2. EnforcedRule(x[1], x[2]) /\ ~StrayRule(x[1], x[2])
        BY <3>1 DEF EnforcedRule, StrayRule
      <3> QED
        BY <3>1, <3>2 DEF PoliciesInv, RecordedRule
    <2> QED
      BY <2>2, <2>3 DEF Policies!EnforcerMatches, Policies!Tagged
  <1>4. PoliciesInv => Policies!TypeOK
    BY DEF PoliciesInv
  <1> QED
    BY <1>1, <1>2, <1>3, <1>4, PTL DEF Policies!Spec

-----------------------------------------------------------------------------
(***************************************************************************)
(* RBAC, for any users, permissions and targets and finitely many roles.   *)
(***************************************************************************)
CONSTANTS Target, MaxCopies

VARIABLES replaced, direct, odd

Roles == INSTANCE RBAC

\* The roles of u that grant p, and that the copies of p in the list of u are at most those
\* its caller gave and one for each of them, and as many when the list agreed with the roles.
Grants(u, p) == {r \in users[u].roles : r \in DOMAIN roles /\ p \in roles[r]}
CountedOnce(u, p) ==
    /\ users[u].copies[p] <= direct[u][p] + Cardinality(Grants(u, p))
    /\ u \notin odd => users[u].copies[p] = direct[u][p] + Cardinality(Grants(u, p))

\* Until a role is updated or deleted such a user has only roles that exist.
RolesInv ==
    /\ Roles!TypeOK
    /\ ~replaced => \A u \in DOMAIN users :
          /\ u \notin odd => users[u].roles \subseteq DOMAIN roles
          /\ \A p \in Permission : CountedOnce(u, p)

UserEntry == [roles : SUBSET Role, copies : [Permission -> 0 .. MaxCopies]]
RoleAssumption == IsFiniteSet(Role) /\ MaxCopies \in Nat /\ Entry \subseteq UserEntry

\* What With and Without do.
LEMMA RoleMaps ==
    ASSUME NEW f, NEW x, NEW value
    PROVE  /\ Extended(f, Roles!With(f, x, value), x, value)
           /\ Reduced(f, Roles!Without(f, x), x)
  BY DEF Roles!With, Roles!Without, Roles!Restrict, Extended, Reduced

\* How a step may change the list of u and the roles behind it: not at all, by a copy for a
\* role that begins to grant p, or by a copy less for one that grants it no more; a list that
\* names a role before it is there gets no copy.
Follows(u, p) ==
    \/ Grants(u, p)' = Grants(u, p) /\ users'[u].copies[p] = users[u].copies[p]
    \/ \E r \in Role \ Grants(u, p) :
          /\ Grants(u, p)' = Grants(u, p) \cup {r}
          /\ \/ users'[u].copies[p] = users[u].copies[p] + 1
             \/ u \in odd /\ users'[u].copies[p] = users[u].copies[p]
    \/ \E r \in Grants(u, p) :
          /\ Grants(u, p)' = Grants(u, p) \ {r}
          /\ users'[u].copies[p] = IF users[u].copies[p] > 0 THEN users[u].copies[p] - 1
                                   ELSE users[u].copies[p]

Kept(u) == direct'[u] = direct[u] /\ (u \in odd' <=> u \in odd)

\* Such a step keeps the count.
LEMMA CopiesFollow ==
    ASSUME IsFiniteSet(Role), NEW u \in DOMAIN users, NEW p \in Permission,
           users[u] \in UserEntry, CountedOnce(u, p), Follows(u, p), Kept(u),
           direct[u] \in [Permission -> 0 .. MaxCopies]
    PROVE  CountedOnce(u, p)'
  <1>1. /\ IsFiniteSet(Grants(u, p)) /\ Cardinality(Grants(u, p)) \in Nat
        /\ Grants(u, p) = {} <=> Cardinality(Grants(u, p)) = 0
    <2>1. Grants(u, p) \in SUBSET Role
      BY DEF Grants, UserEntry
    <2>2. IsFiniteSet(Grants(u, p))
      <3> HIDE DEF Grants
      <3> QED
        BY <2>1, FS_Subset
    <2> HIDE DEF Grants
    <2> QED
      BY <2>2, FS_CardinalityType, FS_EmptySet
  <1>2. /\ users[u].copies[p] \in Nat /\ direct[u][p] \in Nat
        /\ users[u].copies[p] <= direct[u][p] + Cardinality(Grants(u, p))
        /\ u \notin odd => users[u].copies[p] = direct[u][p] + Cardinality(Grants(u, p))
    BY DEF CountedOnce, UserEntry
  <1>3. SUFFICES /\ users'[u].copies[p] <= direct[u][p] + Cardinality(Grants(u, p)')
                 /\ u \notin odd =>
                       users'[u].copies[p] = direct[u][p] + Cardinality(Grants(u, p)')
    BY <1>3 DEF CountedOnce, Cardinality, Kept
  <1>4. CASE Grants(u, p)' = Grants(u, p) /\ users'[u].copies[p] = users[u].copies[p]
    BY <1>2, <1>4
  <1>5. ASSUME NEW r \in Role \ Grants(u, p), Grants(u, p)' = Grants(u, p) \cup {r},
               \/ users'[u].copies[p] = users[u].copies[p] + 1
               \/ u \in odd /\ users'[u].copies[p] = users[u].copies[p]
        PROVE  /\ users'[u].copies[p] <= direct[u][p] + Cardinality(Grants(u, p)')
               /\ u \notin odd =>
                     users'[u].copies[p] = direct[u][p] + Cardinality(Grants(u, p)')
    <2>1. Cardinality(Grants(u, p)') = Cardinality(Grants(u, p)) + 1
      BY <1>1, <1>5, FS_AddElement
    <2> QED
      BY <1>1, <1>2, <1>5, <2>1
  <1>6. ASSUME NEW r \in Grants(u, p), Grants(u, p)' = Grants(u, p) \ {r},
               users'[u].copies[p] = IF users[u].copies[p] > 0 THEN users[u].copies[p] - 1
                                     ELSE users[u].copies[p]
        PROVE  /\ users'[u].copies[p] <= direct[u][p] + Cardinality(Grants(u, p)')
               /\ u \notin odd =>
                     users'[u].copies[p] = direct[u][p] + Cardinality(Grants(u, p)')
    <2>1. Cardinality(Grants(u, p)) > 0
      BY <1>1
    <2>2. Cardinality(Grants(u, p)') = Cardinality(Grants(u, p)) - 1
      BY <1>1, <1>6, FS_RemoveElement
    <2> QED
      BY <1>1, <1>2, <1>6, <2>1, <2>2
  <1> QED
    BY <1>4, <1>5, <1>6 DEF Follows

\* The lists with a copy more and with a copy less.
LEMMA CopyCounts ==
    ASSUME MaxCopies \in Nat, NEW copies \in [Permission -> 0 .. MaxCopies],
           NEW ps \in SUBSET Permission
    PROVE  /\ (\A p \in ps : copies[p] < MaxCopies) =>
                 Roles!Added(copies, ps) \in [Permission -> 0 .. MaxCopies]
           /\ Roles!Removed(copies, ps) \in [Permission -> 0 .. MaxCopies]
           /\ \A p \in Permission :
                 /\ Roles!Added(copies, ps)[p] = IF p \in ps THEN copies[p] + 1 ELSE copies[p]
                 /\ Roles!Removed(copies, ps)[p] =
                       IF p \in ps /\ copies[p] > 0 THEN copies[p] - 1 ELSE copies[p]
  BY DEF Roles!Added, Roles!Removed

\* What the steps have in common: the entries keep their type, and without a replacement
\* the users and the roles they have go together.
LEMMA RolesKept ==
    ASSUME IsFiniteSet(Role), RolesInv, Roles!TypeOK',
           ~replaced' =>
              /\ ~replaced
              /\ \A u \in DOMAIN users' :
                    /\ u \notin odd' => users'[u].roles \subseteq DOMAIN roles'
                    /\ \/ u \in DOMAIN users /\ Kept(u) /\ \A p \in Permission : Follows(u, p)
                       \/ \A p \in Permission : CountedOnce(u, p)'
    PROVE  RolesInv'
  <1> SUFFICES ASSUME ~replaced', NEW u \in DOMAIN users'
               PROVE  \A p \in Permission : CountedOnce(u, p)'
    BY DEF RolesInv
  <1>1. CASE u \in DOMAIN users /\ Kept(u) /\ \A p \in Permission : Follows(u, p)
    <2>1. /\ users[u] \in UserEntry /\ \A p \in Permission : CountedOnce(u, p)
          /\ direct[u] \in [Permission -> 0 .. MaxCopies]
      BY <1>1 DEF RolesInv, Roles!TypeOK, UserEntry
    <2> QED
      BY <1>1, <2>1, CopiesFollow
  <1> QED
    BY <1>1

\* A step that leaves the users alone and replaces nothing leaves their roles alone too, but
\* for one that was named before it was there.
LEMMA SameGrants ==
    ASSUME RolesInv, ~replaced, users' = users, direct' = direct, odd' = odd, NEW r \in Role,
           DOMAIN roles \subseteq DOMAIN roles', DOMAIN roles' \subseteq DOMAIN roles \cup {r},
           \A x \in DOMAIN roles : roles'[x] = roles[x]
    PROVE  \A u \in DOMAIN users' :
              /\ u \notin odd' => users'[u].roles \subseteq DOMAIN roles'
              /\ u \in DOMAIN users /\ Kept(u) /\ \A p \in Permission : Follows(u, p)
  <1> SUFFICES ASSUME NEW u \in DOMAIN users
               PROVE  /\ u \notin odd => users[u].roles \subseteq DOMAIN roles'
                      /\ \A p \in Permission : Follows(u, p)
    BY DEF Kept
  <1>1. u \notin odd => users[u].roles \subseteq DOMAIN roles
    BY DEF RolesInv
  <1>2. ASSUME NEW p \in Permission PROVE Follows(u, p)
    <2>1. CASE Grants(u, p)' = Grants(u, p)
      BY <2>1 DEF Follows
    <2>2. CASE Grants(u, p)' # Grants(u, p)
      <3>1. u \in odd /\ r \notin Grants(u, p) /\ Grants(u, p)' = Grants(u, p) \cup {r}
        BY <1>1, <2>2 DEF Grants
      <3> QED
        BY <3>1 DEF Follows
    <2> QED
      BY <2>1, <2>2
  <1> QED
    BY <1>1, <1>2

\* The operations on roles and permissions that do not reach the users.
LEMMA RoleStep ==
    ASSUME IsFiniteSet(Role), RolesInv,
           \/ \E r \in Role, ps \in SUBSET Permission :
                 Roles!AddRole(r, ps) \/ Roles!UpdateRole(r, ps) \/ Roles!DeleteRole(r)
           \/ \E p \in Permission, t \in Target :
                 Roles!AddPermission(p, t) \/ Roles!UpdatePermission(p, t)
           \/ \E p \in Permission : Roles!DeletePermission(p)
    PROVE  RolesInv'
  <1> USE DEF Roles!Has
  <1>1. Roles!TypeOK
    BY DEF RolesInv
  <1>2. ASSUME NEW r \in Role, NEW ps \in SUBSET Permission,
               Roles!AddRole(r, ps) \/ Roles!UpdateRole(r, ps) \/ Roles!DeleteRole(r)
        PROVE  RolesInv'
    <2>1. /\ Extended(roles, roles', r, ps) \/ Reduced(roles, roles', r)
          /\ UNCHANGED <<users, permissions, direct, odd>>
          /\ \/ replaced' = TRUE
             \/ /\ r \notin DOMAIN roles /\ Extended(roles, roles', r, ps)
                /\ replaced' = replaced
      BY <1>2, RoleMaps DEF Roles!AddRole, Roles!UpdateRole, Roles!DeleteRole, Roles!userVars
    <2>2. Roles!TypeOK'
      BY <1>1, <2>1 DEF Roles!TypeOK, Extended, Reduced
    <2>3. ASSUME ~replaced'
          PROVE  /\ ~replaced /\ DOMAIN roles \subseteq DOMAIN roles'
                 /\ DOMAIN roles' \subseteq DOMAIN roles \cup {r}
                 /\ \A x \in DOMAIN roles : roles'[x] = roles[x]
      BY <2>1, <2>3 DEF Extended
    <2> QED
      BY <2>1, <2>2, <2>3, SameGrants, RolesKept
  <1>3. ASSUME NEW p \in Permission,
               \/ \E t \in Target : Roles!AddPermission(p, t) \/ Roles!UpdatePermission(p, t)
               \/ Roles!DeletePermission(p)
        PROVE  RolesInv'
    <2>1. /\ \/ \E t \in Target : Extended(permissions, permissions', p, t)
             \/ Reduced(permissions, permissions', p)
          /\ UNCHANGED <<users, roles, replaced, direct, odd>>
      BY <1>3, RoleMaps DEF Roles!AddPermission, Roles!UpdatePermission, Roles!DeletePermission,
         Roles!userVars
    <2>2. Roles!TypeOK'
      BY <1>1, <2>1 DEF Roles!TypeOK, Extended, Reduced
    <2>3. \A u \in DOMAIN users, q \in Permission : Kept(u) /\ Follows(u, q)
      BY <2>1 DEF Kept, Follows, Grants
    <2> QED
      BY <2>1, <2>2, <2>3, RolesKept DEF RolesInv
  <1> QED
    BY <1>2, <1>3

\* A user comes, with what its caller gives, or goes.
LEMMA UserStep ==
    ASSUME RoleAssumption, RolesInv, NEW u \in User,
           \/ \E e \in Entry : Roles!AddUser(u, e) \/ Roles!UpdateUser(u, e)
           \/ Roles!DeleteUser(u)
    PROVE  RolesInv'
  <1>1. /\ Roles!TypeOK /\ \A v \in DOMAIN users : users[v] \in UserEntry
        /\ direct \in [User -> [Permission -> 0 .. MaxCopies]]
    BY DEF RolesInv, Roles!TypeOK, UserEntry
  <1>2. CASE Roles!DeleteUser(u)
    <2>1. /\ Reduced(users, users', u) /\ UNCHANGED <<roles, permissions, replaced>>
          /\ direct' = [direct EXCEPT ![u] = [p \in Permission |-> 0]] /\ odd' = odd \ {u}
      BY <1>2, RoleMaps DEF Roles!DeleteUser, Roles!NoCopies
    <2>2. [p \in Permission |-> 0] \in [Permission -> 0 .. MaxCopies]
      BY DEF RoleAssumption
    <2>3. Roles!TypeOK'
      BY <1>1, <2>1, <2>2 DEF Roles!TypeOK, Reduced, UserEntry
    <2>4. \A v \in DOMAIN users' : /\ v \in DOMAIN users /\ v # u /\ v \in User
                                  /\ users'[v] = users[v]
      BY <1>1, <2>1 DEF Reduced, Roles!TypeOK
    <2>5. \A v \in DOMAIN users' : Kept(v) /\ \A p \in Permission : Follows(v, p)
      BY <1>1, <2>1, <2>4 DEF Kept, Follows, Grants
    <2> QED
      BY <2>1, <2>3, <2>4, <2>5, RolesKept DEF RolesInv, RoleAssumption
  <1>3. ASSUME NEW e \in Entry, Roles!Put(u, e)
        PROVE  RolesInv'
    <2> DEFINE Roled(p) == {r \in e.roles : r \in DOMAIN roles /\ p \in roles[r]}
               Beyond == [p \in Permission |->
                             IF e.copies[p] > Cardinality(Roled(p))
                             THEN e.copies[p] - Cardinality(Roled(p)) ELSE 0]
    <2>1. \A p : Roles!Granting(e.roles, p) = Cardinality(Roled(p))
      BY DEF Roles!Granting, Roles!Has, Roles!Cardinality, Cardinality
    <2>2. /\ Extended(users, users', u, e) /\ UNCHANGED <<roles, permissions, replaced>>
          /\ direct' = [direct EXCEPT ![u] = Beyond]
          /\ odd' = IF /\ e.roles \subseteq DOMAIN roles
                       /\ \A p \in Permission : e.copies[p] >= Cardinality(Roled(p))
                    THEN odd \ {u} ELSE odd \cup {u}
      <3>1. /\ users' = Roles!With(users, u, e) /\ UNCHANGED <<roles, permissions, replaced>>
            /\ direct' = [direct EXCEPT ![u] = [p \in Permission |->
                  IF e.copies[p] > Roles!Granting(e.roles, p)
                  THEN e.copies[p] - Roles!Granting(e.roles, p) ELSE 0]]
            /\ odd' = IF /\ e.roles \subseteq DOMAIN roles
                         /\ \A p \in Permission : e.copies[p] >= Roles!Granting(e.roles, p)
                      THEN odd \ {u} ELSE odd \cup {u}
        BY <1>3 DEF Roles!Put
      <3> HIDE DEF Roled
      <3>2. Beyond = [p \in Permission |->
                         IF e.copies[p] > Roles!Granting(e.roles, p)
                         THEN e.copies[p] - Roles!Granting(e.roles, p) ELSE 0]
        BY <2>1
      <3> HIDE DEF Beyond
      <3> QED
        BY <2>1, <3>1, <3>2, RoleMaps
    <2>3. /\ e \in UserEntry /\ \A p \in Permission : e.copies[p] \in 0 .. MaxCopies
          /\ e.roles \subseteq Role
      BY DEF RoleAssumption, UserEntry
    <2>4. \A p : Cardinality(Roled(p)) \in Nat
      BY <2>3, FS_Subset, FS_CardinalityType DEF RoleAssumption
    <2> HIDE DEF Roled
    <2>5. Beyond \in [Permission -> 0 .. MaxCopies]
      BY <2>3, <2>4 DEF RoleAssumption
    <2>6. Roles!TypeOK'
      BY <1>1, <2>2, <2>3, <2>5 DEF Roles!TypeOK, Extended, UserEntry
    <2>7. ASSUME NEW v \in DOMAIN users', v # u
          PROVE  /\ v \in DOMAIN users /\ users'[v] = users[v]
                 /\ Kept(v) /\ \A p \in Permission : Follows(v, p)
      <3>1. v \in DOMAIN users /\ v \in User /\ users'[v] = users[v]
        BY <1>1, <2>2, <2>7 DEF Extended, Roles!TypeOK
      <3> QED
        BY <1>1, <2>2, <2>7, <3>1 DEF Kept, Follows, Grants
    <2>8. \A p \in Permission : CountedOnce(u, p)'
      <3> SUFFICES ASSUME NEW p \in Permission PROVE CountedOnce(u, p)'
        OBVIOUS
      <3>1. users'[u] = e /\ direct'[u][p] = Beyond[p]
        BY <1>1, <2>2 DEF Extended
      <3>2. Grants(u, p)' = Roled(p)
        BY <2>2, <3>1 DEF Grants, Roled
      <3>3. u \notin odd' => e.copies[p] >= Cardinality(Roled(p))
        BY <2>2
      <3>4. /\ e.copies[p] <= Beyond[p] + Cardinality(Roled(p))
            /\ u \notin odd' => e.copies[p] = Beyond[p] + Cardinality(Roled(p))
        BY <2>3, <2>4, <3>3
      <3> HIDE DEF Beyond
      <3> QED
        BY <3>1, <3>2, <3>4 DEF CountedOnce, Cardinality
    <2>9. u \notin odd' => users'[u].roles \subseteq DOMAIN roles'
      BY <2>2 DEF Extended
    <2>10. ASSUME ~replaced', NEW v \in DOMAIN users', v # u
           PROVE  v \notin odd' => users'[v].roles \subseteq DOMAIN roles'
      BY <2>2, <2>7, <2>10 DEF RolesInv, Kept
    <2> HIDE DEF Beyond
    <2> QED
      BY <2>2, <2>6, <2>7, <2>8, <2>9, <2>10, RolesKept DEF RoleAssumption
  <1> QED
    BY <1>2, <1>3 DEF Roles!AddUser, Roles!UpdateUser

\* A user gets or loses a role.
LEMMA AssignStep ==
    ASSUME IsFiniteSet(Role), MaxCopies \in Nat, RolesInv, NEW u \in User, NEW r \in Role,
           Roles!AssignRoleToUser(u, r) \/ Roles!RemoveRoleFromUser(u, r)
    PROVE  RolesInv'
  <1> USE DEF Roles!Has
  <1>1. Roles!TypeOK /\ \A v \in DOMAIN users : users[v] \in UserEntry
    BY DEF RolesInv, Roles!TypeOK, UserEntry
  <1>2. u \in DOMAIN users /\ UNCHANGED <<roles, permissions, replaced, direct, odd>>
    BY DEF Roles!AssignRoleToUser, Roles!RemoveRoleFromUser
  <1>3. users[u].copies \in [Permission -> 0 .. MaxCopies] /\ users[u].roles \subseteq Role
    BY <1>1, <1>2 DEF UserEntry
  <1>4. r \in DOMAIN roles => roles[r] \in SUBSET Permission
    BY <1>1 DEF Roles!TypeOK
  <1>5. PICK rs \in SUBSET Role, copies \in [Permission -> 0 .. MaxCopies] :
           /\ users' = [users EXCEPT ![u] = [roles |-> rs, copies |-> copies]]
           /\ \/ /\ r \in DOMAIN roles /\ r \notin users[u].roles
                 /\ rs = users[u].roles \cup {r}
                 /\ copies = Roles!Added(users[u].copies, roles[r])
              \/ /\ r \in users[u].roles /\ rs = users[u].roles \ {r}
                 /\ copies = IF r \in DOMAIN roles
                             THEN Roles!Removed(users[u].copies, roles[r])
                             ELSE users[u].copies
    <2>1. CASE Roles!AssignRoleToUser(u, r)
      <3>1. Roles!Added(users[u].copies, roles[r]) \in [Permission -> 0 .. MaxCopies]
        BY <1>3, <1>4, <2>1, CopyCounts DEF Roles!AssignRoleToUser
      <3> QED
        BY <1>3, <2>1, <3>1 DEF Roles!AssignRoleToUser
    <2>2. CASE Roles!RemoveRoleFromUser(u, r)
      <3>1. r \in DOMAIN roles =>
               Roles!Removed(users[u].copies, roles[r]) \in [Permission -> 0 .. MaxCopies]
        BY <1>3, <1>4, CopyCounts
      <3> QED
        BY <1>3, <2>2, <3>1 DEF Roles!RemoveRoleFromUser
    <2> QED
      BY <2>1, <2>2
  <1>6. /\ [roles |-> rs, copies |-> copies] \in UserEntry
        /\ [roles |-> rs, copies |-> copies].roles = rs
        /\ [roles |-> rs, copies |-> copies].copies = copies
    BY <1>5 DEF UserEntry
  <1>7. /\ DOMAIN users' = DOMAIN users
        /\ users'[u].roles = rs /\ users'[u].copies = copies
        /\ \A v \in DOMAIN users \ {u} : users'[v] = users[v]
        /\ \A v \in DOMAIN users : users'[v] \in UserEntry
    BY <1>1, <1>2, <1>5, <1>6
  <1>8. Roles!TypeOK'
    BY <1>1, <1>2, <1>7 DEF Roles!TypeOK, UserEntry
  <1>9. ASSUME ~replaced', NEW v \in DOMAIN users'
        PROVE  /\ v \in DOMAIN users /\ Kept(v)
               /\ v \notin odd' => users'[v].roles \subseteq DOMAIN roles'
               /\ \A p \in Permission : Follows(v, p)
    <2>1. CASE v # u
      BY <1>2, <1>7, <1>9, <2>1 DEF RolesInv, Follows, Grants, Kept
    <2>2. CASE v = u
      <3>1. u \notin odd => users[u].roles \subseteq DOMAIN roles
        BY <1>2, <1>9 DEF RolesInv
      <3>2. u \notin odd => rs \subseteq DOMAIN roles
        BY <1>5, <3>1
      <3>3. ASSUME NEW p \in Permission PROVE Follows(u, p)
        <4>1. Grants(u, p)' = {x \in rs : x \in DOMAIN roles /\ p \in roles[x]}
          BY <1>2, <1>7 DEF Grants
        <4>2. CASE r \notin DOMAIN roles \/ p \notin roles[r]
          <5>1. Grants(u, p)' = Grants(u, p)
            BY <1>5, <4>1, <4>2 DEF Grants
          <5>2. copies[p] = users[u].copies[p]
            BY <1>3, <1>4, <1>5, <3>3, <4>2, CopyCounts
          <5> QED
            BY <1>7, <5>1, <5>2 DEF Follows
        <4>3. CASE r \in DOMAIN roles /\ p \in roles[r] /\ r \notin users[u].roles
          <5>1. Grants(u, p)' = Grants(u, p) \cup {r} /\ r \notin Grants(u, p)
            BY <1>5, <4>1, <4>3 DEF Grants
          <5>2. copies[p] = users[u].copies[p] + 1
            BY <1>3, <1>4, <1>5, <3>3, <4>3, CopyCounts
          <5> QED
            BY <1>7, <5>1, <5>2 DEF Follows
        <4>4. CASE r \in DOMAIN roles /\ p \in roles[r] /\ r \in users[u].roles
          <5>1. Grants(u, p)' = Grants(u, p) \ {r} /\ r \in Grants(u, p)
            BY <1>5, <4>1, <4>4 DEF Grants
          <5>2. copies[p] = IF users[u].copies[p] > 0 THEN users[u].copies[p] - 1
                            ELSE users[u].copies[p]
            BY <1>3, <1>4, <1>5, <3>3, <4>4, CopyCounts
          <5> QED
            BY <1>7, <5>1, <5>2 DEF Follows
        <4> QED
          BY <4>2, <4>3, <4>4
      <3> QED
        BY <1>2, <1>7, <2>2, <3>2, <3>3 DEF Kept
    <2> QED
      BY <2>1, <2>2
  <1> QED
    BY <1>2, <1>8, <1>9, RolesKept

\* A role gets or loses a permission, and so do its holders.
LEMMA PermissionStep ==
    ASSUME IsFiniteSet(Role), MaxCopies \in Nat, RolesInv, NEW r \in Role, NEW p \in Permission,
           Roles!AssignPermissionToRole(r, p) \/ Roles!RemovePermissionFromRole(r, p)
    PROVE  RolesInv'
  <1> USE DEF Roles!Has
  <1> DEFINE Gains == p \notin roles[r]
             Changed(copies) == IF Gains THEN Roles!Added(copies, {p})
                                ELSE Roles!Removed(copies, {p})
  <1>1. Roles!TypeOK /\ \A v \in DOMAIN users : users[v] \in UserEntry
    BY DEF RolesInv, Roles!TypeOK, UserEntry
  <1>2. r \in DOMAIN roles /\ UNCHANGED <<permissions, replaced, direct, odd>>
    BY DEF Roles!AssignPermissionToRole, Roles!RemovePermissionFromRole
  <1>3. roles' = [roles EXCEPT ![r] = IF Gains THEN @ \cup {p} ELSE @ \ {p}]
    BY DEF Roles!AssignPermissionToRole, Roles!RemovePermissionFromRole
  <1>4. /\ DOMAIN users' = DOMAIN users
        /\ \A v \in DOMAIN users :
              users'[v] = IF r \in users[v].roles
                          THEN [users[v] EXCEPT !.copies = Changed(users[v].copies)]
                          ELSE users[v]
    <2>1. CASE Roles!AssignPermissionToRole(r, p)
      BY <1>1, <2>1 DEF Roles!AssignPermissionToRole, Roles!ForHolders, UserEntry
    <2>2. CASE Roles!RemovePermissionFromRole(r, p)
      BY <1>1, <2>2 DEF Roles!RemovePermissionFromRole, Roles!ForHolders, UserEntry
    <2> QED
      BY <2>1, <2>2
  <1>5. Gains => \A v \in DOMAIN users : users[v].copies[p] < MaxCopies
    BY DEF Roles!AssignPermissionToRole, Roles!RemovePermissionFromRole
  <1>6. ASSUME NEW v \in DOMAIN users
        PROVE  /\ Changed(users[v].copies) \in [Permission -> 0 .. MaxCopies]
               /\ \A q \in Permission \ {p} :
                     Changed(users[v].copies)[q] = users[v].copies[q]
               /\ Changed(users[v].copies)[p] =
                     IF Gains THEN users[v].copies[p] + 1
                     ELSE IF users[v].copies[p] > 0 THEN users[v].copies[p] - 1
                     ELSE users[v].copies[p]
    <2>1. users[v].copies \in [Permission -> 0 .. MaxCopies]
      BY <1>1 DEF UserEntry
    <2> QED
      BY <1>5, <2>1, CopyCounts
  <1> HIDE DEF Changed
  <1>7. \A v \in DOMAIN users :
           /\ users'[v] \in UserEntry /\ users'[v].roles = users[v].roles
           /\ users'[v].copies = IF r \in users[v].roles THEN Changed(users[v].copies)
                                 ELSE users[v].copies
    BY <1>1, <1>4, <1>6 DEF UserEntry
  <1>8. /\ DOMAIN roles' = DOMAIN roles
        /\ \A x \in DOMAIN roles : x # r => roles'[x] = roles[x]
        /\ \A q \in Permission : q # p => (q \in roles'[r] <=> q \in roles[r])
        /\ p \in roles'[r] <=> Gains
        /\ \A x \in DOMAIN roles : roles'[x] \subseteq Permission
    BY <1>1, <1>2, <1>3 DEF Roles!TypeOK
  <1>9. Roles!TypeOK'
    BY <1>1, <1>2, <1>4, <1>7, <1>8 DEF Roles!TypeOK, UserEntry
  <1>10. ASSUME ~replaced', NEW v \in DOMAIN users'
         PROVE  /\ v \in DOMAIN users /\ Kept(v)
                /\ v \notin odd' => users'[v].roles \subseteq DOMAIN roles'
                /\ \A q \in Permission : Follows(v, q)
    <2>1. v \in DOMAIN users /\ (v \notin odd => users[v].roles \subseteq DOMAIN roles)
      BY <1>2, <1>4, <1>10 DEF RolesInv
    <2>2. ASSUME NEW q \in Permission PROVE Follows(v, q)
      <3>1. Grants(v, q)' = {x \in users[v].roles : x \in DOMAIN roles /\ q \in roles'[x]}
        BY <1>7, <1>8, <2>1 DEF Grants
      <3>2. CASE q # p \/ r \notin users[v].roles
        <4>1. Grants(v, q)' = Grants(v, q)
          BY <1>8, <2>1, <3>1, <3>2 DEF Grants
        <4>2. users'[v].copies[q] = users[v].copies[q]
          BY <1>6, <1>7, <2>1, <3>2
        <4> QED
          BY <4>1, <4>2 DEF Follows
      <3>3. CASE q = p /\ r \in users[v].roles /\ Gains
        <4>1. Grants(v, q)' = Grants(v, q) \cup {r} /\ r \notin Grants(v, q)
          BY <1>2, <1>8, <2>1, <3>1, <3>3 DEF Grants
        <4>2. users'[v].copies[q] = users[v].copies[q] + 1
          BY <1>6, <1>7, <2>1, <3>3
        <4> QED
          BY <4>1, <4>2 DEF Follows
      <3>4. CASE q = p /\ r \in users[v].roles /\ ~Gains
        <4>1. Grants(v, q)' = Grants(v, q) \ {r} /\ r \in Grants(v, q)
          BY <1>2, <1>8, <2>1, <3>1, <3>4 DEF Grants
        <4>2. users'[v].copies[q] = IF users[v].copies[q] > 0 THEN users[v].copies[q] - 1
                                    ELSE users[v].copies[q]
          BY <1>6, <1>7, <2>1, <3>4
        <4> QED
          BY <4>1, <4>2 DEF Follows
      <3> QED
        BY <3>2, <3>3, <3>4
    <2> QED
      BY <1>2, <1>7, <1>8, <2>1, <2>2 DEF Kept
  <1> QED
    BY <1>2, <1>9, <1>10, RolesKept

\* As long as roles are changed only by assigning and removing, a user's list holds a
\* permission once for every role that grants it and as often as its caller gave it beyond
\* that, whatever is assigned, removed and updated in which order, and the middlewares let a
\* user in exactly by them; when the caller's list did not agree with the roles it holds no
\* more than that, and they let nobody in by anything else.  And whatever is replaced or
\* deleted, nobody passes for a target without a permission for it that exists, nor has the
\* scope of a role without passing the check for that role.
THEOREM RoleSafety ==
    ASSUME RoleAssumption
    PROVE  Roles!Spec => [](/\ Roles!TypeOK /\ Roles!CopiesAreRoles /\ Roles!GrantedByRoles
                            /\ Roles!GrantsExist)
  <1>1. Roles!Init => RolesInv
    <2> SUFFICES ASSUME Roles!Init PROVE RolesInv
      OBVIOUS
    <2>1. /\ DOMAIN users = {} /\ DOMAIN roles = {} /\ DOMAIN permissions = {}
          /\ replaced = FALSE /\ odd = {}
          /\ direct \in [User -> [Permission -> 0 .. MaxCopies]]
      BY DEF Roles!Init, Roles!NoCopies, RoleAssumption
    <2> QED
      BY <2>1 DEF RolesInv, Roles!TypeOK
  <1>2. RolesInv /\ [Roles!Next]_(Roles!vars) => RolesInv'
    <2>1. ASSUME RolesInv, UNCHANGED Roles!vars PROVE RolesInv'
      BY <2>1 DEF Roles!vars, Roles!userVars, RolesInv, Roles!TypeOK, CountedOnce, Grants
    <2>2. ASSUME RolesInv, Roles!Next PROVE RolesInv'
      BY <2>2, RoleStep, UserStep, AssignStep, PermissionStep DEF Roles!Next, RoleAssumption
    <2> QED
      BY <2>1, <2>2
  <1>3. ASSUME NEW u, NEW p
        PROVE  Roles!Granting(users[u].roles, p) = Cardinality(Grants(u, p))
    BY DEF Roles!Granting, Roles!Has, Grants, Roles!Cardinality, Cardinality
  <1>4. RolesInv => Roles!CopiesAreRoles
    BY <1>3 DEF Roles!CopiesAreRoles, RolesInv, CountedOnce
  <1>5. RolesInv => Roles!GrantedByRoles
    <2> SUFFICES ASSUME RolesInv, ~replaced, NEW u \in User, NEW t \in Target
                 PROVE  /\ Roles!PermissionCheckMiddleware(u, {t}) =>
                              /\ Roles!Has(users, u)
                              /\ \E p \in Permission : Roles!Granted(u, p) /\ Roles!Aims(p, t)
                        /\ Roles!Has(users, u) /\ u \notin odd =>
                              \A p \in Permission :
                                  Roles!Granted(u, p) /\ Roles!Aims(p, t) =>
                                      Roles!PermissionCheckMiddleware(u, {t})
      BY DEF Roles!GrantedByRoles
    <2>1. Roles!PermissionCheckMiddleware(u, {t}) <=> Roles!HasPermission(u, t)
      BY DEF Roles!PermissionCheckMiddleware
    <2>2. u \in DOMAIN users =>
             /\ users[u] \in UserEntry /\ direct[u] \in [Permission -> 0 .. MaxCopies]
             /\ u \notin odd => users[u].roles \subseteq DOMAIN roles
             /\ \A r \in DOMAIN roles : roles[r] \subseteq Permission
             /\ \A p \in Permission : CountedOnce(u, p)
      BY DEF RolesInv, Roles!TypeOK, UserEntry
    <2>3. ASSUME u \in DOMAIN users, NEW p \in Permission
          PROVE  /\ IsFiniteSet(Grants(u, p)) /\ Cardinality(Grants(u, p)) \in Nat
                 /\ Cardinality(Grants(u, p)) = 0 <=> Grants(u, p) = {}
      BY <2>2, <2>3, FS_Subset, FS_CardinalityType, FS_EmptySet DEF Grants, UserEntry,
         RoleAssumption
    <2>4. ASSUME u \in DOMAIN users, NEW p \in Permission, users[u].copies[p] > 0
          PROVE  direct[u][p] > 0 \/ \E r \in users[u].roles : r \in DOMAIN roles /\ p \in roles[r]
      <3>1. direct[u][p] \in Nat /\ direct[u][p] + Cardinality(Grants(u, p)) > 0
        BY <2>2, <2>3, <2>4 DEF CountedOnce, UserEntry
      <3>2. direct[u][p] > 0 \/ Grants(u, p) # {}
        BY <2>3, <2>4, <3>1
      <3> QED
        BY <3>2 DEF Grants
    <2>5. ASSUME u \in DOMAIN users, u \notin odd, NEW p \in Permission, direct[u][p] > 0
          PROVE  users[u].copies[p] > 0
      BY <2>2, <2>3, <2>5 DEF CountedOnce, UserEntry
    <2> QED
      BY <2>1, <2>2, <2>4, <2>5
         DEF Roles!HasPermission, Roles!Has, Roles!Granted, Roles!GetUserRoles
  <1>6. RolesInv => Roles!TypeOK /\ Roles!GrantsExist
    <2>1. ASSUME RolesInv, NEW u \in User, NEW t \in Target, Roles!HasPermission(u, t)
          PROVE  t \in Roles!Range(permissions)
      <3>1. \E p : p \in DOMAIN permissions /\ permissions[p] = t
        BY <2>1 DEF Roles!HasPermission, Roles!Aims, Roles!Has
      <3> QED
        BY <3>1 DEF Roles!Range
    <2>2. ASSUME NEW u \in User, NEW r \in Role, Roles!DataScope(u, r, r) = 1
          PROVE  Roles!RoleCheckMiddleware(u, {r})
      <3>1. Roles!Has(users, u) /\ r \in Roles!GetUserRoles(u)
        BY <2>2 DEF Roles!DataScope
      <3> QED
        BY <3>1 DEF Roles!RoleCheckMiddleware, Roles!HasRole, Roles!GetUserRoles
    <2> QED
      BY <2>1, <2>2 DEF Roles!GrantsExist, Roles!ResourceBasedMiddleware, RolesInv
  <1> QED
    BY <1>1, <1>2, <1>4, <1>5, <1>6, PTL DEF Roles!Spec

-----------------------------------------------------------------------------
(***************************************************************************)
(* GatewayAuth, for any keys, sessions and requests and any lifetime of a  *)
(* token.                                                                  *)
(***************************************************************************)
CONSTANTS KeyID, Material, Session, Request, TTL, NoSession, MaxTime, MaxUpdates

VARIABLES updates, clock, stored, cache, of, header, lost, check, late, answers

Auth == INSTANCE GatewayAuth

\* What stands for no token is not a key.
AuthAssumption == TTL \in Nat /\ MaxTime \in Nat /\ NoToken \notin Material

Signed == [by : {"manager"}, kid : KeyID, key : Material, exp : Nat]
Provided == [by : {"jwt", "oauth2"}, exp : Nat]

AuthPoint == {"idle", "check", "checkCurrent", "parse", "parseCurrent", "unlink", "roles",
              "permissions", "scopes", "handler", "aborted", "handled", "done"}

\* How often r is answered when its chain has ended.
MostAnswers(r) == IF check[r] = "masses" THEN 2 ELSE 1

\* What each point of the chain says of the answers written.
Answered(r) ==
    /\ at[r] \notin {"unlink", "aborted", "handled", "done"} => answers[r] = 0
    /\ at[r] \in {"parse", "parseCurrent", "unlink"} => check[r] = "masses"
    /\ at[r] = "unlink" => answers[r] = 1
    /\ at[r] \in {"aborted", "handled"} => answers[r] \in 1 .. MostAnswers(r)
    /\ at[r] = "done" => answers[r] \in 1 .. MostAnswers(r) + (IF r \in late THEN 1 ELSE 0)

\* A check of the manager's tokens has such a token before it; a key that did not stand under
\* its id is remembered, and so is the cause of a refusal.
Checked(r) ==
    /\ r \in Auth!AtKeys \/ at[r] = "unlink" => header[r] \in Signed
    /\ r \in Auth!AtKeys => r \in lost \/ Auth!Stands(header[r], keys)
    /\ at[r] \in {"checkCurrent", "parseCurrent"} => check[r] \in Auth!ByManager /\ r \in lost
    /\ at[r] = "unlink" => r \in lost \/ clock > header[r].exp

AuthInv ==
    /\ Auth!TypeOK
    /\ at \in [Request -> AuthPoint] /\ answers \in [Request -> Nat]
    /\ \A r \in Request : Answered(r) /\ Checked(r)

\* The keys: a function from some of the ids.
LEMMA KeysOfIds ==
    ASSUME NEW ks
    PROVE  ks \in Auth!KeySets <=> DOMAIN ks \subseteq KeyID /\ ks \in [DOMAIN ks -> Material]
  BY DEF Auth!KeySets

\* A token of the manager is one that has a key id.
LEMMA TokenKinds ==
    ASSUME NEW t \in Signed \cup Provided
    PROVE  /\ t.exp \in Nat
           /\ "kid" \in DOMAIN t => t \in Signed
           /\ t.by = "jwt" => t \in Provided
  BY DEF Signed, Provided

\* A step that leaves the requests, their answers and the keys alone.
LEMMA TokensKeep ==
    ASSUME AuthAssumption, AuthInv, Auth!TypeOK', UNCHANGED <<keys, Auth!requestVars, lost>>,
           clock' = clock \/ clock' = clock + 1
    PROVE  AuthInv'
  <1>1. \A r \in Request : Answered(r)'
    BY DEF AuthInv, Answered, MostAnswers, Auth!requestVars
  <1>2. ASSUME NEW r \in Request PROVE Checked(r)'
    <2>1. /\ Checked(r) /\ (r \in lost' <=> r \in lost) /\ header'[r] = header[r]
          /\ at'[r] = at[r] /\ check'[r] = check[r] /\ keys' = keys
          /\ Auth!AtKeys' = Auth!AtKeys
      BY DEF AuthInv, Auth!requestVars, Auth!AtKeys
    <2>2. ASSUME at[r] = "unlink", r \notin lost PROVE clock' > header[r].exp
      <3>1. header[r].exp \in Nat /\ clock \in Nat /\ clock > header[r].exp
        BY <2>1, <2>2 DEF AuthInv, Auth!TypeOK, AuthAssumption, Checked, Signed
      <3> QED
        BY <3>1
    <2> QED
      BY <2>1, <2>2 DEF Checked, Auth!Stands
  <1> QED
    BY <1>1, <1>2 DEF AuthInv, Auth!requestVars

\* The operations on the keys and the tokens.
LEMMA TokenStep ==
    ASSUME AuthAssumption, AuthInv,
           \/ \E ks \in Auth!KeySets, k \in KeyID : Auth!UpdateKeys(ks, k)
           \/ \E s \in Session :
                 \/ Auth!GenerateToken(s) \/ Auth!RefreshToken(s) \/ Auth!RevokeToken(s)
                 \/ \E p \in {"jwt", "oauth2"} : Auth!ProviderGenerateToken(s, p)
           \/ Auth!Tick
    PROVE  AuthInv'
  <1> USE DEF AuthAssumption
  <1>1. Auth!TypeOK
    BY DEF AuthInv
  <1>2. /\ keys \in Auth!KeySets /\ currentKeyID \in KeyID /\ clock \in 0 .. MaxTime
        /\ tokens \in [Session -> Signed \cup Provided \cup {NoToken}]
        /\ clock + TTL \in Nat /\ Auth!Tokens = Signed \cup Provided
    BY <1>1 DEF Auth!TypeOK, Auth!Tokens, Signed, Provided
  <1>3. ASSUME NEW ks \in Auth!KeySets, NEW k \in KeyID, Auth!UpdateKeys(ks, k)
        PROVE  AuthInv'
    <2>1. Auth!TypeOK'
      BY <1>1, <1>3
         DEF Auth!UpdateKeys, Auth!TypeOK, Auth!tokenVars, Auth!requestVars, Auth!AtKeys
    <2>2. ASSUME NEW r \in Request PROVE Answered(r)' /\ Checked(r)'
      <3>1. /\ Answered(r) /\ Checked(r) /\ (r \in lost => r \in lost')
            /\ UNCHANGED <<at, header, check, late, answers, clock>>
            /\ Auth!AtKeys' = Auth!AtKeys /\ keys' = ks
            /\ r \in Auth!AtKeys => r \in lost' \/ Auth!Stands(header[r], ks)
        BY <1>3 DEF AuthInv, Auth!UpdateKeys, Auth!requestVars, Auth!AtKeys
      <3>2. Answered(r)'
        BY <3>1 DEF Answered, MostAnswers
      <3>3. Checked(r)'
        BY <3>1 DEF Checked, Auth!Stands
      <3> QED
        BY <3>2, <3>3
    <2>3. UNCHANGED <<at, answers>>
      BY <1>3 DEF Auth!UpdateKeys, Auth!requestVars
    <2> QED
      BY <2>1, <2>2, <2>3 DEF AuthInv
  <1>4. ASSUME NEW s \in Session, Auth!GenerateToken(s)
        PROVE  AuthInv'
    <2>1. keys[currentKeyID] \in Material
      BY <1>2, <1>4, KeysOfIds DEF Auth!GenerateToken
    <2>2. tokens' \in [Session -> Signed \cup Provided \cup {NoToken}]
      BY <1>2, <1>4, <2>1 DEF Auth!GenerateToken, Signed
    <2>3. Auth!TypeOK'
      BY <1>1, <1>2, <1>4, <2>2
         DEF Auth!GenerateToken, Auth!TypeOK, Auth!keyVars, Auth!requestVars
    <2> QED
      BY <1>4, <2>3, TokensKeep DEF Auth!GenerateToken, Auth!keyVars
  <1>5. ASSUME NEW s \in Session, NEW p \in {"jwt", "oauth2"}, Auth!ProviderGenerateToken(s, p)
        PROVE  AuthInv'
    <2>1. tokens' \in [Session -> Signed \cup Provided \cup {NoToken}]
      BY <1>2, <1>5 DEF Auth!ProviderGenerateToken, Provided
    <2>2. stored' \subseteq Session \X {"first", "again"}
      BY <1>1, <1>5 DEF Auth!ProviderGenerateToken, Auth!TypeOK
    <2>3. Auth!TypeOK'
      BY <1>1, <1>2, <1>5, <2>1, <2>2
         DEF Auth!ProviderGenerateToken, Auth!TypeOK, Auth!keyVars, Auth!requestVars, Signed,
             Provided
    <2> QED
      BY <1>5, <2>3, TokensKeep DEF Auth!ProviderGenerateToken, Auth!keyVars
  <1>6. ASSUME NEW s \in Session, Auth!RefreshToken(s)
        PROVE  AuthInv'
    <2>1. tokens' \in [Session -> Signed \cup Provided \cup {NoToken}]
      <3>1. CASE tokens' = tokens
        BY <1>2, <3>1
      <3>2. CASE tokens[s].by = "jwt" /\ tokens' = [tokens EXCEPT ![s].exp = clock + TTL]
        <4>1. tokens[s] \in Provided
          BY <1>2, <1>6, <3>2, TokenKinds DEF Auth!RefreshToken
        <4>2. [tokens[s] EXCEPT !.exp = clock + TTL] \in Provided
          BY <1>2, <4>1 DEF Provided
        <4> QED
          BY <1>2, <3>2, <4>2
      <3> QED
        BY <1>6, <3>1, <3>2 DEF Auth!RefreshToken
    <2>2. stored' \subseteq Session \X {"first", "again"}
      BY <1>1, <1>6 DEF Auth!RefreshToken, Auth!TypeOK
    <2>3. Auth!TypeOK'
      BY <1>1, <1>2, <1>6, <2>1, <2>2
         DEF Auth!RefreshToken, Auth!TypeOK, Auth!keyVars, Auth!requestVars
    <2> QED
      BY <1>6, <2>3, TokensKeep DEF Auth!RefreshToken, Auth!keyVars
  <1>7. ASSUME NEW s \in Session, Auth!RevokeToken(s)
        PROVE  AuthInv'
    <2>1. Auth!TypeOK'
      BY <1>1, <1>7 DEF Auth!RevokeToken, Auth!TypeOK, Auth!keyVars, Auth!requestVars
    <2> QED
      BY <1>7, <2>1, TokensKeep DEF Auth!RevokeToken, Auth!keyVars
  <1>8. CASE Auth!Tick
    <2>1. Auth!TypeOK'
      BY <1>1, <1>8 DEF Auth!Tick, Auth!TypeOK, Auth!keyVars, Auth!tokenVars, Auth!requestVars
    <2> QED
      BY <1>8, <2>1, TokensKeep DEF Auth!Tick, Auth!keyVars
  <1> QED
    BY <1>3, <1>4, <1>5, <1>6, <1>7, <1>8

\* What the steps of a request have in common: one request moves.
LEMMA AuthRequestKeeps ==
    ASSUME AuthInv, NEW r \in Request, NEW point \in AuthPoint, NEW n \in Nat,
           at' = [at EXCEPT ![r] = point], answers' = [answers EXCEPT ![r] = n],
           \A q \in Request \ {r} : /\ check'[q] = check[q] /\ header'[q] = header[q]
                                    /\ q \in late' <=> q \in late
                                    /\ q \in lost' <=> q \in lost,
           UNCHANGED <<keys, clock>>, Auth!TypeOK', Answered(r)', Checked(r)'
    PROVE  AuthInv'
  <1>1. /\ at \in [Request -> AuthPoint] /\ answers \in [Request -> Nat]
        /\ at' \in [Request -> AuthPoint] /\ answers' \in [Request -> Nat]
    BY DEF AuthInv
  <1>2. ASSUME NEW q \in Request \ {r} PROVE Answered(q)' /\ Checked(q)'
    <2>1. /\ Answered(q) /\ Checked(q) /\ at'[q] = at[q] /\ answers'[q] = answers[q]
          /\ check'[q] = check[q] /\ header'[q] = header[q]
          /\ (q \in late' <=> q \in late) /\ (q \in lost' <=> q \in lost)
      BY <1>1, <1>2 DEF AuthInv
    <2>2. q \in Auth!AtKeys' <=> q \in Auth!AtKeys
      BY <2>1 DEF Auth!AtKeys
    <2>3. Answered(q)'
      BY <2>1 DEF Answered, MostAnswers
    <2>4. Checked(q)'
      BY <2>1, <2>2 DEF Checked, Auth!Stands
    <2> QED
      BY <2>3, <2>4
  <1> QED
    BY <1>1, <1>2 DEF AuthInv

\* The steps that move one request, leave the keys, the tokens and its own past alone and
\* keep what the points of the chain say.
LEMMA ChainKeeps ==
    ASSUME AuthInv, NEW r \in Request, NEW point \in AuthPoint, NEW n \in Nat,
           at' = [at EXCEPT ![r] = point], answers' = [answers EXCEPT ![r] = n],
           UNCHANGED <<Auth!keyVars, clock, tokens, stored, of, header, check, lost>>,
           cache' \subseteq cache, late' \subseteq Request,
           \A q \in Request \ {r} : q \in late' <=> q \in late,
           Answered(r)',
           point \notin {"check", "checkCurrent", "parse", "parseCurrent", "unlink"} \/ Checked(r)'
    PROVE  AuthInv'
  <1>1. Auth!TypeOK'
    BY DEF AuthInv, Auth!TypeOK, Auth!keyVars
  <1>2. at'[r] = point
    BY DEF AuthInv
  <1>3. Checked(r)'
    BY <1>2 DEF Checked, Auth!AtKeys, Auth!KeyReads
  <1> QED
    BY <1>1, <1>3, AuthRequestKeeps DEF Auth!keyVars

\* A middleware without a key: the request goes on without an answer, or its chain ends.
LEMMA PassKeeps ==
    ASSUME AuthInv, NEW r \in Request, NEW passes \in BOOLEAN,
           NEW point \in {"roles", "permissions", "scopes", "handler"},
           at[r] \notin {"unlink", "aborted", "handled", "done"}, Auth!PassIf(r, passes, point),
           UNCHANGED <<Auth!keyVars, clock, Auth!tokenVars, of, header, check, late, lost>>
    PROVE  AuthInv'
  <1>1. /\ at \in [Request -> AuthPoint] /\ answers \in [Request -> Nat] /\ answers[r] = 0
        /\ late \subseteq Request
    BY DEF AuthInv, Answered, Auth!TypeOK
  <1>2. CASE passes
    <2>1. at' = [at EXCEPT ![r] = point] /\ answers' = [answers EXCEPT ![r] = 0]
      BY <1>1, <1>2 DEF Auth!PassIf, Auth!Moves
    <2>2. Answered(r)'
      BY <1>1, <2>1 DEF Answered
    <2>3. point \in AuthPoint
      BY DEF AuthPoint
    <2> QED
      BY <1>1, <2>1, <2>2, <2>3, ChainKeeps DEF Auth!tokenVars
  <1>3. CASE ~passes
    <2>1. at' = [at EXCEPT ![r] = "aborted"] /\ answers' = [answers EXCEPT ![r] = 1]
      BY <1>1, <1>3 DEF Auth!PassIf, Auth!Moves, Auth!Answer
    <2>2. Answered(r)'
      BY <1>1, <2>1 DEF Answered, MostAnswers
    <2>3. "aborted" \in AuthPoint
      BY DEF AuthPoint
    <2> QED
      BY <1>1, <2>1, <2>2, <2>3, ChainKeeps DEF Auth!tokenVars
  <1> QED
    BY <1>2, <1>3

\* A check that has a key: which points it may lead to, and the cause of a refusal.
LEMMA ParsedLeadsTo ==
    ASSUME AuthInv, AuthAssumption, NEW r \in Auth!AtKeys, NEW mat, Auth!Parsed(r, mat),
           mat # header[r].key => r \in lost
    PROVE  \E point \in {"handler", "parse", "unlink", "aborted"} :
              \E n \in 0 .. 1 :
                 /\ at' = [at EXCEPT ![r] = point] /\ answers' = [answers EXCEPT ![r] = n]
                 /\ point \in {"handler", "parse"} => n = 0 /\ mat = header[r].key
                 /\ point \in {"unlink", "aborted"} =>
                       n = 1 /\ (r \in lost \/ clock > header[r].exp)
                 /\ point \in {"parse", "unlink"} => check[r] = "masses"
  <1>1. /\ r \in Request /\ answers \in [Request -> Nat] /\ answers[r] = 0
        /\ at[r] \in {"check", "checkCurrent", "parse", "parseCurrent"}
        /\ at[r] \in {"parse", "parseCurrent"} => check[r] = "masses"
        /\ header[r] \in Signed /\ clock \in Nat
    BY DEF AuthInv, Answered, Checked, Auth!AtKeys, Auth!KeyReads, Auth!TypeOK, AuthAssumption
  <1>2. header[r].exp \in Nat
    BY <1>1 DEF Signed
  <1>3. CASE at[r] \in {"check", "checkCurrent"}
    <2>1. Auth!PassIf(r, mat = header[r].key, IF check[r] = "masses" THEN "parse" ELSE "handler")
      BY <1>3 DEF Auth!Parsed, Auth!AuthUserCheck
    <2>2. CASE mat = header[r].key
      BY <1>1, <2>1, <2>2 DEF Auth!PassIf, Auth!Moves
    <2>3. CASE mat # header[r].key
      <3>1. at' = [at EXCEPT ![r] = "aborted"] /\ answers' = [answers EXCEPT ![r] = 1]
        BY <1>1, <2>1, <2>3 DEF Auth!PassIf, Auth!Moves, Auth!Answer
      <3> QED
        BY <2>3, <3>1
    <2> QED
      BY <2>2, <2>3
  <1>4. CASE at[r] \in {"parse", "parseCurrent"}
    <2>1. Auth!ParseToken(r, mat = header[r].key)
      BY <1>4 DEF Auth!Parsed
    <2>2. CASE mat = header[r].key /\ ~Auth!Expired(header[r])
      BY <1>1, <2>1, <2>2 DEF Auth!ParseToken, Auth!Moves
    <2>3. CASE ~(mat = header[r].key /\ ~Auth!Expired(header[r]))
      <3>1. at' = [at EXCEPT ![r] = "unlink"] /\ answers' = [answers EXCEPT ![r] = 1]
        BY <1>1, <2>1, <2>3 DEF Auth!ParseToken, Auth!Moves, Auth!Answer
      <3>2. r \in lost \/ clock > header[r].exp
        BY <1>1, <1>2, <2>3 DEF Auth!Expired
      <3> QED
        BY <1>1, <1>4, <3>1, <3>2
    <2> QED
      BY <2>2, <2>3
  <1> QED
    BY <1>1, <1>3, <1>4

\* Both key reads parse the token with a key that is its own, or was not always under its id.
LEMMA KeyReadParses ==
    ASSUME AuthInv, AuthAssumption, NEW r \in Request,
           Auth!GetKeyByID(r) \/ Auth!GetCurrentKey(r)
    PROVE  /\ r \in Auth!AtKeys
           /\ \/ /\ header[r].kid \notin DOMAIN keys /\ at[r] \in {"check", "parse"}
                 /\ Auth!Moves(r, IF at[r] = "check" THEN "checkCurrent" ELSE "parseCurrent")
                 /\ UNCHANGED answers
              \/ \E mat \in Auth!Range(keys) \cup {NoToken} :
                    Auth!Parsed(r, mat) /\ (mat # header[r].key => r \in lost)
  <1>1. Checked(r)
    BY DEF AuthInv
  <1>2. CASE Auth!GetKeyByID(r)
    BY <1>1, <1>2 DEF Auth!GetKeyByID, Checked, Auth!Stands, Auth!Range
  <1>3. CASE Auth!GetCurrentKey(r)
    BY <1>1, <1>3 DEF Auth!GetCurrentKey, Checked, Auth!AtKeys, Auth!KeyReads, Auth!Range
  <1> QED
    BY <1>2, <1>3

\* The key reads.
LEMMA KeyReadKeeps ==
    ASSUME AuthInv, AuthAssumption, NEW r \in Request,
           Auth!GetKeyByID(r) \/ Auth!GetCurrentKey(r)
    PROVE  AuthInv'
  <1>1. /\ at \in [Request -> AuthPoint] /\ answers \in [Request -> Nat] /\ late \subseteq Request
        /\ UNCHANGED <<Auth!keyVars, clock, tokens, stored, cache, of, header, check, late, lost>>
        /\ Answered(r) /\ Checked(r) /\ r \in Auth!AtKeys
    BY KeyReadParses DEF AuthInv, Auth!TypeOK, Auth!GetKeyByID, Auth!GetCurrentKey,
       Auth!tokenVars
  <1>2. /\ header[r] \in Signed /\ answers[r] = 0 /\ check[r] \in Auth!ByManager
        /\ at[r] \in {"parse", "parseCurrent"} => check[r] = "masses"
    BY <1>1 DEF Answered, Checked, Auth!AtKeys, Auth!KeyReads
  <1>3. ASSUME header[r].kid \notin DOMAIN keys, at[r] \in {"check", "parse"}, UNCHANGED answers,
               Auth!Moves(r, IF at[r] = "check" THEN "checkCurrent" ELSE "parseCurrent")
        PROVE  AuthInv'
    <2> DEFINE point == IF at[r] = "check" THEN "checkCurrent" ELSE "parseCurrent"
    <2>1. point \in {"checkCurrent", "parseCurrent"} /\ (point = "parseCurrent" => at[r] = "parse")
      BY <1>3
    <2>2. at' = [at EXCEPT ![r] = point] /\ answers' = [answers EXCEPT ![r] = 0]
      BY <1>1, <1>2, <1>3 DEF Auth!Moves
    <2> HIDE DEF point
    <2>3. at'[r] = point /\ answers'[r] = 0
      BY <1>1, <2>2
    <2>4. Answered(r)'
      BY <1>1, <1>2, <2>1, <2>3 DEF Answered
    <2>5. r \in lost
      BY <1>1, <1>3 DEF Checked, Auth!Stands
    <2>6. Checked(r)'
      BY <1>1, <1>2, <2>1, <2>3, <2>5 DEF Checked
    <2>7. point \in AuthPoint
      BY <2>1 DEF AuthPoint
    <2> QED
      BY <1>1, <2>2, <2>4, <2>6, <2>7, ChainKeeps
  <1>4. ASSUME NEW mat, Auth!Parsed(r, mat), mat # header[r].key => r \in lost
        PROVE  AuthInv'
    <2>1. PICK point \in {"handler", "parse", "unlink", "aborted"}, n \in 0 .. 1 :
             /\ at' = [at EXCEPT ![r] = point] /\ answers' = [answers EXCEPT ![r] = n]
             /\ point \in {"handler", "parse"} => n = 0 /\ mat = header[r].key
             /\ point \in {"unlink", "aborted"} =>
                   n = 1 /\ (r \in lost \/ clock > header[r].exp)
             /\ point \in {"parse", "unlink"} => check[r] = "masses"
      BY <1>1, <1>4, ParsedLeadsTo
    <2>2. at'[r] = point /\ answers'[r] = n
      BY <1>1, <2>1
    <2>3. Answered(r)'
      BY <1>1, <2>1, <2>2 DEF Answered, MostAnswers
    <2>4. r \in Auth!AtKeys' => r \in lost \/ Auth!Stands(header[r], keys)
      BY <1>1 DEF Checked
    <2>5. Checked(r)'
      BY <1>1, <1>2, <2>1, <2>2, <2>4 DEF Checked, Auth!Stands, Auth!keyVars
    <2>6. point \in AuthPoint /\ n \in Nat
      BY DEF AuthPoint
    <2> QED
      BY <1>1, <2>1, <2>3, <2>5, <2>6, ChainKeeps
  <1> QED
    BY <1>3, <1>4, KeyReadParses

\* The requests.
LEMMA RequestStep ==
    ASSUME AuthInv, AuthAssumption, NEW r \in Request,
           \/ \E s \in Session, c \in Auth!Checks : Auth!Arrive(r, s, c)
           \/ Auth!GetKeyByID(r) \/ Auth!GetCurrentKey(r) \/ Auth!AuthMassesCheck(r)
           \/ Auth!EnhancedAuthMiddleware(r) \/ Auth!RoleBasedAuthMiddleware(r)
           \/ Auth!PermissionBasedAuthMiddleware(r) \/ Auth!ScopeAuthMiddleware(r)
           \/ Auth!Handle(r) \/ Auth!RequestTimeout(r) \/ Auth!DeadlinePasses(r)
    PROVE  AuthInv'
  <1>1. /\ Auth!TypeOK /\ at \in [Request -> AuthPoint] /\ answers \in [Request -> Nat]
        /\ Answered(r) /\ Checked(r) /\ late \subseteq Request
    BY DEF AuthInv, Auth!TypeOK
  <1>2. AuthPoint = {"idle", "check", "checkCurrent", "parse", "parseCurrent", "unlink", "roles",
                     "permissions", "scopes", "handler", "aborted", "handled", "done"}
    BY DEF AuthPoint
  <1>3. ASSUME NEW s \in Session, NEW c \in Auth!Checks, Auth!Arrive(r, s, c)
        PROVE  AuthInv'
    <2>1. /\ of \in [Request -> Session \cup {NoSession}] /\ check \in [Request -> Auth!Checks]
          /\ header \in [Request -> Auth!Tokens \cup {NoToken}] /\ lost \subseteq Request
          /\ of' = [of EXCEPT ![r] = s] /\ check' = [check EXCEPT ![r] = c] /\ late' = late
          /\ header' = [header EXCEPT ![r] = tokens[s]]
          /\ tokens[s] \in Auth!Tokens /\ c \in Auth!ChecksOf[tokens[s].by]
          /\ lost' = IF c \in Auth!ByManager /\ ~Auth!Stands(tokens[s], keys)
                     THEN lost \cup {r} ELSE lost
      BY <1>1, <1>3 DEF Auth!Arrive, Auth!TypeOK
    <2>2. /\ of' \in [Request -> Session \cup {NoSession}] /\ check' \in [Request -> Auth!Checks]
          /\ header' \in [Request -> Auth!Tokens \cup {NoToken}] /\ lost' \subseteq Request
      BY <2>1
    <2>3. Auth!TypeOK'
      BY <1>1, <1>3, <2>2 DEF Auth!Arrive, Auth!TypeOK, Auth!keyVars, Auth!tokenVars
    <2>4. at' = [at EXCEPT ![r] = "check"] /\ answers' = [answers EXCEPT ![r] = 0]
      BY <1>1, <1>3 DEF Auth!Arrive, Auth!Moves, Answered
    <2>5. Answered(r)'
      BY <1>1, <2>4 DEF Answered
    <2>6. \A q \in Request \ {r} : check'[q] = check[q] /\ header'[q] = header[q]
                                   /\ (q \in lost' <=> q \in lost)
      BY <2>1
    <2>7. UNCHANGED <<keys, clock>> /\ header'[r] = tokens[s] /\ check'[r] = c /\ at'[r] = "check"
      BY <1>1, <1>3, <2>1, <2>4 DEF Auth!Arrive, Auth!keyVars
    <2>8. c \in Auth!ByManager => tokens[s] \in Signed
      BY <2>1 DEF Auth!ByManager, Auth!ChecksOf, Auth!Tokens, Signed
    <2>9. Checked(r)'
      BY <2>1, <2>7, <2>8 DEF Checked, Auth!AtKeys, Auth!KeyReads, Auth!Stands
    <2> QED
      BY <1>2, <2>1, <2>3, <2>4, <2>5, <2>6, <2>7, <2>9, AuthRequestKeeps
  <1>4. CASE Auth!GetKeyByID(r) \/ Auth!GetCurrentKey(r)
    BY <1>4, KeyReadKeeps
  <1>5. CASE Auth!EnhancedAuthMiddleware(r)
    <2>1. Auth!ValidateToken(r) \in BOOLEAN
      BY DEF Auth!ValidateToken, Auth!Expired
    <2> QED
      BY <1>5, <2>1, PassKeeps DEF Auth!EnhancedAuthMiddleware
  <1>6. CASE \/ Auth!RoleBasedAuthMiddleware(r) \/ Auth!PermissionBasedAuthMiddleware(r)
             \/ Auth!ScopeAuthMiddleware(r)
    BY <1>6, PassKeeps
       DEF Auth!RoleBasedAuthMiddleware, Auth!PermissionBasedAuthMiddleware,
           Auth!ScopeAuthMiddleware
  <1>7. CASE Auth!AuthMassesCheck(r)
    <2>1. at[r] = "unlink" /\ check[r] = "masses" /\ answers[r] = 1
      BY <1>1, <1>7 DEF Auth!AuthMassesCheck, Answered
    <2>2. PICK n \in 1 .. 2 :
             at' = [at EXCEPT ![r] = "aborted"] /\ answers' = [answers EXCEPT ![r] = n]
      BY <1>1, <1>7, <2>1 DEF Auth!AuthMassesCheck, Auth!Moves, Auth!Answer
    <2>3. /\ UNCHANGED <<Auth!keyVars, clock, tokens, stored, of, header, check, late, lost>>
          /\ cache' \subseteq cache
      BY <1>7 DEF Auth!AuthMassesCheck
    <2>4. Answered(r)'
      BY <1>1, <2>1, <2>2, <2>3 DEF Answered, MostAnswers
    <2>5. n \in Nat
      OBVIOUS
    <2> QED
      BY <1>1, <1>2, <2>2, <2>3, <2>4, <2>5, ChainKeeps
  <1>8. CASE Auth!Handle(r)
    <2>1. /\ at' = [at EXCEPT ![r] = "handled"] /\ answers' = [answers EXCEPT ![r] = 1]
          /\ UNCHANGED <<Auth!keyVars, clock, tokens, stored, cache, of, header, check, late, lost>>
      BY <1>1, <1>8 DEF Auth!Handle, Auth!Moves, Auth!Answer, Auth!tokenVars, Answered
    <2>2. Answered(r)'
      BY <1>1, <2>1 DEF Answered, MostAnswers
    <2> QED
      BY <1>1, <1>2, <2>1, <2>2, ChainKeeps
  <1>9. CASE Auth!RequestTimeout(r)
    <2>1. answers[r] \in 1 .. MostAnswers(r) /\ MostAnswers(r) \in {1, 2}
      BY <1>1, <1>9 DEF Auth!RequestTimeout, Answered, MostAnswers
    <2>2. /\ at' = [at EXCEPT ![r] = "done"]
          /\ answers' = [answers EXCEPT ![r] = @ + (IF r \in late THEN 1 ELSE 0)]
          /\ UNCHANGED <<Auth!keyVars, clock, tokens, stored, cache, of, header, check, late, lost>>
      BY <1>9 DEF Auth!RequestTimeout, Auth!Moves, Auth!Answer, Auth!tokenVars
    <2>3. /\ at'[r] = "done" /\ answers'[r] = answers[r] + (IF r \in late THEN 1 ELSE 0)
          /\ MostAnswers(r)' = MostAnswers(r)
      BY <1>1, <2>2 DEF MostAnswers
    <2>4. Answered(r)'
      BY <2>1, <2>2, <2>3 DEF Answered
    <2>5. answers[r] + (IF r \in late THEN 1 ELSE 0) \in Nat
      BY <2>1
    <2> QED
      BY <1>1, <1>2, <2>2, <2>4, <2>5, ChainKeeps
  <1>10. CASE Auth!DeadlinePasses(r)
    <2>1. /\ late' = late \cup {r} /\ at[r] # "done"
          /\ UNCHANGED <<Auth!keyVars, clock, tokens, stored, cache, at, of, header, check, answers,
                         lost>>
      BY <1>10 DEF Auth!DeadlinePasses, Auth!tokenVars
    <2>2. Answered(r)'
      BY <1>1, <2>1 DEF Answered, MostAnswers
    <2>3. Checked(r)'
      BY <1>1, <2>1 DEF Checked, Auth!AtKeys, Auth!Stands, Auth!keyVars
    <2>4. /\ at' = [at EXCEPT ![r] = at[r]] /\ answers' = [answers EXCEPT ![r] = answers[r]]
          /\ at[r] \in AuthPoint /\ answers[r] \in Nat /\ late' \subseteq Request
          /\ \A q \in Request \ {r} : q \in late' <=> q \in late
      BY <1>1, <2>1
    <2> QED
      BY <2>1, <2>2, <2>3, <2>4, ChainKeeps
  <1> QED
    BY <1>3, <1>4, <1>5, <1>6, <1>7, <1>8, <1>9, <1>10

\* The invariant, which the three theorems below rest on.
LEMMA AuthInvHolds ==
    ASSUME AuthAssumption
    PROVE  Auth!Spec => []AuthInv
  <1>1. Auth!Init => AuthInv
    <2> SUFFICES ASSUME Auth!Init PROVE AuthInv
      OBVIOUS
    <2>1. "user" \in Auth!Checks
      <3>1. /\ "manager" \in DOMAIN Auth!ChecksOf /\ "user" \in Auth!ChecksOf["manager"]
        BY DEF Auth!ChecksOf, Auth!ByManager
      <3> QED
        BY <3>1 DEF Auth!Checks, Auth!Range
    <2>2. Auth!TypeOK
      BY <2>1 DEF Auth!Init, Auth!TypeOK, AuthAssumption
    <2>3. at \in [Request -> AuthPoint] /\ answers \in [Request -> Nat]
      BY DEF Auth!Init, AuthPoint
    <2>4. \A r \in Request : Answered(r) /\ Checked(r)
      BY DEF Auth!Init, Answered, Checked, Auth!AtKeys, Auth!KeyReads
    <2> QED
      BY <2>2, <2>3, <2>4 DEF AuthInv
  <1>2. AuthInv /\ [Auth!Next]_(Auth!vars) => AuthInv'
    <2>1. ASSUME AuthInv, UNCHANGED Auth!vars PROVE AuthInv'
      <3>1. Auth!TypeOK'
        BY <2>1 DEF AuthInv, Auth!TypeOK, Auth!vars, Auth!keyVars, Auth!tokenVars,
                    Auth!requestVars
      <3> QED
        BY <2>1, <3>1, TokensKeep DEF Auth!vars, Auth!keyVars
    <2>2. ASSUME AuthInv, Auth!Next PROVE AuthInv'
      <3>1. ASSUME NEW r \in Request,
                   \/ \E s \in Session, c \in Auth!Checks : Auth!Arrive(r, s, c)
                   \/ Auth!GetKeyByID(r) \/ Auth!GetCurrentKey(r) \/ Auth!AuthMassesCheck(r)
                   \/ Auth!EnhancedAuthMiddleware(r) \/ Auth!RoleBasedAuthMiddleware(r)
                   \/ Auth!PermissionBasedAuthMiddleware(r) \/ Auth!ScopeAuthMiddleware(r)
                   \/ Auth!Handle(r) \/ Auth!RequestTimeout(r) \/ Auth!DeadlinePasses(r)
            PROVE  AuthInv'
        BY <2>2, <3>1, RequestStep
      <3> QED
        BY <2>2, <3>1, TokenStep DEF Auth!Next
    <2> QED
      BY <2>1, <2>2
  <1> QED
    BY <1>1, <1>2, PTL DEF Auth!Spec

\* Every request that ends is answered: by the check that refused it or by its handler; a
\* second time only past its deadline or when the cache fails, and never a fourth time.
THEOREM AuthSafety ==
    ASSUME AuthAssumption
    PROVE  Auth!Spec => [](Auth!TypeOK /\ Auth!AnswersAccounted)
  <1>1. AuthInv => Auth!TypeOK /\ Auth!AnswersAccounted
    <2> SUFFICES ASSUME AuthInv, NEW r \in Request
                 PROVE  /\ at[r] \in {"unlink", "aborted", "handled", "done"} => answers[r] > 0
                        /\ answers[r] <= 1 + (IF r \in late THEN 1 ELSE 0)
                                           + (IF check[r] = "masses" THEN 1 ELSE 0)
      BY DEF AuthInv, Auth!AnswersAccounted
    <2>1. Answered(r) /\ at[r] \in AuthPoint /\ answers[r] \in Nat
      BY DEF AuthInv
    <2> QED
      BY <2>1 DEF Answered, MostAnswers, AuthPoint
  <1> QED
    BY <1>1, AuthInvHolds, PTL

\* AnalyseUserToken: a token is refused only when it has expired or its id stood for another
\* key at some moment of the check, and nobody passes with a key that is not in the set,
\* whatever is rotated between the two reads of the keys.
THEOREM RotationIsSafe ==
    ASSUME AuthAssumption
    PROVE  Auth!Spec => [][Auth!RotationKeepsSessions]_(Auth!vars)
  <1>1. AuthInv /\ [Auth!Next]_(Auth!vars) => [Auth!RotationKeepsSessions]_(Auth!vars)
    <2> SUFFICES ASSUME AuthInv, Auth!Next, NEW r \in Auth!AtKeys
                 PROVE  /\ at'[r] \in {"aborted", "unlink"} => r \in lost \/ clock > header[r].exp
                        /\ at'[r] \in {"parse", "handler"} /\ at'[r] # at[r] =>
                              header[r].key \in Auth!Range(keys)
      BY SMTT(30) DEF Auth!RotationKeepsSessions
    <2>1. /\ r \in Request /\ at \in [Request -> AuthPoint] /\ header[r] \in Signed
          /\ at[r] \in {"check", "checkCurrent", "parse", "parseCurrent"}
          /\ check[r] \in {"user", "admin", "masses"}
      BY DEF AuthInv, Checked, Auth!AtKeys, Auth!KeyReads, Auth!ByManager
    <2>2. CASE Auth!GetKeyByID(r) \/ Auth!GetCurrentKey(r)
      <3>1. header[r].key \in Material
        BY <2>1 DEF Signed
      <3>2. CASE \E mat \in Auth!Range(keys) \cup {NoToken} :
                    Auth!Parsed(r, mat) /\ (mat # header[r].key => r \in lost)
        <4>1. PICK mat \in Auth!Range(keys) \cup {NoToken} :
                 Auth!Parsed(r, mat) /\ (mat # header[r].key => r \in lost)
          BY <3>2
        <4>2. PICK point \in {"handler", "parse", "unlink", "aborted"} :
                 /\ at' = [at EXCEPT ![r] = point]
                 /\ point \in {"handler", "parse"} => mat = header[r].key
                 /\ point \in {"unlink", "aborted"} => r \in lost \/ clock > header[r].exp
          BY <4>1, ParsedLeadsTo
        <4> QED
          BY <2>1, <3>1, <4>1, <4>2 DEF AuthAssumption
      <3>3. CASE Auth!Moves(r, IF at[r] = "check" THEN "checkCurrent" ELSE "parseCurrent")
        BY <2>1, <3>3 DEF Auth!Moves
      <3> QED
        BY <2>1, <2>2, <3>2, <3>3, KeyReadParses
    <2>3. CASE ~(Auth!GetKeyByID(r) \/ Auth!GetCurrentKey(r))
      <3>1. CASE UNCHANGED at
        BY <2>1, <3>1
      <3>2. ASSUME NEW q \in Request,
                   q # r /\ (Auth!GetKeyByID(q) \/ Auth!GetCurrentKey(q))
            PROVE  at'[r] = at[r]
        BY <2>1, <3>2
           DEF Auth!GetKeyByID, Auth!GetCurrentKey, Auth!Parsed, Auth!AuthUserCheck,
               Auth!ParseToken, Auth!PassIf, Auth!Moves
      <3>3. ASSUME NEW q \in Request,
                   \/ \E s \in Session, c \in Auth!Checks : Auth!Arrive(q, s, c)
                   \/ Auth!AuthMassesCheck(q) \/ Auth!Handle(q) \/ Auth!RequestTimeout(q)
            PROVE  at'[r] = at[r]
        BY <2>1, <3>3 DEF Auth!Arrive, Auth!AuthMassesCheck, Auth!Handle, Auth!RequestTimeout,
                          Auth!Moves
      <3>4. ASSUME NEW q \in Request,
                   \/ Auth!EnhancedAuthMiddleware(q) \/ Auth!RoleBasedAuthMiddleware(q)
                   \/ Auth!PermissionBasedAuthMiddleware(q) \/ Auth!ScopeAuthMiddleware(q)
            PROVE  at'[r] = at[r]
        <4>1. q # r
          BY <2>1, <3>4
             DEF Auth!EnhancedAuthMiddleware, Auth!RoleBasedAuthMiddleware,
                 Auth!PermissionBasedAuthMiddleware, Auth!ScopeAuthMiddleware
        <4>2. \E passes, point : Auth!PassIf(q, passes, point)
          BY <3>4
             DEF Auth!EnhancedAuthMiddleware, Auth!RoleBasedAuthMiddleware,
                 Auth!PermissionBasedAuthMiddleware, Auth!ScopeAuthMiddleware
        <4> QED
          BY <2>1, <4>1, <4>2 DEF Auth!PassIf, Auth!Moves
      <3>5. ASSUME \/ \E ks \in Auth!KeySets, k \in KeyID : Auth!UpdateKeys(ks, k)
                   \/ \E s \in Session :
                         \/ Auth!GenerateToken(s) \/ Auth!RefreshToken(s) \/ Auth!RevokeToken(s)
                         \/ \E p \in {"jwt", "oauth2"} : Auth!ProviderGenerateToken(s, p)
                   \/ Auth!Tick \/ \E q \in Request : Auth!DeadlinePasses(q)
            PROVE  UNCHANGED at
        BY <3>5 DEF Auth!UpdateKeys, Auth!GenerateToken, Auth!RefreshToken, Auth!RevokeToken,
                    Auth!ProviderGenerateToken, Auth!Tick, Auth!DeadlinePasses, Auth!requestVars
      <3> QED
        BY <2>3, <2>1, <3>1, <3>2, <3>3, <3>4, <3>5 DEF Auth!Next
    <2> QED
      BY <2>2, <2>3
  <1> QED
    BY <1>1, AuthInvHolds, PTL DEF Auth!Spec

\* AuthMassesCheck: a user leaves the cache only for a request whose token has expired, or
\* whose key id stood for another key at some moment of its checks.
THEOREM CacheIsLostWithCause ==
    ASSUME AuthAssumption
    PROVE  Auth!Spec => [][Auth!CacheLostWithCause]_(Auth!vars)
  <1>1. AuthInv /\ [Auth!Next]_(Auth!vars) => [Auth!CacheLostWithCause]_(Auth!vars)
    <2> SUFFICES ASSUME AuthInv, Auth!Next, NEW s \in cache \ cache'
                 PROVE  \E r \in Request : of[r] = s /\ (clock > header[r].exp \/ r \in lost)
      BY SMTT(30) DEF Auth!CacheLostWithCause
    <2>1. PICK r \in Request : Auth!AuthMassesCheck(r)
      BY DEF Auth!Next, Auth!UpdateKeys, Auth!GenerateToken, Auth!RefreshToken,
             Auth!RevokeToken, Auth!ProviderGenerateToken, Auth!Arrive, Auth!GetKeyByID,
             Auth!GetCurrentKey, Auth!EnhancedAuthMiddleware,
             Auth!RoleBasedAuthMiddleware, Auth!PermissionBasedAuthMiddleware,
             Auth!ScopeAuthMiddleware, Auth!Handle, Auth!RequestTimeout,
             Auth!DeadlinePasses, Auth!Tick, Auth!tokenVars
    <2>2. s = of[r] /\ at[r] = "unlink"
      BY <2>1 DEF Auth!AuthMassesCheck
    <2> QED
      BY <2>2 DEF AuthInv, Checked
  <1> QED
    BY <1>1, AuthInvHolds, PTL DEF Auth!Spec

-----------------------------------------------------------------------------
(***************************************************************************)
(* DistributedConfig, for any nodes, callers and number of revisions.      *)
(***************************************************************************)
CONSTANTS Node, Watcher, NodeOf, MaxRevisions

VARIABLES etcd, from, seen, own, rev, old, history

Config == INSTANCE DistributedConfig

ConfigAssumption == NodeOf \in [Caller \cup Watcher -> Node] /\ MaxRevisions \in Nat

\* What a call is about to put into the cache is a revision it wrote, or read as a put; a
\* watch does not go back behind the revision it began after.
CallInv ==
    /\ \A c \in Caller : at[c] = "fetched" => Config!Held(rev[c]) = rev[c]
    /\ \A w \in Watcher : from[w] <= seen[w] /\ (seen[w] >= 0 => from[w] >= 0)

ConfigInv ==
    /\ Config!TypeOK /\ own \in [Node -> SUBSET (0 .. Config!Last)]
    /\ CallInv /\ Config!CacheHasSource

\* Revisions are only added, so what a cache holds of one of them does not change.
LEMMA HeldStays ==
    ASSUME Config!TypeOK, \/ etcd' = etcd
                          \/ \E op \in {"put", "delete"} : etcd' = Append(etcd, op)
    PROVE  /\ etcd' \in Seq({"put", "delete"}) /\ Len(etcd) \in Nat /\ Len(etcd') \in Nat
           /\ Len(etcd) <= Len(etcd')
           /\ \A v \in 0 .. Len(etcd) : Config!Held(v)' = Config!Held(v)
  <1>1. etcd \in Seq({"put", "delete"})
    BY DEF Config!TypeOK
  <1>2. /\ etcd' \in Seq({"put", "delete"}) /\ Len(etcd) <= Len(etcd')
        /\ \A v \in 1 .. Len(etcd) : etcd'[v] = etcd[v]
    BY <1>1, SMTT(30)
  <1> QED
    BY <1>1, <1>2 DEF Config!Held

\* What the cache of n may hold, said without the set of sources.
HasSource(n) ==
    \/ \E w \in Watcher : /\ NodeOf[w] = n /\ from[w] < seen[w]
                          /\ cache[n] = Config!Held(seen[w])
    \/ \E v \in own[n] : cache[n] = Config!Held(v)
    \/ /\ \A w \in Watcher : ~(NodeOf[w] = n /\ from[w] < seen[w])
       /\ own[n] = {} /\ cache[n] = 0

AllHaveSource == \A n \in Node : HasSource(n)

LEMMA SourceIs == Config!CacheHasSource <=> AllHaveSource
  <1> SUFFICES ASSUME NEW n \in Node
               PROVE  (cache[n] \in Config!Sources(n) \/ (Config!Sources(n) = {} /\ cache[n] = 0))
                        <=> HasSource(n)
    BY DEF Config!CacheHasSource, AllHaveSource
  <1>1. Config!Sources(n) = {} <=> /\ \A w \in Watcher : ~(NodeOf[w] = n /\ from[w] < seen[w])
                                   /\ own[n] = {}
    <2>1. ASSUME NEW w \in Watcher, NodeOf[w] = n, from[w] < seen[w]
          PROVE  Config!Held(seen[w]) \in Config!Sources(n)
      BY <2>1 DEF Config!Sources
    <2>2. ASSUME NEW v \in own[n]
          PROVE  Config!Held(v) \in Config!Sources(n)
      BY <2>2 DEF Config!Sources
    <2>3. ASSUME \A w \in Watcher : ~(NodeOf[w] = n /\ from[w] < seen[w]), own[n] = {}
          PROVE  Config!Sources(n) = {}
      BY <2>3 DEF Config!Sources
    <2> QED
      BY <2>1, <2>2, <2>3
  <1> QED
    BY <1>1 DEF Config!Sources, HasSource

\* An event that a watch brings to its node preserves the invariant.
LEMMA WatchKeeps ==
    ASSUME ConfigInv, ConfigAssumption, NEW w \in Watcher, Config!watchConfig(w)
    PROVE  ConfigInv'
  <1> USE DEF Config!Last
  <1>1. /\ Config!TypeOK /\ own \in [Node -> SUBSET (0 .. Len(etcd))]
        /\ Len(etcd) \in Nat /\ NodeOf[w] \in Node /\ CallInv
    BY DEF ConfigInv, Config!TypeOK, ConfigAssumption
  <1>2. /\ seen[w] \in Nat /\ seen[w] < Len(etcd)
        /\ seen' = [seen EXCEPT ![w] = seen[w] + 1]
        /\ cache' = [cache EXCEPT ![NodeOf[w]] = Config!Held(seen[w] + 1)]
        /\ UNCHANGED <<etcd, from, own, at, rev, old, history>>
    BY <1>1 DEF Config!watchConfig, Config!Applied, Config!TypeOK
  <1>3. Config!Held(seen[w] + 1) \in 0 .. Len(etcd) /\ seen[w] + 1 \in -1 .. Len(etcd)
    BY <1>1, <1>2 DEF Config!Held
  <1>4. Config!TypeOK'
    BY <1>1, <1>2, <1>3 DEF Config!TypeOK
  <1>5. /\ \A x : Config!Held(x)' = Config!Held(x)
        /\ \A x \in Watcher : seen'[x] = IF x = w THEN seen[w] + 1 ELSE seen[x]
        /\ from[w] <= seen[w] /\ from[w] \in -1 .. Len(etcd)
    BY <1>1, <1>2 DEF Config!Held, CallInv, Config!TypeOK
  <1>6. CallInv'
    BY <1>1, <1>2, <1>5 DEF CallInv, Config!TypeOK
  <1>7. Config!CacheHasSource'
    <2> SUFFICES ASSUME NEW n \in Node
                 PROVE  HasSource(n)'
      <3>1. Config!CacheHasSource' <=> AllHaveSource'
        BY SourceIs, PTL
      <3> QED
        BY <3>1 DEF AllHaveSource
    <2>1. CASE n = NodeOf[w]
      <3>1. /\ cache'[n] = Config!Held(seen[w] + 1) /\ from'[w] < seen'[w]
            /\ seen'[w] = seen[w] + 1
        BY <1>1, <1>2, <1>5, <2>1 DEF Config!TypeOK
      <3>2. Config!Held(seen[w])' = Config!Held(seen[w] + 1)
        BY <1>2, <3>1 DEF Config!Held
      <3> QED
        BY <2>1, <3>1, <3>2 DEF HasSource
    <2>2. CASE n # NodeOf[w]
      <3>1. /\ cache'[n] = cache[n] /\ own'[n] = own[n]
            /\ \A x \in Watcher : NodeOf[x] = n => seen'[x] = seen[x] /\ from'[x] = from[x]
        BY <1>1, <1>2, <1>5, <2>2 DEF Config!TypeOK
      <3>2. HasSource(n)
        BY SourceIs DEF ConfigInv, AllHaveSource
      <3>3. \A x \in Watcher : NodeOf[x] = n => Config!Held(seen[x])' = Config!Held(seen[x])
        BY <1>2, <3>1 DEF Config!Held
      <3> QED
        BY <1>5, <3>1, <3>2, <3>3 DEF HasSource
    <2> QED
      BY <2>1, <2>2
  <1>8. own' \in [Node -> SUBSET (0 .. Len(etcd'))]
    BY <1>1, <1>2
  <1> QED
    BY <1>4, <1>6, <1>7, <1>8 DEF ConfigInv

\* A step of c adds what it puts into the cache of its node to the sources of the node.
LEMMA SourceStays ==
    ASSUME ConfigInv, ConfigAssumption, NEW c \in Caller,
           \/ etcd' = etcd
           \/ \E op \in {"put", "delete"} : etcd' = Append(etcd, op),
           from' = from, seen' = seen,
           \/ cache' = cache /\ own' = own
           \/ /\ cache' = [cache EXCEPT ![NodeOf[c]] = Config!Held(rev[c])]
              /\ own' = [own EXCEPT ![NodeOf[c]] = own[NodeOf[c]] \cup {rev[c]}]
    PROVE  Config!CacheHasSource' /\ own' \in [Node -> SUBSET (0 .. Len(etcd'))]
  <1>1. /\ cache \in [Node -> 0 .. Len(etcd)] /\ rev[c] \in 0 .. Len(etcd)
        /\ seen \in [Watcher -> -1 .. Len(etcd)] /\ from \in [Watcher -> -1 .. Len(etcd)]
        /\ \A w \in Watcher : seen[w] >= 0 => from[w] >= 0
        /\ own \in [Node -> SUBSET (0 .. Len(etcd))] /\ NodeOf[c] \in Node
    BY DEF ConfigInv, CallInv, Config!TypeOK, Config!Last, ConfigAssumption
  <1>2. /\ Len(etcd) \in Nat /\ Len(etcd') \in Nat /\ Len(etcd) <= Len(etcd')
        /\ \A v \in 0 .. Len(etcd) : Config!Held(v)' = Config!Held(v)
    BY HeldStays DEF ConfigInv
  <1>3. own' \in [Node -> SUBSET (0 .. Len(etcd'))]
    <2>1. \A s \in SUBSET (0 .. Len(etcd)) : s \subseteq 0 .. Len(etcd')
      BY <1>2
    <2>2. own[NodeOf[c]] \cup {rev[c]} \in SUBSET (0 .. Len(etcd))
      BY <1>1
    <2>3. own' \in [Node -> SUBSET (0 .. Len(etcd))]
      BY <1>1, <2>2
    <2> QED
      BY <2>1, <2>3
  <1>4. \A n \in Node : HasSource(n)'
    <2> SUFFICES ASSUME NEW n \in Node PROVE HasSource(n)'
      OBVIOUS
    <2>1. HasSource(n)
      BY SourceIs DEF ConfigInv, AllHaveSource
    <2>2. \A w \in Watcher : from[w] < seen[w] => Config!Held(seen[w])' = Config!Held(seen[w])
      <3>1. \A w \in Watcher : from[w] < seen[w] => seen[w] \in 0 .. Len(etcd)
        BY <1>1, <1>2
      <3>2. \A w \in Watcher : from[w] < seen[w] =>
              (IF seen[w] # 0 /\ etcd'[seen[w]] = "put" THEN seen[w] ELSE 0)
                = Config!Held(seen[w])
        BY <1>2, <3>1 DEF Config!Held
      <3> QED
        BY <3>2 DEF Config!Held
    <2>3. CASE cache'[n] = cache[n] /\ own'[n] = own[n]
      <3>1. \A v \in own[n] : Config!Held(v)' = Config!Held(v)
        BY <1>1, <1>2
      <3> QED
        BY <2>1, <2>2, <2>3, <3>1 DEF HasSource
    <2>4. CASE rev[c] \in own'[n] /\ cache'[n] = Config!Held(rev[c])
      <3> DEFINE r == rev[c]
      <3>1. \A v \in 0 .. Len(etcd) : Config!Held(v)' = Config!Held(v)
        BY <1>2
      <3>2. r \in own'[n] /\ cache'[n] = Config!Held(r) /\ r \in 0 .. Len(etcd)
        BY <1>1, <2>4
      <3> HIDE DEF r
      <3>3. \E v \in own'[n] : cache'[n] = Config!Held(v)'
        BY <3>1, <3>2
      <3> QED
        BY <3>3 DEF HasSource
    <2> QED
      BY <1>1, <2>3, <2>4
  <1>5. Config!CacheHasSource' <=> AllHaveSource'
    BY SourceIs, PTL
  <1> QED
    BY <1>3, <1>4, <1>5 DEF AllHaveSource

\* A write of etcd preserves the invariant.
LEMMA WriteKeeps ==
    ASSUME ConfigInv, ConfigAssumption, NEW c \in Caller, Config!Last < MaxRevisions,
           NEW op \in {"put", "delete"}, NEW v \in {0, Config!Last + 1}, Config!WriteEtcd(c, op, v)
    PROVE  ConfigInv'
  <1> USE DEF Config!Last
  <1>1. /\ Config!TypeOK /\ Len(etcd) \in Nat /\ NodeOf[c] \in Node /\ CallInv
    BY DEF ConfigInv, Config!TypeOK, ConfigAssumption
  <1>2. /\ at[c] = "idle" /\ etcd' = (IF v = 0 THEN etcd ELSE Append(etcd, op))
        /\ rev' = [rev EXCEPT ![c] = v]
        /\ old' = [old EXCEPT ![c] = cache[NodeOf[c]]]
        /\ at' = [at EXCEPT ![c] = "cache"]
        /\ UNCHANGED <<cache, from, seen, own, history>>
    BY DEF Config!WriteEtcd, Config!Moves
  <1>3. /\ etcd' \in Seq({"put", "delete"}) /\ Len(etcd') \in {Len(etcd), Len(etcd) + 1}
        /\ v \in 0 .. Len(etcd') /\ Len(etcd') <= MaxRevisions
    BY <1>1, <1>2 DEF Config!TypeOK, ConfigAssumption
  <1>4. Config!TypeOK'
    BY <1>1, <1>2, <1>3 DEF Config!TypeOK, ConfigAssumption
  <1>5. Config!CacheHasSource' /\ own' \in [Node -> SUBSET (0 .. Len(etcd'))]
    BY <1>2, SourceStays
  <1>6. CallInv'
    <2>1. ASSUME NEW d \in Caller, at'[d] = "fetched"
          PROVE  Config!Held(rev[d])' = rev'[d]
      <3>1. d # c /\ at[d] = "fetched" /\ rev'[d] = rev[d] /\ rev[d] \in 0 .. Len(etcd)
        BY <1>1, <1>2, <2>1 DEF Config!TypeOK
      <3>2. \A x \in 0 .. Len(etcd) : Config!Held(x)' = Config!Held(x)
        BY <1>1, <1>2, HeldStays
      <3>3. Config!Held(rev[d]) = rev[d]
        BY <1>1, <3>1 DEF CallInv
      <3> QED
        BY <3>1, <3>2, <3>3 DEF Config!Held
    <2> QED
      BY <1>1, <1>2, <2>1 DEF CallInv
  <1> QED
    BY <1>4, <1>5, <1>6 DEF ConfigInv

\* Every step of a call preserves the invariant.
LEMMA CallKeeps ==
    ASSUME ConfigInv, ConfigAssumption, NEW c \in Caller, Config!GetConfig(c) \/ Config!CallStep(c)
    PROVE  ConfigInv'
  <1> USE DEF Config!Last, Config!Moves
  <1>1. /\ Config!TypeOK /\ own \in [Node -> SUBSET (0 .. Len(etcd))]
        /\ Len(etcd) \in Nat /\ NodeOf[c] \in Node /\ rev[c] \in 0 .. Len(etcd) /\ CallInv
        /\ cache[NodeOf[c]] \in 0 .. Len(etcd)
    BY DEF ConfigInv, Config!TypeOK, ConfigAssumption
  <1>2. Config!Held(rev[c]) \in 0 .. Len(etcd)
    BY <1>1 DEF Config!Held
  <1>3. /\ etcd' = etcd /\ from' = from /\ seen' = seen
        /\ \/ cache' = cache /\ own' = own
           \/ /\ cache' = [cache EXCEPT ![NodeOf[c]] = Config!Held(rev[c])]
              /\ own' = [own EXCEPT ![NodeOf[c]] = own[NodeOf[c]] \cup {rev[c]}]
        /\ \A d \in Caller \ {c} : at'[d] = at[d] /\ rev'[d] = rev[d]
        /\ at'[c] = "fetched" => Config!Held(rev'[c]) = rev'[c]
        /\ Config!TypeOK'
    <2>1. CASE Config!GetConfig(c)
      <3>1. Len(etcd) \in 1 .. Len(etcd) /\ Config!Held(Len(etcd)) = Len(etcd)
        BY <1>1, <2>1 DEF Config!GetConfig, Config!Held
      <3> QED
        BY <1>1, <2>1, <3>1 DEF Config!GetConfig, Config!TypeOK
    <2>2. CASE Config!UpdateCache(c)
      <3>1. /\ cache' = [cache EXCEPT ![NodeOf[c]] = Config!Held(rev[c])]
            /\ own' = [own EXCEPT ![NodeOf[c]] = own[NodeOf[c]] \cup {rev[c]}]
            /\ \E x \in 0 .. Len(etcd) : old' = [old EXCEPT ![c] = x]
            /\ at' = [at EXCEPT ![c] = "history"]
            /\ UNCHANGED <<etcd, from, seen, rev, history>>
        BY <1>1, <2>2 DEF Config!UpdateCache, Config!TypeOK
      <3>2. Config!TypeOK'
        BY <1>1, <1>2, <3>1 DEF Config!TypeOK
      <3> QED
        BY <1>1, <3>1, <3>2 DEF Config!TypeOK
    <2>3. CASE Config!RecordChange(c)
      <3>1. DOMAIN history' \subseteq 1 .. Len(etcd)
        BY <1>1, <2>3 DEF Config!RecordChange, Config!TypeOK
      <3> QED
        BY <1>1, <2>3, <3>1 DEF Config!RecordChange, Config!TypeOK
    <2>4. CASE Config!fetchFromEtcd(c)
      <3>1. Config!Held(rev[c]) = rev[c]
        BY <1>1, <2>4 DEF Config!fetchFromEtcd, CallInv
      <3>2. /\ cache' = [cache EXCEPT ![NodeOf[c]] = Config!Held(rev[c])]
            /\ own' = [own EXCEPT ![NodeOf[c]] = own[NodeOf[c]] \cup {rev[c]}]
            /\ at' = [at EXCEPT ![c] = "idle"]
            /\ UNCHANGED <<etcd, from, seen, rev, old, history>>
        BY <2>4, <3>1 DEF Config!fetchFromEtcd
      <3>3. Config!TypeOK'
        BY <1>1, <1>2, <3>2 DEF Config!TypeOK
      <3> QED
        BY <1>1, <3>2, <3>3 DEF Config!TypeOK
    <2> QED
      BY <2>1, <2>2, <2>3, <2>4 DEF Config!CallStep
  <1>4. Config!CacheHasSource' /\ own' \in [Node -> SUBSET (0 .. Len(etcd'))]
    BY <1>3, SourceStays
  <1>5. CallInv'
    BY <1>1, <1>3 DEF CallInv, Config!Held
  <1> QED
    BY <1>3, <1>4, <1>5 DEF ConfigInv

\* A watch that begins has applied nothing.
LEMMA CallBegins ==
    ASSUME ConfigInv, ConfigAssumption, NEW w \in Watcher, Config!WatchConfig(w)
    PROVE  ConfigInv'
  <1> USE DEF Config!Last
  <1>1. /\ Config!TypeOK /\ Len(etcd) \in Nat /\ CallInv
        /\ own \in [Node -> SUBSET (0 .. Len(etcd))]
    BY DEF ConfigInv, Config!TypeOK
  <1>2. /\ seen[w] = -1 /\ from' = [from EXCEPT ![w] = Len(etcd)]
        /\ seen' = [seen EXCEPT ![w] = Len(etcd)]
        /\ UNCHANGED <<etcd, cache, own, at, rev, old, history>>
    BY DEF Config!WatchConfig
  <1>3. Config!TypeOK'
    BY <1>1, <1>2 DEF Config!TypeOK
  <1>4. CallInv'
    BY <1>1, <1>2 DEF CallInv, Config!TypeOK, Config!Held
  <1>5. /\ from[w] = -1 /\ from'[w] = seen'[w] /\ \A v : Config!Held(v)' = Config!Held(v)
        /\ \A x \in Watcher \ {w} : from'[x] = from[x] /\ seen'[x] = seen[x]
    BY <1>1, <1>2 DEF Config!TypeOK, CallInv, Config!Held
  <1>6. \A x \in Watcher : (from'[x] < seen'[x]) <=> (from[x] < seen[x])
    BY <1>1, <1>2, <1>5 DEF Config!TypeOK
  <1>7. \A n \in Node : HasSource(n)'
    <2> SUFFICES ASSUME NEW n \in Node PROVE HasSource(n)'
      OBVIOUS
    <2>1. HasSource(n)
      BY SourceIs DEF ConfigInv, AllHaveSource
    <2>2. \A x \in Watcher \ {w} : Config!Held(seen[x])' = Config!Held(seen[x])
      BY <1>2, <1>5 DEF Config!Held
    <2> QED
      BY <1>2, <1>5, <1>6, <2>1, <2>2 DEF HasSource
  <1>8. Config!CacheHasSource' <=> AllHaveSource'
    BY SourceIs, PTL
  <1> QED
    BY <1>1, <1>2, <1>3, <1>4, <1>7, <1>8 DEF ConfigInv, AllHaveSource

\* A cached configuration is that of one of the node's watches or of one of its own calls, for
\* any nodes, callers and watches and whatever their writes and the watches do in between.
THEOREM ConfigSafety ==
    ASSUME ConfigAssumption
    PROVE  Config!Spec => [](Config!TypeOK /\ Config!CacheHasSource)
  <1>1. Config!Init => ConfigInv
    <2> SUFFICES ASSUME Config!Init PROVE ConfigInv
      OBVIOUS
    <2>1. Len(etcd) = 0 /\ etcd \in Seq({"put", "delete"}) /\ DOMAIN history = {}
      BY DEF Config!Init
    <2>2. Config!TypeOK /\ own \in [Node -> SUBSET (0 .. Len(etcd))] /\ CallInv
      BY <2>1 DEF Config!Init, Config!TypeOK, CallInv, Config!Last, ConfigAssumption
    <2>3. AllHaveSource
      BY DEF Config!Init, AllHaveSource, HasSource
    <2> QED
      BY <2>2, <2>3, SourceIs DEF ConfigInv, Config!Last
  <1>2. ConfigInv /\ [Config!Next]_(Config!vars) => ConfigInv'
    <2>1. ASSUME ConfigInv, UNCHANGED Config!vars PROVE ConfigInv'
      <3>1. UNCHANGED <<etcd, cache, from, seen, own, at, rev, old, history>>
        BY <2>1 DEF Config!vars
      <3>2. /\ \A v : Config!Held(v)' = Config!Held(v)
            /\ \A w : Config!Held(seen[w])' = Config!Held(seen[w])
        BY <3>1 DEF Config!Held
      <3>3. Config!TypeOK' /\ own' \in [Node -> SUBSET (0 .. Config!Last')]
        BY <2>1, <3>1 DEF ConfigInv, Config!TypeOK, Config!Last
      <3>4. CallInv'
        BY <2>1, <3>1, <3>2 DEF ConfigInv, CallInv, Config!Held
      <3>5. \A n \in Node : HasSource(n)'
        BY <2>1, <3>1, <3>2, SourceIs DEF ConfigInv, AllHaveSource, HasSource
      <3>6. Config!CacheHasSource' <=> AllHaveSource'
        BY SourceIs, PTL
      <3> QED
        BY <3>3, <3>4, <3>5, <3>6 DEF ConfigInv, AllHaveSource
    <2>2. ASSUME ConfigInv, Config!Next PROVE ConfigInv'
      <3>1. ASSUME NEW c \in Caller, Config!SetConfig(c) PROVE ConfigInv'
        BY <2>2, <3>1, WriteKeeps DEF Config!SetConfig
      <3>2. ASSUME NEW c \in Caller, Config!DeleteConfig(c) PROVE ConfigInv'
        <4>1. PICK v \in {0, Config!Last + 1} : Config!WriteEtcd(c, "delete", v)
          BY <3>2 DEF Config!DeleteConfig
        <4> QED
          BY <2>2, <3>2, <4>1, WriteKeeps DEF Config!DeleteConfig
      <3> QED
        BY <2>2, <3>1, <3>2, CallKeeps, WatchKeeps, CallBegins
        DEF Config!Next, Config!RollbackConfig
    <2> QED
      BY <2>1, <2>2
  <1>3. ConfigInv => Config!TypeOK /\ Config!CacheHasSource
    BY DEF ConfigInv
  <1> QED
    BY <1>1, <1>2, <1>3, PTL DEF Config!Spec

-----------------------------------------------------------------------------
(***************************************************************************)
(* ConfigVersions, for any versions, watchers and overlapping reloads.     *)
(***************************************************************************)
CONSTANTS Version, Reload, NoVersion, MaxConfig, MaxChanges

VARIABLES versions, activeVersion, changes, watchers, has, doing, todo, quiet

Versions == INSTANCE ConfigVersions

VersionRecord == [content : Nat, IsActive : BOOLEAN]

\* The parts the reload depends on.
VersionTypes ==
    /\ versions = [v \in DOMAIN versions |-> versions[v]] /\ DOMAIN versions \subseteq Version
    /\ \A v \in DOMAIN versions : versions[v] \in VersionRecord
    /\ at \in [Reload -> {"idle", "copy", "notify"}] /\ todo \in [Reload -> SUBSET Watcher]
    /\ DOMAIN doing = Reload /\ watchers \subseteq Watcher /\ DOMAIN has = Watcher
    /\ quiet \in BOOLEAN

\* What w has is the active version as it is now, or its last call failed.
IsTold(w) ==
    has[w] \in {Versions!Nothing, [version |-> activeVersion,
                                   content |-> versions[activeVersion].content]}

\* While nothing comes between, one reload is under way at most; it is that of the active
\* version, and a watcher it has copied and does not have to tell any more is told.
QuietInv ==
    quiet =>
        /\ activeVersion \in DOMAIN versions
        /\ \A r, s \in Reload : at[r] # "idle" /\ at[s] # "idle" => r = s
        /\ \A r \in Reload : at[r] # "idle" => doing[r] = activeVersion
        /\ \A w \in watchers : \/ IsTold(w)
                               \/ \E r \in Reload : \/ at[r] = "copy"
                                                    \/ at[r] = "notify" /\ w \in todo[r]

VersionsInv == VersionTypes /\ Versions!OneActive /\ QuietInv

VersionsAssumption ==
    NoVersion \notin Version /\ MaxConfig \in Nat \ {0} /\ MaxChanges \in Nat

\* A version that is put in use is the only one that says so.
LEMMA ActivateKeeps ==
    ASSUME VersionsAssumption, VersionTypes, Versions!OneActive,
           NEW v \in DOMAIN versions, versions' = Versions!Activated(v), activeVersion' = v
    PROVE  /\ Versions!OneActive' /\ DOMAIN versions' = DOMAIN versions
           /\ versions' = [x \in DOMAIN versions' |-> versions'[x]]
           /\ \A x \in DOMAIN versions' : versions'[x] \in VersionRecord
  <1>1. /\ versions' = [x \in DOMAIN versions |-> versions'[x]]
        /\ DOMAIN versions' = DOMAIN versions /\ v \in Version
        /\ \A x \in DOMAIN versions :
              versions'[x] = [versions[x] EXCEPT
                                 !.IsActive = IF x = v THEN TRUE
                                              ELSE IF x = activeVersion THEN FALSE
                                              ELSE versions[x].IsActive]
    BY DEF Versions!Activated, VersionTypes
  <1>2. ASSUME NEW x \in DOMAIN versions
        PROVE  /\ versions'[x] \in VersionRecord
               /\ versions'[x].IsActive <=> x = v \/ (x # activeVersion /\ versions[x].IsActive)
    <2>1. versions[x] \in VersionRecord /\ versions[x].IsActive \in BOOLEAN
      BY DEF VersionTypes, VersionRecord
    <2>2. CASE x = v
      BY <1>1, <2>1, <2>2 DEF VersionRecord
    <2>3. CASE x # v /\ x = activeVersion
      BY <1>1, <2>1, <2>3 DEF VersionRecord
    <2>4. CASE x # v /\ x # activeVersion
      BY <1>1, <2>1, <2>4 DEF VersionRecord
    <2> QED
      BY <2>2, <2>3, <2>4
  <1>3. \A x \in DOMAIN versions : versions[x].IsActive => x = activeVersion
    BY DEF Versions!OneActive, VersionTypes
  <1>4. {x \in DOMAIN versions' : versions'[x].IsActive} = {v}
    BY <1>1, <1>2, <1>3
  <1> QED
    BY <1>1, <1>2, <1>4 DEF Versions!OneActive, VersionsAssumption

\* The steps of the manager preserve the invariant; an update is no longer quiet.
LEMMA ManagerKeeps ==
    ASSUME VersionsAssumption, VersionsInv, NEW v \in Version,
           \/ Versions!CreateVersion(v) \/ Versions!UpdateVersion(v)
           \/ Versions!RollbackVersion(v)
           \/ Versions!ActivateVersion(v) /\ quiet' = FALSE /\ UNCHANGED <<at, doing, todo>>
    PROVE  VersionsInv'
  <1>0. VersionTypes /\ Versions!OneActive
    BY DEF VersionsInv
  <1>1. CASE Versions!CreateVersion(v)
    <2>1. /\ v \notin DOMAIN versions
          /\ versions' = [x \in DOMAIN versions \cup {v} |->
                             IF x = v THEN [content |-> 1, IsActive |-> FALSE] ELSE versions[x]]
          /\ UNCHANGED <<activeVersion, watchers, has, at, doing, todo, quiet>>
      BY <1>1 DEF Versions!CreateVersion, Versions!reloadVars
    <2>2. /\ DOMAIN versions' = DOMAIN versions \cup {v}
          /\ \A x \in DOMAIN versions : versions'[x] = versions[x]
          /\ versions'[v] \in VersionRecord /\ versions'[v].IsActive = FALSE
      BY <2>1 DEF VersionRecord
    <2>3. versions' = [x \in DOMAIN versions' |-> versions'[x]]
      BY <2>1
    <2>4. VersionTypes'
      BY <1>0, <2>1, <2>2, <2>3 DEF VersionTypes
    <2>5. Versions!OneActive'
      BY <1>0, <2>1, <2>2 DEF Versions!OneActive
    <2>6. QuietInv'
      BY <2>1, <2>2 DEF VersionsInv, QuietInv, IsTold, Versions!Nothing
    <2> QED
      BY <2>4, <2>5, <2>6 DEF VersionsInv
  <1>2. CASE Versions!UpdateVersion(v)
    <2>1. /\ v \in DOMAIN versions /\ quiet' = FALSE
          /\ versions' = [versions EXCEPT ![v].content = versions[v].content + 1]
          /\ UNCHANGED <<activeVersion, watchers, has, at, doing, todo>>
      BY <1>2 DEF Versions!UpdateVersion, Versions!reloadVars
    <2>2. /\ DOMAIN versions' = DOMAIN versions
          /\ versions' = [x \in DOMAIN versions' |-> versions'[x]]
          /\ \A x \in DOMAIN versions : /\ versions'[x] \in VersionRecord
                                        /\ versions'[x].IsActive = versions[x].IsActive
      <3>1. /\ versions[v] \in VersionRecord
            /\ [versions[v] EXCEPT !.content = versions[v].content + 1] \in VersionRecord
            /\ [versions[v] EXCEPT !.content = versions[v].content + 1].IsActive
                  = versions[v].IsActive
        BY <1>0, <2>1 DEF VersionTypes, VersionRecord
      <3>2. /\ DOMAIN versions' = DOMAIN versions
            /\ versions' = [x \in DOMAIN versions |-> versions'[x]]
            /\ versions'[v] = [versions[v] EXCEPT !.content = versions[v].content + 1]
            /\ \A x \in DOMAIN versions : x # v => versions'[x] = versions[x]
        BY <1>0, <2>1 DEF VersionTypes
      <3> QED
        BY <1>0, <3>1, <3>2 DEF VersionTypes
    <2>3. VersionTypes' /\ Versions!OneActive'
      BY <1>0, <2>1, <2>2, ZenonT(40) DEF VersionsInv, VersionTypes, Versions!OneActive
    <2> QED
      BY <2>1, <2>3, ZenonT(40) DEF VersionsInv, QuietInv
  <1>3. CASE \/ Versions!RollbackVersion(v)
             \/ Versions!ActivateVersion(v) /\ quiet' = FALSE /\ UNCHANGED <<at, doing, todo>>
    <2>1. /\ v \in DOMAIN versions /\ versions' = Versions!Activated(v) /\ activeVersion' = v
          /\ quiet' = FALSE /\ UNCHANGED <<watchers, has, at, doing, todo>>
      BY <1>3 DEF Versions!RollbackVersion, Versions!ActivateVersion, Versions!reloadVars
    <2> QED
      BY <1>0, <2>1, ActivateKeeps DEF VersionsInv, VersionTypes, QuietInv
  <1> QED
    BY <1>1, <1>2, <1>3

\* So do the steps of a reload.
LEMMA ReloadKeeps ==
    ASSUME VersionsAssumption, VersionsInv, NEW r \in Reload,
           \/ \E v \in Version : Versions!ReloadConfig(r, v)
           \/ Versions!CopyWatchers(r) \/ Versions!ReloadDone(r)
           \/ \E w \in Watcher : Versions!Notify(r, w)
    PROVE  VersionsInv'
  <1>0. VersionTypes /\ Versions!OneActive /\ QuietInv
    BY DEF VersionsInv
  <1>1. ASSUME NEW v \in Version, Versions!ReloadConfig(r, v) PROVE VersionsInv'
    <2>1. /\ v \in DOMAIN versions /\ versions' = Versions!Activated(v) /\ activeVersion' = v
          /\ at[r] = "idle" /\ at' = [at EXCEPT ![r] = "copy"]
          /\ doing' = [doing EXCEPT ![r] = v]
          /\ quiet' = \A x \in Reload : at[x] = "idle"
          /\ UNCHANGED <<watchers, has, todo>>
      BY <1>1 DEF Versions!ReloadConfig, Versions!ActivateVersion
    <2>2. VersionTypes' /\ Versions!OneActive' /\ v \in DOMAIN versions'
      <3>1. quiet' \in BOOLEAN
        BY <2>1
      <3>2. at' \in [Reload -> {"idle", "copy", "notify"}] /\ DOMAIN doing' = Reload
        BY <1>0, <2>1 DEF VersionTypes
      <3> QED
        BY <1>0, <2>1, <3>1, <3>2, ActivateKeeps DEF VersionTypes
    <2>3. QuietInv'
      <3> SUFFICES ASSUME quiet' PROVE QuietInv'
        BY DEF QuietInv
      <3>1. \A x \in Reload : at[x] = "idle"
        BY <2>1
      <3>2. /\ at'[r] = "copy" /\ doing'[r] = v
            /\ \A x \in Reload \ {r} : at'[x] = "idle"
        BY <1>0, <2>1, <3>1 DEF VersionTypes
      <3> QED
        BY <2>1, <2>2, <3>2 DEF QuietInv
    <2> QED
      BY <2>2, <2>3 DEF VersionsInv
  <1>2. CASE Versions!CopyWatchers(r)
    <2>1. /\ at[r] = "copy" /\ todo' = [todo EXCEPT ![r] = watchers]
          /\ at' = [at EXCEPT ![r] = "notify"]
          /\ UNCHANGED <<versions, activeVersion, watchers, has, doing, quiet>>
      BY <1>2 DEF Versions!CopyWatchers, Versions!managerVars
    <2>2. VersionTypes' /\ Versions!OneActive'
      BY <1>0, <2>1 DEF VersionTypes, Versions!OneActive
    <2>3. QuietInv'
      BY <1>0, <2>1 DEF VersionTypes, QuietInv, IsTold
    <2> QED
      BY <2>2, <2>3 DEF VersionsInv
  <1>3. CASE Versions!ReloadDone(r)
    <2>1. /\ at[r] = "notify" /\ todo[r] = {} /\ at' = [at EXCEPT ![r] = "idle"]
          /\ doing' = [doing EXCEPT ![r] = NoVersion]
          /\ UNCHANGED <<versions, activeVersion, watchers, has, todo, quiet>>
      BY <1>3 DEF Versions!ReloadDone, Versions!managerVars
    <2>2. VersionTypes' /\ Versions!OneActive'
      BY <1>0, <2>1 DEF VersionTypes, Versions!OneActive
    <2>3. QuietInv'
      BY <1>0, <2>1 DEF VersionTypes, QuietInv, IsTold
    <2> QED
      BY <2>2, <2>3 DEF VersionsInv
  <1>4. ASSUME NEW w \in Watcher, Versions!Notify(r, w) PROVE VersionsInv'
    <2> DEFINE new == [version |-> doing[r], content |-> versions[doing[r]].content]
    <2>1. /\ at[r] = "notify" /\ w \in todo[r]
          /\ \/ has' = [has EXCEPT ![w] = new]
             \/ has' = [has EXCEPT ![w] = Versions!Nothing]
          /\ todo' = [todo EXCEPT ![r] = todo[r] \ {w}]
          /\ UNCHANGED <<versions, activeVersion, watchers, at, doing, quiet>>
      BY <1>4 DEF Versions!Notify, Versions!Rest, Versions!managerVars
    <2>2. /\ DOMAIN has' = Watcher /\ \A x \in Watcher \ {w} : has'[x] = has[x]
          /\ has'[w] \in {new, Versions!Nothing}
      BY <1>0, <2>1 DEF VersionTypes
    <2>3. VersionTypes' /\ Versions!OneActive'
      BY <1>0, <2>1, <2>2 DEF VersionTypes, Versions!OneActive
    <2>4. QuietInv'
      <3>1. /\ todo' \in [Reload -> SUBSET Watcher] /\ todo'[r] = todo[r] \ {w}
            /\ \A s \in Reload \ {r} : todo'[s] = todo[s]
        BY <1>0, <2>1 DEF VersionTypes
      <3>2. quiet => IsTold(w)'
        BY <1>0, <2>1, <2>2 DEF QuietInv, IsTold, Versions!Nothing
      <3>3. \A x \in Watcher \ {w} : IsTold(x) => IsTold(x)'
        BY <2>1, <2>2 DEF IsTold, Versions!Nothing
      <3> QED
        BY <1>0, <2>1, <3>1, <3>2, <3>3 DEF VersionTypes, QuietInv
    <2> QED
      BY <2>3, <2>4 DEF VersionsInv
  <1> QED
    BY <1>1, <1>2, <1>3, <1>4

\* The number of recorded changes, which Record bounds and a decision leaves as it is.
ChangesOf(f) == f["pending"] + f["approved"] + f["rejected"] + f["applied"]

Status == {"pending", "approved", "rejected", "applied"}

RecordInv == changes \in [Status -> Nat] /\ ChangesOf(changes) <= MaxChanges

LEMMA RecordKeeps ==
    ASSUME VersionsAssumption, RecordInv,
           \/ \E s \in Status : Versions!Record(s)
           \/ \E s \in {"approved", "rejected"} : Versions!Decide(s)
    PROVE  RecordInv'
  <1>1. changes \in [Status -> Nat] /\ MaxChanges \in Nat
    BY DEF RecordInv, VersionsAssumption
  <1>2. ASSUME NEW s \in Status, Versions!Record(s) PROVE RecordInv'
    <2>1. ChangesOf(changes) < MaxChanges /\ changes' = [changes EXCEPT ![s] = changes[s] + 1]
      BY <1>2 DEF Versions!Record, ChangesOf
    <2>2. changes' \in [Status -> Nat]
      BY <1>1, <2>1
    <2>3. ChangesOf(changes)' = ChangesOf(changes) + 1
      BY <1>1, <2>1 DEF ChangesOf, Status
    <2> QED
      BY <1>1, <2>1, <2>2, <2>3 DEF RecordInv, ChangesOf, Status
  <1>3. ASSUME NEW s \in {"approved", "rejected"}, Versions!Decide(s) PROVE RecordInv'
    <2>1. /\ changes["pending"] > 0
          /\ changes' = [changes EXCEPT !["pending"] = changes["pending"] - 1,
                                        ![s] = changes[s] + 1]
      BY <1>3 DEF Versions!Decide
    <2>2. changes' \in [Status -> Nat]
      BY <1>1, <2>1 DEF Status
    <2>3. ChangesOf(changes)' = ChangesOf(changes)
      BY <1>1, <2>1 DEF ChangesOf, Status
    <2> QED
      BY <2>2, <2>3 DEF RecordInv
  <1> QED
    BY <1>2, <1>3

\* The contents of the versions stay within their bound, and the version in use is one.
ContentInv ==
    /\ \A v \in DOMAIN versions : versions[v].content \in 1 .. MaxConfig
    /\ activeVersion \in Version \cup {NoVersion}

LEMMA ContentKeeps ==
    ASSUME VersionsAssumption, VersionsInv, RecordInv, ContentInv,
           [Versions!Next]_(Versions!vars)
    PROVE  RecordInv' /\ ContentInv'
  <1>0. /\ DOMAIN versions \subseteq Version /\ versions = [v \in DOMAIN versions |-> versions[v]]
        /\ \A v \in DOMAIN versions : versions[v] \in VersionRecord
    BY DEF VersionsInv, VersionTypes
  <1>1. ASSUME NEW v \in Version, v \in DOMAIN versions,
               versions' = Versions!Activated(v), activeVersion' = v
        PROVE  ContentInv'
    <2>1. /\ DOMAIN versions' = DOMAIN versions
          /\ \A x \in DOMAIN versions : versions'[x].content = versions[x].content
      BY <1>0, <1>1 DEF Versions!Activated, VersionRecord
    <2> QED
      BY <1>1, <2>1 DEF ContentInv
  <1>2. ASSUME NEW v \in Version, Versions!CreateVersion(v)
        PROVE  RecordInv' /\ ContentInv'
    <2>1. /\ DOMAIN versions' = DOMAIN versions \cup {v} /\ activeVersion' = activeVersion
          /\ versions'[v].content = 1
          /\ \A x \in DOMAIN versions : versions'[x] = versions[x]
      BY <1>2 DEF Versions!CreateVersion
    <2>2. ContentInv'
      BY <2>1 DEF ContentInv, VersionsAssumption
    <2> QED
      BY <1>2, <2>2, RecordKeeps DEF Versions!CreateVersion, Status
  <1>3. ASSUME NEW v \in Version, Versions!UpdateVersion(v)
        PROVE  RecordInv' /\ ContentInv'
    <2>1. /\ v \in DOMAIN versions /\ versions[v].content < MaxConfig
          /\ versions' = [versions EXCEPT ![v].content = versions[v].content + 1]
          /\ activeVersion' = activeVersion
      BY <1>3 DEF Versions!UpdateVersion
    <2>2. /\ DOMAIN versions' = DOMAIN versions
          /\ versions'[v].content = versions[v].content + 1
          /\ \A x \in DOMAIN versions : x # v => versions'[x] = versions[x]
      BY <1>0, <2>1 DEF VersionRecord
    <2>3. ContentInv'
      BY <2>1, <2>2 DEF ContentInv, VersionsAssumption
    <2> QED
      BY <1>3, <2>3, RecordKeeps DEF Versions!UpdateVersion, Status
  <1>4. ASSUME NEW v \in Version, Versions!RollbackVersion(v) \/ Versions!ActivateVersion(v)
        PROVE  RecordInv' /\ ContentInv'
    <2>1. /\ v \in DOMAIN versions /\ versions' = Versions!Activated(v) /\ activeVersion' = v
          /\ Versions!Record("applied")
      BY <1>4 DEF Versions!RollbackVersion, Versions!ActivateVersion
    <2> QED
      BY <1>1, <2>1, RecordKeeps DEF Status
  <1>5. CASE Versions!ApproveChange \/ Versions!RejectChange
    <2>1. /\ \E s \in {"approved", "rejected"} : Versions!Decide(s)
          /\ UNCHANGED <<versions, activeVersion>>
      BY <1>5 DEF Versions!ApproveChange, Versions!RejectChange, Versions!Decide
    <2> QED
      BY <2>1, RecordKeeps DEF ContentInv
  <1>6. CASE \/ UNCHANGED Versions!vars
             \/ \E w \in Watcher : Versions!RegisterWatcher(w) \/ Versions!UnregisterWatcher(w)
             \/ \E r \in Reload : \/ Versions!CopyWatchers(r) \/ Versions!ReloadDone(r)
                                 \/ \E w \in Watcher : Versions!Notify(r, w)
    <2>1. UNCHANGED <<versions, activeVersion, changes>>
      BY <1>6 DEF Versions!vars, Versions!managerVars, Versions!RegisterWatcher,
         Versions!UnregisterWatcher, Versions!CopyWatchers, Versions!ReloadDone, Versions!Notify
    <2> QED
      BY <2>1 DEF RecordInv, ContentInv, ChangesOf
  <1>7. ASSUME NEW v \in Version, NEW r \in Reload, Versions!ReloadConfig(r, v)
        PROVE  RecordInv' /\ ContentInv'
    BY <1>4, <1>7 DEF Versions!ReloadConfig
  <1> QED
    BY <1>2, <1>3, <1>4, <1>5, <1>6, <1>7 DEF Versions!Next

\* One version is active, and a reload nothing came between has told every watcher that did
\* not fail: for any versions and watchers, and any number of overlapping reloads.
THEOREM VersionSafety ==
    ASSUME VersionsAssumption
    PROVE  Versions!Spec =>
              [](Versions!TypeOK /\ Versions!OneActive /\ Versions!ReloadTellsAll)
  <1>1. Versions!Init => VersionsInv
    <2> SUFFICES ASSUME Versions!Init PROVE VersionsInv
      OBVIOUS
    <2>1. DOMAIN versions = {} /\ versions = [v \in DOMAIN versions |-> versions[v]]
      BY DEF Versions!Init
    <2> QED
      BY <2>1 DEF Versions!Init, VersionsInv, VersionTypes, Versions!OneActive, QuietInv
  <1>2. ASSUME VersionsInv, [Versions!Next]_(Versions!vars) PROVE VersionsInv'
    <2>1. CASE \/ \E w \in Watcher : Versions!RegisterWatcher(w) \/ Versions!UnregisterWatcher(w)
               \/ Versions!ApproveChange \/ Versions!RejectChange
               \/ UNCHANGED Versions!vars
      <3>0. watchers \subseteq Watcher /\ quiet \in BOOLEAN
        BY <1>2 DEF VersionsInv, VersionTypes
      <3>1. /\ UNCHANGED <<versions, activeVersion, has, at, doing, todo>>
            /\ watchers' \subseteq Watcher
            /\ \/ quiet' = FALSE
               \/ quiet' = quiet /\ watchers' \subseteq watchers
        <4>1. CASE \E w \in Watcher : Versions!RegisterWatcher(w) \/ Versions!UnregisterWatcher(w)
          BY <3>0, <4>1
          DEF Versions!RegisterWatcher, Versions!UnregisterWatcher, Versions!managerVars,
              Versions!reloadVars
        <4>2. CASE \/ Versions!ApproveChange \/ Versions!RejectChange \/ UNCHANGED Versions!vars
          BY <3>0, <4>2
          DEF Versions!ApproveChange, Versions!RejectChange, Versions!Decide, Versions!vars,
              Versions!managerVars, Versions!reloadVars
        <4> QED
          BY <2>1, <4>1, <4>2
      <3>2. VersionTypes' /\ Versions!OneActive'
        BY <1>2, <3>0, <3>1 DEF VersionsInv, VersionTypes, Versions!OneActive
      <3>3. QuietInv'
        BY <1>2, <3>1 DEF VersionsInv, QuietInv, IsTold, Versions!Nothing
      <3> QED
        BY <3>2, <3>3 DEF VersionsInv
    <2>2. CASE \E v \in Version :
                  \/ Versions!CreateVersion(v) \/ Versions!UpdateVersion(v)
                  \/ Versions!RollbackVersion(v)
                  \/ Versions!ActivateVersion(v) /\ quiet' = FALSE /\ UNCHANGED Versions!reloadVars
      BY <1>2, <2>2, ManagerKeeps DEF Versions!reloadVars
    <2> QED
      BY <1>2, <2>1, <2>2, ReloadKeeps DEF Versions!Next
  <1>3. VersionsInv => Versions!OneActive /\ Versions!ReloadTellsAll
    BY DEF VersionsInv, QuietInv, IsTold, Versions!ReloadTellsAll
  <1>4. Versions!Init => RecordInv /\ ContentInv
    BY DEF Versions!Init, RecordInv, ContentInv, ChangesOf, Status, VersionsAssumption
  <1>5. VersionsInv /\ RecordInv /\ ContentInv => Versions!TypeOK
    <2> SUFFICES ASSUME VersionsInv, RecordInv, ContentInv PROVE Versions!TypeOK
      OBVIOUS
    <2>1. \A v \in DOMAIN versions :
             v \in Version /\ versions[v] \in [content : 1 .. MaxConfig, IsActive : BOOLEAN]
      BY DEF VersionsInv, VersionTypes, VersionRecord, ContentInv
    <2>2. DOMAIN changes = Status /\ \A s \in Status : changes[s] \in 0 .. MaxChanges
      BY DEF RecordInv, ChangesOf, Status, VersionsAssumption
    <2> QED
      BY <2>1, <2>2 DEF Versions!TypeOK, VersionsInv, VersionTypes, ContentInv, Status
  <1> QED
    BY <1>1, <1>2, <1>3, <1>4, <1>5, ContentKeeps, PTL DEF Versions!Spec

-----------------------------------------------------------------------------
(***************************************************************************)
(* ConfigBackups, for any toSet, values, threads and number of backups.     *)
(***************************************************************************)
CONSTANTS Value, NoValue, Setter, NoSetter, maxBackups, MaxVersion

VARIABLES configs, version, backups, holder, call, watched, telling, told

Backups == INSTANCE ConfigBackups

BackupAssumption == maxBackups \in Nat /\ MaxVersion \in Nat \ {0}

BackupRecord == [configs : Backups!Values, version : 1 .. MaxVersion]
CallRecord ==
    [pc : {"idle", "version", "set", "restore"}, key : Key \cup {NoValue},
     value : Value \cup {NoValue}, got : Backups!Values, at : Nat, left : SUBSET Key]

\* The part of a call that the others may not disturb: what it is about to set is a value of
\* a key, and the values it has for its backup were those of a version up to now.
CallSound(s) ==
    /\ call[s].pc \in {"version", "set"} => call[s].key \in Key /\ call[s].value \in Value
    /\ call[s].pc = "version" => /\ call[s].at \in 1 .. version
                                 /\ history[call[s].at] = call[s].got
    /\ call[s].pc = "restore" => \A k \in call[s].left : call[s].got[k] \in Value

\* The history ends with the values of now.
HistoryInv ==
    /\ configs \in Backups!Values /\ version \in 1 .. MaxVersion
    /\ history \in Seq(Backups!Values) /\ Len(history) = version
    /\ history[version] = configs

\* What the configuration, the backups and the calls have to do with one another.
BackupInv ==
    /\ HistoryInv
    /\ backups \in Seq(BackupRecord) /\ \A j \in DOMAIN backups : backups[j].version <= version
    /\ Backups!BackupNotNewer /\ Backups!BackupsOrdered
    /\ holder \in Setter \cup {NoSetter} /\ call \in [Setter -> CallRecord]
    /\ \A s \in Setter : CallSound(s)
    /\ watched \in BOOLEAN /\ told \in Backups!Values
    /\ telling \subseteq [key : Key, value : Value, version : 1 .. MaxVersion]

\* A set of numbers that is not empty has a least element.
LEMMA LeastNumber ==
    ASSUME NEW S, S \subseteq Nat, S # {}
    PROVE  \E m \in S : \A n \in S : m <= n
  <1> DEFINE R == {p \in Nat \X Nat : p[1] < p[2]}
  <1>1. IsWellFoundedOn(R, Nat)
    BY NatLessThanWellFounded DEF OpToRel
  <1>2. PICK m \in S : \A n \in S : ~(<<n, m>> \in R)
    <2> HIDE DEF R
    <2> QED
      BY <1>1, WFMin
  <1>3. ASSUME NEW n \in S PROVE m <= n
    <2>1. m \in Nat /\ n \in Nat /\ ~(<<n, m>> \in R)
      BY <1>2
    <2>2. n < m => <<n, m>> \in R
      BY <2>1
    <2> HIDE DEF R
    <2> QED
      BY <2>1, <2>2
  <1> QED
    BY <1>3

\* The least one is the one that Min names.
LEMMA MinIsMember ==
    ASSUME NEW S, S \subseteq Nat, S # {}
    PROVE  Backups!Min(S) \in S
  BY LeastNumber DEF Backups!Min

\* The empty configuration and the call that is not under way.
LEMMA IdleIsSound ==
    /\ Backups!Empty \in Backups!Values
    /\ Backups!Idle \in CallRecord /\ Backups!Idle.pc = "idle"
  BY DEF Backups!Empty, Backups!Values, Backups!Idle, CallRecord

\* A list that is one over the limit loses its first element, and no list loses more.
LEMMA LimitedList ==
    ASSUME BackupAssumption, NEW S, NEW list \in Seq(S), Len(list) <= maxBackups + 1
    PROVE  /\ Backups!Limited(list) \in Seq(S) /\ Len(Backups!Limited(list)) <= maxBackups
           /\ \E d \in {0, 1} : \A i \in DOMAIN Backups!Limited(list) :
                 i + d \in DOMAIN list /\ Backups!Limited(list)[i] = list[i + d]
  <1>0. maxBackups \in Nat /\ Len(list) \in Nat
    BY DEF BackupAssumption
  <1>1. CASE Len(list) > maxBackups
    <2>1. list # << >> /\ Backups!Limited(list) = Tail(list)
      BY <1>0, <1>1 DEF Backups!Limited
    <2>2. /\ Tail(list) \in Seq(S) /\ Len(Tail(list)) = Len(list) - 1
          /\ \A i \in 1 .. Len(Tail(list)) : Tail(list)[i] = list[i + 1]
      BY <2>1, HeadTailProperties
    <2>3. \A i \in DOMAIN Tail(list) : i + 1 \in DOMAIN list /\ Tail(list)[i] = list[i + 1]
      BY <1>0, <2>2
    <2> QED
      BY <1>0, <1>1, <2>1, <2>2, <2>3
  <1>2. CASE ~(Len(list) > maxBackups)
    <2>1. Backups!Limited(list) = list /\ Len(list) <= maxBackups
      BY <1>0, <1>2 DEF Backups!Limited
    <2>2. \A i \in DOMAIN list : i + 0 \in DOMAIN list /\ list[i] = list[i + 0]
      BY <1>0
    <2> QED
      BY <2>1, <2>2
  <1> QED
    BY <1>1, <1>2

\* A change adds one version to the history and disturbs no earlier one.
LEMMA ManagerSetKeeps ==
    ASSUME BackupAssumption, BackupInv, NEW k \in Key, NEW v \in Value, Backups!ManagerSet(k, v)
    PROVE  /\ HistoryInv' /\ version' = version + 1
           /\ \A i \in 1 .. version : history'[i] = history[i]
           /\ telling' \subseteq [key : Key, value : Value, version : 1 .. MaxVersion]
  <1>1. /\ configs' \in Backups!Values /\ version' \in 1 .. MaxVersion /\ version' = version + 1
        /\ history \in Seq(Backups!Values) /\ Len(history) = version /\ version \in Nat
    BY DEF BackupAssumption, BackupInv, HistoryInv, Backups!ManagerSet, Backups!Values
  <1>2. history' = Append(history, configs')
    BY DEF Backups!ManagerSet
  <1>3. /\ history' \in Seq(Backups!Values) /\ Len(history') = version + 1
        /\ \A i \in 1 .. version : history'[i] = history[i]
        /\ history'[version + 1] = configs'
    BY <1>1, <1>2, AppendProperties
  <1>4. [key |-> k, value |-> v, version |-> version + 1]
            \in [key : Key, value : Value, version : 1 .. MaxVersion]
    BY <1>1
  <1>5. telling' \subseteq [key : Key, value : Value, version : 1 .. MaxVersion]
    BY <1>4 DEF Backups!ManagerSet, BackupInv
  <1> QED
    BY <1>1, <1>3, <1>5 DEF HistoryInv

\* A longer history keeps what the backups and the calls say of versions up to now.
LEMMA LongerHistory ==
    ASSUME BackupInv, version' = version + 1, \A i \in 1 .. version : history'[i] = history[i],
           UNCHANGED backups
    PROVE  /\ \A j \in DOMAIN backups' : backups'[j].version <= version'
           /\ Backups!BackupNotNewer' /\ Backups!BackupsOrdered'
           /\ \A s \in Setter : call'[s] = call[s] => CallSound(s)'
  <1>0. version \in Nat /\ version' \in Nat /\ backups \in Seq(BackupRecord)
    BY DEF BackupInv, HistoryInv
  <1>1. \A j \in DOMAIN backups : /\ backups[j].version \in Nat
                                  /\ backups[j].version <= version
    <2>1. \A j \in DOMAIN backups : backups[j] \in BackupRecord
      BY <1>0
    <2> QED
      BY <2>1 DEF BackupRecord, BackupInv
  <1>2. Backups!BackupNotNewer'
    <2> SUFFICES ASSUME NEW j \in DOMAIN backups
                 PROVE  \E v \in 1 .. backups[j].version : history'[v] = backups[j].configs
      BY DEF Backups!BackupNotNewer
    <2>1. PICK v \in 1 .. backups[j].version : history[v] = backups[j].configs
      BY DEF BackupInv, Backups!BackupNotNewer
    <2>2. v \in 1 .. version
      BY <1>0, <1>1, <2>1
    <2> QED
      BY <2>1, <2>2
  <1>3. Backups!BackupsOrdered'
    BY DEF BackupInv, Backups!BackupsOrdered
  <1>4. ASSUME NEW s \in Setter, call'[s] = call[s] PROVE CallSound(s)'
    <2>1. CallSound(s)
      BY DEF BackupInv
    <2>2. call[s].at \in 1 .. version => call[s].at \in 1 .. version'
      BY <1>0
    <2> QED
      BY <1>4, <2>1, <2>2 DEF CallSound
  <1> QED
    BY <1>0, <1>1, <1>2, <1>3, <1>4

\* createBackup: the values it has are those of now.
LEMMA createBackupKeeps ==
    ASSUME BackupInv, NEW s \in Setter, Backups!createBackup(s)
    PROVE  BackupInv'
  <1>1. PICK k \in Key, v \in Value :
            call' = [call EXCEPT ![s] = [Backups!Idle EXCEPT !.pc = "version", !.key = k,
                                             !.value = v, !.got = configs, !.at = version]]
    BY DEF Backups!createBackup
  <1> DEFINE r == [Backups!Idle EXCEPT !.pc = "version", !.key = k, !.value = v,
                                       !.got = configs, !.at = version]
  <1>2. /\ r \in CallRecord /\ r.pc = "version" /\ r.key = k /\ r.value = v /\ r.got = configs
        /\ r.at = version
    <2>1. version \in Nat /\ configs \in Backups!Values
      BY DEF BackupInv, HistoryInv
    <2> QED
      BY <2>1, IdleIsSound DEF CallRecord
  <1> HIDE DEF r
  <1>3. /\ call' \in [Setter -> CallRecord] /\ call'[s] = r
        /\ \A t \in Setter \ {s} : call'[t] = call[t]
    BY <1>1, <1>2 DEF BackupInv, r
  <1>4. UNCHANGED <<configs, version, history, backups, watched, telling, told>> /\ holder' = s
    BY DEF Backups!createBackup
  <1>5. version \in 1 .. version /\ history[version] = configs
    BY DEF BackupInv, HistoryInv
  <1>6. CallSound(s)'
    BY <1>2, <1>3, <1>4, <1>5 DEF CallSound
  <1>7. \A t \in Setter \ {s} : CallSound(t)'
    BY <1>3, <1>4 DEF BackupInv, CallSound
  <1> QED
    BY <1>3, <1>4, <1>6, <1>7
       DEF BackupInv, HistoryInv, Backups!BackupNotNewer, Backups!BackupsOrdered

\* ReadVersion: the backup of values that were those of a version up to now.
LEMMA ReadVersionKeeps ==
    ASSUME BackupAssumption, BackupInv, NEW s \in Setter, Backups!ReadVersion(s)
    PROVE  BackupInv'
  <1> DEFINE b == Backups!Backup(s)
             list == Append(backups, b)
  <1>1. /\ call[s].pc = "version" /\ call[s] \in CallRecord /\ CallSound(s)
        /\ version \in 1 .. MaxVersion /\ backups \in Seq(BackupRecord)
        /\ Len(backups) <= maxBackups /\ maxBackups \in Nat
        /\ UNCHANGED <<configs, version, history, watched, telling, told>> /\ holder' = NoSetter
        /\ backups' = Backups!Limited(list)
        /\ call' = [call EXCEPT ![s].pc = "set", ![s].got = Backups!Empty, ![s].at = 1]
    BY DEF BackupInv, BackupAssumption, HistoryInv, Backups!ReadVersion, Backups!BackupsOrdered
  <1>2. /\ b \in BackupRecord /\ b.version = version /\ b.configs = call[s].got
        /\ \E v \in 1 .. version : history[v] = b.configs
    BY <1>1 DEF Backups!Backup, BackupRecord, CallSound, CallRecord
  <1> HIDE DEF b
  <1>3. /\ list \in Seq(BackupRecord) /\ Len(list) = Len(backups) + 1
        /\ \A i \in 1 .. Len(backups) : list[i] = backups[i]
        /\ list[Len(backups) + 1] = b
    BY <1>1, <1>2, AppendProperties
  <1>4. \A j \in 1 .. Len(backups) : backups[j].version \in Nat /\ backups[j].version <= version
    <2>1. \A j \in 1 .. Len(backups) : backups[j] \in BackupRecord
      BY <1>1
    <2> QED
      BY <1>1, <2>1 DEF BackupRecord, BackupInv
  <1>5. ASSUME NEW i \in 1 .. Len(list)
        PROVE  /\ list[i].version <= version
               /\ \E v \in 1 .. list[i].version : history[v] = list[i].configs
    <2>1. Len(backups) \in Nat
      BY <1>1
    <2>2. CASE i \in 1 .. Len(backups)
      BY <1>3, <1>4, <2>1, <2>2 DEF BackupInv, Backups!BackupNotNewer
    <2>3. CASE i = Len(backups) + 1
      BY <1>1, <1>2, <1>3, <2>3
    <2> QED
      BY <1>3, <2>1, <2>2, <2>3
  <1>6. ASSUME NEW i \in 1 .. Len(list), NEW k \in 1 .. Len(list), i < k
        PROVE  list[i].version <= list[k].version
    <2>1. Len(backups) \in Nat /\ i \in 1 .. Len(backups)
      BY <1>1, <1>3, <1>6
    <2>2. CASE k \in 1 .. Len(backups)
      BY <1>3, <1>6, <2>1, <2>2 DEF BackupInv, Backups!BackupsOrdered
    <2>3. CASE k = Len(backups) + 1
      BY <1>2, <1>3, <1>4, <2>1, <2>3
    <2> QED
      BY <1>3, <2>1, <2>2, <2>3
  <1>7. Len(list) <= maxBackups + 1
    BY <1>1, <1>3
  <1> HIDE DEF list
  <1>8. /\ backups' \in Seq(BackupRecord) /\ Len(backups') <= maxBackups
        /\ \E d \in {0, 1} : \A i \in DOMAIN backups' :
              i + d \in DOMAIN list /\ backups'[i] = list[i + d]
    BY <1>1, <1>3, <1>7, LimitedList
  <1>9. PICK d \in {0, 1} : \A i \in DOMAIN backups' :
            i + d \in DOMAIN list /\ backups'[i] = list[i + d]
    BY <1>8
  <1>10. DOMAIN list = 1 .. Len(list) /\ DOMAIN backups' = 1 .. Len(backups')
    BY <1>3, <1>8
  <1>11. /\ \A j \in DOMAIN backups' : backups'[j].version <= version
         /\ Backups!BackupNotNewer'
    BY <1>1, <1>5, <1>9, <1>10 DEF Backups!BackupNotNewer
  <1>12. ASSUME NEW i \in DOMAIN backups', NEW k \in DOMAIN backups', i < k
         PROVE  backups'[i].version <= backups'[k].version
    <2>1. /\ i + d \in 1 .. Len(list) /\ k + d \in 1 .. Len(list)
          /\ backups'[i] = list[i + d] /\ backups'[k] = list[k + d]
      BY <1>9, <1>10
    <2>2. i + d < k + d
      BY <1>10, <1>12
    <2> QED
      BY <1>6, <2>1, <2>2
  <1>13. Backups!BackupsOrdered'
    BY <1>8, <1>12 DEF Backups!BackupsOrdered
  <1>14. /\ call' \in [Setter -> CallRecord] /\ \A t \in Setter : CallSound(t)'
    <2> DEFINE r == [call[s] EXCEPT !.pc = "set", !.got = Backups!Empty, !.at = 1]
    <2>1. /\ r \in CallRecord /\ r.pc = "set" /\ r.key = call[s].key /\ r.value = call[s].value
      BY <1>1, IdleIsSound DEF CallRecord
    <2>2. call' = [call EXCEPT ![s] = r]
      BY <1>1 DEF BackupInv
    <2> HIDE DEF r
    <2>3. /\ call' \in [Setter -> CallRecord] /\ call'[s] = r
          /\ \A t \in Setter \ {s} : call'[t] = call[t]
      BY <2>1, <2>2 DEF BackupInv
    <2>4. CallSound(s)'
      BY <1>1, <2>1, <2>3 DEF CallSound
    <2>5. \A t \in Setter \ {s} : CallSound(t)'
      BY <1>1, <2>3 DEF BackupInv, CallSound
    <2> QED
      BY <2>3, <2>4, <2>5
  <1> QED
    BY <1>1, <1>8, <1>11, <1>13, <1>14 DEF BackupInv, HistoryInv

\* SetConfig: the change of a call that has its backup.
LEMMA SetConfigKeeps ==
    ASSUME BackupAssumption, BackupInv, NEW s \in Setter, Backups!SetConfig(s)
    PROVE  BackupInv'
  <1>1. /\ call[s].key \in Key /\ call[s].value \in Value
        /\ Backups!ManagerSet(call[s].key, call[s].value)
        /\ call' = [call EXCEPT ![s] = Backups!Idle] /\ UNCHANGED <<backups, holder, watched, told>>
    BY DEF Backups!SetConfig, BackupInv, CallSound
  <1>2. /\ HistoryInv' /\ version' = version + 1
        /\ \A i \in 1 .. version : history'[i] = history[i]
        /\ telling' \subseteq [key : Key, value : Value, version : 1 .. MaxVersion]
    BY <1>1, ManagerSetKeeps
  <1>3. /\ \A j \in DOMAIN backups' : backups'[j].version <= version'
        /\ Backups!BackupNotNewer' /\ Backups!BackupsOrdered'
        /\ \A t \in Setter : call'[t] = call[t] => CallSound(t)'
    BY <1>1, <1>2, LongerHistory
  <1>4. /\ call' \in [Setter -> CallRecord] /\ call'[s] = Backups!Idle
        /\ \A t \in Setter \ {s} : call'[t] = call[t]
    BY <1>1, IdleIsSound DEF BackupInv
  <1>5. CallSound(s)'
    BY <1>4, IdleIsSound DEF CallSound
  <1> QED
    BY <1>1, <1>2, <1>3, <1>4, <1>5 DEF BackupInv

\* RestoreFromBackup: a thread takes the first backup of a version.
LEMMA RestoreFromBackupKeeps ==
    ASSUME BackupInv, NEW s \in Setter, Backups!RestoreFromBackup(s)
    PROVE  BackupInv'
  <1>1. PICK v \in {backups[j].version : j \in DOMAIN backups} :
           LET j == Backups!Min({k \in DOMAIN backups : backups[k].version = v})
               b == backups[j].configs
               toSet == {k \in Key : b[k] /= NoValue}
           IN toSet /= {} /\ call' = [call EXCEPT ![s] =
                  [Backups!Idle EXCEPT !.pc = "restore", !.got = b, !.left = toSet]]
    BY DEF Backups!RestoreFromBackup
  <1> DEFINE S == {k \in DOMAIN backups : backups[k].version = v}
             j == Backups!Min(S)
             b == backups[j].configs
             toSet == {k \in Key : b[k] /= NoValue}
             r == [Backups!Idle EXCEPT !.pc = "restore", !.got = b, !.left = toSet]
  <1>2. S \subseteq Nat /\ S # {}
    <2>1. backups \in Seq(BackupRecord)
      BY DEF BackupInv
    <2> QED
      BY <2>1
  <1>3. j \in S
    <2> HIDE DEF S
    <2> QED
      BY <1>2, MinIsMember
  <1>4. b \in Backups!Values
    <2>1. backups \in Seq(BackupRecord) /\ j \in DOMAIN backups
      BY <1>3 DEF BackupInv
    <2> HIDE DEF j, S
    <2>2. backups[j] \in BackupRecord
      BY <2>1
    <2> QED
      BY <2>2 DEF BackupRecord
  <1>5. call' = [call EXCEPT ![s] = r]
    BY <1>1
  <1> HIDE DEF b
  <1>6. \A k \in toSet : b[k] \in Value
    BY <1>4 DEF Backups!Values
  <1>7. r \in CallRecord /\ r.pc = "restore" /\ r.left = toSet /\ r.got = b
    BY <1>4, IdleIsSound DEF CallRecord
  <1> HIDE DEF r, toSet
  <1>8. /\ call' \in [Setter -> CallRecord] /\ call'[s] = r
        /\ \A t \in Setter \ {s} : call'[t] = call[t]
    BY <1>5, <1>7 DEF BackupInv
  <1>9. UNCHANGED <<configs, version, history, backups, holder, watched, telling, told>>
    BY DEF Backups!RestoreFromBackup
  <1>10. CallSound(s)'
    BY <1>6, <1>7, <1>8 DEF CallSound
  <1>11. \A t \in Setter \ {s} : CallSound(t)'
    BY <1>8, <1>9 DEF BackupInv, CallSound
  <1> QED
    BY <1>8, <1>9, <1>10, <1>11, SMTT(30)
       DEF BackupInv, HistoryInv, Backups!BackupNotNewer, Backups!BackupsOrdered

\* RestoreKey: one key of the backup is set.
LEMMA RestoreKeyKeeps ==
    ASSUME BackupAssumption, BackupInv, NEW s \in Setter, Backups!RestoreKey(s)
    PROVE  BackupInv'
  <1>1. PICK k \in call[s].left :
           /\ Backups!ManagerSet(k, call[s].got[k])
           /\ LET rest == call[s].left \ {k}
              IN call' = [call EXCEPT ![s] = IF rest = {} THEN Backups!Idle
                                             ELSE [call[s] EXCEPT !.left = rest]]
    BY DEF Backups!RestoreKey
  <1> DEFINE rest == call[s].left \ {k}
             r == IF rest = {} THEN Backups!Idle ELSE [call[s] EXCEPT !.left = rest]
  <1>2. /\ call[s] \in CallRecord /\ call[s].pc = "restore" /\ k \in Key
        /\ \A l \in call[s].left : call[s].got[l] \in Value
        /\ UNCHANGED <<backups, holder, watched, told>>
    BY DEF Backups!RestoreKey, BackupInv, CallSound, CallRecord
  <1>3. /\ HistoryInv' /\ version' = version + 1
        /\ \A i \in 1 .. version : history'[i] = history[i]
        /\ telling' \subseteq [key : Key, value : Value, version : 1 .. MaxVersion]
    BY <1>1, <1>2, ManagerSetKeeps
  <1>4. /\ \A j \in DOMAIN backups' : backups'[j].version <= version'
        /\ Backups!BackupNotNewer' /\ Backups!BackupsOrdered'
        /\ \A t \in Setter : call'[t] = call[t] => CallSound(t)'
    BY <1>2, <1>3, LongerHistory
  <1>5. /\ r \in CallRecord /\ r.pc \in {"idle", "restore"}
        /\ r.pc = "restore" => \A l \in r.left : r.got[l] \in Value
    <2>1. CASE rest = {}
      BY <2>1, IdleIsSound
    <2>2. CASE rest # {}
      BY <1>2, <2>2 DEF CallRecord
    <2> QED
      BY <2>1, <2>2
  <1>6. call' = [call EXCEPT ![s] = r]
    BY <1>1
  <1> HIDE DEF r
  <1>7. /\ call' \in [Setter -> CallRecord] /\ call'[s] = r
        /\ \A t \in Setter \ {s} : call'[t] = call[t]
    BY <1>5, <1>6 DEF BackupInv
  <1>8. CallSound(s)'
    BY <1>5, <1>7 DEF CallSound
  <1> QED
    BY <1>2, <1>3, <1>4, <1>7, <1>8 DEF BackupInv

\* The watchers change neither the configuration nor its backups.
LEMMA WatchersKeep ==
    ASSUME BackupInv, Backups!WatchConfig \/ Backups!UnwatchConfig \/ Backups!OnConfigChange
    PROVE  BackupInv'
  <1>1. UNCHANGED <<configs, version, history, backups, holder, call>>
    BY DEF Backups!WatchConfig, Backups!UnwatchConfig, Backups!OnConfigChange
  <1>2. /\ watched' \in BOOLEAN
        /\ telling' \subseteq [key : Key, value : Value, version : 1 .. MaxVersion]
        /\ told' \in Backups!Values
    BY DEF Backups!WatchConfig, Backups!UnwatchConfig, Backups!OnConfigChange, BackupInv,
           Backups!Values
  <1> QED
    BY <1>1, <1>2 DEF BackupInv, HistoryInv, CallSound, Backups!BackupNotNewer,
                      Backups!BackupsOrdered

\* createBackup releases the lock of the configuration between reading the values and
\* reading the version, and every thread may set values there: a backup never has values
\* newer than its version, and the backups stay in the order of their versions and within
\* their limit, for any number of threads.
THEOREM BackupSafety ==
    ASSUME BackupAssumption
    PROVE  Backups!Spec => [](Backups!TypeOK /\ Backups!BackupNotNewer /\ Backups!BackupsOrdered)
  <1>1. Backups!Init => BackupInv
    <2> SUFFICES ASSUME Backups!Init PROVE BackupInv
      OBVIOUS
    <2> USE DEF Backups!Init
    <2>1. HistoryInv
      BY IdleIsSound DEF HistoryInv, BackupAssumption
    <2>2. /\ backups \in Seq(BackupRecord) /\ DOMAIN backups = {} /\ Len(backups) = 0
      OBVIOUS
    <2>3. Backups!BackupNotNewer /\ Backups!BackupsOrdered
      BY <2>2 DEF Backups!BackupNotNewer, Backups!BackupsOrdered, BackupAssumption
    <2>4. call \in [Setter -> CallRecord] /\ \A s \in Setter : CallSound(s)
      BY IdleIsSound DEF CallSound
    <2> QED
      BY <2>1, <2>2, <2>3, <2>4, IdleIsSound DEF BackupInv
  <1>2. BackupInv /\ [Backups!Next]_(Backups!vars) => BackupInv'
    <2> SUFFICES ASSUME BackupInv, [Backups!Next]_(Backups!vars) PROVE BackupInv'
      OBVIOUS
    <2>1. ASSUME NEW s \in Setter,
                 Backups!createBackup(s) \/ Backups!ReadVersion(s) \/ Backups!SetConfig(s)
                 \/ Backups!RestoreFromBackup(s) \/ Backups!RestoreKey(s)
          PROVE  BackupInv'
      BY <2>1, createBackupKeeps, ReadVersionKeeps, SetConfigKeeps, RestoreFromBackupKeeps,
         RestoreKeyKeeps
    <2>2. ASSUME Backups!WatchConfig \/ Backups!UnwatchConfig \/ Backups!OnConfigChange
          PROVE  BackupInv'
      BY <2>2, WatchersKeep
    <2>3. CASE UNCHANGED Backups!vars
      BY <2>3 DEF Backups!vars, BackupInv, HistoryInv, CallSound, Backups!BackupNotNewer,
                  Backups!BackupsOrdered
    <2> QED
      BY <2>1, <2>2, <2>3 DEF Backups!Next
  <1>3. BackupInv => Backups!TypeOK /\ Backups!BackupNotNewer /\ Backups!BackupsOrdered
    <2> SUFFICES ASSUME BackupInv PROVE Backups!TypeOK
      BY DEF BackupInv
    <2>1. /\ DOMAIN history = 1 .. version /\ \A v \in 1 .. version : history[v] \in Backups!Values
      BY DEF BackupInv, HistoryInv
    <2>2. \A s \in Setter : /\ call[s].pc \in {"idle", "version", "set", "restore"}
                            /\ call[s].got \in Backups!Values /\ call[s].left \subseteq Key
      BY DEF BackupInv, CallRecord
    <2> QED
      BY <2>1, <2>2 DEF BackupInv, HistoryInv, BackupRecord, Backups!TypeOK
  <1> QED
    BY <1>1, <1>2, <1>3, PTL DEF Backups!Spec

-----------------------------------------------------------------------------
(***************************************************************************)
(* HotSwap, for any kinds, names, versions of the file and clients.        *)
(***************************************************************************)
CONSTANTS Kinds, KindOf, NamesIn, NoClient, MaxClients, MaxReloads

VARIABLES clients, made, held, given, closing, leaked, file, conf, signal, reload, shut

Swap == INSTANCE HotSwap

SwapAssumption ==
    /\ Kinds \in Nat /\ MaxClients \in Nat /\ MaxReloads \in Nat
    /\ \A n \in Swap!Name : KindOf[n] \in Swap!Kind
    /\ \A v \in 0 .. MaxReloads : NamesIn[v] \subseteq Swap!Name
    /\ NoClient \notin Swap!Client

Registered == {clients[n] : n \in Swap!Name} \ {NoClient}
ClientRecord == [conf : 0 .. MaxReloads, open : BOOLEAN]
ReloadRecord ==
    [pc : {"wait", "kind", "new", "swap"}, at : Nat, kind : 0 .. Kinds,
     read : [Swap!Kind -> 0 .. MaxReloads], left : SUBSET Swap!Name, new : Swap!Client \cup {NoClient}, bad : SUBSET Swap!Kind]

SwapTypes ==
    /\ made \in Seq(ClientRecord) /\ Len(made) <= MaxClients
    /\ clients \in [Swap!Name -> DOMAIN made \cup {NoClient}]
    /\ held \subseteq DOMAIN made /\ given \subseteq DOMAIN made
    /\ closing \subseteq DOMAIN made /\ leaked \subseteq DOMAIN made
    /\ file \in 0 .. MaxReloads /\ conf \in 0 .. file /\ signal \in BOOLEAN
    /\ reload \in ReloadRecord /\ reload.read \in [Swap!Kind -> 0 .. file] /\ reload.new \in DOMAIN made \cup {NoClient}
    /\ reload.pc \in {"new", "swap"} => reload.kind # 0
    /\ used \in [User -> Swap!Client \cup {NoClient}] /\ shut \in BOOLEAN

\* A client has at most one name, and one with a name is not about to be closed.  The one
\* that the reload has made, and those that callers hold, have no name yet and are open.
OwnershipInv ==
    /\ \A n, m \in Swap!Name : clients[n] = clients[m] /\ clients[n] # NoClient => n = m
    /\ Registered \cap closing = {}
    /\ ~shut => \A c \in Registered : made[c].open
    /\ held \cap (Registered \cup closing) = {} /\ \A c \in held : made[c].open
    /\ reload.pc = "swap" <=> reload.new # NoClient
    /\ reload.new # NoClient => /\ reload.new \notin Registered \cup closing \cup held
                                /\ made[reload.new].open /\ made[reload.new].conf >= reload.at

\* The names the reload has been through, if no error met their kind.
Through(n) ==
    \/ reload.pc = "wait"
    \/ reload.pc = "kind" /\ KindOf[n] <= reload.kind
    \/ reload.pc \in {"new", "swap"} /\ KindOf[n] < reload.kind
    \/ reload.pc \in {"new", "swap"} /\ KindOf[n] = reload.kind /\ n \notin reload.left

\* A name the reload has found and been through, and what it owes to the name.
Due(n) ==
    Through(n) /\ KindOf[n] \notin reload.bad /\ n \in NamesIn[reload.read[KindOf[n]]]
Current(n) ==
    clients[n] # NoClient /\ (made[clients[n]].conf >= reload.at \/ clients[n] \in given)

\* What the kind at hand was read from is no older than what the reload began with.
CurrentInv ==
    /\ conf >= reload.at
    /\ reload.pc \in {"new", "swap"} => reload.read[reload.kind] >= reload.at
    /\ \A n \in Swap!Name : Due(n) => Current(n)

SwapInv == SwapTypes /\ OwnershipInv /\ Swap!OpenIsAccounted /\ CurrentInv

\* "No client" is none of the clients.
LEMMA NoClientIsMade ==
    ASSUME SwapAssumption, SwapTypes
    PROVE  NoClient \notin DOMAIN made /\ DOMAIN made \subseteq Swap!Client
  <1>1. Len(made) \in Nat /\ DOMAIN made = 1 .. Len(made) /\ MaxClients \in Nat
    BY DEF SwapTypes, SwapAssumption
  <1>2. DOMAIN made \subseteq Swap!Client
    BY <1>1 DEF SwapTypes, Swap!Client
  <1> QED
    BY <1>2 DEF SwapAssumption

\* A client that is made is the last of the list; the others stay as they are.
LEMMA MakeClient ==
    ASSUME SwapAssumption, SwapInv, NEW v \in 0 .. MaxReloads, Len(made) < MaxClients,
           made' = Swap!Make(v)
    PROVE  /\ made' \in Seq(ClientRecord) /\ Len(made') = Len(made) + 1
           /\ Len(made') \in Swap!Client /\ Len(made') \notin DOMAIN made
           /\ DOMAIN made' = DOMAIN made \cup {Len(made')}
           /\ \A c \in DOMAIN made : made'[c] = made[c]
           /\ made'[Len(made')] = [conf |-> v, open |-> TRUE]
  <1>1. /\ made \in Seq(ClientRecord) /\ Len(made) \in Nat /\ MaxClients \in Nat
        /\ [conf |-> v, open |-> TRUE] \in ClientRecord
    BY DEF SwapInv, SwapTypes, SwapAssumption, ClientRecord
  <1>2. /\ made' \in Seq(ClientRecord) /\ Len(made') = Len(made) + 1
        /\ \A c \in 1 .. Len(made) : made'[c] = made[c]
        /\ made'[Len(made) + 1] = [conf |-> v, open |-> TRUE]
    BY <1>1, AppendProperties DEF Swap!Make
  <1>3. DOMAIN made = 1 .. Len(made) /\ DOMAIN made' = 1 .. Len(made')
    BY <1>1, <1>2
  <1>4. 1 .. Len(made') = 1 .. Len(made) \cup {Len(made')} /\ Len(made') \notin 1 .. Len(made)
    BY <1>1, <1>2
  <1> QED
    BY <1>1, <1>2, <1>3, <1>4 DEF Swap!Client

\* The reload touches nothing but its own record.
LEMMA ReloadOnlyKeeps ==
    ASSUME SwapAssumption, SwapInv, UNCHANGED <<clients, made, held, given, closing, file, used, shut>>,
           leaked' = leaked,
           conf' \in 0 .. file, signal' \in BOOLEAN, reload' \in ReloadRecord,
           reload'.read \in [Swap!Kind -> 0 .. file],
           reload'.new = reload.new, reload'.pc = "swap" <=> reload.pc = "swap",
           reload'.pc = "new" => reload'.kind # 0, reload'.pc = "swap" => reload'.kind = reload.kind,
           CurrentInv', reload'.new # NoClient => reload'.at = reload.at
    PROVE  SwapInv'
  <1>1. SwapTypes'
    BY DEF SwapInv, SwapTypes
  <1>2. OwnershipInv'
    BY DEF SwapInv, OwnershipInv, Registered, ReloadRecord, SwapTypes
  <1>3. Swap!OpenIsAccounted'
    BY DEF SwapInv, Swap!OpenIsAccounted
  <1> QED
    BY <1>1, <1>2, <1>3 DEF SwapInv

LEMMA HandleConfigReloadKeeps ==
    ASSUME SwapAssumption, SwapInv, Swap!HandleConfigReload
    PROVE  SwapInv'
  <1>1. /\ reload.pc = "wait" /\ signal' = FALSE /\ reload \in ReloadRecord
        /\ reload.new = NoClient /\ file \in Nat /\ conf \in 0 .. file /\ CurrentInv
        /\ reload.read \in [Swap!Kind -> 0 .. file]
        /\ UNCHANGED <<clients, made, held, given, closing, leaked, file, used, shut>>
    BY DEF Swap!HandleConfigReload, SwapInv, SwapTypes, OwnershipInv
  <1>0. 0 \in 0 .. Kinds /\ file \in 0 .. file
    BY <1>1 DEF SwapAssumption
  <1>2. CASE UNCHANGED <<conf, reload>>
    <2>1. CurrentInv'
      BY <1>1, <1>2 DEF CurrentInv, Through, Due, Current
    <2> QED
      BY <1>1, <1>2, <2>1, ReloadOnlyKeeps
  <1>3. CASE /\ conf' = file
             /\ reload' = [reload EXCEPT !.pc = "kind", !.at = file, !.kind = 0, !.bad = {}]
    <2>1. /\ reload' \in ReloadRecord /\ reload'.new = NoClient /\ reload'.pc = "kind"
          /\ reload'.kind = 0 /\ reload'.at = file /\ reload'.read = reload.read
      BY <1>0, <1>1, <1>3 DEF ReloadRecord
    <2>2. \A n \in Swap!Name : ~Through(n)'
      <3>1. \A n \in Swap!Name : KindOf[n] >= 1 /\ KindOf[n] \in Nat
        BY DEF SwapAssumption, Swap!Kind
      <3> QED
        BY <2>1, <3>1 DEF Through, Swap!Kind
    <2>3. CurrentInv'
      BY <1>1, <1>3, <2>1, <2>2 DEF CurrentInv, Due
    <2> QED
      BY <1>0, <1>1, <1>3, <2>1, <2>3, ReloadOnlyKeeps
  <1> QED
    BY <1>2, <1>3 DEF Swap!HandleConfigReload

LEMMA NextKindKeeps ==
    ASSUME SwapAssumption, SwapInv, Swap!hotSwapConnections
    PROVE  SwapInv'
  <1> DEFINE k == reload.kind + 1
  <1>1. /\ reload.pc = "kind" /\ reload \in ReloadRecord /\ reload.new = NoClient
        /\ conf \in 0 .. file /\ signal \in BOOLEAN /\ CurrentInv /\ Kinds \in Nat
        /\ file \in 0 .. MaxReloads /\ reload.read \in [Swap!Kind -> 0 .. file]
        /\ UNCHANGED <<clients, made, held, given, closing, leaked, file, conf, signal, used, shut>>
    BY DEF Swap!hotSwapConnections, SwapInv, SwapTypes, OwnershipInv, SwapAssumption
  <1>2. reload.kind \in 0 .. Kinds /\ 0 \in 0 .. Kinds
    BY <1>1 DEF ReloadRecord
  <1>3. CASE reload.kind = Kinds
    <2>1. reload' = [reload EXCEPT !.pc = "wait", !.kind = 0]
      BY <1>3 DEF Swap!hotSwapConnections, Swap!NextKind
    <2>2. /\ reload' \in ReloadRecord /\ reload'.new = NoClient /\ reload'.pc = "wait"
          /\ reload'.at = reload.at /\ reload'.bad = reload.bad /\ reload'.read = reload.read
      BY <1>1, <1>2, <2>1 DEF ReloadRecord
    <2>3. \A n \in Swap!Name : Through(n)
      BY <1>1, <1>3 DEF Through, Swap!Kind, SwapAssumption
    <2>4. CurrentInv'
      BY <1>1, <2>2, <2>3 DEF CurrentInv, Due, Current
    <2> QED
      BY <1>1, <2>2, <2>4, ReloadOnlyKeeps
  <1>4. CASE reload.kind # Kinds
    <2> DEFINE names == Swap!NamesOf(k, conf)
    <2>0. /\ k # 0 /\ k \in Swap!Kind /\ k \in 0 .. Kinds /\ conf \in 0 .. MaxReloads
          /\ names \subseteq Swap!Name
          /\ \A n \in Swap!Name : n \in names <=> n \in NamesIn[conf] /\ KindOf[n] = k
      BY <1>1, <1>2, <1>4 DEF Swap!Kind, SwapAssumption, Swap!NamesOf
    <2> DEFINE p == IF names = {} THEN "kind" ELSE "new"
               read == [reload.read EXCEPT ![k] = conf]
    <2>1. reload' = [reload EXCEPT !.pc = p, !.kind = k, !.read[k] = conf, !.left = names]
      BY <1>4 DEF Swap!hotSwapConnections, Swap!NextKind
    <2>2. p \in {"kind", "new"}
      OBVIOUS
    <2>2a. /\ read \in [Swap!Kind -> 0 .. file] /\ read \in [Swap!Kind -> 0 .. MaxReloads]
           /\ read[k] = conf /\ \A j \in Swap!Kind \ {k} : read[j] = reload.read[j]
      <3>1. reload.read \in [Swap!Kind -> 0 .. MaxReloads]
        BY <1>1 DEF ReloadRecord
      <3> QED
        BY <1>1, <2>0, <3>1
    <2> HIDE DEF names
    <2>3. /\ reload' \in ReloadRecord /\ reload'.new = NoClient /\ reload'.pc = p
          /\ reload'.at = reload.at /\ reload'.bad = reload.bad /\ reload'.kind = k
          /\ reload'.left = names /\ reload'.read = read
      BY <1>1, <2>0, <2>1, <2>2, <2>2a DEF ReloadRecord
    <2> HIDE DEF read
    <2>4. ASSUME NEW n \in Swap!Name, Due(n)' PROVE Due(n)
      <3>1. KindOf[n] \in Nat /\ KindOf[n] \in Swap!Kind
        BY DEF SwapAssumption, Swap!Kind
      <3>2. KindOf[n] # k
        <4> SUFFICES ASSUME KindOf[n] = k PROVE FALSE
          OBVIOUS
        <4>1. n \in NamesIn[conf]
          BY <2>2a, <2>3, <2>4 DEF Due
        <4>2. n \in names /\ p = "new"
          BY <2>0, <4>1
        <4> QED
          BY <1>2, <2>3, <2>4, <4>2 DEF Through, Due
      <3>3. KindOf[n] <= k
        BY <1>2, <2>2, <2>3, <2>4, <3>1 DEF Through, Due
      <3>4. KindOf[n] <= reload.kind
        BY <1>2, <3>1, <3>2, <3>3
      <3> QED
        BY <1>1, <2>2a, <2>3, <2>4, <3>1, <3>2, <3>4 DEF Through, Due
    <2>5. CurrentInv'
      BY <1>1, <2>2a, <2>3, <2>4 DEF CurrentInv, Current
    <2> QED
      BY <1>1, <2>0, <2>2, <2>2a, <2>3, <2>5, ReloadOnlyKeeps
  <1> QED
    BY <1>3, <1>4

\* An error ends the kind, and its names are excused.
LEMMA KindFails ==
    ASSUME SwapInv, reload.pc \in {"new", "swap"}, reload.kind \in Swap!Kind
    PROVE  /\ Swap!KindFailed \in ReloadRecord /\ Swap!KindFailed.pc = "kind"
           /\ Swap!KindFailed.new = NoClient /\ Swap!KindFailed.at = reload.at
           /\ Swap!KindFailed.kind = reload.kind /\ Swap!KindFailed.read = reload.read
           /\ Swap!KindFailed.bad = reload.bad \cup {reload.kind}
  BY DEF SwapInv, SwapTypes, ReloadRecord, Swap!KindFailed

\* What a step of the reload changes of the names it has been through: none but those of the
\* kind that an error ended, and the one whose client it has just made.
LEMMA NewClientKeeps ==
    ASSUME SwapAssumption, SwapInv, Swap!NewClient
    PROVE  SwapInv'
  <1>1. /\ reload.pc = "new" /\ reload \in ReloadRecord /\ reload.new = NoClient
        /\ conf \in 0 .. file /\ signal \in BOOLEAN /\ CurrentInv /\ SwapTypes /\ OwnershipInv
        /\ Swap!OpenIsAccounted /\ Len(made) < MaxClients
        /\ UNCHANGED <<clients, held, given, closing, file, conf, signal, used, shut>>
    BY DEF Swap!NewClient, SwapInv, SwapTypes, OwnershipInv
  <1>2. reload.kind \in Swap!Kind
    BY <1>1 DEF SwapTypes, ReloadRecord, Swap!Kind
  <1> DEFINE v == reload.read[reload.kind]
  <1>2a. v \in 0 .. MaxReloads /\ v \in 0 .. file /\ v >= reload.at
    BY <1>1, <1>2 DEF SwapTypes, ReloadRecord, CurrentInv
  <1>3. CASE UNCHANGED <<made, leaked>> /\ reload' = Swap!KindFailed
    <2>1. /\ reload' \in ReloadRecord /\ reload'.pc = "kind" /\ reload'.new = NoClient
          /\ reload'.at = reload.at /\ reload'.kind = reload.kind /\ reload'.read = reload.read
          /\ reload'.bad = reload.bad \cup {reload.kind}
      BY <1>1, <1>2, <1>3, KindFails
    <2>2. ASSUME NEW n \in Swap!Name, Due(n)' PROVE Due(n)
      <3>1. KindOf[n] \in Nat /\ KindOf[n] \in Swap!Kind /\ reload.kind \in Nat
        BY <1>2 DEF SwapAssumption, Swap!Kind
      <3> QED
        BY <1>1, <2>1, <2>2, <3>1 DEF Through, Due
    <2>3. CurrentInv'
      BY <1>1, <1>3, <2>1, <2>2 DEF CurrentInv, Current
    <2> QED
      BY <1>1, <1>3, <2>1, <2>3, ReloadOnlyKeeps DEF SwapTypes
  <1>3a. CASE /\ made' = Swap!Make(v) /\ leaked' = leaked \cup {Len(made')}
              /\ reload' = Swap!KindFailed
    <2> DEFINE c == Len(made')
    <2>0. /\ made' \in Seq(ClientRecord) /\ c = Len(made) + 1 /\ c \in Swap!Client
          /\ c \notin DOMAIN made /\ DOMAIN made' = DOMAIN made \cup {c}
          /\ \A d \in DOMAIN made : made'[d] = made[d]
      BY <1>1, <1>2a, <1>3a, MakeClient
    <2>0a. c <= MaxClients
      BY <1>1, <2>0 DEF Swap!Client
    <2>1. /\ reload' \in ReloadRecord /\ reload'.pc = "kind" /\ reload'.new = NoClient
          /\ reload'.at = reload.at /\ reload'.kind = reload.kind /\ reload'.read = reload.read
          /\ reload'.bad = reload.bad \cup {reload.kind}
      BY <1>1, <1>2, <1>3a, KindFails
    <2>2. ASSUME NEW n \in Swap!Name, Due(n)' PROVE Due(n)
      <3>1. KindOf[n] \in Nat /\ KindOf[n] \in Swap!Kind /\ reload.kind \in Nat
        BY <1>2 DEF SwapAssumption, Swap!Kind
      <3> QED
        BY <1>1, <2>1, <2>2, <3>1 DEF Through, Due
    <2> HIDE DEF c
    <2>3. /\ \A d \in Registered : d \in DOMAIN made /\ made'[d] = made[d]
          /\ \A m \in Swap!Name : clients[m] # NoClient => made'[clients[m]] = made[clients[m]]
          /\ UNCHANGED Registered
      BY <1>1, <2>0 DEF SwapTypes, Registered
    <2>4. CurrentInv'
      BY <1>1, <2>1, <2>2, <2>3 DEF CurrentInv, Current
    <2>5. SwapTypes'
      BY <1>1, <1>3a, <2>0, <2>0a, <2>1 DEF SwapTypes, c
    <2>6. OwnershipInv'
      BY <1>1, <2>0, <2>1, <2>3 DEF OwnershipInv, SwapTypes
    <2>7. Swap!OpenIsAccounted'
      BY <1>1, <1>3a, <2>0, <2>1 DEF Swap!OpenIsAccounted, c
    <2> QED
      BY <2>4, <2>5, <2>6, <2>7 DEF SwapInv
  <1>4. CASE /\ made' = Swap!Make(v) /\ leaked' = leaked
             /\ reload' = [reload EXCEPT !.pc = "swap", !.new = Len(made')]
    <2> DEFINE c == Len(made')
    <2>1. /\ made' \in Seq(ClientRecord) /\ c = Len(made) + 1 /\ c \in Swap!Client
          /\ c \notin DOMAIN made /\ DOMAIN made' = DOMAIN made \cup {c}
          /\ \A d \in DOMAIN made : made'[d] = made[d]
          /\ made'[c] = [conf |-> v, open |-> TRUE]
      BY <1>1, <1>2a, <1>4, MakeClient
    <2>2. c <= MaxClients
      BY <1>1, <2>1 DEF Swap!Client
    <2> HIDE DEF c
    <2>3. /\ reload' \in ReloadRecord /\ reload'.pc = "swap" /\ reload'.new = c
          /\ reload'.at = reload.at /\ reload'.kind = reload.kind /\ reload'.left = reload.left
          /\ reload'.bad = reload.bad /\ reload'.read = reload.read
      BY <1>1, <1>4, <2>1 DEF ReloadRecord, c
    <2>4. SwapTypes'
      BY <1>1, <1>2, <1>4, <2>1, <2>2, <2>3 DEF SwapTypes, c
    <2>5. c \notin Registered \cup closing \cup held
      BY <1>1, <2>1 DEF SwapTypes, Registered
    <2>6. c # NoClient
      BY <2>1 DEF SwapAssumption
    <2>7. OwnershipInv'
      <3>1. \A d \in Registered : d \in DOMAIN made /\ made'[d] = made[d]
        BY <1>1, <2>1 DEF SwapTypes, Registered
      <3>2. UNCHANGED Registered
        BY <1>1 DEF Registered
      <3>3. made'[c].open /\ made'[c].conf = v /\ v >= reload.at
        BY <1>2a, <2>1
      <3>4. \A d \in held : made'[d] = made[d]
        BY <1>1, <2>1 DEF SwapTypes
      <3> QED
        BY <1>1, <2>3, <2>5, <2>6, <3>1, <3>2, <3>3, <3>4 DEF OwnershipInv
    <2>8. Swap!OpenIsAccounted'
      <3>1. NoClient \notin DOMAIN made
        BY <1>1, NoClientIsMade
      <3> QED
        BY <1>1, <1>4, <2>1, <2>3, <3>1 DEF Swap!OpenIsAccounted
    <2>9. CurrentInv'
      <3>1. \A n \in Swap!Name : clients[n] # NoClient => made'[clients[n]] = made[clients[n]]
        BY <1>1, <2>1 DEF SwapTypes
      <3>2. \A n \in Swap!Name : Due(n)' <=> Due(n)
        BY <1>1, <2>3 DEF Through, Due
      <3> QED
        BY <1>1, <1>2a, <2>3, <3>1, <3>2 DEF CurrentInv, Current
    <2> QED
      BY <2>4, <2>7, <2>8, <2>9 DEF SwapInv
  <1> QED
    BY <1>3, <1>3a, <1>4 DEF Swap!NewClient

\* HotSwapClient: the new client takes the name, and the old one is to be closed.
LEMMA HotSwapClientKeeps ==
    ASSUME SwapAssumption, SwapInv, Swap!HotSwapClient
    PROVE  SwapInv'
  <1> DEFINE c == reload.new
  <1>1. /\ reload.pc = "swap" /\ reload \in ReloadRecord /\ CurrentInv /\ SwapTypes
        /\ OwnershipInv /\ Swap!OpenIsAccounted
        /\ UNCHANGED <<made, held, given, file, conf, signal, used, shut>>
    BY DEF Swap!HotSwapClient, SwapInv, SwapTypes
  <1>2. reload.kind \in Swap!Kind
    BY <1>1 DEF SwapTypes, ReloadRecord, Swap!Kind
  <1>3. CASE /\ leaked' = leaked \cup {c} /\ reload' = Swap!KindFailed
             /\ UNCHANGED <<clients, closing>>
    <2>1. /\ reload' \in ReloadRecord /\ reload'.pc = "kind" /\ reload'.new = NoClient
          /\ reload'.at = reload.at /\ reload'.kind = reload.kind /\ reload'.read = reload.read
          /\ reload'.bad = reload.bad \cup {reload.kind}
      BY <1>1, <1>2, <1>3, KindFails
    <2>2. ASSUME NEW n \in Swap!Name, Due(n)' PROVE Due(n)
      <3>1. KindOf[n] \in Nat /\ KindOf[n] \in Swap!Kind /\ reload.kind \in Nat
        BY <1>2 DEF SwapAssumption, Swap!Kind
      <3> QED
        BY <1>1, <2>1, <2>2, <3>1 DEF Through, Due
    <2>3. CurrentInv'
      BY <1>1, <1>3, <2>1, <2>2 DEF CurrentInv, Current
    <2>4. c \in DOMAIN made
      BY <1>1, <1>3 DEF OwnershipInv, SwapTypes
    <2>5. SwapTypes'
      BY <1>1, <1>3, <2>1, <2>4 DEF SwapTypes
    <2>6. OwnershipInv'
      BY <1>1, <1>3, <2>1 DEF OwnershipInv, Registered
    <2>7. Swap!OpenIsAccounted'
      BY <1>1, <1>3, <2>1 DEF Swap!OpenIsAccounted
    <2> QED
      BY <2>3, <2>5, <2>6, <2>7 DEF SwapInv
  <1>4. ASSUME NEW n \in reload.left,
               closing' = closing \cup ({Swap!OldClient(n)} \ {NoClient}),
               clients' = [clients EXCEPT ![n] = reload.new],
               reload' = [reload EXCEPT !.pc = IF reload.left = {n} THEN "kind" ELSE "new",
                                        !.left = @ \ {n}, !.new = NoClient],
               UNCHANGED leaked
        PROVE  SwapInv'
    <2> DEFINE p == IF reload.left = {n} THEN "kind" ELSE "new"
               prev == clients[n]
    <2>1. /\ n \in Swap!Name /\ c \in DOMAIN made /\ c # NoClient
          /\ c \notin Registered \cup closing \cup held /\ made[c].open /\ made[c].conf >= reload.at
      BY <1>1, <1>4 DEF OwnershipInv, SwapTypes, ReloadRecord
    <2>2. p \in {"kind", "new"} /\ reload.left \ {n} \subseteq Swap!Name
      BY <1>1 DEF ReloadRecord
    <2>3. /\ reload' \in ReloadRecord /\ reload'.pc = p /\ reload'.new = NoClient
          /\ reload'.at = reload.at /\ reload'.kind = reload.kind /\ reload'.bad = reload.bad
          /\ reload'.left = reload.left \ {n} /\ reload'.read = reload.read
      BY <1>1, <1>4, <2>2 DEF ReloadRecord
    <2> HIDE DEF p
    <2>4. /\ clients' \in [Swap!Name -> DOMAIN made \cup {NoClient}] /\ clients'[n] = c
          /\ \A m \in Swap!Name \ {n} : clients'[m] = clients[m]
      BY <1>1, <1>4, <2>1 DEF SwapTypes
    <2>5. closing' = closing \cup ({prev} \ {NoClient}) /\ prev \in DOMAIN made \cup {NoClient}
      BY <1>1, <1>4, <2>1 DEF Swap!OldClient, SwapTypes
    <2>6. SwapTypes'
      BY <1>1, <1>2, <1>4, <2>2, <2>3, <2>4, <2>5 DEF SwapTypes
    <2>7. /\ Registered' = (Registered \ {prev}) \cup {c}
          /\ \A m \in Swap!Name : clients[m] = prev /\ prev # NoClient => m = n
      <3>1. \A m \in Swap!Name : clients[m] = prev /\ prev # NoClient => m = n
        BY <1>1, <2>1 DEF OwnershipInv
      <3>2. ASSUME NEW d \in Registered' PROVE d \in (Registered \ {prev}) \cup {c}
        <4>1. PICK m \in Swap!Name : d = clients'[m] /\ d # NoClient
          BY <3>2 DEF Registered
        <4>2. CASE m = n
          BY <2>4, <4>1, <4>2
        <4>3. CASE m # n
          BY <2>4, <3>1, <4>1, <4>3 DEF Registered
        <4> QED
          BY <4>2, <4>3
      <3>3. ASSUME NEW d \in (Registered \ {prev}) \cup {c} PROVE d \in Registered'
        <4>1. CASE d = c
          BY <2>1, <2>4, <4>1 DEF Registered
        <4>2. CASE d # c
          <5>1. PICK m \in Swap!Name : d = clients[m] /\ d # NoClient /\ m # n
            BY <3>3, <4>2 DEF Registered
          <5> QED
            BY <2>4, <5>1 DEF Registered
        <4> QED
          BY <4>1, <4>2
      <3> QED
        BY <3>1, <3>2, <3>3
    <2>8. OwnershipInv'
      <3>1. ASSUME NEW l \in Swap!Name, NEW m \in Swap!Name, clients'[l] = clients'[m],
                   clients'[l] # NoClient
            PROVE  l = m
        <4>1. \A d \in Swap!Name : clients[d] # c
          BY <2>1 DEF Registered
        <4> QED
          BY <1>1, <2>4, <3>1, <4>1 DEF OwnershipInv
      <3>2. Registered' \cap closing' = {}
        <4>1. prev # NoClient => prev \in Registered /\ prev # c
          BY <2>1 DEF Registered
        <4>2. Registered \cap closing = {}
          BY <1>1 DEF OwnershipInv
        <4> QED
          BY <2>1, <2>5, <2>7, <4>1, <4>2
      <3>3. ~shut' => \A d \in Registered' : made'[d].open
        BY <1>1, <2>1, <2>7 DEF OwnershipInv
      <3>4. held' \cap (Registered' \cup closing') = {} /\ \A d \in held' : made'[d].open
        <4>1. prev # NoClient => prev \in Registered
          BY <2>1 DEF Registered
        <4> QED
          BY <1>1, <2>1, <2>5, <2>7, <4>1 DEF OwnershipInv
      <3> QED
        BY <2>2, <2>3, <3>1, <3>2, <3>3, <3>4 DEF OwnershipInv
    <2>9. Swap!OpenIsAccounted'
      <3> SUFFICES ASSUME NEW d \in DOMAIN made, made[d].open
                   PROVE  d \in held \cup closing' \cup leaked' \/ \E m \in Swap!Name : clients'[m] = d
        BY <1>1 DEF Swap!OpenIsAccounted
      <3>1. d # NoClient
        BY <1>1, NoClientIsMade
      <3>2. CASE d = c
        BY <2>1, <2>4, <3>2
      <3>3. CASE d \in held \cup closing \cup leaked
        BY <1>4, <2>5, <3>3
      <3>4. CASE \E m \in Swap!Name : clients[m] = d
        BY <2>4, <2>5, <3>1, <3>4
      <3> QED
        BY <1>1, <3>2, <3>3, <3>4 DEF Swap!OpenIsAccounted
    <2>10. CurrentInv'
      <3> SUFFICES ASSUME NEW m \in Swap!Name, Due(m)' PROVE Current(m)'
        BY <1>1, <2>2, <2>3 DEF CurrentInv
      <3>1. CASE m = n
        BY <1>1, <2>1, <2>3, <2>4, <3>1 DEF Current
      <3>2. CASE m # n
        <4>1. KindOf[m] \in Nat /\ reload.kind \in Nat
          BY <1>2 DEF Swap!Kind, SwapAssumption
        <4>2. p = "kind" => m \notin reload.left
          BY <3>2 DEF p
        <4>3. Due(m)
          BY <1>1, <2>2, <2>3, <3>2, <4>1, <4>2 DEF Through, Due
        <4> QED
          BY <1>1, <2>3, <2>4, <3>2, <4>3 DEF CurrentInv, Current
      <3> QED
        BY <3>1, <3>2
    <2> QED
      BY <2>6, <2>8, <2>9, <2>10 DEF SwapInv
  <1> QED
    BY <1>1, <1>3, <1>4 DEF Swap!HotSwapClient

\* CloseOld: only what has no name any more is closed.
LEMMA CloseOldKeeps ==
    ASSUME SwapAssumption, SwapInv, Swap!CloseOld
    PROVE  SwapInv'
  <1>1. /\ SwapTypes /\ OwnershipInv /\ CurrentInv /\ Swap!OpenIsAccounted
        /\ UNCHANGED <<clients, held, given, leaked, file, conf, signal, reload, used, shut>>
    BY DEF SwapInv, Swap!CloseOld
  <1>2. PICK c \in closing : /\ made' = [made EXCEPT ![c].open = FALSE]
                             /\ closing' = closing \ {c}
    BY DEF Swap!CloseOld
  <1>3. c \in DOMAIN made /\ made[c] \in ClientRecord /\ made \in Seq(ClientRecord)
    BY <1>1 DEF SwapTypes
  <1>4. /\ made' \in Seq(ClientRecord) /\ Len(made') = Len(made) /\ DOMAIN made' = DOMAIN made
        /\ \A d \in DOMAIN made \ {c} : made'[d] = made[d]
        /\ made'[c].conf = made[c].conf /\ ~made'[c].open
    <2> DEFINE r == [made[c] EXCEPT !.open = FALSE]
    <2>1. r \in ClientRecord /\ r.conf = made[c].conf /\ ~r.open
      BY <1>3 DEF ClientRecord
    <2>2. made' = [made EXCEPT ![c] = r]
      BY <1>2
    <2> HIDE DEF r
    <2>3. made' \in Seq(ClientRecord) /\ Len(made') = Len(made)
      BY <1>3, <2>1, <2>2, ExceptSeq
    <2> QED
      BY <1>3, <2>1, <2>2, <2>3
  <1>5. SwapTypes'
    BY <1>1, <1>2, <1>4 DEF SwapTypes
  <1>6. UNCHANGED Registered /\ c \notin Registered /\ Registered \subseteq DOMAIN made
    BY <1>1 DEF Registered, OwnershipInv, SwapTypes
  <1>7. OwnershipInv'
    <2>1. ~shut => \A d \in Registered : made'[d].open
      BY <1>1, <1>4, <1>6 DEF OwnershipInv
    <2>2. reload.new # NoClient => /\ reload.new \notin Registered \cup closing' \cup held
                                   /\ made'[reload.new].open
                                   /\ made'[reload.new].conf >= reload.at
      BY <1>1, <1>2, <1>4 DEF OwnershipInv, SwapTypes
    <2>3. held \cap (Registered \cup closing') = {} /\ \A d \in held : made'[d].open
      BY <1>1, <1>2, <1>4 DEF OwnershipInv, SwapTypes
    <2> QED
      BY <1>1, <1>2, <1>6, <2>1, <2>2, <2>3 DEF OwnershipInv
  <1>8. Swap!OpenIsAccounted'
    BY <1>1, <1>2, <1>4 DEF Swap!OpenIsAccounted
  <1>9. CurrentInv'
    <2>1. \A n \in Swap!Name : clients[n] # NoClient => made'[clients[n]] = made[clients[n]]
      BY <1>1, <1>4, <1>6 DEF SwapTypes, Registered
    <2> QED
      BY <1>1, <2>1 DEF CurrentInv, Through, Due, Current
  <1> QED
    BY <1>5, <1>7, <1>8, <1>9 DEF SwapInv

\* MakeClient: one more client that has no name yet.
LEMMA MakeClientKeeps ==
    ASSUME SwapAssumption, SwapInv, Swap!MakeClient
    PROVE  SwapInv'
  <1> DEFINE c == Len(made')
  <1>1. /\ SwapTypes /\ OwnershipInv /\ CurrentInv /\ Swap!OpenIsAccounted
        /\ Len(made) < MaxClients /\ made' = Swap!Make(conf) /\ held' = held \cup {c}
        /\ UNCHANGED <<clients, given, closing, leaked, file, conf, signal, reload, used, shut>>
    BY DEF SwapInv, Swap!MakeClient
  <1>2. conf \in 0 .. MaxReloads
    BY <1>1 DEF SwapTypes, SwapAssumption
  <1>3. /\ made' \in Seq(ClientRecord) /\ c = Len(made) + 1 /\ c \in Swap!Client
        /\ c \notin DOMAIN made /\ DOMAIN made' = DOMAIN made \cup {c}
        /\ \A d \in DOMAIN made : made'[d] = made[d]
        /\ made'[c] = [conf |-> conf, open |-> TRUE]
    BY <1>1, <1>2, MakeClient
  <1>4. c <= MaxClients /\ c # NoClient /\ Len(made') = c
    BY <1>1, <1>3 DEF Swap!Client, SwapAssumption
  <1> HIDE DEF c
  <1>5. SwapTypes'
    BY <1>1, <1>3, <1>4 DEF SwapTypes
  <1>6. /\ \A d \in Registered : d \in DOMAIN made /\ made'[d] = made[d]
        /\ \A m \in Swap!Name : clients[m] # NoClient => made'[clients[m]] = made[clients[m]]
        /\ UNCHANGED Registered
    BY <1>1, <1>3 DEF SwapTypes, Registered
  <1>7. OwnershipInv'
    <2>1. reload.new # NoClient => reload.new # c /\ made'[reload.new] = made[reload.new]
      BY <1>1, <1>3 DEF SwapTypes
    <2>2. held' \cap (Registered' \cup closing') = {} /\ \A d \in held' : made'[d].open
      BY <1>1, <1>3, <1>6 DEF OwnershipInv, SwapTypes
    <2>3. reload'.new # NoClient => /\ reload'.new \notin Registered' \cup closing' \cup held'
                                    /\ made'[reload'.new].open
                                    /\ made'[reload'.new].conf >= reload'.at
      BY <1>1, <1>6, <2>1 DEF OwnershipInv
    <2>4. ~shut' => \A d \in Registered' : made'[d].open
      BY <1>1, <1>6 DEF OwnershipInv
    <2>5. /\ \A n, m \in Swap!Name : clients'[n] = clients'[m] /\ clients'[n] # NoClient => n = m
          /\ Registered' \cap closing' = {}
          /\ reload'.pc = "swap" <=> reload'.new # NoClient
      BY <1>1, <1>6 DEF OwnershipInv
    <2> QED
      BY <2>2, <2>3, <2>4, <2>5 DEF OwnershipInv
  <1>8. Swap!OpenIsAccounted'
    BY <1>1, <1>3 DEF Swap!OpenIsAccounted
  <1>9. CurrentInv'
    BY <1>1, <1>6 DEF CurrentInv, Through, Due, Current
  <1> QED
    BY <1>5, <1>7, <1>8, <1>9 DEF SwapInv

\* RegisterClient: the caller's client takes the name from the one that had it.
LEMMA RegisterClientKeeps ==
    ASSUME SwapAssumption, SwapInv, NEW n \in Swap!Name, NEW c \in held,
           Swap!RegisterClient(n, c)
    PROVE  SwapInv'
  <1>1. /\ SwapTypes /\ OwnershipInv /\ CurrentInv /\ Swap!OpenIsAccounted
        /\ held' = held \ {c} /\ given' = given \cup {c}
        /\ clients' = [clients EXCEPT ![n] = c]
        /\ leaked' = leaked \cup ({clients[n]} \ {NoClient})
        /\ UNCHANGED <<made, closing, file, conf, signal, reload, used, shut>>
    BY DEF SwapInv, Swap!RegisterClient
  <1>2. /\ c \in DOMAIN made /\ c \notin Registered \cup closing /\ made[c].open
        /\ c # NoClient /\ NoClient \notin DOMAIN made
    BY <1>1, NoClientIsMade DEF OwnershipInv, SwapTypes
  <1>3. /\ clients' \in [Swap!Name -> DOMAIN made' \cup {NoClient}] /\ clients'[n] = c
        /\ \A m \in Swap!Name \ {n} : clients'[m] = clients[m]
    BY <1>1, <1>2 DEF SwapTypes
  <1>4. SwapTypes'
    BY <1>1, <1>2, <1>3 DEF SwapTypes
  <1>5. Registered' \subseteq Registered \cup {c} /\ Registered \subseteq DOMAIN made
    BY <1>1, <1>3 DEF Registered, SwapTypes
  <1>6. OwnershipInv'
    <2>1. ASSUME NEW l \in Swap!Name, NEW m \in Swap!Name, clients'[l] = clients'[m],
                 clients'[l] # NoClient
          PROVE  l = m
      <3>1. \A d \in Swap!Name : clients[d] # c
        BY <1>2 DEF Registered
      <3> QED
        BY <1>1, <1>3, <2>1, <3>1 DEF OwnershipInv
    <2>2. Registered' \cap closing' = {}
      BY <1>1, <1>2, <1>5 DEF OwnershipInv
    <2>3. ~shut' => \A d \in Registered' : made'[d].open
      BY <1>1, <1>2, <1>5 DEF OwnershipInv
    <2>4. held' \cap (Registered' \cup closing') = {} /\ \A d \in held' : made'[d].open
      BY <1>1, <1>2, <1>5 DEF OwnershipInv
    <2>5. reload.new # NoClient => /\ reload.new \notin Registered' \cup closing' \cup held'
                                   /\ made'[reload.new].open
                                   /\ made'[reload.new].conf >= reload.at
      BY <1>1, <1>2, <1>5 DEF OwnershipInv
    <2> QED
      BY <1>1, <2>1, <2>2, <2>3, <2>4, <2>5 DEF OwnershipInv
  <1>7. Swap!OpenIsAccounted'
    <2> SUFFICES ASSUME NEW d \in DOMAIN made, made[d].open
                 PROVE  \/ d \in held' \cup closing \cup leaked' \cup {reload.new}
                        \/ \E m \in Swap!Name : clients'[m] = d
      BY <1>1 DEF Swap!OpenIsAccounted
    <2>1. CASE d = c
      BY <1>3, <2>1
    <2>2. CASE d \in held \cup closing \cup leaked \cup {reload.new} /\ d # c
      BY <1>1, <2>2
    <2>3. CASE \E m \in Swap!Name : clients[m] = d
      BY <1>1, <1>2, <1>3, <2>3
    <2> QED
      BY <1>1, <2>1, <2>2, <2>3 DEF Swap!OpenIsAccounted
  <1>8. CurrentInv'
    <2> SUFFICES ASSUME NEW m \in Swap!Name, Due(m) PROVE Current(m)'
      BY <1>1 DEF CurrentInv, Through, Due
    <2>1. CASE m = n
      BY <1>1, <1>2, <1>3, <2>1 DEF Current
    <2>2. CASE m # n
      BY <1>1, <1>3, <2>2 DEF CurrentInv, Current
    <2> QED
      BY <2>1, <2>2
  <1> QED
    BY <1>4, <1>6, <1>7, <1>8 DEF SwapInv

\* CloseAllClients closes what has a name, and not the client the reload has just made.
LEMMA CloseAllClientsKeeps ==
    ASSUME SwapAssumption, SwapInv, Swap!CloseAllClients
    PROVE  SwapInv'
  <1>1. /\ SwapTypes /\ OwnershipInv /\ CurrentInv /\ Swap!OpenIsAccounted /\ shut' = TRUE
        /\ UNCHANGED <<clients, held, given, closing, leaked, file, conf, signal, reload, used>>
        /\ made' = [c \in DOMAIN made |->
                        IF \E n \in Swap!Name : clients[n] = c
                        THEN [made[c] EXCEPT !.open = FALSE] ELSE made[c]]
    BY DEF SwapInv, Swap!CloseAllClients
  <1>2. made \in Seq(ClientRecord) /\ \A c \in DOMAIN made : made[c] \in ClientRecord
    BY <1>1 DEF SwapTypes
  <1>3. DOMAIN made' = DOMAIN made /\ Len(made) \in Nat /\ DOMAIN made = 1 .. Len(made)
    BY <1>1, <1>2
  <1>4. \A c \in DOMAIN made : /\ made'[c] \in ClientRecord /\ made'[c].conf = made[c].conf
                               /\ made'[c].open => made[c].open
                               /\ c \notin Registered /\ c # NoClient => made'[c] = made[c]
    BY <1>1, <1>2 DEF ClientRecord, Registered
  <1>5. made' \in Seq(ClientRecord) /\ Len(made') = Len(made)
    <2>1. made' \in [1 .. Len(made) -> ClientRecord]
      BY <1>1, <1>3, <1>4
    <2> QED
      BY <1>3, <2>1
  <1>6. SwapTypes'
    BY <1>1, <1>3, <1>5 DEF SwapTypes
  <1>7. OwnershipInv'
    <2>1. UNCHANGED Registered /\ \A c \in held : c \in DOMAIN made /\ c \notin Registered
      BY <1>1 DEF OwnershipInv, Registered, SwapTypes
    <2>2. \A c \in held : made'[c].open
      <3>1. \A c \in held : c # NoClient
        BY <1>1, NoClientIsMade DEF SwapTypes
      <3> QED
        BY <1>1, <1>4, <2>1, <3>1 DEF OwnershipInv
    <2>3. reload.new # NoClient => made'[reload.new] = made[reload.new]
      BY <1>1, <1>4 DEF OwnershipInv, SwapTypes
    <2> QED
      BY <1>1, <2>1, <2>2, <2>3 DEF OwnershipInv
  <1>8. Swap!OpenIsAccounted'
    BY <1>1, <1>3, <1>4 DEF Swap!OpenIsAccounted
  <1>9. CurrentInv'
    <2>1. \A n \in Swap!Name :
              clients[n] # NoClient => made'[clients[n]].conf = made[clients[n]].conf
      BY <1>1, <1>4 DEF SwapTypes
    <2> QED
      BY <1>1, <2>1 DEF CurrentInv, Through, Due, Current
  <1> QED
    BY <1>6, <1>7, <1>8, <1>9 DEF SwapInv

\* The other steps leave the clients as they are.
LEMMA OtherSwapKeeps ==
    ASSUME SwapAssumption, SwapInv,
           \/ Swap!OnConfigChange \/ Swap!WatchHotReload
           \/ \E u \in User : Swap!DropClient(u) \/ \E n \in Swap!Name : Swap!GetClient(u, n)
    PROVE  SwapInv'
  <1>1. UNCHANGED <<clients, made, held, given, closing, leaked, reload, shut>>
    BY DEF Swap!OnConfigChange, Swap!WatchHotReload, Swap!DropClient, Swap!GetClient
  <1>2. SwapTypes /\ OwnershipInv /\ CurrentInv /\ Swap!OpenIsAccounted /\ MaxReloads \in Nat
    BY DEF SwapInv, SwapAssumption
  <1>3. file' \in 0 .. MaxReloads /\ conf' \in 0 .. file' /\ conf' >= conf /\ signal' \in BOOLEAN
    <2>0. file \in 0 .. MaxReloads /\ conf \in 0 .. file /\ signal \in BOOLEAN
      BY <1>2 DEF SwapTypes
    <2>1. CASE Swap!OnConfigChange
      BY <1>2, <2>0, <2>1 DEF Swap!OnConfigChange
    <2>2. CASE Swap!WatchHotReload
      <3>1. conf' \in {conf, file} /\ file' = file
        BY <2>2 DEF Swap!WatchHotReload
      <3>2. signal' = FALSE
        BY <2>2 DEF Swap!WatchHotReload
      <3>3. file \in 0 .. file /\ file >= conf /\ conf >= conf
        BY <1>2, <2>0
      <3>4. file' \in 0 .. MaxReloads /\ conf' \in 0 .. file' /\ conf' >= conf
        BY <2>0, <3>1, <3>3
      <3> QED
        BY <3>2, <3>4
    <2>3. CASE UNCHANGED <<file, conf, signal>>
      BY <1>2, <2>0, <2>3
    <2> QED
      BY <2>1, <2>2, <2>3 DEF Swap!DropClient, Swap!GetClient
  <1>4. used' \in [User -> Swap!Client \cup {NoClient}]
    BY <1>2, NoClientIsMade DEF SwapTypes, Swap!OnConfigChange, Swap!WatchHotReload,
                                Swap!DropClient, Swap!GetClient
  <1>5. SwapTypes'
    <2>1. reload.read \in [Swap!Kind -> 0 .. file']
      <3>1. file \in Nat /\ file' \in Nat /\ file' >= file
        BY <1>2, <1>3 DEF SwapTypes, Swap!OnConfigChange, Swap!WatchHotReload,
                          Swap!DropClient, Swap!GetClient
      <3>2. 0 .. file \subseteq 0 .. file'
        BY <3>1
      <3> QED
        BY <1>2, <3>2 DEF SwapTypes
    <2> QED
      BY <1>1, <1>2, <1>3, <1>4, <2>1 DEF SwapTypes
  <1>6. OwnershipInv' /\ Swap!OpenIsAccounted'
    BY <1>1, <1>2 DEF OwnershipInv, Registered, Swap!OpenIsAccounted
  <1>7. CurrentInv'
    <2>1. reload.at \in Nat /\ conf \in Nat /\ conf' \in Nat
      BY <1>2, <1>3 DEF SwapTypes, ReloadRecord
    <2> QED
      BY <1>1, <1>2, <1>3, <2>1 DEF CurrentInv, Through, Due, Current
  <1> QED
    BY <1>5, <1>6, <1>7 DEF SwapInv

\* The reload replaces clients while requests use them, a goroutine closes the old ones and
\* others register new ones: for any names and any number of clients, a registered client
\* is open until all are closed, every open one is accounted for, and an error of one kind
\* does not hold up the others.
THEOREM SwapSafety ==
    ASSUME SwapAssumption
    PROVE  Swap!Spec => [](/\ Swap!TypeOK /\ Swap!RegisteredIsOpen /\ Swap!OtherKindsAreCurrent
                           /\ Swap!OpenIsAccounted)
  <1>1. Swap!Init => SwapInv
    <2> SUFFICES ASSUME Swap!Init PROVE SwapInv
      OBVIOUS
    <2> USE DEF Swap!Init
    <2>1. made \in Seq(ClientRecord) /\ Len(made) = 0 /\ DOMAIN made = {}
      OBVIOUS
    <2>2. 0 \in 0 .. Kinds /\ 0 \in 0 .. MaxReloads /\ 0 \in 0 .. 0 /\ 0 <= MaxClients
      BY DEF SwapAssumption
    <2>3. SwapTypes
      BY <2>1, <2>2 DEF SwapTypes, ReloadRecord
    <2>4. OwnershipInv
      BY <2>1 DEF OwnershipInv, Registered
    <2>5. Swap!OpenIsAccounted /\ CurrentInv
      BY <2>1 DEF Swap!OpenIsAccounted, CurrentInv, Due, SwapAssumption
    <2> QED
      BY <2>3, <2>4, <2>5 DEF SwapInv
  <1>2. SwapInv /\ [Swap!Next]_(Swap!vars) => SwapInv'
    <2> SUFFICES ASSUME SwapInv, [Swap!Next]_(Swap!vars) PROVE SwapInv'
      OBVIOUS
    <2>1. CASE Swap!ReloadStep
      BY <2>1, HandleConfigReloadKeeps, NextKindKeeps, NewClientKeeps, HotSwapClientKeeps
         DEF Swap!ReloadStep
    <2>2. ASSUME NEW n \in Swap!Name, NEW c \in held, Swap!RegisterClient(n, c) PROVE SwapInv'
      BY <2>2, RegisterClientKeeps
    <2>2a. CASE Swap!MakeClient
      BY <2>2a, MakeClientKeeps
    <2>3. CASE Swap!CloseOld \/ Swap!CloseAllClients
      BY <2>3, CloseOldKeeps, CloseAllClientsKeeps
    <2>4. CASE \/ Swap!OnConfigChange \/ Swap!WatchHotReload
               \/ \E u \in User : Swap!DropClient(u)
                                  \/ \E n \in Swap!Name : Swap!GetClient(u, n)
      BY <2>4, OtherSwapKeeps
    <2>5. CASE UNCHANGED Swap!vars
      BY <2>5 DEF Swap!vars, SwapInv, SwapTypes, OwnershipInv, Registered, CurrentInv, Through,
                  Due, Current, Swap!OpenIsAccounted
    <2> QED
      BY <2>1, <2>2, <2>2a, <2>3, <2>4, <2>5 DEF Swap!Next
  <1>3. SwapInv => /\ Swap!TypeOK /\ Swap!RegisteredIsOpen /\ Swap!OtherKindsAreCurrent
                   /\ Swap!OpenIsAccounted
    <2> SUFFICES ASSUME SwapInv
                 PROVE  Swap!TypeOK /\ Swap!RegisteredIsOpen /\ Swap!OtherKindsAreCurrent
      BY DEF SwapInv
    <2>1. SwapTypes /\ OwnershipInv /\ CurrentInv
      BY DEF SwapInv
    <2>2. \A c \in DOMAIN made : made[c].conf \in 0 .. MaxReloads /\ made[c].open \in BOOLEAN
      <3>1. \A c \in DOMAIN made : made[c] \in ClientRecord
        BY <2>1 DEF SwapTypes
      <3> QED
        BY <3>1 DEF ClientRecord
    <2>3. DOMAIN made \subseteq Swap!Client
      BY <2>1, NoClientIsMade
    <2>4. Swap!TypeOK
      BY <2>1, <2>2, <2>3 DEF SwapTypes, ReloadRecord, Swap!TypeOK
    <2>5. Swap!RegisteredIsOpen
      BY <2>1 DEF OwnershipInv, Registered, Swap!RegisteredIsOpen
    <2>6. Swap!OtherKindsAreCurrent
      <3> SUFFICES ASSUME reload.pc = "wait", NEW k \in Swap!Kind \ reload.bad,
                          NEW n \in Swap!NamesOf(k, reload.read[k])
                   PROVE  Current(n)
        BY DEF Swap!OtherKindsAreCurrent, Current
      <3>1. n \in NamesIn[reload.read[k]] /\ KindOf[n] = k /\ reload.read[k] \in 0 .. MaxReloads
        BY <2>1 DEF Swap!NamesOf, SwapTypes, ReloadRecord
      <3>2. n \in Swap!Name
        BY <3>1 DEF SwapAssumption
      <3> QED
        BY <2>1, <3>1, <3>2 DEF CurrentInv, Through, Due
    <2> QED
      BY <2>4, <2>5, <2>6
  <1> QED
    BY <1>1, <1>2, <1>3, PTL DEF Swap!Spec

-----------------------------------------------------------------------------
(***************************************************************************)
(* EventStore, for any events, jobs and retention.                         *)
(***************************************************************************)
CONSTANTS Event, Kind, Job, retention

VARIABLES now, stamp, form, store, archive, snapshots, persist, list, cutoff, deleted

Events == INSTANCE EventStore

EventAssumption == retention \in Nat /\ MaxTime \in Nat \ {0}

\* What is stored, archived or listed has its Timestamp, which no longer changes.
Stamped(S) == \A e \in S : stamp[e] # 0

EventTypes ==
    /\ Events!TypeOK /\ cutoff \in [Job -> Int]
    /\ Stamped(store) /\ Stamped(archive) /\ \A j \in Job : Stamped(list[j])

\* A job that archives has a cutoff the clock has passed, a list of events older than that,
\* and every event of the store that is as old is on the list, archived or late.
ArchiveInv ==
    \A j \in Job : at[j] = "archive" =>
        /\ cutoff[j] <= now - retention
        /\ \A e \in list[j] : stamp[e] < cutoff[j]
        /\ \A e \in store : stamp[e] < cutoff[j] => e \in list[j] \cup archive \cup late

EventInv == EventTypes /\ Events!OnlyOldAreArchived /\ ArchiveInv

\* The clock advances, or an event gets its Timestamp: no event that is stored, archived or
\* listed gets younger, and the cutoffs stay.
LEMMA ClockKeeps ==
    ASSUME EventAssumption, EventInv,
           Events!Tick \/ \E e \in Event : Events!NewBaseEvent(e)
    PROVE  EventInv'
  <1>1. /\ EventTypes /\ Events!OnlyOldAreArchived /\ ArchiveInv
        /\ now \in 1 .. MaxTime /\ stamp \in [Event -> 0 .. MaxTime] /\ MaxTime \in Nat
        /\ retention \in Nat
        /\ UNCHANGED <<store, archive, snapshots, at, list, cutoff, deleted, late>>
    BY DEF EventAssumption, EventInv, EventTypes, Events!TypeOK, Events!Tick,
       Events!NewBaseEvent,
           Events!jobVars
  <1>2. /\ now' \in 1 .. MaxTime /\ now <= now' /\ stamp' \in [Event -> 0 .. MaxTime]
        /\ \A e \in Event : stamp[e] # 0 => stamp'[e] = stamp[e]
    <2>1. CASE Events!Tick
      BY <1>1, <2>1 DEF Events!Tick
    <2>2. ASSUME NEW e \in Event, Events!NewBaseEvent(e)
          PROVE  /\ now' = now /\ stamp' \in [Event -> 0 .. MaxTime]
                 /\ \A d \in Event : stamp[d] # 0 => stamp'[d] = stamp[d]
      BY <1>1, <2>2 DEF Events!NewBaseEvent
    <2> QED
      BY <1>1, <2>1, <2>2
  <1>3. /\ store \subseteq Event /\ archive \subseteq Event /\ \A j \in Job : list[j] \subseteq Event
    BY <1>1 DEF EventTypes, Events!TypeOK
  <1>4. /\ \A e \in store \cup archive : stamp'[e] = stamp[e] /\ stamp[e] # 0
        /\ \A j \in Job : \A e \in list[j] : stamp'[e] = stamp[e] /\ stamp[e] # 0
    BY <1>1, <1>2, <1>3 DEF EventTypes, Stamped
  <1>5. EventTypes'
    BY <1>1, <1>2, <1>4 DEF EventTypes, Events!TypeOK, Stamped
  <1>6. Events!OnlyOldAreArchived'
    <2> SUFFICES ASSUME NEW e \in archive PROVE stamp'[e] < now' - retention
      BY <1>1 DEF Events!OnlyOldAreArchived
    <2>1. stamp[e] < now - retention /\ stamp'[e] = stamp[e] /\ stamp[e] \in Nat
      BY <1>1, <1>3, <1>4 DEF Events!OnlyOldAreArchived
    <2> QED
      BY <1>1, <1>2, <2>1
  <1>7. ArchiveInv'
    <2> SUFFICES ASSUME NEW j \in Job, at[j] = "archive"
                 PROVE  /\ cutoff[j] <= now' - retention
                        /\ \A e \in list[j] : stamp'[e] < cutoff[j]
                        /\ \A e \in store : stamp'[e] < cutoff[j] => e \in list[j] \cup archive \cup late
      BY <1>1 DEF ArchiveInv
    <2>1. cutoff[j] \in Int /\ cutoff[j] <= now - retention
      BY <1>1 DEF EventTypes, ArchiveInv
    <2>2. cutoff[j] <= now' - retention
      BY <1>1, <1>2, <2>1
    <2> QED
      BY <1>1, <1>4, <2>2 DEF ArchiveInv
  <1> QED
    BY <1>5, <1>6, <1>7 DEF EventInv

\* SaveEvent: an event saved while some archiving has passed its Timestamp is late.
LEMMA SaveEventKeeps ==
    ASSUME EventInv, NEW e \in Event, stamp[e] # 0, Events!SaveEvent(e),
           UNCHANGED <<now, stamp, archive, snapshots, at, cutoff>>,
           \A j \in Job : list'[j] \subseteq list[j] /\ (at[j] = "archive" => list'[j] = list[j]),
           list' \in [Job -> SUBSET Event]
    PROVE  EventInv'
  <1>1. /\ store' = store \cup {e} /\ deleted' = deleted \ {e} /\ late' \subseteq late \cup {e}
        /\ late \ {e} \subseteq late'
        /\ \A j \in Job : at[j] = "archive" /\ stamp[e] < cutoff[j] => e \in late'
    BY DEF Events!SaveEvent
  <1>2. EventTypes'
    BY <1>1 DEF EventInv, EventTypes, Events!TypeOK, Stamped
  <1>3. Events!OnlyOldAreArchived'
    BY DEF EventInv, Events!OnlyOldAreArchived
  <1>4. ArchiveInv'
    <2> SUFFICES ASSUME NEW j \in Job, at[j] = "archive", NEW d \in store', stamp[d] < cutoff[j]
                 PROVE  d \in list[j] \cup archive \cup late'
      BY DEF EventInv, ArchiveInv
    <2>1. CASE d = e
      BY <1>1, <2>1
    <2>2. CASE d # e
      BY <1>1, <2>2 DEF EventInv, ArchiveInv
    <2> QED
      BY <2>1, <2>2
  <1> QED
    BY <1>2, <1>3, <1>4 DEF EventInv

\* A job that ends archives no more.
LEMMA StopKeeps ==
    ASSUME EventInv, NEW j \in Job, Events!Stop(j), store' \subseteq store,
           UNCHANGED <<now, stamp, archive, snapshots, deleted, late>>
    PROVE  EventInv'
  <1>1. /\ at' = [at EXCEPT ![j] = "idle"] /\ list' = [list EXCEPT ![j] = {}]
        /\ cutoff' = [cutoff EXCEPT ![j] = 0]
    BY DEF Events!Stop
  <1>2. EventTypes'
    BY <1>1 DEF EventInv, EventTypes, Events!TypeOK, Stamped
  <1>3. ArchiveInv'
    BY <1>1 DEF EventInv, EventTypes, Events!TypeOK, ArchiveInv
  <1> QED
    BY <1>2, <1>3 DEF EventInv, Events!OnlyOldAreArchived

\* A job starts with a list of events of a store.
LEMMA StartKeeps ==
    ASSUME EventInv, NEW j \in Job, NEW what \in {"restore", "replay"}, NEW S, NEW k,
           S \in {store, archive}, Events!Start(j, what, Events!OfKind(S, k), 0)
    PROVE  EventInv'
  <1>1. /\ at' = [at EXCEPT ![j] = what] /\ list' = [list EXCEPT ![j] = Events!OfKind(S, k)]
        /\ cutoff' = [cutoff EXCEPT ![j] = 0]
        /\ UNCHANGED <<now, stamp, store, archive, snapshots, deleted, late>>
    BY DEF Events!Start
  <1>2. Events!OfKind(S, k) \subseteq Event /\ Stamped(Events!OfKind(S, k))
    BY DEF Events!OfKind, EventInv, EventTypes, Events!TypeOK, Stamped
  <1>3. EventTypes'
    BY <1>1, <1>2 DEF EventInv, EventTypes, Events!TypeOK, Stamped
  <1>4. ArchiveInv'
    BY <1>1 DEF EventInv, EventTypes, Events!TypeOK, ArchiveInv
  <1> QED
    BY <1>1, <1>3, <1>4 DEF EventInv, Events!OnlyOldAreArchived

LEMMA ArchiveOldEventsKeeps ==
    ASSUME EventAssumption, EventInv, NEW j \in Job, Events!ArchiveOldEvents(j)
    PROVE  EventInv'
  <1> DEFINE cut == now - retention
  <1>1. /\ at' = [at EXCEPT ![j] = "archive"] /\ list' = [list EXCEPT ![j] = Events!Older(cut)]
        /\ cutoff' = [cutoff EXCEPT ![j] = cut]
        /\ UNCHANGED <<now, stamp, store, archive, snapshots, deleted, late>>
    BY DEF Events!Start, Events!ArchiveOldEvents
  <1>2. cut \in Int /\ cut <= now - retention
    BY DEF EventAssumption, EventInv, EventTypes, Events!TypeOK
  <1>3. /\ Events!Older(cut) \subseteq Event /\ Stamped(Events!Older(cut))
        /\ \A e \in Events!Older(cut) : stamp[e] < cut
        /\ \A e \in store : stamp[e] < cut => e \in Events!Older(cut)
    BY DEF Events!Older, EventInv, EventTypes, Events!TypeOK, Stamped
  <1> HIDE DEF cut
  <1>4. EventTypes'
    BY <1>1, <1>2, <1>3 DEF EventInv, EventTypes, Events!TypeOK, Stamped
  <1>5. ArchiveInv'
    <2> SUFFICES ASSUME NEW i \in Job, at'[i] = "archive"
                 PROVE  /\ cutoff'[i] <= now - retention
                        /\ \A e \in list'[i] : stamp[e] < cutoff'[i]
                        /\ \A e \in store : stamp[e] < cutoff'[i] =>
                                                e \in list'[i] \cup archive \cup late
      BY <1>1 DEF ArchiveInv
    <2>1. CASE i = j
      BY <1>1, <1>2, <1>3, <2>1 DEF EventInv, EventTypes, Events!TypeOK
    <2>2. CASE i # j
      BY <1>1, <2>2 DEF EventInv, EventTypes, Events!TypeOK, ArchiveInv
    <2> QED
      BY <2>1, <2>2
  <1> QED
    BY <1>1, <1>4, <1>5 DEF EventInv, Events!OnlyOldAreArchived

\* ArchiveOne: an event of the list is old enough.
LEMMA ArchiveOneKeeps ==
    ASSUME EventAssumption, EventInv, NEW j \in Job, NEW e \in Event, Events!ArchiveOne(j, e)
    PROVE  EventInv'
  <1>1. CASE Events!Stop(j) /\ UNCHANGED archive
    BY <1>1, StopKeeps DEF Events!ArchiveOne
  <1>2. CASE /\ archive' = archive \cup {e} /\ list' = [list EXCEPT ![j] = @ \ {e}]
             /\ UNCHANGED <<at, cutoff>>
    <2>1. /\ at[j] = "archive" /\ e \in list[j]
          /\ UNCHANGED <<now, stamp, store, snapshots, deleted, late>>
      BY DEF Events!ArchiveOne
    <2>2. /\ list' \in [Job -> SUBSET Event] /\ list'[j] = list[j] \ {e}
          /\ \A i \in Job \ {j} : list'[i] = list[i]
      BY <1>2 DEF EventInv, EventTypes, Events!TypeOK
    <2>3. EventTypes'
      BY <1>2, <2>1, <2>2 DEF EventInv, EventTypes, Events!TypeOK, Stamped
    <2>4. stamp[e] < now - retention
      <3>1. /\ stamp[e] \in Nat /\ cutoff[j] \in Int /\ now \in Nat /\ retention \in Nat
        BY DEF EventAssumption, EventInv, EventTypes, Events!TypeOK
      <3>2. stamp[e] < cutoff[j] /\ cutoff[j] <= now - retention
        BY <2>1 DEF EventInv, ArchiveInv
      <3> QED
        BY <3>1, <3>2
    <2>5. Events!OnlyOldAreArchived'
      BY <1>2, <2>1, <2>4 DEF EventInv, Events!OnlyOldAreArchived
    <2>6. ArchiveInv'
      BY <1>2, <2>1, <2>2 DEF EventInv, ArchiveInv
    <2> QED
      BY <2>3, <2>5, <2>6 DEF EventInv
  <1> QED
    BY <1>1, <1>2 DEF Events!ArchiveOne

\* Publishing, restoring and replaying one event.
LEMMA OneEventKeeps ==
    ASSUME EventInv, NEW e \in Event,
           \/ Events!Publish(e)
           \/ \E j \in Job : Events!RestoreOne(j, e) \/ Events!ReplayOne(j, e)
    PROVE  EventInv'
  <1>0. \A j \in Job : \A d \in list[j] : stamp[d] # 0
    BY DEF EventInv, EventTypes, Stamped
  <1>1. CASE Events!Publish(e)
    <2>1. CASE persist
      BY <1>1, <2>1, SaveEventKeeps DEF Events!Publish, Events!jobVars, EventInv, EventTypes,
         Events!TypeOK
    <2>2. CASE ~persist
      BY <1>1, <2>2 DEF Events!Publish, Events!jobVars, EventInv, EventTypes, Events!TypeOK,
                        Stamped, ArchiveInv, Events!OnlyOldAreArchived
    <2> QED
      BY <2>1, <2>2
  <1>2. ASSUME NEW j \in Job, Events!RestoreOne(j, e) PROVE EventInv'
    <2>1. /\ at[j] = "restore" /\ stamp[e] # 0 /\ Events!SaveEvent(e)
          /\ list' = [list EXCEPT ![j] = @ \ {e}]
          /\ UNCHANGED <<now, stamp, archive, snapshots, at, cutoff>>
      BY <1>0, <1>2 DEF Events!RestoreOne
    <2>2. /\ list' \in [Job -> SUBSET Event]
          /\ \A i \in Job : list'[i] \subseteq list[i] /\ (at[i] = "archive" => list'[i] = list[i])
      BY <2>1 DEF EventInv, EventTypes, Events!TypeOK
    <2> QED
      BY <2>1, <2>2, SaveEventKeeps
  <1>3. ASSUME NEW j \in Job, Events!ReplayOne(j, e) PROVE EventInv'
    <2>1. CASE Events!Stop(j)
      BY <1>3, <2>1, StopKeeps DEF Events!ReplayOne
    <2>2. CASE list' = [list EXCEPT ![j] = @ \ {e}] /\ UNCHANGED <<at, cutoff>>
      <3>1. /\ list' \in [Job -> SUBSET Event] /\ at[j] = "replay"
            /\ list'[j] \subseteq list[j] /\ \A i \in Job \ {j} : list'[i] = list[i]
            /\ UNCHANGED <<now, stamp, store, archive, snapshots, deleted, late>>
        BY <1>3, <2>2 DEF Events!ReplayOne, EventInv, EventTypes, Events!TypeOK
      <3> QED
        BY <2>2, <3>1 DEF EventInv, EventTypes, Events!TypeOK, Stamped, ArchiveInv,
                          Events!OnlyOldAreArchived
    <2> QED
      BY <1>3, <2>1, <2>2 DEF Events!ReplayOne
  <1> QED
    BY <1>1, <1>2, <1>3

\* What is left: deletions, snapshots, the switch.
LEMMA QuietEventKeeps ==
    ASSUME EventInv, UNCHANGED <<now, stamp, archive, at, list, cutoff, late>>,
           store' \subseteq store, snapshots' \subseteq Event, deleted' \subseteq Event
    PROVE  EventInv'
  BY DEF EventInv, EventTypes, Events!TypeOK, Stamped, ArchiveInv, Events!OnlyOldAreArchived

LEMMA QuietEventStep ==
    ASSUME EventInv,
           \/ \E b \in BOOLEAN : Events!SetPersistence(b)
           \/ \E e \in Event : \/ Events!DeleteEvent(e) \/ Events!CreateSnapshot(e)
                               \/ Events!RestoreEvent(e)
           \/ \E k \in Events!Kinds : Events!DeleteEventsByType(k) \/ Events!DeleteEventsBySource(k)
    PROVE  EventInv'
  <1>1. ASSUME NEW which, Events!DeleteEvents(which) PROVE EventInv'
    <2>1. /\ UNCHANGED <<now, stamp, archive, at, list, cutoff, late, snapshots>>
          /\ store' \subseteq store /\ deleted' \subseteq Event
      BY <1>1 DEF Events!DeleteEvents, Events!jobVars, EventInv, EventTypes, Events!TypeOK
    <2> QED
      BY <2>1, QuietEventKeeps DEF EventInv, EventTypes, Events!TypeOK
  <1>2. ASSUME \/ \E b \in BOOLEAN : Events!SetPersistence(b)
               \/ \E e \in Event : Events!CreateSnapshot(e) \/ Events!RestoreEvent(e)
        PROVE  EventInv'
    <2>1. /\ UNCHANGED <<now, stamp, archive, at, list, cutoff, late, store, deleted>>
          /\ snapshots' \subseteq Event
      BY <1>2 DEF Events!SetPersistence, Events!CreateSnapshot, Events!RestoreEvent,
                  Events!jobVars, EventInv, EventTypes, Events!TypeOK
    <2> QED
      BY <2>1, QuietEventKeeps DEF EventInv, EventTypes, Events!TypeOK
  <1> QED
    BY <1>1, <1>2 DEF Events!DeleteEvent, Events!DeleteEventsByType, Events!DeleteEventsBySource

\* The inductive invariant.
LEMMA EventInvHolds ==
    ASSUME EventAssumption
    PROVE  Events!Spec => []EventInv
  <1>1. Events!Init => EventInv
    <2> SUFFICES ASSUME Events!Init PROVE EventInv
      OBVIOUS
    <2>1. 1 \in 1 .. MaxTime /\ 0 \in 0 .. MaxTime
      BY DEF EventAssumption
    <2> QED
      BY <2>1 DEF Events!Init, EventInv, EventTypes, Events!TypeOK, Stamped, ArchiveInv,
                  Events!OnlyOldAreArchived
  <1>2. EventInv /\ [Events!Next]_(Events!vars) => EventInv'
    <2> SUFFICES ASSUME EventInv, [Events!Next]_(Events!vars) PROVE EventInv'
      OBVIOUS
    <2>1. CASE Events!Tick \/ \E e \in Event : Events!NewBaseEvent(e)
      BY <2>1, ClockKeeps
    <2>2. CASE \/ \E b \in BOOLEAN : Events!SetPersistence(b)
               \/ \E e \in Event : \/ Events!DeleteEvent(e) \/ Events!CreateSnapshot(e)
                                   \/ Events!RestoreEvent(e)
               \/ \E k \in Events!Kinds : \/ Events!DeleteEventsByType(k)
                                          \/ Events!DeleteEventsBySource(k)
      BY <2>2, QuietEventStep
    <2>3. ASSUME NEW e \in Event, Events!Publish(e) PROVE EventInv'
      BY <2>3, OneEventKeeps
    <2>4. ASSUME NEW j \in Job, NEW e \in Event,
                 Events!ArchiveOne(j, e) \/ Events!RestoreOne(j, e) \/ Events!ReplayOne(j, e)
          PROVE  EventInv'
      BY <2>4, ArchiveOneKeeps, OneEventKeeps
    <2>5. ASSUME NEW j \in Job, NEW k \in Events!Kinds,
                 Events!RestoreFromArchive(j, k) \/ Events!ReplayEvents(j, k)
          PROVE  EventInv'
      BY <2>5, StartKeeps DEF Events!RestoreFromArchive, Events!ReplayEvents
    <2>6. ASSUME NEW j \in Job, Events!ArchiveOldEvents(j) PROVE EventInv'
      BY <2>6, ArchiveOldEventsKeeps
    <2>7. ASSUME NEW j \in Job, Events!ArchiveDelete(j) \/ Events!Finish(j) PROVE EventInv'
      <3>1. /\ Events!Stop(j) /\ store' \subseteq store
            /\ UNCHANGED <<now, stamp, archive, snapshots, deleted, late>>
        BY <2>7 DEF Events!ArchiveDelete, Events!Finish
      <3> QED
        BY <3>1, StopKeeps
    <2>8. CASE UNCHANGED Events!vars
      BY <2>8, QuietEventKeeps DEF Events!vars, Events!jobVars, EventInv, EventTypes,
         Events!TypeOK
    <2> QED
      BY <2>1, <2>2, <2>3, <2>4, <2>5, <2>6, <2>7, <2>8 DEF Events!Next
  <1> QED
    BY <1>1, <1>2, PTL DEF Events!Spec

\* The archive never has an event younger than the retention, for any events and any number
\* of jobs: the list of an archiving and its cutoff were taken before, and the clock only
\* moves on.
THEOREM ArchiveSafety ==
    ASSUME EventAssumption
    PROVE  Events!Spec => [](Events!TypeOK /\ Events!OnlyOldAreArchived)
  <1>1. EventInv => Events!TypeOK /\ Events!OnlyOldAreArchived
    BY DEF EventInv, EventTypes
  <1> QED
    BY <1>1, EventInvHolds, PTL

\* Archiving is a list, a loop and a deletion by time range, with publishing, restoring and
\* other archiving between its steps: what it deletes is in the archive, but for an event
\* saved meanwhile with an old Timestamp.
THEOREM ArchiveLosesNothing ==
    ASSUME EventAssumption
    PROVE  Events!Spec => [][Events!ArchivingLosesNothing]_(Events!vars)
  <1>1. EventInv /\ [Events!Next]_(Events!vars) => [Events!ArchivingLosesNothing]_(Events!vars)
    <2> SUFFICES ASSUME EventInv, Events!Next, NEW e \in store \ store'
                 PROVE  e \in deleted' \cup archive' \cup late
      BY DEF Events!ArchivingLosesNothing
    <2>1. CASE \/ \E d \in Event : Events!DeleteEvent(d)
               \/ \E k \in Events!Kinds : \/ Events!DeleteEventsByType(k)
                                          \/ Events!DeleteEventsBySource(k)
      BY <2>1 DEF Events!DeleteEvent, Events!DeleteEventsByType, Events!DeleteEventsBySource,
                  Events!DeleteEvents
    <2>2. ASSUME NEW j \in Job, Events!ArchiveDelete(j)
          PROVE  e \in archive' \cup late
      <3>1. at[j] = "archive" /\ list[j] = {} /\ store' = store \ Events!Removed(j) /\ archive' = archive
        BY <2>2 DEF Events!ArchiveDelete
      <3>2. e \in store /\ stamp[e] < cutoff[j]
        BY <3>1 DEF Events!Removed, Events!Older
      <3> QED
        BY <3>1, <3>2 DEF EventInv, ArchiveInv
    <2>3. CASE store \subseteq store'
      BY <2>3
    <2>4. \/ \E d \in Event : Events!DeleteEvent(d)
          \/ \E k \in Events!Kinds : \/ Events!DeleteEventsByType(k)
                                     \/ Events!DeleteEventsBySource(k)
          \/ \E j \in Job : Events!ArchiveDelete(j)
          \/ store \subseteq store'
      <3>1. CASE Events!Tick \/ \E b \in BOOLEAN : Events!SetPersistence(b)
        BY <3>1 DEF Events!Tick, Events!SetPersistence
      <3>2. ASSUME NEW d \in Event, \/ Events!NewBaseEvent(d) \/ Events!Publish(d)
                                    \/ Events!CreateSnapshot(d) \/ Events!RestoreEvent(d)
            PROVE  store \subseteq store'
        BY <3>2 DEF Events!NewBaseEvent, Events!Publish, Events!CreateSnapshot,
                    Events!RestoreEvent, Events!SaveEvent
      <3>3. ASSUME NEW j \in Job, NEW d \in Event,
                   Events!ArchiveOne(j, d) \/ Events!RestoreOne(j, d) \/ Events!ReplayOne(j, d)
            PROVE  store \subseteq store'
        BY <3>3 DEF Events!ArchiveOne, Events!RestoreOne, Events!ReplayOne, Events!SaveEvent
      <3>4. ASSUME NEW j \in Job, NEW k \in Events!Kinds,
                   Events!RestoreFromArchive(j, k) \/ Events!ReplayEvents(j, k)
            PROVE  store \subseteq store'
        BY <3>4 DEF Events!RestoreFromArchive, Events!ReplayEvents, Events!Start
      <3>5. ASSUME NEW j \in Job, Events!ArchiveOldEvents(j) \/ Events!Finish(j)
            PROVE  store \subseteq store'
        BY <3>5 DEF Events!ArchiveOldEvents, Events!Start, Events!Finish
      <3> QED
        BY <3>1, <3>2, <3>3, <3>4, <3>5 DEF Events!Next
    <2> QED
      BY <2>1, <2>2, <2>3, <2>4
  <1> QED
    BY <1>1, EventInvHolds, PTL DEF Events!Spec

-----------------------------------------------------------------------------
(***************************************************************************)
(* EventBus, for any subscribers and publishers.                           *)
(***************************************************************************)
CONSTANTS Subscriber, Publisher, Async, NoSubscriber, queueSize, OwnPriority, NewPriority,
          MaxCalls, MaxPublished

VARIABLES arrays, slice, moving, filters, priority, sorted, cursor, listed, disturbed, calls,
          published, queue, ctx, worker

Bus == INSTANCE EventBus

Slots == Seq(Subscriber \cup {NoSubscriber})

\* The header is about an array that is long enough.
SliceInv ==
    /\ arrays \in Seq(Slots) /\ slice \in [array : Nat, len : Nat] /\ moving \in 0 .. slice.len
    /\ slice.len # 0 => slice.array # 0
    /\ slice.array # 0 => /\ slice.array \in DOMAIN arrays
                          /\ slice.len <= Len(arrays[slice.array])

\* While Unsubscribe closes the gap, the elements are different but for the one at the gap.
ListInv ==
    \A i, j \in 1 .. slice.len :
        i # j /\ i # moving /\ j # moving =>
            arrays[slice.array][i] # arrays[slice.array][j]

BusInv == SliceInv /\ ListInv

\* The elements of the list are those of the array.
LEMMA ElementsOfList ==
    ASSUME SliceInv
    PROVE  /\ Len(Bus!Elements(slice)) = slice.len /\ DOMAIN Bus!Elements(slice) = 1 .. slice.len
           /\ \A i \in 1 .. slice.len : Bus!Elements(slice)[i] = arrays[slice.array][i]
  <1>1. slice.len \in Nat
    BY DEF SliceInv
  <1>2. CASE slice.len = 0
    BY <1>2 DEF Bus!Elements
  <1>3. CASE slice.len # 0
    <2> DEFINE a == arrays[slice.array]
    <2>1. a \in Slots /\ Len(a) \in Nat /\ slice.len <= Len(a)
      BY <1>1, <1>3 DEF SliceInv, Slots
    <2>2. Bus!Elements(slice) = SubSeq(a, 1, slice.len)
      BY <1>3 DEF Bus!Elements
    <2> HIDE DEF a
    <2>3. /\ Len(SubSeq(a, 1, slice.len)) = slice.len
          /\ DOMAIN SubSeq(a, 1, slice.len) = 1 .. slice.len
          /\ \A i \in 1 .. slice.len : SubSeq(a, 1, slice.len)[i] = a[i]
      BY <1>1, <2>1 DEF Slots
    <2> QED
      BY <2>2, <2>3 DEF a
  <1> QED
    BY <1>2, <1>3

\* append writes behind the list, or into an array of its own.
LEMMA SubscribeKeeps ==
    ASSUME BusInv, NEW s \in Subscriber, Bus!Subscribe(s)
    PROVE  BusInv'
  <1> DEFINE n == slice.len
             a == arrays[slice.array]
  <1>1. /\ moving = 0 /\ moving' = 0 /\ SliceInv /\ ListInv /\ n \in Nat /\ slice.array \in Nat
        /\ arrays \in Seq(Slots) /\ Len(arrays) \in Nat /\ DOMAIN arrays = 1 .. Len(arrays)
        /\ slice \in [array : Nat, len : Nat] /\ Bus!Appended(s)
    BY DEF BusInv, Bus!Subscribe, SliceInv, Bus!Unlocked
  <1>2. \A i \in 1 .. n : a[i] # s
    <2>1. ~Bus!Contains(Bus!Elements(slice), s)
      BY DEF Bus!Subscribe
    <2> QED
      BY <1>1, <2>1, ElementsOfList DEF Bus!Contains
  <1>3. \A i, j \in 1 .. n : i # j => a[i] # a[j]
    BY <1>1 DEF ListInv
  <1>4. n # 0 => slice.array # 0 /\ slice.array \in DOMAIN arrays /\ a \in Slots /\ n <= Len(a)
    BY <1>1 DEF SliceInv
  <1>5. SUFFICES ASSUME NEW b \in Slots, arrays' \in Seq(Slots), slice' \in [array : Nat, len : Nat],
                        slice'.array # 0, slice'.array \in DOMAIN arrays',
                        arrays'[slice'.array] = b, slice'.len = n + 1, n + 1 <= Len(b),
                        b[n + 1] = s, \A i \in 1 .. n : b[i] = a[i]
                 PROVE  BusInv'
    <2>1. CASE slice.array # 0 /\ slice.len < Len(arrays[slice.array])
      <3> DEFINE b == [a EXCEPT ![n + 1] = s]
      <3>1. slice.array \in DOMAIN arrays /\ a \in Slots
        BY <1>1, <2>1 DEF SliceInv
      <3>2. /\ arrays' = [arrays EXCEPT ![slice.array] = b]
            /\ slice' = [slice EXCEPT !.len = n + 1]
        BY <1>1, <2>1, <3>1 DEF Bus!Appended
      <3>3. n + 1 \in 1 .. Len(a) /\ Len(a) \in Nat
        BY <1>1, <2>1, <3>1 DEF Slots
      <3> HIDE DEF a
      <3>4. b \in Slots /\ Len(b) = Len(a)
        BY <3>1, <3>3, ExceptSeq DEF Slots
      <3>5. b[n + 1] = s /\ \A i \in 1 .. n : b[i] = a[i]
        BY <1>1, <3>1, <3>3 DEF Slots
      <3> HIDE DEF b
      <3>6. arrays' \in Seq(Slots) /\ Len(arrays') = Len(arrays) /\ arrays'[slice.array] = b
        BY <1>1, <3>1, <3>2, <3>4, ExceptSeq
      <3>7. /\ slice' \in [array : Nat, len : Nat] /\ slice'.array = slice.array
            /\ slice'.len = n + 1
        BY <1>1, <3>2
      <3> QED
        BY <1>1, <1>5, <2>1, <3>1, <3>3, <3>4, <3>5, <3>6, <3>7 DEF a
    <2>2. CASE ~(slice.array # 0 /\ slice.len < Len(arrays[slice.array]))
      <3> DEFINE cap == IF n = 0 THEN 1 ELSE 2 * n
                 b == [i \in 1 .. cap |-> IF i <= n THEN a[i]
                                          ELSE IF i = n + 1 THEN s ELSE NoSubscriber]
      <3>1. /\ arrays' = Append(arrays, b)
            /\ slice' = [array |-> Len(arrays) + 1, len |-> n + 1]
        BY <1>1, <2>2 DEF Bus!Appended
      <3>2. cap \in Nat /\ n + 1 <= cap
        BY <1>1
      <3> HIDE DEF cap
      <3>3. ASSUME NEW i \in 1 .. cap PROVE b[i] \in Subscriber \cup {NoSubscriber}
        <4>1. CASE i <= n
          <5>1. n # 0 /\ i \in 1 .. Len(a)
            BY <1>1, <1>4, <3>2, <4>1 DEF Slots
          <5> QED
            BY <1>4, <4>1, <5>1 DEF Slots
        <4>2. CASE ~(i <= n)
          BY <4>2
        <4> QED
          BY <4>1, <4>2
      <3>4. b \in Slots /\ Len(b) = cap
        BY <3>2, <3>3 DEF Slots
      <3>5. b[n + 1] = s /\ \A i \in 1 .. n : b[i] = a[i]
        BY <1>1, <3>2
      <3> HIDE DEF b
      <3>6. arrays' \in Seq(Slots) /\ Len(arrays') = Len(arrays) + 1
            /\ arrays'[Len(arrays) + 1] = b
        BY <1>1, <3>1, <3>4, AppendProperties
      <3>7. /\ slice' \in [array : Nat, len : Nat] /\ slice'.array = Len(arrays) + 1
            /\ slice'.len = n + 1
        BY <1>1, <3>1
      <3> QED
        BY <1>1, <1>5, <3>2, <3>4, <3>5, <3>6, <3>7
    <2> QED
      BY <2>1, <2>2
  <1>6. SliceInv'
    BY <1>1, <1>5 DEF SliceInv
  <1>7. ListInv'
    <2> SUFFICES ASSUME NEW i \in 1 .. n + 1, NEW j \in 1 .. n + 1, i # j
                 PROVE  b[i] # b[j]
      BY <1>5 DEF ListInv
    <2>1. (i \in 1 .. n \/ i = n + 1) /\ (j \in 1 .. n \/ j = n + 1)
      BY <1>1
    <2> HIDE DEF a, n
    <2> QED
      BY <1>2, <1>3, <1>5, <2>1
  <1> QED
    BY <1>6, <1>7 DEF BusInv

\* Unsubscribe begins where the subscriber is.
LEMMA UnsubscribeKeeps ==
    ASSUME BusInv, NEW s \in Subscriber, Bus!Unsubscribe(s)
    PROVE  BusInv'
  <1>1. moving = 0 /\ moving' \in 1 .. slice.len /\ UNCHANGED <<arrays, slice>>
    BY DEF Bus!Unsubscribe, Bus!Unlocked
  <1>2. slice.len \in Nat
    BY DEF BusInv, SliceInv
  <1>3. SliceInv'
    BY <1>1, <1>2 DEF BusInv, SliceInv
  <1>4. ListInv'
    BY <1>1, <1>2 DEF BusInv, ListInv
  <1> QED
    BY <1>3, <1>4 DEF BusInv

\* The gap moves to the next position, and past the last one it is gone.
LEMMA GapMoves ==
    ASSUME BusInv, Bus!Move
    PROVE  BusInv'
  <1> DEFINE n == slice.len
             a == arrays[slice.array]
  <1>1. /\ moving # 0 /\ moving \in 1 .. n /\ n \in Nat /\ n # 0 /\ SliceInv /\ ListInv
        /\ slice \in [array : Nat, len : Nat] /\ slice.array \in DOMAIN arrays /\ a \in Slots
        /\ slice.array # 0 /\ n <= Len(a) /\ Len(a) \in Nat /\ arrays \in Seq(Slots)
    <2>1. moving # 0 /\ moving \in 0 .. n /\ n \in Nat /\ SliceInv /\ ListInv
      BY DEF BusInv, SliceInv, Bus!Move
    <2>2. n # 0 /\ moving \in 1 .. n
      BY <2>1
    <2> QED
      BY <2>1, <2>2 DEF SliceInv, Slots
  <1>2. CASE moving < n
    <2> DEFINE b == [a EXCEPT ![moving] = a[moving + 1]]
    <2>1. arrays' = [arrays EXCEPT ![slice.array] = b] /\ moving' = moving + 1 /\ slice' = slice
      BY <1>1, <1>2 DEF Bus!Move
    <2>2. moving \in 1 .. Len(a) /\ moving + 1 \in 1 .. Len(a) /\ moving + 1 \in 1 .. n
      BY <1>1, <1>2
    <2> HIDE DEF a
    <2>3. b \in Slots /\ Len(b) = Len(a)
      <3>1. a[moving + 1] \in Subscriber \cup {NoSubscriber}
        BY <1>1, <2>2 DEF Slots
      <3> QED
        BY <1>1, <2>2, <3>1, ExceptSeq DEF Slots
    <2>4. b[moving] = a[moving + 1] /\ \A i \in 1 .. n : i # moving => b[i] = a[i]
      BY <1>1, <2>2 DEF Slots
    <2> HIDE DEF b
    <2>5. arrays' \in Seq(Slots) /\ Len(arrays') = Len(arrays) /\ arrays'[slice.array] = b
      BY <1>1, <2>1, <2>3, ExceptSeq
    <2>6. moving' \in 0 .. slice'.len /\ slice'.array \in DOMAIN arrays'
      BY <1>1, <2>1, <2>2, <2>5
    <2>7. SliceInv'
      BY <1>1, <2>1, <2>3, <2>5, <2>6 DEF SliceInv, a
    <2>8. ListInv'
      <3> SUFFICES ASSUME NEW i \in 1 .. n, NEW j \in 1 .. n, i # j, i # moving + 1,
                          j # moving + 1
                   PROVE  b[i] # b[j]
        BY <2>1, <2>5 DEF ListInv
      <3>1. \A k, l \in 1 .. n : k # l /\ k # moving /\ l # moving => a[k] # a[l]
        BY <1>1 DEF ListInv, a
      <3>2. moving + 1 # moving
        BY <1>1
      <3>3. CASE i = moving
        BY <2>2, <2>4, <3>1, <3>2, <3>3
      <3>4. CASE j = moving
        BY <2>2, <2>4, <3>1, <3>2, <3>4
      <3>5. CASE i # moving /\ j # moving
        BY <2>4, <3>1, <3>5
      <3> QED
        BY <3>3, <3>4, <3>5
    <2> QED
      BY <2>7, <2>8 DEF BusInv
  <1>3. CASE ~(moving < n)
    <2>1. slice' = [slice EXCEPT !.len = n - 1] /\ moving' = 0 /\ arrays' = arrays
      BY <1>1, <1>3 DEF Bus!Move
    <2>2. /\ slice' \in [array : Nat, len : Nat] /\ slice'.len = n - 1
          /\ slice'.array = slice.array
      BY <1>1, <2>1
    <2>3. SliceInv'
      BY <1>1, <2>1, <2>2 DEF SliceInv
    <2>4. ListInv'
      <3>1. moving = n
        BY <1>1, <1>3
      <3> SUFFICES ASSUME NEW i \in 1 .. n - 1, NEW j \in 1 .. n - 1, i # j
                   PROVE  a[i] # a[j]
        BY <2>1, <2>2 DEF ListInv
      <3>2. i \in 1 .. n /\ j \in 1 .. n /\ i # n /\ j # n
        BY <1>1
      <3> QED
        BY <1>1, <3>1, <3>2 DEF ListInv
    <2> QED
      BY <2>3, <2>4 DEF BusInv
  <1> QED
    BY <1>2, <1>3

\* Subscribing and unsubscribing write to an array that publishers still read, and an
\* unsubscribing is not one step: whenever the lock is free the list of the bus has no
\* subscriber twice, for any number of subscribers and publishers.
THEOREM SubscribedOnce == Bus!Spec => []Bus!ListedOnce
  <1>1. Bus!Init => BusInv
    BY DEF Bus!Init, BusInv, SliceInv, ListInv, Slots
  <1>2. BusInv /\ [Bus!Next]_(Bus!vars) => BusInv'
    <2> SUFFICES ASSUME BusInv, [Bus!Next]_(Bus!vars) PROVE BusInv'
      OBVIOUS
    <2>0. ASSUME UNCHANGED <<arrays, slice, moving>> PROVE BusInv'
      BY <2>0 DEF BusInv, SliceInv, ListInv
    <2>1. ASSUME NEW s \in Subscriber, Bus!Subscribe(s) \/ Bus!Unsubscribe(s) PROVE BusInv'
      BY <2>1, SubscribeKeeps, UnsubscribeKeeps
    <2>2. CASE Bus!Move
      BY <2>2, GapMoves
    <2>3. ASSUME NEW s \in Subscriber, NEW l \in NewPriority, Bus!SetPriority(s, l) PROVE BusInv'
      BY <2>0, <2>3 DEF Bus!SetPriority, Bus!listVars
    <2>4. CASE Bus!AddFilter \/ Bus!RemoveFilter
      BY <2>0, <2>4 DEF Bus!AddFilter, Bus!RemoveFilter, Bus!listVars
    <2>5. ASSUME NEW p \in Publisher,
                 \/ Bus!Publish(p) \/ Bus!applyFilters(p) \/ Bus!Copy(p) \/ Bus!GetPriority(p)
                 \/ Bus!sortSubscribersByPriority(p) \/ Bus!Notify(p) \/ Bus!Done(p)
          PROVE  BusInv'
      BY <2>0, <2>5 DEF Bus!Publish, Bus!applyFilters, Bus!Copy, Bus!GetPriority,
         Bus!sortSubscribersByPriority, Bus!Notify, Bus!Done, Bus!listVars
    <2>6. ASSUME NEW s \in Async, Bus!Worker(s) \/ Bus!Stop(s) PROVE BusInv'
      BY <2>0, <2>6 DEF Bus!Worker, Bus!Stop, Bus!listVars
    <2>7. CASE UNCHANGED Bus!vars
      BY <2>0, <2>7 DEF Bus!vars, Bus!listVars
    <2> QED
      BY <2>1, <2>2, <2>3, <2>4, <2>5, <2>6, <2>7 DEF Bus!Next
  <1>3. BusInv => Bus!ListedOnce
    <2> SUFFICES ASSUME BusInv, moving = 0 PROVE IsInjective(Bus!Elements(slice))
      BY DEF Bus!ListedOnce, Bus!Unlocked, Bus!IsInjective, IsInjective
    <2> QED
      BY ElementsOfList DEF BusInv, ListInv, IsInjective
  <1> QED
    BY <1>1, <1>2, <1>3, PTL DEF Bus!Spec

-----------------------------------------------------------------------------
(***************************************************************************)
(* TwoLevelCache, for any nodes, callers and number of writes.             *)
(***************************************************************************)
CONSTANTS NoNode, MaxWrites

VARIABLES local, redis, source, client, node, val, calm

Cache == INSTANCE TwoLevelCache

AllIdle == \A c \in Caller : at[c] = "idle"

\* On a node nothing has disturbed, one call at most is under way.  While it writes, its own
\* node has what redis is about to have, and the others what redis has; a value it has read
\* and is about to write back is the one redis still has.
CalmNode(n) ==
    /\ \A c, d \in Caller : at[c] # "idle" /\ at[d] # "idle" => c = d
    /\ AllIdle => local[n] \in {0, redis}
    /\ \A c \in Caller :
          /\ at[c] \in {"get", "back", "async"} => local[n] \in {0, redis}
          /\ at[c] = "back" => val[c] = redis
          /\ at[c] \in {"set", "warm", "delete"} =>
                local[n] \in {0, IF node[c] = n THEN val[c] ELSE redis}

CacheInv ==
    /\ Cache!TypeOK /\ DOMAIN calm = Node
    /\ \A c \in Caller : /\ at[c] # "idle" => node[c] \in Node
                         /\ at[c] = "delete" => val[c] = 0
    /\ \A n \in Node : calm[n] => CalmNode(n)

CachePoint == {"idle", "get", "back", "async", "set", "delete", "warm"}

\* What the begin of a call does to the calls and to the calm nodes.
LEMMA CacheBegins ==
    ASSUME CacheInv, NEW c \in Caller, NEW n \in Node, NEW p \in CachePoint \ {"idle"},
           NEW v \in 0 .. MaxWrites, Cache!Begin(c, n, p, v)
    PROVE  /\ at' \in [Caller -> CachePoint] /\ node' \in [Caller -> Node \cup {NoNode}]
           /\ val' \in [Caller -> 0 .. MaxWrites] /\ DOMAIN calm' = Node
           /\ at[c] = "idle" /\ at'[c] = p /\ node'[c] = n /\ val'[c] = v
           /\ \A d \in Caller \ {c} : at'[d] = at[d] /\ node'[d] = node[d] /\ val'[d] = val[d]
           /\ \A m \in Node : calm'[m] => calm[m] /\ AllIdle
  <1>1. /\ at' = [at EXCEPT ![c] = p] /\ node' = [node EXCEPT ![c] = n] /\ at[c] = "idle"
        /\ val' = [val EXCEPT ![c] = v]
        /\ calm' = [m \in Node |-> calm[m] /\ Cache!Idle = Caller]
    BY DEF Cache!Begin
  <1>2. Cache!Idle = Caller => AllIdle
    BY DEF Cache!Idle, AllIdle
  <1>3. DOMAIN calm' = Node /\ \A m \in Node : calm'[m] => calm[m] /\ AllIdle
    BY <1>1, <1>2
  <1> QED
    BY <1>1, <1>3 DEF CacheInv, Cache!TypeOK, CachePoint

\* What the end of a call does.
LEMMA CacheEnds ==
    ASSUME MaxWrites \in Nat, CacheInv, NEW c \in Caller, Cache!End(c)
    PROVE  /\ at' \in [Caller -> CachePoint] /\ node' \in [Caller -> Node \cup {NoNode}]
           /\ val' \in [Caller -> 0 .. MaxWrites] /\ at'[c] = "idle"
           /\ \A d \in Caller \ {c} : at'[d] = at[d] /\ node'[d] = node[d] /\ val'[d] = val[d]
  BY DEF Cache!End, CacheInv, Cache!TypeOK, CachePoint

\* The begin of a call preserves the invariant: on a calm node it is the only one.
LEMMA BeginKeeps ==
    ASSUME MaxWrites \in Nat, CacheInv, NEW c \in Caller, NEW n \in Node,
           \/ Cache!Get(c, n) \/ Cache!Set(c, n) \/ Cache!Delete(c, n) \/ Cache!Warmup(c, n)
    PROVE  CacheInv'
  <1>0. Cache!TypeOK /\ source \in Nat /\ source <= MaxWrites /\ 0 \in 0 .. MaxWrites
    BY DEF CacheInv, Cache!TypeOK
  <1>1. PICK p \in {"get", "set", "delete", "warm"}, v \in 0 .. MaxWrites :
           /\ Cache!Begin(c, n, p, v) /\ UNCHANGED <<redis, client>>
           /\ source' \in 0 .. MaxWrites /\ local' \in [Node -> 0 .. MaxWrites]
           /\ \A m \in Node \ {n} : local'[m] = local[m]
           /\ p \in {"get", "warm"} => local' = local
           /\ p = "warm" => redis = 0
           /\ p = "set" => local'[n] = v
           /\ p = "delete" => local'[n] = 0 /\ v = 0
    <2>1. CASE Cache!Get(c, n)
      BY <1>0, <2>1 DEF Cache!Get, Cache!TypeOK
    <2>2. CASE Cache!Set(c, n)
      <3>1. /\ source + 1 \in 0 .. MaxWrites /\ source' = source + 1
            /\ local' = [local EXCEPT ![n] = source + 1]
            /\ Cache!Begin(c, n, "set", source + 1) /\ UNCHANGED <<redis, client>>
        BY <1>0, <2>2 DEF Cache!Set
      <3>2. local' \in [Node -> 0 .. MaxWrites] /\ local'[n] = source + 1
            /\ \A m \in Node \ {n} : local'[m] = local[m]
        BY <1>0, <3>1 DEF Cache!TypeOK
      <3> QED
        BY <3>1, <3>2
    <2>3. CASE Cache!Delete(c, n)
      BY <1>0, <2>3 DEF Cache!Delete, Cache!Forgotten, Cache!TypeOK
    <2>4. CASE Cache!Warmup(c, n)
      BY <1>0, <2>4 DEF Cache!Warmup, Cache!TypeOK
    <2> QED
      BY <2>1, <2>2, <2>3, <2>4
  <1>2. /\ at' \in [Caller -> CachePoint] /\ node' \in [Caller -> Node \cup {NoNode}]
        /\ val' \in [Caller -> 0 .. MaxWrites] /\ DOMAIN calm' = Node
        /\ at[c] = "idle" /\ at'[c] = p /\ node'[c] = n /\ val'[c] = v
        /\ \A d \in Caller \ {c} : at'[d] = at[d] /\ node'[d] = node[d] /\ val'[d] = val[d]
        /\ \A m \in Node : calm'[m] => calm[m] /\ AllIdle
    BY <1>1, CacheBegins DEF CachePoint
  <1>3. Cache!TypeOK'
    BY <1>0, <1>1, <1>2 DEF Cache!TypeOK, CachePoint
  <1>4. \A d \in Caller : /\ at'[d] # "idle" => node'[d] \in Node
                          /\ at'[d] = "delete" => val'[d] = 0
    BY <1>1, <1>2 DEF CacheInv
  <1>5. ASSUME NEW m \in Node, calm'[m] PROVE CalmNode(m)'
    <2>1. AllIdle /\ local[m] \in {0, redis}
      BY <1>2, <1>5 DEF CacheInv, CalmNode
    <2>2. \A d \in Caller \ {c} : at'[d] = "idle"
      BY <1>2, <2>1 DEF AllIdle
    <2>3. local'[m] \in {0, IF p \in {"set", "warm", "delete"} /\ n = m THEN v ELSE redis}
      BY <1>1, <2>1
    <2> QED
      BY <1>1, <1>2, <2>2, <2>3 DEF CalmNode, AllIdle
  <1> QED
    BY <1>2, <1>3, <1>4, <1>5 DEF CacheInv

\* So does a call that goes on without a write to redis.
LEMMA ReadKeeps ==
    ASSUME MaxWrites \in Nat, CacheInv, NEW c \in Caller,
           Cache!GetRedis(c) \/ Cache!WriteBack(c) \/ Cache!SetLater(c)
    PROVE  CacheInv'
  <1>0. Cache!TypeOK /\ UNCHANGED <<redis, source, client, calm>>
    BY DEF CacheInv, Cache!GetRedis, Cache!WriteBack, Cache!SetLater
  <1>1. /\ at[c] \in {"get", "back", "async"} /\ node[c] \in Node /\ c \in Caller
        /\ \A n \in Node : calm[n] => /\ CalmNode(n) /\ local[n] \in {0, redis}
                                      /\ \A d \in Caller \ {c} : at[d] = "idle"
    BY DEF CacheInv, CalmNode, Cache!GetRedis, Cache!WriteBack, Cache!SetLater
  <1>2. CASE Cache!GetRedis(c) /\ ~Cache!End(c)
    <2>1. PICK p \in {"back", "async"}, v \in 0 .. MaxWrites :
             /\ at' = [at EXCEPT ![c] = p] /\ val' = [val EXCEPT ![c] = v]
             /\ UNCHANGED <<node, local>>
             /\ p = "back" => v = redis
      BY <1>0, <1>2 DEF Cache!GetRedis, Cache!TypeOK
    <2>2. /\ at' \in [Caller -> CachePoint] /\ val' \in [Caller -> 0 .. MaxWrites]
          /\ at'[c] = p /\ val'[c] = v
          /\ \A d \in Caller \ {c} : at'[d] = at[d] /\ val'[d] = val[d]
      BY <1>0, <2>1 DEF Cache!TypeOK, CachePoint
    <2>3. Cache!TypeOK'
      BY <1>0, <2>1, <2>2 DEF Cache!TypeOK, CachePoint
    <2>4. \A n \in Node : calm'[n] => CalmNode(n)'
      BY <1>0, <1>1, <2>1, <2>2 DEF CalmNode, AllIdle
    <2> QED
      BY <1>0, <1>1, <2>1, <2>2, <2>3, <2>4 DEF CacheInv
  <1>3. CASE Cache!End(c) /\ ~Cache!SetLater(c)
    <2>1. /\ local' = local \/ (at[c] = "back" /\ local' = [local EXCEPT ![node[c]] = val[c]])
      BY <1>3 DEF Cache!GetRedis, Cache!WriteBack, Cache!SetLater
    <2>2. /\ at' \in [Caller -> CachePoint] /\ node' \in [Caller -> Node \cup {NoNode}]
          /\ val' \in [Caller -> 0 .. MaxWrites] /\ at'[c] = "idle"
          /\ \A d \in Caller \ {c} : at'[d] = at[d] /\ node'[d] = node[d] /\ val'[d] = val[d]
      BY <1>3, CacheEnds
    <2>3. local' \in [Node -> 0 .. MaxWrites]
      BY <1>0, <1>1, <2>1 DEF Cache!TypeOK
    <2>4. Cache!TypeOK'
      BY <1>0, <2>2, <2>3 DEF Cache!TypeOK, CachePoint
    <2>5. ASSUME NEW n \in Node, calm'[n] PROVE CalmNode(n)'
      <3>1. \A d \in Caller : at'[d] = "idle"
        BY <1>0, <1>1, <2>2, <2>5
      <3>2. local'[n] \in {0, redis}
        BY <1>0, <1>1, <2>1, <2>5 DEF CalmNode, Cache!TypeOK
      <3> QED
        BY <1>0, <3>1, <3>2 DEF CalmNode, AllIdle
    <2> QED
      BY <1>0, <2>2, <2>4, <2>5 DEF CacheInv
  <1>4. CASE Cache!SetLater(c)
    <2>1. /\ at[c] = "async" /\ local' = [local EXCEPT ![node[c]] = val[c]]
          /\ at' = [at EXCEPT ![c] = "set"] /\ UNCHANGED <<node, val>>
      BY <1>4 DEF Cache!SetLater
    <2>2. /\ local' \in [Node -> 0 .. MaxWrites] /\ local'[node[c]] = val[c]
          /\ \A n \in Node \ {node[c]} : local'[n] = local[n]
          /\ at' \in [Caller -> CachePoint] /\ at'[c] = "set"
          /\ \A d \in Caller \ {c} : at'[d] = at[d]
      BY <1>0, <1>1, <2>1 DEF Cache!TypeOK, CachePoint
    <2>3. Cache!TypeOK'
      BY <1>0, <2>1, <2>2 DEF Cache!TypeOK, CachePoint
    <2>4. \A n \in Node : calm'[n] => CalmNode(n)'
      BY <1>0, <1>1, <2>1, <2>2 DEF CalmNode, AllIdle
    <2> QED
      BY <1>0, <1>1, <2>1, <2>2, <2>3, <2>4 DEF CacheInv
  <1> QED
    BY <1>2, <1>3, <1>4 DEF Cache!GetRedis, Cache!WriteBack

\* So does a write to redis: with one that came through the other nodes are calm no more,
\* with one that failed the own node is not.
LEMMA RedisKeeps ==
    ASSUME MaxWrites \in Nat, CacheInv, NEW c \in Caller,
           Cache!SetRedis(c) \/ Cache!DeleteRedis(c)
    PROVE  CacheInv'
  <1>0. Cache!TypeOK /\ UNCHANGED <<local, source, client>>
    BY DEF CacheInv, Cache!SetRedis, Cache!DeleteRedis
  <1>1. PICK ok \in BOOLEAN : /\ redis' = (IF ok THEN val[c] ELSE redis)
                              /\ Cache!Wrote(c, ok)
                              /\ at[c] \in {"set", "warm", "delete"} /\ Cache!End(c)
    BY DEF Cache!SetRedis, Cache!DeleteRedis, Cache!Answers, CacheInv
  <1>2. /\ at' \in [Caller -> CachePoint] /\ node' \in [Caller -> Node \cup {NoNode}]
        /\ val' \in [Caller -> 0 .. MaxWrites] /\ at'[c] = "idle"
        /\ \A d \in Caller \ {c} : at'[d] = at[d] /\ node'[d] = node[d] /\ val'[d] = val[d]
    BY <1>1, CacheEnds
  <1>3. /\ DOMAIN calm' = Node
        /\ \A n \in Node : calm'[n] => calm[n] /\ (IF ok THEN n = node[c] ELSE n # node[c])
    BY <1>1 DEF Cache!Wrote
  <1>4. Cache!TypeOK'
    BY <1>0, <1>1, <1>2 DEF Cache!TypeOK, CachePoint
  <1>5. ASSUME NEW n \in Node, calm'[n] PROVE CalmNode(n)'
    <2>1. CalmNode(n) /\ (IF ok THEN n = node[c] ELSE n # node[c])
      BY <1>3, <1>5 DEF CacheInv
    <2>2. \A d \in Caller : at'[d] = "idle"
      BY <1>1, <1>2, <2>1 DEF CalmNode
    <2>3. local'[n] \in {0, redis'}
      BY <1>0, <1>1, <2>1 DEF CalmNode
    <2> QED
      BY <2>2, <2>3 DEF CalmNode, AllIdle
  <1> QED
    BY <1>2, <1>3, <1>4, <1>5 DEF CacheInv

\* A local value is stale only for a cause, for any nodes, callers and writes: without one,
\* a node at rest has what redis has.
THEOREM CacheSafety ==
    ASSUME MaxWrites \in Nat
    PROVE  Cache!Spec => [](Cache!TypeOK /\ Cache!StaleHasCause)
  <1>1. Cache!Init => CacheInv
    BY DEF Cache!Init, CacheInv, Cache!TypeOK, CalmNode, AllIdle
  <1>2. ASSUME CacheInv, [Cache!Next]_(Cache!vars) PROVE CacheInv'
    <2>1. CASE (\E n \in Node : Cache!InitClient(n) \/ Cache!Close(n)) \/ UNCHANGED Cache!vars
      <3>1. /\ UNCHANGED <<local, redis, source, at, node, val, calm>>
            /\ client' \in [Node -> {"none", "open", "closed"}]
        BY <1>2, <2>1 DEF Cache!InitClient, Cache!Close, Cache!vars, CacheInv, Cache!TypeOK
      <3> QED
        BY <1>2, <3>1 DEF CacheInv, Cache!TypeOK, CalmNode, AllIdle
    <2>2. CASE Cache!Expire
      <3>1. /\ UNCHANGED <<local, source, client, at, node, val>> /\ redis' = 0
            /\ calm' = [n \in Node |-> FALSE]
        BY <2>2 DEF Cache!Expire
      <3> QED
        BY <1>2, <3>1 DEF CacheInv, Cache!TypeOK
    <2> QED
      BY <1>2, <2>1, <2>2, BeginKeeps, ReadKeeps, RedisKeeps DEF Cache!Next
  <1>3. CacheInv => Cache!TypeOK /\ Cache!StaleHasCause
    BY DEF CacheInv, CalmNode, AllIdle, Cache!StaleHasCause, Cache!Idle
  <1> QED
    BY <1>1, <1>2, <1>3, PTL DEF Cache!Spec

-----------------------------------------------------------------------------
(***************************************************************************)
(* TCCParticipants, for any number of transactions and attempts.           *)
(***************************************************************************)
CONSTANTS TX, MaxAttempts

VARIABLES asked, registered, outcome, pc, attempt, row, count, written

Tries == INSTANCE TCCParticipants

\* Every key in Redis was built by a Try.
TryKeysOnly ==
    /\ redis = [k \in DOMAIN redis |-> redis[k]]
    /\ \A k \in DOMAIN redis : \E x \in TX, c \in Tries!Component : k = Tries!TryKey(x, c)

\* Indexes are given out below the counter, and the record component's Try gets no further
\* than its panic.
TriesInv ==
    /\ Tries!TypeOK /\ TryKeysOnly
    /\ \A x \in TX : local[<<x, "place">>].index <= count
    /\ Tries!PlaceReservedOnce
    /\ \A x \in TX : pc[<<x, "record">>] \in {"idle", "retry", "lost"}
    /\ Tries!NoDiceTransactionSucceeds

\* The nine components.
LEMMA Components ==
    /\ Tries!Component = {"userLogin", "schoolLogin", "massesLogin", "submission", "rank",
                          "record", "pay", "learn", "place"}
    /\ Tries!Behaviour["record"].then = "panic"
    /\ \A x \in TX, c \in Tries!Component : <<x, c>> \in Tries!Cell
  BY DEF Tries!Component, Tries!Behaviour, Tries!BoBingRecord, Tries!Cell

\* The second phase finds no reservation and deletes none: its keys lack the student.
LEMMA PhaseFindsNothing ==
    ASSUME TryKeysOnly, NEW x \in TX
    PROVE  /\ Tries!Found(x) = {}
           /\ \A C \in SUBSET asked : Tries!Drop(x, C) = redis
  <1>1. ASSUME NEW c, NEW k \in DOMAIN redis PROVE Tries!PhaseKey(x, c) # k
    <2>1. PICK y \in TX, d \in Tries!Component : k = <<d, y, "student">>
      BY DEF TryKeysOnly, Tries!TryKey
    <2>2. Len(k) = 3 /\ Len(Tries!PhaseKey(x, c)) = 2
      BY <2>1 DEF Tries!PhaseKey
    <2> QED
      BY <2>2
  <1> QED
    BY <1>1 DEF TryKeysOnly, Tries!Found, Tries!Drop, Tries!Without

\* A reservation that a Try saves is kept under a key of a Try.
LEMMA SavedUnderTryKey ==
    ASSUME TryKeysOnly, NEW x \in TX, NEW c \in Tries!Component,
           \E v : redis' \in {redis, Tries!Put(Tries!TryKey(x, c), v)}
    PROVE  TryKeysOnly'
  <1>1. /\ redis' = [k \in DOMAIN redis' |-> redis'[k]]
        /\ \A k \in DOMAIN redis' : k \in DOMAIN redis \/ k = Tries!TryKey(x, c)
    BY DEF TryKeysOnly, Tries!Put
  <1> QED
    BY <1>1 DEF TryKeysOnly, Tries!TryKey

\* A Try of c moves its own point and keeps to the types; it is not that of the record
\* component unless it panics.
LEMMA TryMoves ==
    ASSUME TriesInv, NEW x \in TX, NEW c \in Tries!Component,
           NEW p \in {"retry", "create", "count", "save", "acked"}, Tries!Goto(x, c, p),
           c # "record"
    PROVE  /\ pc' \in [Tries!Cell -> {"idle", "retry", "create", "count", "save", "acked", "lost"}]
           /\ \A y \in TX : pc'[<<y, "record">>] = pc[<<y, "record">>]
  BY Components DEF Tries!Goto, TriesInv, Tries!TypeOK, Tries!Cell

\* A step of a Try preserves the invariant.
LEMMA TryKeeps ==
    ASSUME MaxAttempts \in Nat, TriesInv, NEW x \in TX, NEW c \in Tries!Component,
           Tries!Try(x, c)
    PROVE  TriesInv'
  <1> USE DEF Tries!TypeOK
  <1>0. Tries!TypeOK /\ <<x, c>> \in Tries!Cell /\ \A y \in TX : <<y, "place">> \in Tries!Cell
    BY Components DEF TriesInv
  <1>1. c = "record" => Tries!TryPanics(x, c)
    BY Components DEF TriesInv, Tries!Try, Tries!TryAlone, Tries!TryLook, Tries!TryPanics,
       Tries!TryCreate, Tries!TryCount, Tries!TrySave
  <1>2. CASE Tries!TryPanics(x, c)
    <2>1. pc' \in [Tries!Cell -> {"idle", "retry", "create", "count", "save", "acked", "lost"}]
      BY <1>0, <1>2 DEF Tries!TryPanics
    <2>2. \A y \in TX : pc'[<<y, "record">>] \in {"idle", "retry", "lost"}
      BY <1>0, <1>2, Components DEF Tries!TryPanics, TriesInv
    <2> QED
      BY <1>0, <1>2, <2>1, <2>2
      DEF Tries!TryPanics, TriesInv, TryKeysOnly, Tries!TryKey, Tries!PlaceReservedOnce,
          Tries!NoDiceTransactionSucceeds
  <1>3. CASE Tries!TryAlone(x, c) /\ c # "record"
    <2>1. /\ Tries!Goto(x, c, "acked")
          /\ local' = [local EXCEPT ![<<x, c>>].new = Tries!Behaviour[c].lookup /\ ~row]
          /\ redis' \in {redis, Tries!Put(Tries!TryKey(x, c), local'[<<x, c>>])}
          /\ UNCHANGED <<asked, registered, outcome, attempt, row, count, written>>
      BY <1>3 DEF Tries!TryAlone
    <2>2. TryKeysOnly'
      <3>1. \E v : redis' \in {redis, Tries!Put(Tries!TryKey(x, c), v)}
        BY <2>1
      <3> QED
        BY <3>1, SavedUnderTryKey DEF TriesInv
    <2>3. /\ local' \in [Tries!Cell -> [new : BOOLEAN, index : Nat]]
          /\ \A i \in Tries!Cell : local'[i].index = local[i].index
      BY <1>0, <2>1, ZenonT(40)
    <2>4. /\ pc' \in [Tries!Cell -> {"idle", "retry", "create", "count", "save", "acked", "lost"}]
          /\ \A y \in TX : pc'[<<y, "record">>] = pc[<<y, "record">>]
      BY <1>3, <2>1, TryMoves
    <2>5. Tries!PlaceReservedOnce' /\ \A y \in TX : local'[<<y, "place">>].index <= count'
      BY <1>0, <2>1, <2>3 DEF TriesInv, Tries!PlaceReservedOnce
    <2>6. Tries!TypeOK'
      BY <1>0, <2>1, <2>3, <2>4
    <2> QED
      BY <2>1, <2>2, <2>4, <2>5, <2>6 DEF TriesInv, Tries!NoDiceTransactionSucceeds
  <1>4. CASE Tries!TryLook(x, c) /\ c # "record"
    <2>1. /\ \E p \in {"retry", "create", "count", "save"} : Tries!Goto(x, c, p)
          /\ attempt[<<x, c>>] < MaxAttempts
          /\ attempt' = [attempt EXCEPT ![<<x, c>>] = attempt[<<x, c>>] + 1]
          /\ \/ local' = [local EXCEPT ![<<x, c>>].new = Tries!Behaviour[c].lookup /\ ~row]
             \/ local' = local
          /\ UNCHANGED <<asked, registered, outcome, redis, row, count, written>>
      BY <1>4 DEF Tries!TryLook, Tries!Failed
    <2>2. attempt' \in [Tries!Cell -> 0 .. MaxAttempts]
      BY <1>0, <2>1
    <2>3. /\ local' \in [Tries!Cell -> [new : BOOLEAN, index : Nat]]
          /\ \A i \in Tries!Cell : local'[i].index = local[i].index
      <3>1. CASE local' = [local EXCEPT ![<<x, c>>].new = Tries!Behaviour[c].lookup /\ ~row]
        BY <1>0, <3>1, ZenonT(40)
      <3> QED
        BY <1>0, <2>1, <3>1
    <2>4. /\ pc' \in [Tries!Cell -> {"idle", "retry", "create", "count", "save", "acked", "lost"}]
          /\ \A y \in TX : pc'[<<y, "record">>] = pc[<<y, "record">>]
      BY <1>4, <2>1, TryMoves
    <2> QED
      BY <1>0, <2>1, <2>2, <2>3, <2>4
      DEF TriesInv, TryKeysOnly, Tries!TryKey, Tries!PlaceReservedOnce,
          Tries!NoDiceTransactionSucceeds
  <1>5. CASE Tries!TryCreate(x, c) /\ c # "record"
    <2>1. /\ \E p \in {"retry", "save"} : Tries!Goto(x, c, p)
          /\ row' \in BOOLEAN
          /\ UNCHANGED <<asked, registered, outcome, attempt, local, redis, count, written>>
      BY <1>0, <1>5 DEF Tries!TryCreate, Tries!Failed
    <2>2. /\ pc' \in [Tries!Cell -> {"idle", "retry", "create", "count", "save", "acked", "lost"}]
          /\ \A y \in TX : pc'[<<y, "record">>] = pc[<<y, "record">>]
      BY <1>5, <2>1, TryMoves
    <2> QED
      BY <1>0, <2>1, <2>2
      DEF TriesInv, TryKeysOnly, Tries!TryKey, Tries!PlaceReservedOnce,
          Tries!NoDiceTransactionSucceeds
  <1>6. CASE Tries!TryCount(x, c) /\ c # "record"
    <2>1. /\ \E p \in {"retry", "save"} : Tries!Goto(x, c, p)
          /\ \/ /\ local' = [local EXCEPT ![<<x, c>>].index = count + 1]
                /\ count' = count + 1
             \/ local' = local /\ count' \in {count, count + 1}
          /\ UNCHANGED <<asked, registered, outcome, attempt, redis, row, written>>
      BY <1>6 DEF Tries!TryCount, Tries!Failed
    <2>2. /\ pc' \in [Tries!Cell -> {"idle", "retry", "create", "count", "save", "acked", "lost"}]
          /\ \A y \in TX : pc'[<<y, "record">>] = pc[<<y, "record">>]
      BY <1>6, <2>1, TryMoves
    <2>3. /\ local' \in [Tries!Cell -> [new : BOOLEAN, index : Nat]] /\ count' \in Nat
          /\ count <= count'
          /\ \A y \in TX : \/ local'[<<y, "place">>].index = local[<<y, "place">>].index
                            \/ /\ y = x /\ count' = count + 1
                               /\ local'[<<y, "place">>].index = count + 1
      <3>1. CASE local' = [local EXCEPT ![<<x, c>>].index = count + 1] /\ count' = count + 1
        <4>0. [local[<<x, c>>] EXCEPT !.index = count + 1] \in [new : BOOLEAN, index : Nat]
          BY <1>0
        <4>1. local' \in [Tries!Cell -> [new : BOOLEAN, index : Nat]]
          BY <1>0, <3>1, <4>0
        <4>2. \A i \in Tries!Cell : local'[i].index = IF i = <<x, c>> THEN count + 1
                                                      ELSE local[i].index
          BY <1>0, <3>1
        <4>3. count \in Nat /\ \A y \in TX : <<y, "place">> = <<x, c>> => y = x
          BY <1>0
        <4> QED
          BY <1>0, <3>1, <4>1, <4>2, <4>3
      <3> QED
        BY <1>0, <2>1, <3>1
    <2>5. \A y \in TX : local[<<y, "place">>].index \in Nat /\ local[<<y, "place">>].index <= count
      BY <1>0 DEF TriesInv
    <2>6. \A y \in TX : local'[<<y, "place">>].index <= count'
      <3> SUFFICES ASSUME NEW y \in TX PROVE local'[<<y, "place">>].index <= count'
        OBVIOUS
      <3>1. count \in Nat
        BY <1>0
      <3> HIDE DEF Tries!TypeOK
      <3>2. CASE local'[<<y, "place">>].index = local[<<y, "place">>].index
        BY <2>3, <2>5, <3>1, <3>2
      <3> QED
        BY <2>3, <3>1, <3>2
    <2>7. Tries!PlaceReservedOnce'
      <3> SUFFICES ASSUME NEW y \in TX, NEW z \in TX, y # z, local'[<<y, "place">>].index # 0
                   PROVE  local'[<<y, "place">>].index # local'[<<z, "place">>].index
        BY DEF Tries!PlaceReservedOnce
      <3>1. /\ count \in Nat
            /\ local[<<y, "place">>].index # 0
               => local[<<y, "place">>].index # local[<<z, "place">>].index
        BY <1>0 DEF TriesInv, Tries!PlaceReservedOnce
      <3> HIDE DEF Tries!TypeOK
      <3> QED
        BY <2>3, <2>5, <3>1
    <2> QED
      BY <1>0, <2>1, <2>2, <2>3, <2>6, <2>7
      DEF TriesInv, TryKeysOnly, Tries!TryKey, Tries!NoDiceTransactionSucceeds
  <1>7. CASE Tries!TrySave(x, c) /\ c # "record"
    <2>1. /\ Tries!Goto(x, c, "acked")
          /\ redis' \in {redis, Tries!Put(Tries!TryKey(x, c), local[<<x, c>>])}
          /\ UNCHANGED <<asked, registered, outcome, attempt, local, row, count, written>>
      BY <1>7 DEF Tries!TrySave
    <2>2. TryKeysOnly'
      <3>1. \E v : redis' \in {redis, Tries!Put(Tries!TryKey(x, c), v)}
        BY <2>1
      <3> QED
        BY <3>1, SavedUnderTryKey DEF TriesInv
    <2>3. /\ pc' \in [Tries!Cell -> {"idle", "retry", "create", "count", "save", "acked", "lost"}]
          /\ \A y \in TX : pc'[<<y, "record">>] = pc[<<y, "record">>]
      BY <1>7, <2>1, TryMoves
    <2> QED
      BY <1>0, <2>1, <2>2, <2>3
      DEF TriesInv, Tries!PlaceReservedOnce, Tries!NoDiceTransactionSucceeds
  <1> QED
    BY <1>1, <1>2, <1>3, <1>4, <1>5, <1>6, <1>7 DEF Tries!Try

\* So does the end of a transaction, which finds nothing in Redis.
LEMMA PhaseKeeps ==
    ASSUME TriesInv, NEW x \in TX, Tries!Confirm(x) \/ Tries!Cancel(x)
    PROVE  TriesInv' /\ UNCHANGED <<redis, row, count, written>>
  <1>0. Tries!TypeOK /\ TryKeysOnly
    BY DEF TriesInv
  <1>1. Tries!Found(x) = {} /\ \A C \in SUBSET asked : Tries!Drop(x, C) = redis
    BY <1>0, PhaseFindsNothing
  <1>2. ASSUME Tries!Confirm(x) PROVE UNCHANGED <<redis, row, written>>
    <2>1. PICK done \in SUBSET Tries!Found(x) :
             LET writes == {c \in done : \/ Tries!Behaviour[c].write = "always"
                                         \/ /\ Tries!Behaviour[c].write = "ifNew"
                                            /\ redis[Tries!PhaseKey(x, c)].new}
             IN /\ written' = written \cup (writes \X {x})
                /\ row' = (row \/ \E c \in writes : Tries!Behaviour[c].write = "ifNew")
                /\ redis' = Tries!Drop(x, done)
      BY <1>2 DEF Tries!Confirm
    <2>2. done = {}
      BY <1>1, <2>1
    <2>3. written' = written /\ redis' = redis
      BY <1>1, <2>1, <2>2
    <2>4. row' = row
      BY <1>0, <2>1, <2>2 DEF Tries!TypeOK
    <2> QED
      BY <2>3, <2>4
  <1>3. ASSUME Tries!Cancel(x) PROVE UNCHANGED <<redis, row, written>>
    BY <1>1, <1>3 DEF Tries!Cancel
  <1>4. UNCHANGED <<asked, registered, pc, attempt, local, redis, row, count, written>>
    BY <1>2, <1>3 DEF Tries!Confirm, Tries!Cancel
  <1>5. /\ outcome' \in [TX -> {"none", "hanging", "successful", "failure"}]
        /\ Tries!NoDiceTransactionSucceeds'
    <2>1. Tries!Confirm(x) => "record" \notin asked
      BY DEF Tries!Confirm, Tries!AllAcked, TriesInv
    <2> QED
      BY <1>0, <1>4, <2>1
      DEF Tries!Confirm, Tries!Cancel, TriesInv, Tries!TypeOK, Tries!NoDiceTransactionSucceeds
  <1> QED
    BY <1>0, <1>4, <1>5
    DEF TriesInv, Tries!TypeOK, TryKeysOnly, Tries!TryKey, Tries!PlaceReservedOnce

\* So do the registration, the begin of a transaction and the end of the ten minutes.
LEMMA OtherTriesKeep ==
    ASSUME TriesInv,
           \/ Tries!Register
           \/ \E x \in TX : Tries!Begin(x) \/ Tries!Expire(x)
           \/ UNCHANGED Tries!vars
    PROVE  TriesInv' /\ UNCHANGED <<row, count, written>>
  <1> USE DEF Tries!TypeOK
  <1>0. Tries!TypeOK /\ \A x \in TX : <<x, "record">> \in Tries!Cell
    BY Components DEF TriesInv
  <1>1. ASSUME Tries!Register PROVE TriesInv' /\ UNCHANGED <<row, count, written>>
    BY <1>0, <1>1 DEF Tries!Register, TriesInv, TryKeysOnly, Tries!TryKey,
       Tries!PlaceReservedOnce, Tries!NoDiceTransactionSucceeds
  <1>2. ASSUME NEW x \in TX, Tries!Begin(x)
        PROVE  TriesInv' /\ UNCHANGED <<row, count, written>>
    <2>1. /\ pc' \in [Tries!Cell -> {"idle", "retry", "create", "count", "save", "acked", "lost"}]
          /\ \A y \in TX : pc'[<<y, "record">>] \in {"idle", "retry", "lost"}
      BY <1>0, <1>2 DEF Tries!Begin, TriesInv
    <2>2. /\ outcome' \in [TX -> {"none", "hanging", "successful", "failure"}]
          /\ \A y \in TX : outcome'[y] = "successful" => outcome[y] = "successful"
      BY <1>0, <1>2 DEF Tries!Begin
    <2> QED
      BY <1>0, <1>2, <2>1, <2>2
      DEF Tries!Begin, TriesInv, TryKeysOnly, Tries!TryKey, Tries!PlaceReservedOnce,
          Tries!NoDiceTransactionSucceeds
  <1>3. ASSUME NEW x \in TX, Tries!Expire(x)
        PROVE  TriesInv' /\ UNCHANGED <<row, count, written>>
    <2>1. TryKeysOnly'
      <3>1. /\ DOMAIN redis' \subseteq DOMAIN redis
            /\ redis' = [k \in DOMAIN redis' |-> redis'[k]]
        BY <1>3 DEF Tries!Expire, Tries!Without
      <3> QED
        BY <3>1 DEF TriesInv, TryKeysOnly, Tries!TryKey
    <2> QED
      BY <1>0, <1>3, <2>1 DEF Tries!Expire, TriesInv, Tries!PlaceReservedOnce,
         Tries!NoDiceTransactionSucceeds
  <1>4. ASSUME UNCHANGED Tries!vars PROVE TriesInv' /\ UNCHANGED <<row, count, written>>
    BY <1>0, <1>4 DEF Tries!vars, TriesInv, TryKeysOnly, Tries!TryKey,
       Tries!PlaceReservedOnce, Tries!NoDiceTransactionSucceeds
  <1> QED
    BY <1>1, <1>2, <1>3, <1>4

\* The participants start in the invariant, and every step of theirs keeps it.
LEMMA TriesInvariant ==
    ASSUME MaxAttempts \in Nat
    PROVE  /\ Tries!Init => TriesInv
           /\ TriesInv /\ [Tries!Next]_(Tries!vars) => TriesInv'
  <1>1. ASSUME Tries!Init PROVE TriesInv
    <2>1. DOMAIN redis = {} /\ redis = [k \in DOMAIN redis |-> redis[k]]
      BY <1>1 DEF Tries!Init
    <2>2. Tries!TypeOK
      BY <1>1 DEF Tries!Init, Tries!TypeOK, Tries!NoData
    <2>3. \A x \in TX : pc[<<x, "record">>] = "idle" /\ local[<<x, "place">>].index = 0
      BY <1>1, Components DEF Tries!Init, Tries!NoData
    <2>4. count = 0 /\ \A x \in TX : outcome[x] = "none"
      BY <1>1 DEF Tries!Init
    <2>5. TryKeysOnly
      BY <2>1 DEF TryKeysOnly
    <2>6. Tries!PlaceReservedOnce
      BY <2>3 DEF Tries!PlaceReservedOnce
    <2>7. \A x \in TX : local[<<x, "place">>].index <= count
      <3> SUFFICES ASSUME NEW x \in TX PROVE local[<<x, "place">>].index <= count
        OBVIOUS
      <3>1. local[<<x, "place">>].index = 0 /\ count = 0
        BY <2>3, <2>4, Zenon
      <3>2. 0 <= 0
        OBVIOUS
      <3> QED
        BY <3>1, <3>2, Zenon
    <2> QED
      BY <2>2, <2>3, <2>4, <2>5, <2>6, <2>7 DEF TriesInv, Tries!NoDiceTransactionSucceeds
  <1>2. ASSUME TriesInv, [Tries!Next]_(Tries!vars) PROVE TriesInv'
    BY <1>2, TryKeeps, PhaseKeeps, OtherTriesKeep DEF Tries!Next
  <1> QED
    BY <1>1, <1>2

\* The places of the year bill are reserved by one transaction each, and no transaction of
\* the dice game's TCC service is ever recorded as successful, for any number of overlapping
\* transactions, repeated tries and lost answers of IncrValue.
THEOREM ParticipantSafety ==
    ASSUME MaxAttempts \in Nat
    PROVE  Tries!Spec => [](/\ Tries!TypeOK /\ Tries!PlaceReservedOnce
                            /\ Tries!NoDiceTransactionSucceeds)
  <1>1. TriesInv => /\ Tries!TypeOK /\ Tries!PlaceReservedOnce
                    /\ Tries!NoDiceTransactionSucceeds
    BY DEF TriesInv
  <1> QED
    BY <1>1, TriesInvariant, PTL DEF Tries!Spec

\* Confirm and Cancel look for the reservation under a key without the student, which no Try
\* writes: no end of a transaction changes Redis, a table or the counter.
THEOREM SecondPhaseFindsNothing ==
    ASSUME MaxAttempts \in Nat
    PROVE  Tries!Spec => [][Tries!SecondPhaseIsEmpty]_(Tries!vars)
  <1>1. ASSUME TriesInv, Tries!Next PROVE Tries!SecondPhaseIsEmpty
    <2>1. ASSUME NEW x \in TX, outcome'[x] # outcome[x]
          PROVE  UNCHANGED <<redis, row, count, written>>
      <3>1. CASE \E y \in TX : Tries!Confirm(y) \/ Tries!Cancel(y)
        BY <1>1, <3>1, PhaseKeeps
      <3>2. CASE \E y \in TX : Tries!Begin(y)
        BY <3>2 DEF Tries!Begin
      <3>3. CASE \/ Tries!Register \/ \E y \in TX : Tries!Expire(y)
                 \/ \E y \in TX, c \in Tries!Component : Tries!Try(y, c)
        BY <2>1, <3>3, ZenonT(40) DEF Tries!Register, Tries!Expire, Tries!Try, Tries!TryAlone,
           Tries!TryLook, Tries!TryPanics, Tries!TryCreate, Tries!TryCount, Tries!TrySave
      <3> QED
        BY <1>1, <3>1, <3>2, <3>3 DEF Tries!Next
    <2> QED
      BY <2>1 DEF Tries!SecondPhaseIsEmpty
  <1>2. TriesInv /\ [Tries!Next]_(Tries!vars) => [Tries!SecondPhaseIsEmpty]_(Tries!vars)
    BY <1>1
  <1> QED
    BY <1>2, TriesInvariant, PTL DEF Tries!Spec

-----------------------------------------------------------------------------
(***************************************************************************)
(* Governance, for any clients, breakers and settings.                     *)
(***************************************************************************)
CONSTANTS Client, Breaker, NoBreaker, Threshold, Timeout, MaxRetries, BaseDelay, MaxDelay,
          Multiplier, MaxObjects

VARIABLES service, lb, breaker, cb

Calls == INSTANCE Governance

CallsAssumption ==
    /\ NoBreaker \notin Breaker /\ Calls!NoClient \notin Client
    /\ Threshold \in Nat \ {0} /\ MaxTime \in Nat

ServiceBreaker ==
    [state : {"Closed", "Open", "HalfOpen"}, count : Nat, last : Nat,
     by : Client \cup {Calls!NoClient}]

\* The parts of a call the breaker depends on.
CallTypes ==
    /\ DOMAIN call = Client
    /\ \A c \in Client : /\ DOMAIN call[c] = {"pc", "i", "cb", "wake", "cancelled"}
                         /\ call[c].cb \in Breaker \cup {NoBreaker}
    /\ breaker \in Breaker \cup {NoBreaker} /\ cb \in [Breaker -> ServiceBreaker] /\ now \in Nat

\* A call inside fn has the lock of the breaker it has looked up, and one outside has no
\* breaker.
InsideInv ==
    /\ \A c \in Client :
          /\ call[c].pc = "lock" => call[c].cb \in Breaker
          /\ call[c].pc = "run" /\ call[c].cb # NoBreaker => cb[call[c].cb].by = c
          /\ call[c].pc \notin {"lock", "run"} => call[c].cb = NoBreaker

CallsInv == CallTypes /\ InsideInv /\ Calls!LockIsUsed /\ Calls!BreakerCounts

\* A step of one client changes its own call only.
OwnCall(c, p, b) ==
    /\ DOMAIN call' = Client
    /\ \A d \in Client \ {c} : call'[d] = call[d]
    /\ DOMAIN call'[c] = {"pc", "i", "cb", "wake", "cancelled"}
    /\ call'[c].pc = p /\ call'[c].cb = b

\* What the assignments to a call do.
LEMMA CallMoves ==
    ASSUME CallTypes, NEW c \in Client
    PROVE  /\ \A p : Calls!Goto(c, p) => OwnCall(c, p, call[c].cb)
           /\ Calls!Attempted(c) => \E p \in {"sleep", "error"} : OwnCall(c, p, NoBreaker)
           /\ Calls!Cancel(c) => OwnCall(c, call[c].pc, call[c].cb)
           /\ Calls!GetCircuitBreaker(c) =>
                 OwnCall(c, IF breaker = NoBreaker THEN "run" ELSE "lock", breaker)
           /\ \A p \in {"done", "panic"} :
                 call' = [call EXCEPT ![c].pc = p, ![c].cb = NoBreaker] => OwnCall(c, p, NoBreaker)
           /\ Calls!Wake(c) => OwnCall(c, "check", call[c].cb)
  <1>1. ASSUME NEW p, Calls!Goto(c, p) PROVE OwnCall(c, p, call[c].cb)
    BY <1>1 DEF Calls!Goto, CallTypes, OwnCall
  <1>2. ASSUME Calls!Attempted(c) PROVE \E p \in {"sleep", "error"} : OwnCall(c, p, NoBreaker)
    BY <1>2 DEF Calls!Attempted, CallTypes, OwnCall
  <1>3. ASSUME Calls!Cancel(c) PROVE OwnCall(c, call[c].pc, call[c].cb)
    BY <1>3 DEF Calls!Cancel, CallTypes, OwnCall
  <1>4. ASSUME Calls!GetCircuitBreaker(c)
        PROVE  OwnCall(c, IF breaker = NoBreaker THEN "run" ELSE "lock", breaker)
    BY <1>4 DEF Calls!GetCircuitBreaker, CallTypes, OwnCall
  <1>5. ASSUME NEW p \in {"done", "panic"}, call' = [call EXCEPT ![c].pc = p, ![c].cb = NoBreaker]
        PROVE  OwnCall(c, p, NoBreaker)
    BY <1>5 DEF CallTypes, OwnCall
  <1>6. ASSUME Calls!Wake(c) PROVE OwnCall(c, "check", call[c].cb)
    BY <1>6 DEF Calls!Wake, CallTypes, OwnCall
  <1> QED
    BY <1>1, <1>2, <1>3, <1>4, <1>5, <1>6

\* A step of a call that touches no breaker preserves the invariant.
LEMMA QuietCallKeeps ==
    ASSUME CallsAssumption, CallsInv, NEW c \in Client, NEW p, NEW b \in Breaker \cup {NoBreaker},
           OwnCall(c, p, b), UNCHANGED <<breaker, cb, now>>,
           \/ p = call[c].pc /\ b = call[c].cb
           \/ call[c].pc \notin {"lock", "run"} /\ p \notin {"lock", "run"} /\ b = NoBreaker
           \/ call[c].pc \notin {"lock", "run"} /\ p = "run" /\ b = NoBreaker
           \/ call[c].pc # "run" /\ p = "lock" /\ b # NoBreaker
           \/ call[c].pc = "lock" /\ p \in {"sleep", "error"} /\ b = NoBreaker
           \/ call[c].pc = "run" /\ call[c].cb = NoBreaker /\ b = NoBreaker /\ p # "lock"
    PROVE  CallsInv'
  <1>1. CallTypes'
    BY DEF CallsInv, CallTypes, OwnCall
  <1>2. InsideInv'
    BY DEF CallsInv, CallTypes, InsideInv, OwnCall, CallsAssumption
  <1>3. Calls!LockIsUsed'
    BY DEF CallsInv, CallTypes, Calls!LockIsUsed, OwnCall, CallsAssumption, ServiceBreaker
  <1> QED
    BY <1>1, <1>2, <1>3 DEF CallsInv, Calls!BreakerCounts

\* The step of a call that has a breaker, and changes it, preserves the invariant.
LEMMA BreakerCallKeeps ==
    ASSUME CallsAssumption, CallsInv, NEW c \in Client, NEW b \in Breaker, call[c].cb = b,
           NEW r \in ServiceBreaker, cb' = [cb EXCEPT ![b] = r], UNCHANGED <<breaker, now>>,
           \/ /\ call[c].pc = "lock" /\ cb[b].by = Calls!NoClient /\ r.by = c
              /\ OwnCall(c, "run", b) /\ r.state # "Open"
           \/ /\ call[c].pc = "run" /\ r.by = Calls!NoClient
              /\ \E p \in {"done", "sleep", "error", "panic"} : OwnCall(c, p, NoBreaker),
           r.state = "Closed" => r.count < Threshold,
           r.state # "Closed" => r.count >= Threshold
    PROVE  CallsInv'
  <1>1. /\ cb' \in [Breaker -> ServiceBreaker] /\ cb'[b] = r
        /\ \A a \in Breaker \ {b} : cb'[a] = cb[a]
    BY DEF CallsInv, CallTypes
  <1>2. CallTypes'
    BY <1>1 DEF CallsInv, CallTypes, OwnCall
  <1>3. Calls!BreakerCounts'
    BY <1>1 DEF CallsInv, Calls!BreakerCounts
  <1>4. InsideInv'
    <2>1. call[c].pc = "run" => cb[b].by = c
      BY DEF CallsInv, InsideInv, CallsAssumption
    <2> QED
      BY <1>1, <2>1 DEF CallsInv, CallTypes, InsideInv, OwnCall, CallsAssumption
  <1>5. Calls!LockIsUsed'
    BY <1>1 DEF CallsInv, CallTypes, Calls!LockIsUsed, OwnCall, CallsAssumption, ServiceBreaker
  <1> QED
    BY <1>2, <1>3, <1>4, <1>5 DEF CallsInv

\* So does every step of a client.
LEMMA ClientKeeps ==
    ASSUME CallsAssumption, CallsInv, NEW c \in Client,
           Calls!RetryWithPolicy(c) \/ Calls!Cancel(c) \/ Calls!CallStep(c) \/ Calls!Lock(c)
    PROVE  CallsInv'
  <1>0. /\ CallTypes /\ InsideInv /\ call[c].cb \in Breaker \cup {NoBreaker}
        /\ breaker \in Breaker \cup {NoBreaker}
    BY DEF CallsInv, CallTypes
  <1>1. CASE Calls!RetryWithPolicy(c) \/ Calls!CheckContext(c)
    <2>1. /\ call[c].pc \in {"idle", "check"} /\ UNCHANGED <<breaker, cb, now>>
          /\ \E p \in {"check", "get", "error"} : Calls!Goto(c, p)
      BY <1>1 DEF Calls!RetryWithPolicy, Calls!CheckContext
    <2>2. call[c].cb = NoBreaker /\ \E p \in {"check", "get", "error"} : OwnCall(c, p, NoBreaker)
      BY <1>0, <2>1, CallMoves DEF InsideInv
    <2> QED
      BY <2>1, <2>2, QuietCallKeeps
  <1>2. CASE Calls!Cancel(c)
    <2>1. OwnCall(c, call[c].pc, call[c].cb) /\ UNCHANGED <<breaker, cb, now>>
      BY <1>0, <1>2, CallMoves DEF Calls!Cancel
    <2> QED
      BY <1>0, <2>1, QuietCallKeeps
  <1>3. CASE Calls!GetCircuitBreaker(c)
    <2>1. /\ call[c].pc = "get" /\ UNCHANGED <<breaker, cb, now>>
          /\ OwnCall(c, IF breaker = NoBreaker THEN "run" ELSE "lock", breaker)
      BY <1>0, <1>3, CallMoves DEF Calls!GetCircuitBreaker
    <2>2. CASE breaker = NoBreaker
      BY <1>0, <2>1, <2>2, QuietCallKeeps
    <2>3. CASE breaker # NoBreaker
      BY <1>0, <2>1, <2>3, QuietCallKeeps
    <2> QED
      BY <2>2, <2>3
  <1>4. CASE Calls!Wake(c)
    <2>1. /\ call[c].pc = "sleep" /\ UNCHANGED <<breaker, cb, now>>
          /\ OwnCall(c, "check", call[c].cb) /\ call[c].cb = NoBreaker
      BY <1>0, <1>4, CallMoves DEF Calls!Wake, InsideInv
    <2> QED
      BY <2>1, QuietCallKeeps
  <1>5. CASE Calls!Lock(c)
    <2> DEFINE b == call[c].cb
               r == [cb[b] EXCEPT !.by = c,
                                  !.state = IF cb[b].state = "Open" THEN "HalfOpen" ELSE cb[b].state]
    <2>1. /\ call[c].pc = "lock" /\ b \in Breaker /\ cb[b] \in ServiceBreaker
          /\ cb[b].by = Calls!NoClient /\ UNCHANGED <<breaker, now>>
      BY <1>0, <1>5 DEF Calls!Lock, InsideInv, CallTypes
    <2>2. CASE Calls!Rejects(b)
      <3>1. cb' = cb /\ \E p \in {"sleep", "error"} : OwnCall(c, p, NoBreaker)
        BY <1>0, <1>5, <2>2, CallMoves DEF Calls!Lock
      <3> QED
        BY <2>1, <3>1, QuietCallKeeps
    <2>3. CASE ~Calls!Rejects(b)
      <3>1. OwnCall(c, "run", b)
        BY <1>0, <1>5, <2>3, CallMoves DEF Calls!Lock
      <3>2. cb' = [cb EXCEPT ![b] = r]
        BY <1>5, <2>1, <2>3 DEF Calls!Lock, ServiceBreaker
      <3>3. /\ r \in ServiceBreaker /\ r.by = c /\ r.count = cb[b].count
            /\ r.state = IF cb[b].state = "Open" THEN "HalfOpen" ELSE cb[b].state
        BY <2>1 DEF ServiceBreaker
      <3>4. /\ r.state # "Open" /\ r.by # Calls!NoClient
            /\ r.state = "Closed" => r.count < Threshold
            /\ r.state # "Closed" => r.count >= Threshold
        BY <2>1, <3>3 DEF CallsInv, Calls!BreakerCounts, CallsAssumption, ServiceBreaker
      <3> HIDE DEF b, r
      <3> QED
        BY <2>1, <3>1, <3>2, <3>3, <3>4, BreakerCallKeeps DEF b
    <2> QED
      BY <2>2, <2>3
  <1>6. CASE Calls!Run(c)
    <2> DEFINE b == call[c].cb
    <2>0. call[c].pc = "run" /\ UNCHANGED <<breaker, now>> /\ now \in Nat
      BY <1>0, <1>6 DEF Calls!Run, CallTypes
    <2>1. PICK p \in {"done", "sleep", "error", "panic"} :
             /\ OwnCall(c, p, NoBreaker)
             /\ b = NoBreaker => cb' = cb
             /\ b # NoBreaker => \/ cb' = [cb EXCEPT ![b] = Calls!Succeeded(cb[b])]
                                 \/ cb' = [cb EXCEPT ![b] = Calls!Failed(cb[b], now)]
                                 \/ cb' = [cb EXCEPT ![b] = [cb[b] EXCEPT !.by = Calls!NoClient]]
      BY <1>0, <1>6, CallMoves DEF Calls!Run
    <2>2. CASE b = NoBreaker
      BY <2>0, <2>1, <2>2, QuietCallKeeps
    <2>3. CASE b # NoBreaker
      <3>1. /\ b \in Breaker /\ cb[b] \in ServiceBreaker /\ cb[b].by = c /\ cb[b].state # "Open"
            /\ cb[b].state = "Closed" => cb[b].count < Threshold
            /\ cb[b].state # "Closed" => cb[b].count >= Threshold
        BY <1>0, <2>0, <2>3 DEF InsideInv, CallTypes, CallsAssumption, CallsInv,
           Calls!BreakerCounts
      <3>2. CASE cb' = [cb EXCEPT ![b] = Calls!Succeeded(cb[b])]
        <4> DEFINE r == Calls!Succeeded(cb[b])
        <4>1. /\ r \in ServiceBreaker /\ r.by = Calls!NoClient /\ r.state = "Closed" /\ r.count = 0
          BY <3>1 DEF Calls!Succeeded, ServiceBreaker
        <4>2. 0 < Threshold
          BY DEF CallsAssumption
        <4> HIDE DEF r
        <4>3. cb' = [cb EXCEPT ![b] = r]
          BY <3>2 DEF r
        <4> QED
          BY <2>0, <2>1, <3>1, <4>1, <4>2, <4>3, BreakerCallKeeps
      <3>3. CASE cb' = [cb EXCEPT ![b] = Calls!Failed(cb[b], now)]
        <4> DEFINE r == Calls!Failed(cb[b], now)
        <4>1. cb[b].count \in Nat /\ cb[b].count + 1 \in Nat /\ Threshold \in Nat
          BY <3>1 DEF ServiceBreaker, CallsAssumption
        <4>2. /\ r.by = Calls!NoClient /\ r.count = cb[b].count + 1
              /\ r.state = IF cb[b].count + 1 >= Threshold THEN "Open" ELSE cb[b].state
          BY <3>1 DEF Calls!Failed, ServiceBreaker
        <4>3. r \in ServiceBreaker
          BY <2>0, <3>1, <4>1 DEF Calls!Failed, ServiceBreaker
        <4>4. /\ r.state = "Closed" => r.count < Threshold
              /\ r.state # "Closed" => r.count >= Threshold
          <5> HIDE DEF r
          <5>1. cb[b].state \in {"Closed", "HalfOpen"}
            BY <3>1 DEF ServiceBreaker
          <5> QED
            BY <3>1, <4>1, <4>2, <5>1
        <4> HIDE DEF r
        <4>5. cb' = [cb EXCEPT ![b] = r]
          BY <3>3 DEF r
        <4> QED
          BY <2>0, <2>1, <3>1, <4>2, <4>3, <4>4, <4>5, BreakerCallKeeps
      <3>4. CASE cb' = [cb EXCEPT ![b] = [cb[b] EXCEPT !.by = Calls!NoClient]]
        <4> DEFINE r == [cb[b] EXCEPT !.by = Calls!NoClient]
        <4>1. /\ r \in ServiceBreaker /\ r.by = Calls!NoClient
              /\ r.state = cb[b].state /\ r.count = cb[b].count
          BY <3>1 DEF ServiceBreaker
        <4> HIDE DEF r
        <4>2. cb' = [cb EXCEPT ![b] = r]
          BY <3>4 DEF r
        <4> QED
          BY <2>0, <2>1, <3>1, <4>1, <4>2, BreakerCallKeeps
      <3> QED
        BY <2>1, <2>3, <3>2, <3>3, <3>4
    <2> QED
      BY <2>2, <2>3
  <1> QED
    BY <1>1, <1>2, <1>3, <1>4, <1>5, <1>6 DEF Calls!CallStep

\* So does everything else: the services, a new breaker, Reset and the clock.
LEMMA ServiceKeeps ==
    ASSUME CallsAssumption, CallsInv,
           \/ Calls!RegisterService \/ Calls!UnregisterService \/ Calls!AddLoadBalancer
           \/ Calls!AddServiceToLoadBalancer \/ Calls!AddCircuitBreaker \/ Calls!Reset
           \/ Calls!Tick \/ UNCHANGED Calls!vars
    PROVE  CallsInv'
  <1> USE DEF CallsInv, CallTypes, InsideInv, Calls!LockIsUsed, Calls!BreakerCounts
  <1>1. CASE Calls!Reset
    <2>1. /\ breaker \in Breaker /\ cb[breaker].by = Calls!NoClient
          /\ cb' = [cb EXCEPT ![breaker] = Calls!Fresh] /\ Calls!Fresh \in ServiceBreaker
          /\ UNCHANGED <<breaker, call, now>>
      BY <1>1 DEF Calls!Reset, Calls!Fresh, ServiceBreaker
    <2>2. /\ cb' \in [Breaker -> ServiceBreaker] /\ cb'[breaker] = Calls!Fresh
          /\ \A b \in Breaker \ {breaker} : cb'[b] = cb[b]
      BY <2>1
    <2>3. /\ Calls!Fresh.state = "Closed" /\ Calls!Fresh.by = Calls!NoClient
          /\ Calls!Fresh.count = 0 /\ 0 < Threshold
      BY DEF Calls!Fresh, CallsAssumption
    <2>4. InsideInv'
      BY <2>1, <2>2, <2>3 DEF CallsAssumption
    <2>5. Calls!LockIsUsed' /\ Calls!BreakerCounts'
      BY <2>1, <2>2, <2>3 DEF CallsAssumption
    <2> QED
      BY <2>1, <2>2, <2>4, <2>5
  <1>2. CASE Calls!AddCircuitBreaker
    BY <1>2 DEF Calls!AddCircuitBreaker
  <1>3. CASE Calls!Tick
    BY <1>3 DEF Calls!Tick
  <1>4. CASE \/ Calls!RegisterService \/ Calls!UnregisterService \/ Calls!AddLoadBalancer
             \/ Calls!AddServiceToLoadBalancer \/ UNCHANGED Calls!vars
    BY <1>4 DEF Calls!RegisterService, Calls!UnregisterService, Calls!AddLoadBalancer,
       Calls!AddServiceToLoadBalancer, Calls!vars
  <1> QED
    BY <1>1, <1>2, <1>3, <1>4

\* The breaker of the governance package is closed below Threshold failures and not closed
\* from there on, an open one has nobody inside, and a lock that is taken belongs to the call
\* that is inside, also after the breaker was replaced or a call panicked: for any clients.
THEOREM GovernanceSafety ==
    ASSUME CallsAssumption
    PROVE  Calls!Spec => [](Calls!BreakerCounts /\ Calls!LockIsUsed)
  <1>1. Calls!Init => CallsInv
    <2> SUFFICES ASSUME Calls!Init PROVE CallsInv
      OBVIOUS
    <2>1. /\ \A b \in Breaker : /\ cb[b] \in ServiceBreaker /\ cb[b].state = "Closed"
                                /\ cb[b].by = Calls!NoClient /\ cb[b].count = 0
          /\ \A c \in Client : call[c].pc = "idle" /\ call[c].cb = NoBreaker
      BY DEF Calls!Init, Calls!Fresh, ServiceBreaker
    <2>2. CallTypes
      BY <2>1 DEF Calls!Init, CallTypes
    <2>3. InsideInv /\ Calls!LockIsUsed
      BY <2>1 DEF InsideInv, Calls!LockIsUsed
    <2>4. Calls!BreakerCounts
      BY <2>1 DEF Calls!BreakerCounts, CallsAssumption
    <2> QED
      BY <2>2, <2>3, <2>4 DEF CallsInv
  <1>2. CallsInv /\ [Calls!Next]_(Calls!vars) => CallsInv'
    BY ClientKeeps, ServiceKeeps DEF Calls!Next
  <1>3. CallsInv => Calls!BreakerCounts /\ Calls!LockIsUsed
    BY DEF CallsInv
  <1> QED
    BY <1>1, <1>2, <1>3, PTL DEF Calls!Spec

-----------------------------------------------------------------------------
(***************************************************************************)
(* DatabaseRouter, for any number of slaves and readers.                   *)
(***************************************************************************)
CONSTANTS SlaveCount, SlaveDBs, ShardCount, Databases, Width, Ranges, MaxQueries

VARIABLES currentIndex, slaveHealth, stats, sharding, waited

Router == INSTANCE DatabaseRouter

RouterAssumption == SlaveCount \in Nat /\ IsFiniteSet(Caller)

\* How far s is from the slave chosen last, which is itself a whole turn away, and the
\* healthy slaves that a search for s meets.
Distance(s) == IF s > currentIndex THEN s - currentIndex ELSE s - currentIndex + SlaveCount
Ahead(s) == {t \in Router!Healthy : Distance(t) <= Distance(s)}

\* A healthy slave has been passed over at most as often as leaves its turn to those ahead.
RotationInv ==
    /\ currentIndex \in 0 .. SlaveCount /\ (SlaveCount > 0 => currentIndex < SlaveCount)
    /\ slaveHealth \in [Router!Slave -> BOOLEAN] /\ waited \in [Router!Slave -> Nat]
    /\ \A s \in Router!Healthy :
          waited[s] + Cardinality(Ahead(s)) <= Cardinality(Router!Healthy)

\* The readers whose query is counted and may still count an error.
Asking == {c \in Caller : call[c].pc \in {"query", "error"}}

ReadersInv ==
    /\ call \in [Caller -> [pc : {"idle", "chosen", "master", "slave", "query", "error"},
                            row : BOOLEAN, slave : 0 .. SlaveCount]]
    /\ stats \in [master : Nat, slave : Nat, total : Nat, errors : Nat]
    /\ stats.errors + Cardinality(Asking) <= stats.slave
    /\ stats.total = stats.master + stats.slave

RouterInv == RotationInv /\ ReadersInv

\* The slaves, and how they are met on the way round.
LEMMA SlavesGoRound ==
    ASSUME RouterAssumption, RotationInv
    PROVE  /\ IsFiniteSet(Router!Healthy) /\ Cardinality(Router!Healthy) \in Nat
           /\ Router!Healthy \subseteq 0 .. SlaveCount - 1
           /\ \A s \in Router!Healthy :
                 /\ Distance(s) \in 1 .. SlaveCount
                 /\ (currentIndex + Distance(s)) % SlaveCount = s
           /\ \A i \in 1 .. SlaveCount :
                 /\ (currentIndex + i) % SlaveCount \in 0 .. SlaveCount - 1
                 /\ Distance((currentIndex + i) % SlaveCount) = i
  <1>1. Router!Healthy \subseteq 0 .. SlaveCount - 1
    BY DEF Router!Healthy, Router!Slave
  <1>2. SlaveCount \in Nat /\ currentIndex \in Nat
    BY DEF RouterAssumption, RotationInv
  <1>3. IsFiniteSet(Router!Healthy) /\ Cardinality(Router!Healthy) \in Nat
    <2>1. IsFiniteSet(0 .. SlaveCount - 1)
      BY <1>2, FS_Interval
    <2> QED
      BY <1>1, <2>1, FS_Subset, FS_CardinalityType
  <1>4. ASSUME NEW s \in Router!Healthy
        PROVE  /\ Distance(s) \in 1 .. SlaveCount
               /\ (currentIndex + Distance(s)) % SlaveCount = s
    <2>1. s \in 0 .. SlaveCount - 1 /\ currentIndex \in 0 .. SlaveCount - 1
      BY <1>1, <1>2 DEF RotationInv
    <2>2. Distance(s) \in 1 .. SlaveCount
      BY <1>2, <2>1 DEF Distance
    <2>3. currentIndex + Distance(s) \in {s, s + SlaveCount}
      BY <1>2, <2>1 DEF Distance
    <2>4. s % SlaveCount = s /\ (s + SlaveCount) % SlaveCount = s
      BY <1>2, <2>1, SMTT(30)
    <2> QED
      BY <2>2, <2>3, <2>4
  <1>5. ASSUME NEW i \in 1 .. SlaveCount
        PROVE  /\ (currentIndex + i) % SlaveCount \in 0 .. SlaveCount - 1
               /\ Distance((currentIndex + i) % SlaveCount) = i
    <2>1. currentIndex \in 0 .. SlaveCount - 1 /\ SlaveCount > 0
      BY <1>2 DEF RotationInv
    <2>2. (currentIndex + i) % SlaveCount =
             IF currentIndex + i < SlaveCount THEN currentIndex + i
             ELSE currentIndex + i - SlaveCount
      <3>1. CASE currentIndex + i < SlaveCount
        BY <1>2, <2>1, <3>1, SMTT(30)
      <3>2. CASE currentIndex + i >= SlaveCount
        <4>1. currentIndex + i - SlaveCount \in 0 .. SlaveCount - 1
          BY <1>2, <2>1, <3>2
        <4> DEFINE x == currentIndex + i - SlaveCount
        <4>2. (x + SlaveCount) % SlaveCount = x
          <5> HIDE DEF x
          <5> QED
            BY <1>2, <2>1, <4>1, SMTT(30) DEF x
        <4> QED
          BY <1>2, <2>1, <3>2, <4>2
      <3> QED
        BY <1>2, <2>1, <3>1, <3>2
    <2> QED
      BY <1>2, <2>1, <2>2 DEF Distance
  <1> QED
    BY <1>1, <1>3, <1>4, <1>5

\* GetSlaveIndex: the first healthy slave of the way round has its turn, and every other
\* healthy one has one less ahead.
LEMMA TurnMoves ==
    ASSUME RouterAssumption, RotationInv, NEW c \in Caller, NEW r \in BOOLEAN,
           Router!GetSlaveIndex(c, r)
    PROVE  /\ RotationInv'
           /\ Router!Chosen.slave \in 0 .. SlaveCount
  <1> DEFINE Hits == {i \in 1 .. SlaveCount : slaveHealth[(currentIndex + i) % SlaveCount]}
             m == Router!Min(Hits)
             h == (currentIndex + m) % SlaveCount
  <1>1. /\ SlaveCount \in Nat /\ currentIndex \in Nat
        /\ slaveHealth \in [Router!Slave -> BOOLEAN] /\ waited \in [Router!Slave -> Nat]
    BY DEF RouterAssumption, RotationInv
  <1>2. Router!Chosen = IF Hits = {} THEN [index |-> currentIndex, slave |-> 0]
                        ELSE [index |-> h, slave |-> h]
    BY DEF Router!Chosen, Router!ChosenWithin
  <1>3. /\ slaveHealth' = slaveHealth /\ currentIndex' = Router!Chosen.index
        /\ waited' = [s \in Router!Slave |->
               IF s = Router!Chosen.slave \/ ~slaveHealth[s] THEN 0 ELSE waited[s] + 1]
    BY DEF Router!GetSlaveIndex
  <1>4. waited' \in [Router!Slave -> Nat] /\ Router!Healthy' = Router!Healthy
    BY <1>1, <1>3 DEF Router!Healthy
  <1>5. \A s \in Router!Healthy : Distance(s) \in Hits
    BY SlavesGoRound DEF Router!Healthy
  <1>6. CASE Hits = {}
    <2>1. Router!Chosen.slave = 0 /\ currentIndex' = currentIndex
      BY <1>2, <1>3, <1>6
    <2>2. Router!Healthy = {}
      BY <1>5, <1>6
    <2> QED
      BY <1>1, <1>3, <1>4, <2>1, <2>2 DEF RotationInv
  <1>7. CASE Hits # {}
    <2>1. m \in Hits /\ \A i \in Hits : m <= i
      <3>1. Hits \subseteq Nat
        BY <1>1
      <3> HIDE DEF Hits
      <3> QED
        BY <1>7, <3>1, LeastNumber DEF Router!Min
    <2>2. /\ m \in 1 .. SlaveCount /\ h \in 0 .. SlaveCount - 1 /\ Distance(h) = m
          /\ h \in Router!Healthy
      <3>1. m \in 1 .. SlaveCount /\ slaveHealth[h]
        BY <2>1
      <3> HIDE DEF m
      <3> QED
        BY <3>1, SlavesGoRound DEF Router!Healthy, Router!Slave
    <2>3. Router!Chosen.slave = h /\ currentIndex' = h
      BY <1>2, <1>3, <1>7
    <2>4. \A s \in Router!Healthy : m <= Distance(s)
      BY <1>5, <2>1
    <2> HIDE DEF m, h, Hits
    <2>5. ASSUME NEW s \in Router!Healthy
          PROVE  Distance(s)' = IF s = h THEN SlaveCount ELSE Distance(s) - m
      <3>1. s \in 0 .. SlaveCount - 1 /\ Distance(s) \in 1 .. SlaveCount /\ m <= Distance(s)
        BY <2>4, SlavesGoRound
      <3>2. Distance(s) = (IF s > currentIndex THEN s - currentIndex
                           ELSE s - currentIndex + SlaveCount)
            /\ m = (IF h > currentIndex THEN h - currentIndex
                    ELSE h - currentIndex + SlaveCount)
        BY <2>2 DEF Distance
      <3>3. Distance(s)' = (IF s > h THEN s - h ELSE s - h + SlaveCount)
        BY <2>3 DEF Distance
      <3> QED
        BY <1>1, <2>2, <3>1, <3>2, <3>3
    <2>6. ASSUME NEW s \in Router!Healthy
          PROVE  waited'[s] + Cardinality(Ahead(s)') <= Cardinality(Router!Healthy)
      <3>1. /\ IsFiniteSet(Router!Healthy) /\ Cardinality(Router!Healthy) \in Nat
            /\ s \in Router!Slave /\ slaveHealth[s]
        BY SlavesGoRound DEF Router!Healthy
      <3>2. CASE s = h
        <4>1. waited'[s] = 0
          BY <1>3, <2>3, <3>1, <3>2
        <4>2. Ahead(s)' \subseteq Router!Healthy
          BY <1>4 DEF Ahead
        <4>3. Cardinality(Ahead(s)') <= Cardinality(Router!Healthy)
          BY <3>1, <4>2, FS_Subset
        <4>4. Cardinality(Ahead(s)') \in Nat
          BY <3>1, <4>2, FS_Subset, FS_CardinalityType
        <4> QED
          BY <3>1, <4>1, <4>3, <4>4
      <3>3. CASE s # h
        <4>1. waited'[s] = waited[s] + 1 /\ waited[s] \in Nat
          BY <1>1, <1>3, <2>3, <3>1, <3>3
        <4>2. \A t \in Router!Healthy :
                 Distance(t)' <= Distance(s)' <=> t # h /\ Distance(t) <= Distance(s)
          <5> TAKE t \in Router!Healthy
          <5>1. /\ Distance(s) \in 1 .. SlaveCount /\ Distance(t) \in 1 .. SlaveCount
                /\ m \in 1 .. SlaveCount
            BY <2>2, SlavesGoRound
          <5>2. Distance(s)' = Distance(s) - m
            BY <2>5, <3>3
          <5>3. Distance(t)' = IF t = h THEN SlaveCount ELSE Distance(t) - m
            BY <2>5
          <5> QED
            BY <1>1, <5>1, <5>2, <5>3
        <4>3. Ahead(s)' = Ahead(s) \ {h}
          BY <1>4, <4>2 DEF Ahead
        <4>4. h \in Ahead(s)
          BY <2>2, <2>4 DEF Ahead
        <4>5. IsFiniteSet(Ahead(s)) /\ Cardinality(Ahead(s)) \in Nat
          BY <3>1, FS_Subset, FS_CardinalityType DEF Ahead
        <4>6. Cardinality(Ahead(s)') = Cardinality(Ahead(s)) - 1
          BY <4>3, <4>4, <4>5, FS_RemoveElement
        <4>7. waited[s] + Cardinality(Ahead(s)) <= Cardinality(Router!Healthy)
          BY DEF RotationInv
        <4> QED
          BY <3>1, <4>1, <4>5, <4>6, <4>7
      <3> QED
        BY <3>2, <3>3
    <2>7. \A s \in Router!Healthy' :
             waited'[s] + Cardinality(Ahead(s)') <= Cardinality(Router!Healthy')
      BY <1>4, <2>6
    <2>8. /\ currentIndex' \in 0 .. SlaveCount /\ (SlaveCount > 0 => currentIndex' < SlaveCount)
          /\ slaveHealth' \in [Router!Slave -> BOOLEAN]
      BY <1>1, <1>3, <2>2, <2>3
    <2>9. Router!Chosen.slave \in 0 .. SlaveCount
      BY <1>1, <2>2, <2>3
    <2> QED
      BY <1>4, <2>7, <2>8, <2>9 DEF RotationInv, Cardinality
  <1> QED
    BY <1>6, <1>7

\* A slave that recovers or fails: every slave has its turn within the next round.
LEMMA HealthChanges ==
    ASSUME RouterAssumption, RotationInv, NEW s, NEW healthy \in BOOLEAN,
           Router!SetSlaveHealth(s, healthy), UNCHANGED currentIndex
    PROVE  RotationInv'
  <1>1. /\ slaveHealth' \in [Router!Slave -> BOOLEAN]
        /\ waited' = [t \in Router!Slave |-> 0]
    BY DEF RotationInv, Router!SetSlaveHealth
  <1>2. Router!Healthy' \subseteq Router!Slave
    BY DEF Router!Healthy
  <1>3. IsFiniteSet(Router!Healthy')
    <2>1. IsFiniteSet(Router!Slave)
      BY FS_Interval DEF Router!Slave, RouterAssumption
    <2> QED
      BY <1>2, <2>1, FS_Subset
  <1>4. ASSUME NEW t \in Router!Healthy'
        PROVE  waited'[t] + Cardinality(Ahead(t)') <= Cardinality(Router!Healthy')
    <2>1. Ahead(t)' \subseteq Router!Healthy'
      BY DEF Ahead
    <2>2. /\ Cardinality(Ahead(t)') <= Cardinality(Router!Healthy')
          /\ Cardinality(Ahead(t)') \in Nat
      BY <1>3, <2>1, FS_Subset, FS_CardinalityType
    <2> QED
      BY <1>1, <1>2, <2>2
  <1> QED
    BY <1>1, <1>4 DEF RotationInv, Cardinality

\* A step of one reader that asks no slave, or has its error counted.
LEMMA ReaderMoves ==
    ASSUME RouterAssumption, ReadersInv, NEW c \in Caller,
           NEW entry \in [pc : {"idle", "chosen", "master", "slave", "query", "error"},
                          row : BOOLEAN, slave : 0 .. SlaveCount],
           call' = [call EXCEPT ![c] = entry]
    PROVE  /\ call' \in [Caller -> [pc : {"idle", "chosen", "master", "slave", "query", "error"},
                                    row : BOOLEAN, slave : 0 .. SlaveCount]]
           /\ Cardinality(Asking) \in Nat /\ Cardinality(Asking') \in Nat
           /\ Cardinality(Asking') =
                 IF call[c].pc \in {"query", "error"}
                 THEN IF entry.pc \in {"query", "error"} THEN Cardinality(Asking)
                      ELSE Cardinality(Asking) - 1
                 ELSE IF entry.pc \in {"query", "error"} THEN Cardinality(Asking) + 1
                      ELSE Cardinality(Asking)
  <1>1. call' \in [Caller -> [pc : {"idle", "chosen", "master", "slave", "query", "error"},
                              row : BOOLEAN, slave : 0 .. SlaveCount]]
    BY DEF ReadersInv
  <1>2. IsFiniteSet(Asking) /\ Cardinality(Asking) \in Nat
    BY FS_Subset, FS_CardinalityType DEF Asking, RouterAssumption
  <1>3. Asking' = IF entry.pc \in {"query", "error"} THEN Asking \cup {c} ELSE Asking \ {c}
    <2>1. \A d \in Caller : call'[d] = IF d = c THEN entry ELSE call[d]
      BY DEF ReadersInv
    <2> QED
      BY <2>1 DEF Asking
  <1>4. c \in Asking <=> call[c].pc \in {"query", "error"}
    BY DEF Asking
  <1>5. Cardinality(Asking \cup {c}) = IF c \in Asking THEN Cardinality(Asking)
                                       ELSE Cardinality(Asking) + 1
    BY <1>2, FS_AddElement
  <1>6. Cardinality(Asking \ {c}) = IF c \in Asking THEN Cardinality(Asking) - 1
                                    ELSE Cardinality(Asking)
    BY <1>2, FS_RemoveElement
  <1>7. Cardinality(Asking') \in Nat
    BY FS_Subset, FS_CardinalityType DEF Asking, RouterAssumption
  <1> QED
    BY <1>1, <1>2, <1>3, <1>4, <1>5, <1>6, <1>7

\* The same for a reader that only comes to another point.
LEMMA PointMoves ==
    ASSUME RouterAssumption, ReadersInv, NEW c \in Caller,
           NEW point \in {"idle", "chosen", "master", "slave", "query", "error"},
           call' = [call EXCEPT ![c].pc = point]
    PROVE  /\ call' \in [Caller -> [pc : {"idle", "chosen", "master", "slave", "query", "error"},
                                    row : BOOLEAN, slave : 0 .. SlaveCount]]
           /\ Cardinality(Asking) \in Nat /\ Cardinality(Asking') \in Nat
           /\ Cardinality(Asking') =
                 IF call[c].pc \in {"query", "error"}
                 THEN IF point \in {"query", "error"} THEN Cardinality(Asking)
                      ELSE Cardinality(Asking) - 1
                 ELSE IF point \in {"query", "error"} THEN Cardinality(Asking) + 1
                      ELSE Cardinality(Asking)
  <1> DEFINE entry == [call[c] EXCEPT !.pc = point]
  <1>1. /\ entry \in [pc : {"idle", "chosen", "master", "slave", "query", "error"},
                      row : BOOLEAN, slave : 0 .. SlaveCount]
        /\ entry.pc = point /\ call' = [call EXCEPT ![c] = entry]
    BY DEF ReadersInv
  <1> HIDE DEF entry
  <1> QED
    BY <1>1, ReaderMoves

\* What the counters become.
LEMMA StatsMove ==
    ASSUME stats \in [master : Nat, slave : Nat, total : Nat, errors : Nat],
           \/ stats' = stats
           \/ stats' = [stats EXCEPT !.master = @ + 1, !.total = @ + 1]
           \/ stats' = [stats EXCEPT !.slave = @ + 1, !.total = @ + 1]
           \/ stats' = [stats EXCEPT !.errors = @ + 1]
    PROVE  stats' \in [master : Nat, slave : Nat, total : Nat, errors : Nat]
  <1>1. /\ stats.master + 1 \in Nat /\ stats.slave + 1 \in Nat /\ stats.total + 1 \in Nat
        /\ stats.errors + 1 \in Nat
    OBVIOUS
  <1>2. CASE stats' = stats
    BY <1>2
  <1>3. CASE stats' = [stats EXCEPT !.master = @ + 1, !.total = @ + 1]
    BY <1>1, <1>3
  <1>4. CASE stats' = [stats EXCEPT !.slave = @ + 1, !.total = @ + 1]
    BY <1>1, <1>4
  <1>5. CASE stats' = [stats EXCEPT !.errors = @ + 1]
    BY <1>1, <1>5
  <1> QED
    BY <1>2, <1>3, <1>4, <1>5

\* The steps of the router.
LEMMA RouterStep ==
    ASSUME RouterAssumption, RouterInv, Router!Next
    PROVE  RouterInv'
  <1> DEFINE Entries == [pc : {"idle", "chosen", "master", "slave", "query", "error"},
                         row : BOOLEAN, slave : 0 .. SlaveCount]
  <1>1. /\ call \in [Caller -> Entries]
        /\ stats \in [master : Nat, slave : Nat, total : Nat, errors : Nat]
        /\ stats.errors + Cardinality(Asking) <= stats.slave
        /\ stats.total = stats.master + stats.slave
        /\ RotationInv
    BY DEF RouterInv, ReadersInv
  <1>2. ASSUME UNCHANGED <<currentIndex, slaveHealth, waited>>
        PROVE  RotationInv'
    BY <1>1, <1>2 DEF RotationInv, Router!Healthy, Ahead, Distance
  <1>3. ASSUME NEW c \in Caller, NEW r \in BOOLEAN, Router!GetSlaveIndex(c, r)
        PROVE  RouterInv'
    <2>1. RotationInv' /\ Router!Chosen.slave \in 0 .. SlaveCount
      BY <1>1, <1>3, TurnMoves
    <2> DEFINE entry == [pc |-> IF Router!Chosen.slave >= SlaveDBs THEN "master" ELSE "chosen",
                         row |-> r, slave |-> Router!Chosen.slave]
    <2>2. entry \in Entries /\ entry.pc \notin {"query", "error"}
      BY <2>1
    <2>3. /\ call' = [call EXCEPT ![c] = entry] /\ call[c].pc = "idle" /\ stats' = stats
      BY <1>3 DEF Router!GetSlaveIndex
    <2> HIDE DEF entry
    <2>4. ReadersInv'
      BY <1>1, <2>2, <2>3, ReaderMoves DEF ReadersInv, RouterInv
    <2> QED
      BY <2>1, <2>4 DEF RouterInv
  <1>4. /\ stats.master \in Nat /\ stats.slave \in Nat /\ stats.total \in Nat
        /\ stats.errors \in Nat
    BY <1>1
  <1>5. ASSUME NEW c \in Caller, Router!GetSlaveHealth(c) \/ Router!Answered(c)
        PROVE  RouterInv'
    <2>1. PICK point \in {"idle", "slave", "master"} : call' = [call EXCEPT ![c].pc = point]
      BY <1>5 DEF Router!GetSlaveHealth, Router!Answered
    <2>2. stats' = stats /\ RotationInv'
      BY <1>2, <1>5 DEF Router!GetSlaveHealth, Router!Answered
    <2>3. Cardinality(Asking') <= Cardinality(Asking) /\ Cardinality(Asking') \in Nat
          /\ Cardinality(Asking) \in Nat /\ call' \in [Caller -> Entries]
      <3>1. /\ point \in {"idle", "chosen", "master", "slave", "query", "error"}
            /\ point \notin {"query", "error"}
        OBVIOUS
      <3>2. /\ Cardinality(Asking) \in Nat /\ Cardinality(Asking') \in Nat
            /\ call' \in [Caller -> Entries]
            /\ Cardinality(Asking') = IF call[c].pc \in {"query", "error"}
                                      THEN Cardinality(Asking) - 1 ELSE Cardinality(Asking)
        BY <2>1, <3>1, PointMoves DEF RouterInv
      <3> QED
        BY <3>2
    <2> QED
      BY <1>1, <2>2, <2>3 DEF RouterInv, ReadersInv
  <1>6. ASSUME NEW c \in Caller, Router!QueryMaster(c)
        PROVE  RouterInv'
    <2>1. /\ call' = [call EXCEPT ![c].pc = "idle"] /\ call[c].pc = "master"
          /\ stats' = [stats EXCEPT !.master = @ + 1, !.total = @ + 1] /\ RotationInv'
      BY <1>2, <1>6 DEF Router!QueryMaster, Router!CountMaster
    <2>2. Cardinality(Asking') = Cardinality(Asking) /\ call' \in [Caller -> Entries]
      BY <2>1, PointMoves DEF RouterInv
    <2>3. stats' \in [master : Nat, slave : Nat, total : Nat, errors : Nat]
      BY <1>1, <2>1, StatsMove
    <2> QED
      BY <1>1, <1>4, <2>1, <2>2, <2>3 DEF RouterInv, ReadersInv
  <1>7. ASSUME NEW c \in Caller, Router!QuerySlave(c)
        PROVE  RouterInv'
    <2>1. /\ call' = [call EXCEPT ![c].pc = "query"] /\ call[c].pc = "slave"
          /\ stats' = [stats EXCEPT !.slave = @ + 1, !.total = @ + 1] /\ RotationInv'
      BY <1>2, <1>7 DEF Router!QuerySlave
    <2>2. /\ Cardinality(Asking') = Cardinality(Asking) + 1 /\ Cardinality(Asking) \in Nat
          /\ call' \in [Caller -> Entries]
      BY <2>1, PointMoves DEF RouterInv
    <2>3. stats' \in [master : Nat, slave : Nat, total : Nat, errors : Nat]
      BY <1>1, <2>1, StatsMove
    <2> QED
      BY <1>1, <1>4, <2>1, <2>2, <2>3 DEF RouterInv, ReadersInv
  <1>8. ASSUME NEW c \in Caller, Router!QueryFails(c)
        PROVE  RouterInv'
    <2>1. /\ call' = [call EXCEPT ![c].pc = "error"] /\ call[c].pc = "query"
          /\ stats' = stats /\ RotationInv'
      BY <1>1, <1>8, HealthChanges DEF Router!QueryFails
    <2>2. Cardinality(Asking') = Cardinality(Asking) /\ call' \in [Caller -> Entries]
      BY <2>1, PointMoves DEF RouterInv
    <2>3. stats' \in [master : Nat, slave : Nat, total : Nat, errors : Nat]
      BY <1>1, <2>1, StatsMove
    <2> QED
      BY <1>1, <1>4, <2>1, <2>2, <2>3 DEF RouterInv, ReadersInv
  <1>9. ASSUME NEW c \in Caller, Router!CountError(c)
        PROVE  RouterInv'
    <2>1. /\ call' = [call EXCEPT ![c].pc = "idle"] /\ call[c].pc = "error"
          /\ stats' = [stats EXCEPT !.errors = @ + 1] /\ RotationInv'
      BY <1>2, <1>9 DEF Router!CountError
    <2>2. /\ Cardinality(Asking') = Cardinality(Asking) - 1 /\ Cardinality(Asking) \in Nat
          /\ call' \in [Caller -> Entries]
      BY <2>1, PointMoves DEF RouterInv
    <2>3. stats' \in [master : Nat, slave : Nat, total : Nat, errors : Nat]
      BY <1>1, <2>1, StatsMove
    <2> QED
      BY <1>1, <1>4, <2>1, <2>2, <2>3 DEF RouterInv, ReadersInv
  <1>10. ASSUME NEW s \in Router!Slave, Router!Recovers(s)
         PROVE  RouterInv'
    <2>1. RotationInv' /\ call' = call /\ stats' = stats
      BY <1>1, <1>10, HealthChanges DEF Router!Recovers
    <2> QED
      BY <1>1, <2>1 DEF RouterInv, ReadersInv, Asking
  <1>11. CASE Router!Exec
    <2>1. /\ call' = call /\ stats' = [stats EXCEPT !.master = @ + 1, !.total = @ + 1]
          /\ RotationInv'
      BY <1>2, <1>11 DEF Router!Exec, Router!CountMaster
    <2>2. Asking' = Asking
      BY <2>1 DEF Asking
    <2>3. Cardinality(Asking) \in Nat
      BY FS_Subset, FS_CardinalityType DEF Asking, RouterAssumption
    <2>4. stats' \in [master : Nat, slave : Nat, total : Nat, errors : Nat]
      BY <1>1, <2>1, StatsMove
    <2> QED
      BY <1>1, <1>4, <2>1, <2>2, <2>3, <2>4 DEF RouterInv, ReadersInv
  <1>12. CASE Router!HashSharded \/ Router!RangeSharded
    <2>1. UNCHANGED <<currentIndex, slaveHealth, stats, call, waited>>
      BY <1>12 DEF Router!HashSharded, Router!RangeSharded, Router!Sharded
    <2> QED
      BY <1>1, <1>2, <2>1 DEF RouterInv, ReadersInv, Asking
  <1> QED
    BY <1>3, <1>5, <1>6, <1>7, <1>8, <1>9, <1>10, <1>11, <1>12 DEF Router!Next

\* GetSlaveIndex: while the health of the slaves stays, no healthy slave sees as many
\* choices pass as there are healthy slaves, for any number of them; and the errors counted
\* are those of queries that were sent to a slave.
THEOREM RouterSafety ==
    ASSUME RouterAssumption
    PROVE  Router!Spec => [](Router!RotationIsFair /\ Router!ErrorsAreSlaveQueries)
  <1>1. Router!Init => RouterInv
    <2> SUFFICES ASSUME Router!Init PROVE RouterInv
      OBVIOUS
    <2>1. Router!Healthy = {}
      BY DEF Router!Init, Router!Healthy
    <2>2. RotationInv
      BY <2>1 DEF Router!Init, RotationInv, RouterAssumption
    <2>3. Asking = {}
      BY DEF Router!Init, Asking
    <2>4. Cardinality(Asking) = 0
      BY <2>3, FS_EmptySet
    <2>5. call \in [Caller -> [pc : {"idle", "chosen", "master", "slave", "query", "error"},
                               row : BOOLEAN, slave : 0 .. SlaveCount]]
      BY DEF Router!Init, RouterAssumption
    <2>6. stats = [master |-> 0, slave |-> 0, total |-> 0, errors |-> 0]
      BY DEF Router!Init
    <2> QED
      BY <2>2, <2>4, <2>5, <2>6 DEF RouterInv, ReadersInv
  <1>2. RouterInv /\ [Router!Next]_(Router!vars) => RouterInv'
    <2>1. ASSUME RouterInv, UNCHANGED Router!vars PROVE RouterInv'
      BY <2>1 DEF Router!vars, RouterInv, RotationInv, ReadersInv, Asking, Router!Healthy,
         Ahead,
                  Distance
    <2> QED
      BY <2>1, RouterStep
  <1>3. RouterInv => Router!RotationIsFair /\ Router!ErrorsAreSlaveQueries
    <2> SUFFICES ASSUME RouterInv PROVE Router!RotationIsFair /\ Router!ErrorsAreSlaveQueries
      OBVIOUS
    <2>1. ASSUME NEW s \in Router!Healthy PROVE waited[s] < Cardinality(Router!Healthy)
      <3>1. /\ waited[s] \in Nat /\ Distance(s) \in 1 .. SlaveCount
            /\ IsFiniteSet(Router!Healthy) /\ Cardinality(Router!Healthy) \in Nat
            /\ waited[s] + Cardinality(Ahead(s)) <= Cardinality(Router!Healthy)
        BY SlavesGoRound DEF RouterInv, RotationInv, Router!Healthy
      <3>2. s \in Ahead(s)
        BY <3>1 DEF Ahead
      <3>3. IsFiniteSet(Ahead(s)) /\ Cardinality(Ahead(s)) \in Nat /\ Cardinality(Ahead(s)) # 0
        BY <3>1, <3>2, FS_Subset, FS_CardinalityType, FS_EmptySet DEF Ahead
      <3> QED
        BY <3>1, <3>3
    <2> QED
      BY <2>1 DEF RouterInv, ReadersInv, Asking, Router!RotationIsFair,
                  Router!ErrorsAreSlaveQueries, Router!Cardinality, Cardinality
  <1> QED
    BY <1>1, <1>2, <1>3, PTL DEF Router!Spec

-----------------------------------------------------------------------------
(***************************************************************************)
(* Balancers: the connections of LeastConnectionsLoadBalancer, for any     *)
(* number of instances and clients.                                        *)
(***************************************************************************)
CONSTANTS Instance, Weight, Point, KeyHash, NoInstance, MaxPicks

VARIABLES strategy, healthy, rr, wrr, conn, using, chosen

Balance == INSTANCE Balancers

\* The clients that are counted at i.
Connected(i) == {c \in Client : using[c] = [pc |-> "connected", of |-> i]}

ConnInv ==
    /\ conn \in [Balance!All -> Nat] /\ DOMAIN using = Client
    /\ \A c \in Client : using[c] = [pc |-> using[c].pc, of |-> using[c].of]
    /\ \A i \in Balance!All : conn[i] = Cardinality(Connected(i))

LEMMA ConnectedAreFinite ==
    ASSUME IsFiniteSet(Client), NEW i
    PROVE  IsFiniteSet(Connected(i)) /\ Cardinality(Connected(i)) \in Nat
  <1>1. Connected(i) \subseteq Client
    BY DEF Connected
  <1> QED
    BY <1>1, FS_Subset, FS_CardinalityType

\* A step of one client that is connected neither before nor after it counts nowhere.
LEMMA OthersStayConnected ==
    ASSUME ConnInv, NEW c \in Client, NEW u, using' = [using EXCEPT ![c] = u]
    PROVE  \A i : /\ using[c] # [pc |-> "connected", of |-> i] /\ u # [pc |-> "connected", of |-> i]
                     => Connected(i)' = Connected(i)
                  /\ using[c] # [pc |-> "connected", of |-> i] /\ u = [pc |-> "connected", of |-> i]
                     => Connected(i)' = Connected(i) \cup {c} /\ c \notin Connected(i)
                  /\ using[c] = [pc |-> "connected", of |-> i] /\ u # [pc |-> "connected", of |-> i]
                     => Connected(i)' = Connected(i) \ {c} /\ c \in Connected(i)
  <1> TAKE i
  <1> DEFINE here == [pc |-> "connected", of |-> i]
  <1>1. Connected(i)' = {d \in Client : using'[d] = here}
    BY DEF Connected
  <1>2. Connected(i) = {d \in Client : using[d] = here}
    BY DEF Connected
  <1>3. using'[c] = u /\ \A d \in Client \ {c} : using'[d] = using[d]
    BY DEF ConnInv
  <1> HIDE DEF here
  <1>4. \A d : d \in Connected(i)' <=> IF d = c THEN u = here ELSE d \in Connected(i)
    BY <1>1, <1>2, <1>3
  <1>5. c \in Connected(i) <=> using[c] = here
    BY <1>2
  <1>6. /\ using[c] # here /\ u # here => Connected(i)' = Connected(i)
        /\ using[c] # here /\ u = here => Connected(i)' = Connected(i) \cup {c} /\ c \notin Connected(i)
        /\ using[c] = here /\ u # here => Connected(i)' = Connected(i) \ {c} /\ c \in Connected(i)
    BY <1>4, <1>5
  <1> QED
    BY <1>6 DEF here

\* LeastConnectionsLoadBalancer: the counter of an instance is the number of clients that
\* are connected to it, however selections, connections and ends interleave.
THEOREM ConnectionSafety ==
    ASSUME IsFiniteSet(Client)
    PROVE  Balance!Spec => []Balance!ConnectionsCounted
  <1>1. Balance!Init => ConnInv
    <2> SUFFICES ASSUME Balance!Init PROVE ConnInv
      OBVIOUS
    <2>1. /\ conn = [i \in Balance!All |-> 0]
          /\ using = [c \in Client |-> [pc |-> "idle", of |-> NoInstance]]
      BY DEF Balance!Init
    <2>2. ASSUME NEW i PROVE Cardinality(Connected(i)) = 0
      <3>1. Connected(i) = {}
        BY <2>1 DEF Connected
      <3> QED
        BY <3>1, FS_EmptySet
    <2> QED
      BY <2>1, <2>2 DEF ConnInv
  <1>2. ConnInv /\ [Balance!Next]_(Balance!vars) => ConnInv'
    <2> SUFFICES ASSUME ConnInv, [Balance!Next]_(Balance!vars) PROVE ConnInv'
      OBVIOUS
    <2>1. ASSUME UNCHANGED <<conn, using>> PROVE ConnInv'
      BY <2>1 DEF ConnInv, Connected, Balance!All, Balance!Range
    <2>2. ASSUME NEW c \in Client, NEW p \in {"idle", "selected"}, NEW i, using[c].pc # "connected",
                 using' = [using EXCEPT ![c] = [pc |-> p, of |-> i]], UNCHANGED conn
          PROVE  ConnInv'
      <3> DEFINE u == [pc |-> p, of |-> i]
      <3>1. \A j : using[c] # [pc |-> "connected", of |-> j] /\ u # [pc |-> "connected", of |-> j]
        BY <2>2
      <3>2. \A j : Connected(j)' = Connected(j)
        BY <2>2, <3>1, OthersStayConnected
      <3>3. \A d \in Client : using'[d] = [pc |-> using'[d].pc, of |-> using'[d].of]
        BY <2>2 DEF ConnInv
      <3>4. DOMAIN using' = Client
        BY <2>2 DEF ConnInv
      <3> QED
        BY <2>2, <3>2, <3>3, <3>4 DEF ConnInv, Balance!All, Balance!Range
    <2>3. ASSUME NEW c \in Client, Balance!LeastConnectionsSelect(c) PROVE ConnInv'
      <3>1. PICK i : using' = [using EXCEPT ![c] = [pc |-> "selected", of |-> i]]
        BY <2>3 DEF Balance!LeastConnectionsSelect
      <3>2. using[c].pc = "idle" /\ UNCHANGED conn
        BY <2>3 DEF Balance!LeastConnectionsSelect
      <3> QED
        BY <2>2, <3>1, <3>2
    <2>4. ASSUME NEW c \in Client, Balance!IncrementConnections(c) PROVE ConnInv'
      <3>0. PICK i : i = using[c].of
        OBVIOUS
      <3> DEFINE u == [pc |-> "connected", of |-> i]
      <3>1. /\ using[c].pc = "selected" /\ conn' = [conn EXCEPT ![i] = @ + 1]
            /\ using' = [using EXCEPT ![c].pc = "connected"]
        BY <2>4, <3>0 DEF Balance!IncrementConnections
      <3>2. using[c] = [pc |-> "selected", of |-> i]
        BY <3>0, <3>1 DEF ConnInv
      <3>3. using' = [using EXCEPT ![c] = u]
        <4>1. [using[c] EXCEPT !.pc = "connected"] = u
          BY <3>2
        <4>2. using' = [using EXCEPT ![c] = [using[c] EXCEPT !.pc = "connected"]]
          BY <3>1
        <4> QED
          BY <4>1, <4>2
      <3>4. \A j : using[c] # [pc |-> "connected", of |-> j]
        BY <3>1
      <3>5. \A j : j # i => u # [pc |-> "connected", of |-> j]
        OBVIOUS
      <3>6. /\ \A j : j # i => Connected(j)' = Connected(j)
            /\ Connected(i)' = Connected(i) \cup {c} /\ c \notin Connected(i)
        BY <3>3, <3>4, <3>5, OthersStayConnected, ZenonT(40)
      <3>7. Cardinality(Connected(i)') = Cardinality(Connected(i)) + 1
        BY <3>6, ConnectedAreFinite, FS_AddElement
      <3>8. \A d \in Client : using'[d] = [pc |-> using'[d].pc, of |-> using'[d].of]
        BY <3>3 DEF ConnInv
      <3>9. DOMAIN using' = Client
        BY <3>3 DEF ConnInv
      <3>10. ASSUME NEW j \in Balance!All PROVE conn'[j] \in Nat /\ conn'[j] = Cardinality(Connected(j)')
        <4>1. conn[j] = Cardinality(Connected(j)) /\ conn \in [Balance!All -> Nat]
          BY DEF ConnInv
        <4> HIDE DEF u
        <4> QED
          BY <3>1, <3>6, <3>7, <4>1, SMTT(30)
      <3>11. conn' \in [Balance!All -> Nat]
        BY <3>1, <3>10 DEF ConnInv
      <3> QED
        BY <3>8, <3>9, <3>10, <3>11 DEF ConnInv, Balance!All, Balance!Range
    <2>5. ASSUME NEW c \in Client, Balance!DecrementConnections(c) PROVE ConnInv'
      <3>0. PICK i : i = using[c].of
        OBVIOUS
      <3> DEFINE u == [pc |-> "idle", of |-> NoInstance]
      <3>1. /\ using[c].pc = "connected" /\ conn' = [conn EXCEPT ![i] = Balance!Decremented(@)]
            /\ using' = [using EXCEPT ![c] = u]
        BY <2>5, <3>0 DEF Balance!DecrementConnections
      <3>2. using[c] = [pc |-> "connected", of |-> i]
        BY <3>0, <3>1 DEF ConnInv
      <3>3. \A j : u # [pc |-> "connected", of |-> j]
        OBVIOUS
      <3>4. \A j : j # i => using[c] # [pc |-> "connected", of |-> j]
        BY <3>2
      <3>5. /\ \A j : j # i => Connected(j)' = Connected(j)
            /\ Connected(i)' = Connected(i) \ {c} /\ c \in Connected(i)
        <4>1. using' = [using EXCEPT ![c] = u]
          BY <3>1
        <4> HIDE DEF u
        <4> QED
          BY <3>2, <3>3, <3>4, <4>1, OthersStayConnected
      <3>6. /\ Cardinality(Connected(i)') = Cardinality(Connected(i)) - 1
            /\ Cardinality(Connected(i)) \in Nat /\ Cardinality(Connected(i)') \in Nat
        <4>1. IsFiniteSet(Connected(i)) /\ Cardinality(Connected(i)) \in Nat
          BY ConnectedAreFinite
        <4>2. /\ IsFiniteSet(Connected(i) \ {c})
              /\ Cardinality(Connected(i) \ {c}) = Cardinality(Connected(i)) - 1
          BY <3>5, <4>1, FS_RemoveElement
        <4> QED
          BY <3>5, <4>1, <4>2, FS_CardinalityType
      <3>7. \A d \in Client : using'[d] = [pc |-> using'[d].pc, of |-> using'[d].of]
        BY <3>1 DEF ConnInv
      <3>8. DOMAIN using' = Client
        BY <3>1 DEF ConnInv
      <3>9. ASSUME NEW j \in Balance!All PROVE conn'[j] \in Nat /\ conn'[j] = Cardinality(Connected(j)')
        <4>1. conn[j] = Cardinality(Connected(j)) /\ conn \in [Balance!All -> Nat]
          BY DEF ConnInv
        <4> HIDE DEF u
        <4>2. j = i => conn'[j] = Balance!Decremented(conn[j])
          BY <3>1, <4>1
        <4>3. j # i => conn'[j] = conn[j]
          BY <3>1, <4>1
        <4> QED
          <5>1. CASE j = i
            <6>1. conn[i] > 0 /\ conn'[i] = conn[i] - 1
              BY <3>6, <4>1, <4>2, <5>1 DEF Balance!Decremented
            <6> QED
              BY <3>6, <4>1, <5>1, <6>1
          <5>2. CASE j # i
            BY <3>5, <4>1, <4>3, <5>2
          <5> QED
            BY <5>1, <5>2
      <3>10. conn' \in [Balance!All -> Nat]
        BY <3>1, <3>9 DEF ConnInv
      <3> QED
        BY <3>7, <3>8, <3>9, <3>10 DEF ConnInv, Balance!All, Balance!Range
    <2>6. CASE UNCHANGED Balance!vars
      BY <2>1, <2>6 DEF Balance!vars
    <2>7. CASE Balance!RoundRobinSelect
      BY <2>1, <2>7 DEF Balance!RoundRobinSelect
    <2>8. CASE Balance!WeightedRoundRobinSelect
      BY <2>1, <2>8 DEF Balance!WeightedRoundRobinSelect
    <2>9. ASSUME NEW k \in KeyHash, Balance!ConsistentHashSelect(k) PROVE ConnInv'
      BY <2>1, <2>9 DEF Balance!ConsistentHashSelect
    <2>10. ASSUME NEW i \in Balance!All, Balance!SetHealth(i) PROVE ConnInv'
      BY <2>1, <2>10 DEF Balance!SetHealth
    <2> QED
      BY <2>3, <2>4, <2>5, <2>6, <2>7, <2>8, <2>9, <2>10 DEF Balance!Next
  <1>3. ConnInv => Balance!ConnectionsCounted
    BY DEF ConnInv, Connected, Balance!ConnectionsCounted, Balance!Cardinality, Cardinality
  <1> QED
    BY <1>1, <1>2, <1>3, PTL DEF Balance!Spec

-----------------------------------------------------------------------------
(***************************************************************************)
(* RateLimiters: the three limiters of Redis, for any limit, window and    *)
(* bucket.                                                                 *)
(***************************************************************************)
CONSTANTS refillRate, refillPeriod, limit, window, KeyTTL, Part, BucketSize

VARIABLES limiter, last, stamps, admitted

Rates == INSTANCE RateLimiters WITH capacity <- BucketSize

\* A key lives as long as a window, and long enough for an empty bucket to fill.
RatesAssumption ==
    /\ BucketSize \in Nat /\ refillRate \in Nat /\ refillPeriod \in Nat \ {0}
    /\ limit \in Nat /\ window \in Nat \ {0} /\ Part \in Nat
    /\ KeyTTL \in Nat /\ KeyTTL >= window /\ refillRate * (KeyTTL \div refillPeriod) >= BucketSize
    /\ MaxTime \in Nat /\ MaxCalls \in Nat

Starts == {Rates!TruncateToWindow(t) : t \in Rates!Time}

\* What has been let through up to a second only grows with it, up to now.
RatesTypes ==
    /\ Rates!TypeOK /\ last <= now /\ \A s \in stamps : s <= now
    /\ count \in [Starts -> Nat]
    /\ \A s, t \in Rates!Time : s <= t => admitted[s] <= admitted[t]
    /\ \A t \in Rates!Time : t >= now => admitted[t] = admitted[now]

\* A counter has counted what was let through in its window.
FixedInv ==
    limiter = "fixed" =>
        \A w \in Starts : count[w] = Rates!Admitted(w, w + window - 1) /\ count[w] <= limit

\* The seconds of the window that let a request through are in the sorted set, which Redis
\* drops only when they have left the window.
SlidingInv ==
    limiter = "sliding" =>
        /\ \A s \in Rates!Time : Rates!Admitted(s, s) > 0 =>
              /\ s <= last \/ (last = -1 /\ s <= now - window)
              /\ s > now - window => s \in stamps
        /\ Rates!SlidingBound

\* What was let through since t and what is left make up the capacity and what was refilled
\* up to the last call; after that nothing was let through.  A key is dropped when its
\* bucket would be full again.
BucketInv ==
    limiter = "bucket" =>
        /\ tokens <= BucketSize
        /\ \A t \in 0 .. now :
              IF last = -1
              THEN Rates!Admitted(t, now) <= refillRate * ((now - t) \div refillPeriod)
              ELSE IF t <= last
              THEN Rates!Admitted(t, now) + tokens
                      <= BucketSize + refillRate * ((last - t) \div refillPeriod)
              ELSE Rates!Admitted(t, now) = 0

RatesInv == RatesTypes /\ FixedInv /\ SlidingInv /\ BucketInv

LEMMA LeastOfTwo ==
    ASSUME NEW a \in Int, NEW b \in Int
    PROVE  Rates!Min({a, b}) = IF a <= b THEN a ELSE b
  <1> DEFINE m == IF a <= b THEN a ELSE b
  <1>1. m \in {a, b} /\ \A y \in {a, b} : m <= y
    OBVIOUS
  <1>2. \A x \in {a, b} : (\A y \in {a, b} : x <= y) => x = m
    OBVIOUS
  <1> QED
    BY <1>1, <1>2 DEF Rates!Min

\* Rounding down before a sum loses what rounding down after it may keep.
LEMMA Quotients ==
    ASSUME NEW a \in Nat, NEW b \in Nat, NEW p \in Nat \ {0}
    PROVE  /\ a \div p \in Nat /\ b \div p \in Nat /\ (a + b) \div p \in Nat
           /\ (a \div p) + (b \div p) <= (a + b) \div p
  <1>1. /\ a \div p \in Nat /\ p * (a \div p) <= a
        /\ b \div p \in Nat /\ p * (b \div p) <= b
    BY SMTT(30)
  <1>2. (a + b) \div p \in Nat /\ a + b < p * ((a + b) \div p) + p
    BY SMTT(30)
  <1>3. ASSUME NEW x \in Nat, NEW y \in Nat, NEW z \in Nat,
               p * x <= a, p * y <= b, a + b < p * z + p
        PROVE  x + y <= z
    <2>1. p * x + p * y = p * (x + y) /\ p * z + p = p * (z + 1)
      BY SMTT(30)
    <2>2. p * (x + y) < p * (z + 1)
      <3>1. p * x \in Nat /\ p * y \in Nat /\ p * z \in Nat
        BY SMTT(30)
      <3> QED
        BY <1>3, <2>1, <3>1
    <2>3. x + y >= z + 1 => p * (x + y) >= p * (z + 1)
      BY SMTT(30)
    <2>4. p * (x + y) \in Int /\ p * (z + 1) \in Int
      BY SMTT(30)
    <2> QED
      BY <2>2, <2>3, <2>4
  <1> QED
    BY <1>1, <1>2, <1>3

\* What a bucket is refilled in two spans is refilled in their sum.
LEMMA Refills ==
    ASSUME RatesAssumption, NEW a \in Nat, NEW b \in Nat
    PROVE  LET r(d) == refillRate * (d \div refillPeriod)
           IN  /\ r(a) \in Nat /\ r(b) \in Nat /\ r(a + b) \in Nat
               /\ r(a) + r(b) <= r(a + b)
  <1>1. ASSUME NEW x \in Nat, NEW y \in Nat, NEW z \in Nat, x + y <= z
        PROVE  /\ refillRate * x \in Nat /\ refillRate * y \in Nat /\ refillRate * z \in Nat
               /\ refillRate * x + refillRate * y <= refillRate * z
    <2>1. refillRate \in Nat
      BY DEF RatesAssumption
    <2>2. refillRate * x + refillRate * y = refillRate * (x + y)
      BY <2>1, SMTT(30)
    <2>3. refillRate * (x + y) <= refillRate * z
      BY <1>1, <2>1, SMTT(30)
    <2>4. refillRate * x \in Nat /\ refillRate * y \in Nat /\ refillRate * z \in Nat
      BY <2>1, SMTT(30)
    <2> QED
      BY <2>2, <2>3, <2>4
  <1>2. refillPeriod \in Nat \ {0}
    BY DEF RatesAssumption
  <1> QED
    BY <1>1, <1>2, Quotients

\* The window of a second begins a whole number of windows from the start, and is the only
\* one that holds the second.
LEMMA Windows ==
    ASSUME RatesAssumption
    PROVE  /\ \A t \in Rates!Time :
                 /\ Rates!TruncateToWindow(t) \in Starts
                 /\ Rates!TruncateToWindow(t) <= t /\ t < Rates!TruncateToWindow(t) + window
           /\ \A v \in Starts :
                 /\ v \in Rates!Time
                 /\ v + window <= MaxTime => v + window \in Starts
           /\ \A v, w \in Starts : v # w => v + window <= w \/ w + window <= v
  <1> USE DEF RatesAssumption, Rates!Time, Rates!TruncateToWindow, Starts
  <1>1. ASSUME NEW t \in Nat
        PROVE  /\ t \div window \in Nat /\ window * (t \div window) \in Nat
               /\ window * (t \div window) <= t /\ t < window * (t \div window) + window
    BY SMTT(30)
  <1>2. ASSUME NEW i \in Nat, NEW j \in Nat, i < j
        PROVE  window * i + window <= window * j
    <2>1. window * i + window = window * (i + 1)
      BY SMTT(30)
    <2>2. window * (i + 1) <= window * j
      BY <1>2, SMTT(30)
    <2> QED
      BY <2>1, <2>2
  <1>3. ASSUME NEW v \in Starts
        PROVE  \E i \in Nat : v = window * i
    <2>1. PICK t \in 0 .. MaxTime : v = window * (t \div window)
      OBVIOUS
    <2>2. t \div window \in Nat
      BY <1>1
    <2> QED
      BY <2>1, <2>2
  <1>4. ASSUME NEW v \in Starts, v + window <= MaxTime
        PROVE  v + window \in Starts
    <2>1. PICK i \in Nat : v = window * i
      BY <1>3
    <2>2. v + window = window * (i + 1) /\ v + window \in Nat
      BY <2>1, SMTT(30)
    <2>3. (v + window) \div window = i + 1
      BY <2>2, SMTT(30)
    <2>4. v + window \in 0 .. MaxTime
      BY <1>4, <2>2
    <2> QED
      BY <2>2, <2>3, <2>4
  <1>5. ASSUME NEW v \in Starts PROVE v \in 0 .. MaxTime
    BY <1>1
  <1>6. ASSUME NEW v \in Starts, NEW w \in Starts, v # w
        PROVE  v + window <= w \/ w + window <= v
    <2>1. PICK i \in Nat : v = window * i
      BY <1>3
    <2>2. PICK j \in Nat : w = window * j
      BY <1>3
    <2> QED
      BY <1>2, <1>6, <2>1, <2>2
  <1>7. ASSUME NEW t \in 0 .. MaxTime
        PROVE  /\ Rates!TruncateToWindow(t) \in Starts
               /\ Rates!TruncateToWindow(t) <= t /\ t < Rates!TruncateToWindow(t) + window
    <2>1. t \in Nat /\ t \in Rates!Time /\ Rates!TruncateToWindow(t) = window * (t \div window)
      OBVIOUS
    <2>2. Rates!TruncateToWindow(t) \in Starts
      BY <2>1
    <2> QED
      BY <1>1, <2>1, <2>2
  <1> QED
    BY <1>4, <1>5, <1>6, <1>7

\* What was let through up to any second, before the clock and beyond it.
LEMMA AdmittedGrows ==
    ASSUME RatesAssumption, RatesTypes
    PROVE  /\ \A t \in Int : Rates!AdmittedBy(t) \in Nat
           /\ \A s, t \in Int : s <= t => Rates!AdmittedBy(s) <= Rates!AdmittedBy(t)
           /\ \A t \in Int : t >= now => Rates!AdmittedBy(t) = Rates!AdmittedBy(now)
           /\ \A s, t \in Int : Rates!Admitted(s, t) \in Int
  <1> USE DEF RatesAssumption, RatesTypes, Rates!TypeOK, Rates!Time, Rates!AdmittedBy
  <1>1. \A t \in Int : Rates!AdmittedBy(t) \in Nat
    OBVIOUS
  <1>2. ASSUME NEW s \in Int, NEW t \in Int, s <= t
        PROVE  Rates!AdmittedBy(s) <= Rates!AdmittedBy(t)
    BY <1>2
  <1>3. ASSUME NEW t \in Int, t >= now PROVE Rates!AdmittedBy(t) = Rates!AdmittedBy(now)
    BY <1>3
  <1> QED
    BY <1>1, <1>2, <1>3 DEF Rates!Admitted

\* A request that is let through counts from now on.
LEMMA Passing ==
    ASSUME RatesAssumption, RatesTypes, NEW yes \in BOOLEAN, Rates!Admits(yes), now' = now
    PROVE  /\ \A t \in Int : Rates!AdmittedBy(t)' =
                 Rates!AdmittedBy(t) + IF yes /\ t >= now THEN 1 ELSE 0
           /\ admitted' \in [Rates!Time -> Nat]
           /\ \A s, t \in Rates!Time : s <= t => admitted'[s] <= admitted'[t]
           /\ \A t \in Rates!Time : t >= now' => admitted'[t] = admitted'[now']
  <1> USE DEF RatesAssumption, RatesTypes, Rates!TypeOK, Rates!Time, Rates!Admits
  <1>1. CASE yes
    <2>1. admitted' = [t \in 0 .. MaxTime |-> IF t < now THEN admitted[t] ELSE admitted[t] + 1]
      BY <1>1
    <2>2. admitted' \in [0 .. MaxTime -> Nat]
      BY <2>1
    <2>3. \A t \in 0 .. MaxTime : admitted'[t] = IF t < now THEN admitted[t] ELSE admitted[t] + 1
      BY <2>1
    <2>4. \A t \in Int : Rates!AdmittedBy(t)' =
             Rates!AdmittedBy(t) + IF yes /\ t >= now THEN 1 ELSE 0
      BY <1>1, <2>3 DEF Rates!AdmittedBy
    <2> QED
      BY <2>2, <2>3, <2>4
  <1>2. CASE ~yes
    BY <1>2 DEF Rates!AdmittedBy
  <1> QED
    BY <1>1, <1>2

-----------------------------------------------------------------------------
\* A window of the fixed limiter counts its own requests, and no other does.
LEMMA FixedStep ==
    ASSUME RatesAssumption, RatesTypes, FixedInv, Rates!FixedAllow, now' = now,
           UNCHANGED limiter
    PROVE  FixedInv' /\ count' \in [Starts -> Nat]
  <1> DEFINE w == Rates!TruncateToWindow(now)
             yes == count[w] < limit
  <1>1. now \in Rates!Time /\ count \in [Starts -> Nat]
    BY DEF RatesTypes, Rates!TypeOK
  <1>2. w \in Starts /\ w <= now /\ now < w + window /\ w \in Rates!Time
    BY <1>1, Windows
  <1>3. /\ count' = IF yes THEN [count EXCEPT ![w] = @ + 1] ELSE count
        /\ Rates!Admits(yes) /\ limiter = "fixed" /\ yes \in BOOLEAN
    BY DEF Rates!FixedAllow
  <1>4. \A t \in Int : Rates!AdmittedBy(t)' =
           Rates!AdmittedBy(t) + IF yes /\ t >= now THEN 1 ELSE 0
    <2> HIDE DEF yes
    <2> QED
      BY <1>3, Passing
  <1>5. ASSUME NEW v \in Starts
        PROVE  count'[v] = Rates!Admitted(v, v + window - 1)' /\ count'[v] <= limit
    <2>1. /\ v \in Nat /\ now \in Nat /\ w \in Nat /\ window \in Nat \ {0}
          /\ v # w => v + window <= w \/ w + window <= v
      BY <1>1, <1>2, Windows DEF RatesAssumption, Rates!Time
    <2>2. /\ count[v] = Rates!AdmittedBy(v + window - 1) - Rates!AdmittedBy(v - 1)
          /\ count[v] <= limit /\ count[v] \in Nat /\ limit \in Nat
      BY <1>1, <1>3 DEF FixedInv, Rates!Admitted, RatesAssumption
    <2>3. v - 1 \in Int /\ v + window - 1 \in Int
      BY <2>1
    <2>4. Rates!AdmittedBy(v + window - 1) \in Nat /\ Rates!AdmittedBy(v - 1) \in Nat
      BY <2>3, AdmittedGrows
    <2>5. /\ Rates!AdmittedBy(v - 1)' =
                Rates!AdmittedBy(v - 1) + IF yes /\ v - 1 >= now THEN 1 ELSE 0
          /\ Rates!AdmittedBy(v + window - 1)' =
                Rates!AdmittedBy(v + window - 1) + IF yes /\ v + window - 1 >= now THEN 1 ELSE 0
      BY <1>4, <2>3
    <2>6. Rates!Admitted(v, v + window - 1)' =
             Rates!AdmittedBy(v + window - 1)' - Rates!AdmittedBy(v - 1)'
      BY DEF Rates!Admitted
    <2>7. CASE ~yes
      BY <1>3, <2>2, <2>4, <2>5, <2>6, <2>7
    <2>8. CASE yes /\ v = w
      <3>1. count'[v] = count[v] + 1
        BY <1>1, <1>2, <1>3, <2>8
      <3>2. v - 1 < now /\ v + window - 1 >= now
        BY <1>2, <2>1, <2>8
      <3>3. count[v] < limit
        BY <2>8
      <3> HIDE DEF yes, w
      <3> QED
        BY <2>1, <2>2, <2>4, <2>5, <2>6, <2>8, <3>1, <3>2, <3>3
    <2>9. CASE yes /\ v # w
      <3>1. count'[v] = count[v]
        BY <1>1, <1>3, <2>9
      <3>2. v - 1 >= now <=> v + window - 1 >= now
        BY <1>2, <2>1, <2>9
      <3> HIDE DEF yes, w
      <3> QED
        BY <2>1, <2>2, <2>4, <2>5, <2>6, <3>1, <3>2
    <2> QED
      BY <2>7, <2>8, <2>9
  <1>6. count' \in [Starts -> Nat]
    BY <1>1, <1>2, <1>3
  <1> QED
    BY <1>5, <1>6 DEF FixedInv, Starts, Rates!TruncateToWindow, Rates!Time

LEMMA FixedHolds ==
    ASSUME RatesAssumption, RatesTypes, FixedInv
    PROVE  Rates!FixedBound
  <1> SUFFICES ASSUME limiter = "fixed", NEW t \in Rates!Time
               PROVE  LET w == Rates!TruncateToWindow(t)
                      IN  /\ Rates!Admitted(w, w + window - 1) <= limit
                          /\ Rates!Admitted(t, t + window - 1) <= 2 * limit
    BY DEF Rates!FixedBound
  <1> DEFINE w == Rates!TruncateToWindow(t)
             A(s) == Rates!AdmittedBy(s)
  <1>1. /\ w \in Starts /\ w \in Nat /\ w <= t /\ t < w + window /\ t \in Nat
        /\ window \in Nat \ {0} /\ limit \in Nat /\ MaxTime \in Nat /\ w <= MaxTime
    BY Windows DEF RatesAssumption, Rates!Time
  <1>2. \A v \in Starts : A(v + window - 1) - A(v - 1) <= limit
    BY DEF FixedInv, Rates!Admitted
  <1>3. A(w + window - 1) - A(w - 1) <= limit
    BY <1>1, <1>2
  <1>4. A(w + window + window - 1) - A(w + window - 1) <= limit
    <2>1. CASE w + window <= MaxTime
      <3>1. w + window \in Starts
        BY <1>1, <2>1, Windows
      <3>2. PICK v \in Starts : v = w + window
        BY <3>1
      <3>3. A(v + window - 1) - A(v - 1) <= limit
        BY <1>2
      <3>4. v - 1 = w + window - 1 /\ v + window - 1 = w + window + window - 1
        BY <1>1, <3>2
      <3> HIDE DEF A
      <3> QED
        BY <3>3, <3>4
    <2>2. CASE w + window > MaxTime
      <3>1. now <= w + window - 1 /\ now <= w + window + window - 1 /\ now \in Nat
        BY <1>1, <2>2 DEF RatesTypes, Rates!TypeOK, Rates!Time
      <3>3. w + window - 1 \in Int /\ w + window + window - 1 \in Int
        BY <1>1
      <3>2. A(w + window + window - 1) = A(now) /\ A(w + window - 1) = A(now) /\ A(now) \in Nat
        BY <3>1, <3>3, AdmittedGrows
      <3> QED
        BY <1>1, <3>2
    <2> QED
      BY <1>1, <2>1, <2>2
  <1>5. /\ A(t + window - 1) <= A(w + window + window - 1) /\ A(w - 1) <= A(t - 1)
        /\ A(t + window - 1) \in Nat /\ A(t - 1) \in Nat /\ A(w - 1) \in Nat
        /\ A(w + window - 1) \in Nat /\ A(w + window + window - 1) \in Nat
    <2>1. /\ t + window - 1 \in Int /\ t - 1 \in Int /\ w - 1 \in Int
          /\ w + window - 1 \in Int /\ w + window + window - 1 \in Int
          /\ t + window - 1 <= w + window + window - 1 /\ w - 1 <= t - 1
      BY <1>1
    <2> QED
      BY <2>1, AdmittedGrows
  <1>6. /\ Rates!Admitted(w, w + window - 1) = A(w + window - 1) - A(w - 1)
        /\ Rates!Admitted(t, t + window - 1) = A(t + window - 1) - A(t - 1)
    BY DEF Rates!Admitted
  <1> HIDE DEF A
  <1> QED
    BY <1>1, <1>3, <1>4, <1>5, <1>6

-----------------------------------------------------------------------------
\* The seconds of the window from t that let a request through.
Granting(t) == {s \in Rates!Time : t <= s /\ s < t + window /\ Rates!Admitted(s, s) > 0}

LEMMA RatesCardinality ==
    ASSUME NEW S
    PROVE  Rates!Cardinality(S) = Cardinality(S)
  BY DEF Rates!Cardinality, Cardinality

LEMMA SlidingBoundIs == Rates!SlidingBound <=>
    (limiter = "sliding" => \A t \in Rates!Time : Cardinality(Granting(t)) <= limit)
  BY RatesCardinality DEF Rates!SlidingBound, Granting

\* Nothing is let through in the seconds to come, and nothing is taken back.
LEMMA OneSecond ==
    ASSUME RatesAssumption, RatesTypes, NEW s \in Rates!Time
    PROVE  /\ Rates!Admitted(s, s) \in Nat
           /\ s > now => Rates!Admitted(s, s) = 0
  <1>1. /\ s \in Int /\ s - 1 \in Int /\ s - 1 <= s /\ now \in Nat
        /\ s > now => s - 1 >= now /\ s >= now
    BY DEF RatesTypes, Rates!TypeOK, Rates!Time, RatesAssumption
  <1>2. /\ Rates!AdmittedBy(s) \in Nat /\ Rates!AdmittedBy(s - 1) \in Nat
        /\ Rates!AdmittedBy(s - 1) <= Rates!AdmittedBy(s)
        /\ s > now => Rates!AdmittedBy(s - 1) = Rates!AdmittedBy(now)
                      /\ Rates!AdmittedBy(s) = Rates!AdmittedBy(now)
    BY <1>1, AdmittedGrows
  <1> QED
    BY <1>2 DEF Rates!Admitted

\* A sorted set that is not full yet may take one more second.
LEMMA SlidingStep ==
    ASSUME RatesAssumption, RatesTypes, SlidingInv, Rates!SlidingAllow, now' = now,
           UNCHANGED limiter
    PROVE  /\ SlidingInv'
           /\ last' \in Rates!Time \cup {-1} /\ last' <= now
           /\ stamps' \subseteq Rates!Time /\ \A s \in stamps' : s <= now
  <1> DEFINE yes == Cardinality(Rates!Recent) < limit
  <1>1. /\ now \in Rates!Time /\ now \in Nat /\ stamps \subseteq Rates!Time
        /\ last \in Rates!Time \cup {-1} /\ last <= now /\ \A s \in stamps : s <= now
        /\ Rates!Time \subseteq Nat /\ window \in Nat \ {0} /\ limit \in Nat /\ MaxTime \in Nat
    BY DEF RatesTypes, Rates!TypeOK, RatesAssumption, Rates!Time
  <1>2. /\ stamps' = IF yes THEN Rates!Recent \cup {now} ELSE Rates!Recent
        /\ last' = IF yes THEN now ELSE last
        /\ Rates!Admits(yes) /\ limiter = "sliding" /\ yes \in BOOLEAN
    BY RatesCardinality DEF Rates!SlidingAllow
  <1>3. Rates!Recent = {s \in stamps : s > now - window}
    BY DEF Rates!Recent
  <1>4. ASSUME NEW s \in Rates!Time
        PROVE  /\ Rates!Admitted(s, s)' = Rates!Admitted(s, s) + IF yes /\ s = now THEN 1 ELSE 0
               /\ Rates!Admitted(s, s) \in Nat
    <2> HIDE DEF yes
    <2>1. \A t \in Int : Rates!AdmittedBy(t)' =
             Rates!AdmittedBy(t) + IF yes /\ t >= now THEN 1 ELSE 0
      BY <1>2, Passing
    <2>2. s \in Int /\ s - 1 \in Int
      BY <1>1
    <2>3. /\ Rates!AdmittedBy(s)' = Rates!AdmittedBy(s) + IF yes /\ s >= now THEN 1 ELSE 0
          /\ Rates!AdmittedBy(s - 1)' =
                Rates!AdmittedBy(s - 1) + IF yes /\ s - 1 >= now THEN 1 ELSE 0
          /\ Rates!AdmittedBy(s) \in Nat /\ Rates!AdmittedBy(s - 1) \in Nat
      BY <2>1, <2>2, AdmittedGrows
    <2>4. /\ Rates!Admitted(s, s) = Rates!AdmittedBy(s) - Rates!AdmittedBy(s - 1)
          /\ Rates!Admitted(s, s)' = Rates!AdmittedBy(s)' - Rates!AdmittedBy(s - 1)'
      BY DEF Rates!Admitted
    <2>5. /\ Rates!Admitted(s, s)' = Rates!Admitted(s, s) + IF yes /\ s = now THEN 1 ELSE 0
      BY <1>1, <2>2, <2>3, <2>4
    <2> QED
      BY <2>5, OneSecond
  <1>5. \A s \in Rates!Time : Rates!Admitted(s, s) > 0 =>
           /\ s <= last \/ (last = -1 /\ s <= now - window)
           /\ s > now - window => s \in stamps
    BY <1>2 DEF SlidingInv
  <1>6. ASSUME NEW s \in Rates!Time, Rates!Admitted(s, s)' > 0
        PROVE  /\ s <= last' \/ (last' = -1 /\ s <= now' - window)
               /\ s > now' - window => s \in stamps'
    <2>1. CASE yes /\ s = now
      BY <1>1, <1>2, <2>1
    <2>2. CASE ~(yes /\ s = now)
      <3>1. Rates!Admitted(s, s) > 0
        BY <1>4, <1>6, <2>2
      <3>2. /\ s <= last \/ (last = -1 /\ s <= now - window)
            /\ s > now - window => s \in stamps
        BY <1>5, <3>1
      <3> HIDE DEF yes
      <3> QED
        BY <1>1, <1>2, <1>3, <3>2
    <2> QED
      BY <2>1, <2>2
  <1>7. ASSUME NEW t \in Rates!Time
        PROVE  Cardinality(Granting(t)') <= limit
    <2>1. Cardinality(Granting(t)) <= limit
      BY <1>2, SlidingBoundIs DEF SlidingInv
    <2>2. CASE yes /\ t <= now /\ now < t + window
      <3>1. IsFiniteSet(Rates!Recent)
        <4>1. IsFiniteSet(0 .. MaxTime)
          BY <1>1, FS_Interval
        <4>2. Rates!Recent \subseteq 0 .. MaxTime
          BY <1>1, <1>3 DEF Rates!Time
        <4> QED
          BY <4>1, <4>2, FS_Subset
      <3>2. /\ IsFiniteSet(Rates!Recent \cup {now})
            /\ Cardinality(Rates!Recent \cup {now}) <= Cardinality(Rates!Recent) + 1
            /\ Cardinality(Rates!Recent) \in Nat
        BY <3>1, FS_AddElement, FS_CardinalityType
      <3>3. ASSUME NEW s \in Granting(t)' PROVE s \in Rates!Recent \cup {now}
        <4>1. s \in Rates!Time /\ t <= s /\ Rates!Admitted(s, s)' > 0
          BY DEF Granting, Rates!Time
        <4>2. s # now => Rates!Admitted(s, s) > 0
          BY <1>4, <4>1
        <4>3. s > now - window
          BY <1>1, <2>2, <4>1
        <4> QED
          BY <1>3, <1>5, <4>1, <4>2, <4>3
      <3>4. Cardinality(Granting(t)') <= Cardinality(Rates!Recent \cup {now})
        BY <3>2, <3>3, FS_Subset
      <3>5. Cardinality(Granting(t)') \in Nat
        BY <3>2, <3>3, FS_Subset, FS_CardinalityType
      <3>6. Cardinality(Rates!Recent \cup {now}) \in Nat
        BY <3>2, FS_CardinalityType
      <3>7. Cardinality(Rates!Recent) < limit
        BY <2>2
      <3> QED
        BY <1>1, <3>2, <3>4, <3>5, <3>6, <3>7
    <2>3. CASE ~(yes /\ t <= now /\ now < t + window)
      <3>1. ASSUME NEW s \in Rates!Time, t <= s, s < t + window
            PROVE  Rates!Admitted(s, s)' = Rates!Admitted(s, s)
        <4> HIDE DEF yes
        <4> QED
          BY <1>4, <2>3, <3>1
      <3>2. Granting(t)' = Granting(t)
        <4>1. Granting(t)' =
                 {s \in Rates!Time : t <= s /\ s < t + window /\ Rates!Admitted(s, s)' > 0}
          BY DEF Granting, Rates!Time
        <4> QED
          BY <3>1, <4>1 DEF Granting
      <3> QED
        BY <2>1, <3>2
    <2> QED
      BY <2>2, <2>3
  <1>8. Rates!SlidingBound'
    <2>1. \A t \in Rates!Time : Cardinality(Granting(t)') <= limit
      BY <1>7
    <2> QED
      BY <2>1, RatesCardinality DEF Rates!SlidingBound, Granting, Rates!Time
  <1>9. SlidingInv'
    <2>1. \A s \in Rates!Time : Rates!Admitted(s, s)' > 0 =>
             /\ s <= last' \/ (last' = -1 /\ s <= now' - window)
             /\ s > now' - window => s \in stamps'
      BY <1>6
    <2> QED
      BY <1>8, <2>1 DEF SlidingInv, Rates!Time
  <1>10. last' \in Rates!Time \cup {-1} /\ last' <= now
    BY <1>1, <1>2
  <1>11. Rates!Recent \subseteq stamps
    BY <1>3
  <1>12. \A s \in stamps' : s \in Rates!Time /\ s <= now
    BY <1>1, <1>2, <1>11
  <1> QED
    BY <1>9, <1>10, <1>12

-----------------------------------------------------------------------------
\* A call on the bucket first adds what was refilled since the last one.
LEMMA BucketStep ==
    ASSUME RatesAssumption, RatesTypes, BucketInv, Rates!BucketAllow, now' = now,
           UNCHANGED limiter
    PROVE  BucketInv' /\ tokens' \in Nat /\ last' \in Rates!Time /\ last' <= now
  <1> DEFINE r(d) == refillRate * (d \div refillPeriod)
             t0 == IF last = -1 THEN Rates!Filled(BucketSize, 0) ELSE Rates!Filled(tokens, now - last)
             yes == t0 >= 1
  <1>1. /\ now \in Rates!Time /\ now \in Nat /\ last \in Nat \cup {-1} /\ last <= now
        /\ tokens \in Nat /\ BucketSize \in Nat /\ refillRate \in Nat
        /\ refillPeriod \in Nat \ {0} /\ MaxTime \in Nat
    BY DEF RatesTypes, Rates!TypeOK, RatesAssumption, Rates!Time
  <1>2. /\ tokens' = IF yes THEN t0 - 1 ELSE t0
        /\ last' = now /\ Rates!Admits(yes) /\ limiter = "bucket" /\ yes \in BOOLEAN
    BY DEF Rates!BucketAllow
  <1>3. \A a, b \in Nat : r(a) \in Nat /\ r(b) \in Nat /\ r(a + b) \in Nat
                          /\ r(a) + r(b) <= r(a + b)
    BY Refills
  <1>4. ASSUME NEW n \in Nat, NEW d \in Nat
        PROVE  Rates!Filled(n, d) = IF BucketSize <= n + r(d) THEN BucketSize ELSE n + r(d)
    <2>1. d \div refillPeriod \in Nat
      BY <1>1, Quotients
    <2>2. (d \div refillPeriod) * refillRate = r(d)
      BY <1>1, <2>1, SMTT(30)
    <2>3. r(d) \in Nat
      BY <1>3
    <2> HIDE DEF r
    <2>4. n + r(d) \in Int /\ BucketSize \in Int
      BY <1>1, <2>3
    <2> QED
      BY <2>2, <2>4, LeastOfTwo DEF Rates!Filled
  <1>5. /\ t0 \in Nat /\ t0 <= BucketSize
        /\ last # -1 => t0 <= tokens + r(now - last)
    <2>1. CASE last = -1
      <3>1. t0 = Rates!Filled(BucketSize, 0) /\ r(0) \in Nat
        BY <1>3, <2>1
      <3> HIDE DEF r
      <3> QED
        BY <1>1, <1>4, <2>1, <3>1
    <2>2. CASE last # -1
      <3>1. t0 = Rates!Filled(tokens, now - last) /\ now - last \in Nat
        BY <1>1, <2>2
      <3>2. r(now - last) \in Nat
        BY <1>3, <3>1
      <3> HIDE DEF r
      <3> QED
        BY <1>1, <1>4, <3>1, <3>2
    <2> QED
      BY <2>1, <2>2
  <1>6. ASSUME NEW t \in 0 .. now
        PROVE  /\ Rates!Admitted(t, now) \in Int
               /\ Rates!Admitted(t, now) + t0 <= BucketSize + r(now - t)
    <2>1. t \in Nat /\ t <= now /\ now - t \in Nat /\ t \in Int
      BY <1>1
    <2>2. Rates!Admitted(t, now) \in Int
      BY <1>1, <2>1, AdmittedGrows
    <2>3. r(now - t) \in Nat
      BY <1>3, <2>1
    <2>4. CASE last = -1
      <3>1. Rates!Admitted(t, now) <= r(now - t)
        BY <1>2, <2>4 DEF BucketInv
      <3> HIDE DEF r, t0
      <3> QED
        BY <1>1, <1>5, <2>2, <2>3, <3>1
    <2>5. CASE last # -1 /\ t <= last
      <3>1. Rates!Admitted(t, now) + tokens <= BucketSize + r(last - t)
        BY <1>2, <2>5 DEF BucketInv
      <3>2. last - t \in Nat /\ now - last \in Nat /\ (last - t) + (now - last) = now - t
        BY <1>1, <2>1, <2>5
      <3>3. /\ r(last - t) \in Nat /\ r(now - last) \in Nat
            /\ r(last - t) + r(now - last) <= r(now - t)
        <4> HIDE DEF r
        <4> QED
          BY <1>3, <3>2
      <3> HIDE DEF r, t0
      <3> QED
        BY <1>1, <1>5, <2>2, <2>3, <2>5, <3>1, <3>3
    <2>6. CASE last # -1 /\ last < t
      <3>1. Rates!Admitted(t, now) = 0
        BY <1>1, <1>2, <2>1, <2>6 DEF BucketInv
      <3> HIDE DEF r, t0
      <3> QED
        BY <1>1, <1>5, <2>3, <3>1
    <2> QED
      BY <1>1, <2>1, <2>2, <2>4, <2>5, <2>6
  <1>7. ASSUME NEW t \in 0 .. now
        PROVE  Rates!Admitted(t, now)' = Rates!Admitted(t, now) + IF yes THEN 1 ELSE 0
    <2> HIDE DEF yes
    <2>1. \A s \in Int : Rates!AdmittedBy(s)' =
             Rates!AdmittedBy(s) + IF yes /\ s >= now THEN 1 ELSE 0
      BY <1>2, Passing
    <2>2. t - 1 \in Int /\ now \in Int /\ t - 1 < now
      BY <1>1
    <2>3. /\ Rates!AdmittedBy(now)' = Rates!AdmittedBy(now) + IF yes THEN 1 ELSE 0
          /\ Rates!AdmittedBy(t - 1)' = Rates!AdmittedBy(t - 1)
          /\ Rates!AdmittedBy(now) \in Nat /\ Rates!AdmittedBy(t - 1) \in Nat
      BY <2>1, <2>2, AdmittedGrows
    <2>4. /\ Rates!Admitted(t, now) = Rates!AdmittedBy(now) - Rates!AdmittedBy(t - 1)
          /\ Rates!Admitted(t, now)' = Rates!AdmittedBy(now)' - Rates!AdmittedBy(t - 1)'
      BY DEF Rates!Admitted
    <2> QED
      BY <2>3, <2>4
  <1>8. tokens' \in Nat /\ tokens' <= BucketSize
    <2> HIDE DEF t0
    <2> QED
      BY <1>1, <1>2, <1>5
  <1>9. ASSUME NEW t \in 0 .. now'
        PROVE  /\ last' # -1 /\ t <= last'
               /\ Rates!Admitted(t, now)' + tokens' <= BucketSize + r(last' - t)
    <2>1. t \in 0 .. now /\ now' = now /\ last' = now /\ now - t \in Nat
      BY <1>1, <1>2
    <2>2. r(now - t) \in Nat
      BY <1>3, <2>1
    <2>3. Rates!Admitted(t, now)' + tokens' <= BucketSize + r(now - t)
      <3> HIDE DEF r, t0
      <3> QED
        BY <1>1, <1>2, <1>5, <1>6, <1>7, <2>1, <2>2
    <2> QED
      BY <1>1, <2>1, <2>3
  <1>10. BucketInv'
    BY <1>8, <1>9 DEF BucketInv
  <1> QED
    BY <1>1, <1>2, <1>8, <1>10

-----------------------------------------------------------------------------
\* One request at the middleware.
LEMMA LimiterKeeps ==
    ASSUME RatesAssumption, RatesInv, Rates!RateLimitMiddleware
    PROVE  RatesInv'
  <1>1. /\ RatesTypes /\ FixedInv /\ SlidingInv /\ BucketInv
        /\ now' = now /\ UNCHANGED limiter /\ calls' \in 0 .. MaxCalls
    BY DEF RatesInv, Rates!RateLimitMiddleware, RatesTypes, Rates!TypeOK, RatesAssumption
  <1>2. ASSUME Rates!Admits(TRUE) \/ Rates!Admits(FALSE), tokens' \in Nat,
               last' \in Rates!Time \cup {-1}, last' <= now, count' \in [Starts -> Nat],
               \A s \in stamps' : s \in Rates!Time /\ s <= now
        PROVE  RatesTypes'
    <2>1. /\ limiter' \in Rates!Limiters /\ now' \in Rates!Time /\ calls' \in 0 .. MaxCalls
          /\ stamps' \subseteq Rates!Time /\ last' <= now' /\ \A s \in stamps' : s <= now'
      BY <1>1, <1>2 DEF RatesTypes, Rates!TypeOK
    <2>2. /\ admitted' \in [Rates!Time -> Nat]
          /\ \A s, t \in Rates!Time : s <= t => admitted'[s] <= admitted'[t]
          /\ \A t \in Rates!Time : t >= now' => admitted'[t] = admitted'[now']
      BY <1>1, <1>2, Passing
    <2>3. Starts' = Starts /\ Rates!Time' = Rates!Time
      BY DEF Starts, Rates!Time, Rates!TruncateToWindow
    <2> QED
      BY <1>2, <2>1, <2>2, <2>3 DEF RatesTypes, Rates!TypeOK, Rates!Limiters, Rates!Time
  <1>3. /\ tokens \in Nat /\ last \in Rates!Time \cup {-1} /\ last <= now
        /\ count \in [Starts -> Nat] /\ \A s \in stamps : s \in Rates!Time /\ s <= now
        /\ now \in Rates!Time
    BY <1>1 DEF RatesTypes, Rates!TypeOK
  <1>4. CASE Rates!LocalAllow
    <2> DEFINE credited == IF last = -1 THEN BucketSize * Part
                           ELSE Rates!Min({tokens + (now - last), BucketSize * Part})
    <2>1. /\ limiter = "local" /\ UNCHANGED <<stamps, count>> /\ Rates!Admits(credited >= Part)
          /\ tokens' = IF credited >= Part THEN credited - Part ELSE credited
          /\ last' = IF credited >= Part THEN now ELSE last
      BY <1>4 DEF Rates!LocalAllow
    <2>2. credited \in Nat /\ Part \in Nat
      <3>1. Part \in Nat /\ BucketSize * Part \in Nat /\ tokens + (now - last) \in Int
        BY <1>3, SMTT(30) DEF RatesAssumption, Rates!Time
      <3>2. last # -1 => tokens + (now - last) \in Nat
        BY <1>3 DEF RatesAssumption, Rates!Time
      <3> QED
        BY <3>1, <3>2, LeastOfTwo
    <2> HIDE DEF credited
    <2>3. tokens' \in Nat /\ (Rates!Admits(TRUE) \/ Rates!Admits(FALSE))
      BY <2>1, <2>2 DEF Rates!Admits
    <2>4. last' \in Rates!Time \cup {-1} /\ last' <= now
      BY <1>3, <2>1 DEF Rates!Time, RatesAssumption
    <2>5. RatesTypes'
      BY <1>2, <1>3, <2>1, <2>3, <2>4
    <2> QED
      BY <1>1, <2>1, <2>5 DEF RatesInv, FixedInv, SlidingInv, BucketInv, Rates!SlidingBound
  <1>5. CASE Rates!BucketAllow
    <2>1. /\ BucketInv' /\ tokens' \in Nat /\ last' \in Rates!Time /\ last' <= now
      BY <1>1, <1>5, BucketStep
    <2>2. /\ limiter = "bucket" /\ UNCHANGED <<stamps, count>>
          /\ Rates!Admits(TRUE) \/ Rates!Admits(FALSE)
      BY <1>5 DEF Rates!BucketAllow, Rates!Admits
    <2>3. RatesTypes'
      BY <1>2, <1>3, <2>1, <2>2
    <2> QED
      BY <1>1, <2>1, <2>2, <2>3 DEF RatesInv, FixedInv, SlidingInv, Rates!SlidingBound
  <1>6. CASE Rates!SlidingAllow
    <2>1. /\ SlidingInv' /\ last' \in Rates!Time \cup {-1} /\ last' <= now
          /\ \A s \in stamps' : s \in Rates!Time /\ s <= now
      BY <1>1, <1>6, SlidingStep
    <2>2. /\ limiter = "sliding" /\ UNCHANGED <<tokens, count>>
          /\ Rates!Admits(TRUE) \/ Rates!Admits(FALSE)
      BY <1>6 DEF Rates!SlidingAllow, Rates!Admits
    <2>3. RatesTypes'
      BY <1>2, <1>3, <2>1, <2>2
    <2> QED
      BY <1>1, <2>1, <2>2, <2>3 DEF RatesInv, FixedInv, BucketInv
  <1>7. CASE Rates!FixedAllow
    <2>1. FixedInv' /\ count' \in [Starts -> Nat]
      BY <1>1, <1>7, FixedStep
    <2>2. /\ limiter = "fixed" /\ UNCHANGED <<tokens, last, stamps>>
          /\ Rates!Admits(TRUE) \/ Rates!Admits(FALSE)
      BY <1>7 DEF Rates!FixedAllow, Rates!Admits
    <2>3. RatesTypes'
      BY <1>2, <1>3, <2>1, <2>2
    <2> QED
      BY <1>1, <2>1, <2>2, <2>3 DEF RatesInv, SlidingInv, BucketInv, Rates!SlidingBound
  <1>8. CASE Rates!Unlimited
    <2>1. UNCHANGED <<tokens, last, stamps, count, admitted>>
      BY <1>8 DEF Rates!Unlimited, Rates!store
    <2>2. Rates!Admits(FALSE)
      BY <2>1 DEF Rates!Admits
    <2>3. RatesTypes'
      BY <1>2, <1>3, <2>1, <2>2
    <2> QED
      BY <1>1, <2>1, <2>3 DEF RatesInv, FixedInv, SlidingInv, BucketInv, Starts,
         Rates!SlidingBound, Rates!Admitted, Rates!AdmittedBy, Rates!Time,
         Rates!TruncateToWindow
  <1> QED
    BY <1>4, <1>5, <1>6, <1>7, <1>8 DEF Rates!RateLimitMiddleware

\* A second passes: what leaves a window does so before its key is dropped, and a bucket is
\* dropped when it could have been filled again.
LEMMA SecondKeeps ==
    ASSUME RatesAssumption, RatesInv, Rates!Tick
    PROVE  RatesInv'
  <1> DEFINE expires == limiter \in {"bucket", "sliding"} /\ last # -1
                        /\ now + 1 - last >= KeyTTL
             r(d) == refillRate * (d \div refillPeriod)
  <1>1. /\ now' = now + 1 /\ now < MaxTime /\ calls' = 0
        /\ last' = IF expires THEN -1 ELSE last
        /\ stamps' = IF expires THEN {} ELSE stamps
        /\ tokens' = IF expires THEN 0 ELSE tokens
        /\ UNCHANGED <<limiter, count, admitted>>
    BY DEF Rates!Tick
  <1>2. /\ RatesTypes /\ FixedInv /\ SlidingInv /\ BucketInv
        /\ now \in Rates!Time /\ now \in Nat /\ last \in Nat \cup {-1} /\ last <= now
        /\ tokens \in Nat /\ BucketSize \in Nat /\ KeyTTL \in Nat /\ KeyTTL >= window
        /\ window \in Nat \ {0} /\ MaxTime \in Nat
    BY DEF RatesInv, RatesTypes, Rates!TypeOK, RatesAssumption, Rates!Time
  <1>3. \A s, t \in Int : Rates!Admitted(s, t)' = Rates!Admitted(s, t)
    BY <1>1 DEF Rates!Admitted, Rates!AdmittedBy
  <1>4. Starts' = Starts /\ Rates!Time' = Rates!Time
    BY DEF Starts, Rates!Time, Rates!TruncateToWindow
  <1>5. RatesTypes'
    <2>1. /\ limiter' \in Rates!Limiters /\ now' \in Rates!Time /\ calls' \in 0 .. MaxCalls
          /\ tokens' \in Nat /\ last' \in Rates!Time \cup {-1} /\ stamps' \subseteq Rates!Time
          /\ last' <= now' /\ \A s \in stamps' : s <= now'
      <3>1. /\ limiter \in Rates!Limiters /\ MaxCalls \in Nat /\ stamps \subseteq Rates!Time
            /\ \A s \in stamps : s <= now /\ s \in Nat
            /\ last \in Rates!Time \cup {-1}
        BY <1>2 DEF RatesTypes, Rates!TypeOK, RatesAssumption, Rates!Time
      <3>2. stamps' \subseteq stamps /\ tokens' \in {0, tokens} /\ last' \in {-1, last}
        BY <1>1
      <3>3. now' \in Rates!Time /\ last' <= now'
        BY <1>1, <1>2, <3>2 DEF Rates!Time
      <3>4. \A s \in stamps' : s <= now'
        <4>1. \A s \in Nat : s <= now => s <= now + 1
          BY <1>2
        <4> QED
          BY <1>1, <3>1, <3>2, <4>1
      <3>5. limiter' \in Rates!Limiters /\ calls' \in 0 .. MaxCalls
        BY <1>1, <3>1
      <3>6. tokens' \in Nat /\ last' \in Rates!Time \cup {-1} /\ stamps' \subseteq Rates!Time
        BY <1>2, <3>1, <3>2
      <3> QED
        BY <3>3, <3>4, <3>5, <3>6
    <2>2. /\ admitted' \in [Rates!Time -> Nat] /\ count' \in [Starts -> Nat]
          /\ \A s, t \in Rates!Time : s <= t => admitted'[s] <= admitted'[t]
      BY <1>1, <1>2 DEF RatesTypes, Rates!TypeOK
    <2>3. \A t \in Rates!Time : t >= now' => admitted'[t] = admitted'[now']
      <3>1. \A t \in Rates!Time : t >= now => admitted[t] = admitted[now]
        BY <1>2 DEF RatesTypes
      <3>2. now + 1 \in Rates!Time /\ \A t \in Rates!Time : t >= now + 1 => t >= now
        BY <1>1, <1>2 DEF Rates!Time
      <3>3. admitted[now + 1] = admitted[now]
        BY <1>2, <3>1, <3>2
      <3> QED
        BY <1>1, <3>1, <3>2, <3>3
    <2> QED
      BY <2>1, <2>2, <2>3, <1>4 DEF RatesTypes, Rates!TypeOK, Rates!Limiters, Rates!Time
  <1>6. FixedInv'
    <2> SUFFICES ASSUME limiter = "fixed", NEW w \in Starts
                 PROVE  /\ count[w] = Rates!Admitted(w, w + window - 1)' /\ count[w] <= limit
      BY <1>1, <1>4 DEF FixedInv
    <2>1. w \in Int /\ w + window - 1 \in Int
      BY <1>2, Windows DEF Rates!Time
    <2> QED
      BY <1>2, <1>3, <2>1 DEF FixedInv
  <1>7. SlidingInv'
    <2> SUFFICES ASSUME limiter = "sliding" PROVE SlidingInv'
      BY <1>1 DEF SlidingInv
    <2>1. Rates!SlidingBound'
      BY <1>1, <1>2, <1>3 DEF SlidingInv, Rates!SlidingBound, Rates!Time
    <2>2. ASSUME NEW s \in Rates!Time, Rates!Admitted(s, s) > 0
          PROVE  /\ s <= last' \/ (last' = -1 /\ s <= now' - window)
                 /\ s > now' - window => s \in stamps'
      <3>1. /\ s <= last \/ (last = -1 /\ s <= now - window)
            /\ s > now - window => s \in stamps
            /\ s \in Nat
        BY <1>2, <2>2 DEF SlidingInv, Rates!Time
      <3>2. CASE expires
        BY <1>1, <1>2, <3>1, <3>2
      <3>3. CASE ~expires
        <4>1. last' = last /\ stamps' = stamps
          BY <1>1, <3>3
        <4> QED
          BY <1>1, <1>2, <3>1, <4>1
      <3> QED
        BY <3>2, <3>3
    <2>3. \A s \in Rates!Time : Rates!Admitted(s, s)' = Rates!Admitted(s, s)
      BY <1>3 DEF Rates!Time
    <2> QED
      BY <2>1, <2>2, <2>3, <1>4 DEF SlidingInv
  <1>8. BucketInv'
    <2> SUFFICES ASSUME limiter = "bucket" PROVE BucketInv'
      BY <1>1 DEF BucketInv
    <2>1. tokens' <= BucketSize
      BY <1>1, <1>2 DEF BucketInv
    <2>2. ASSUME NEW t \in 0 .. now + 1
          PROVE  IF last' = -1 THEN Rates!Admitted(t, now + 1) <= r(now + 1 - t)
                 ELSE IF t <= last'
                 THEN Rates!Admitted(t, now + 1) + tokens' <= BucketSize + r(last' - t)
                 ELSE Rates!Admitted(t, now + 1) = 0
      <3>1. t \in Nat /\ t <= now + 1 /\ now + 1 - t \in Nat /\ t - 1 \in Int
        BY <1>2
      <3>2. /\ Rates!Admitted(t, now + 1) \in Int
            /\ t <= now => Rates!Admitted(t, now + 1) = Rates!Admitted(t, now)
            /\ t = now + 1 => Rates!Admitted(t, now + 1) = 0
        <4>1. /\ Rates!AdmittedBy(now + 1) = Rates!AdmittedBy(now)
              /\ Rates!AdmittedBy(now) \in Nat /\ Rates!AdmittedBy(t - 1) \in Nat
          <5>1. now \in Int /\ now + 1 \in Int /\ now + 1 >= now
            BY <1>2
          <5> QED
            BY <1>2, <3>1, <5>1, AdmittedGrows
        <4>2. t = now + 1 => t - 1 = now
          BY <1>2
        <4> QED
          BY <4>1, <4>2 DEF Rates!Admitted
      <3>3. \A a, b \in Nat : r(a) \in Nat /\ r(b) \in Nat /\ r(a + b) \in Nat
                              /\ r(a) + r(b) <= r(a + b)
        BY Refills
      <3>4. r(now + 1 - t) \in Nat
        BY <3>1, <3>3
      <3>5. CASE last = -1
        <4>1. last' = -1
          BY <1>1, <3>5
        <4>2. CASE t <= now
          <5>1. Rates!Admitted(t, now) <= r(now - t) /\ now - t \in Nat
            BY <1>2, <3>1, <3>5, <4>2 DEF BucketInv
          <5>2. r(now - t) \in Nat /\ r(now - t) <= r(now + 1 - t)
            <6>1. (now - t) + 1 = now + 1 - t
              BY <1>2, <3>1
            <6>2. r(now - t) \in Nat /\ r(1) \in Nat /\ r(now - t) + r(1) <= r((now - t) + 1)
              <7> HIDE DEF r
              <7> QED
                BY <3>3, <5>1
            <6> HIDE DEF r
            <6> QED
              BY <3>4, <6>1, <6>2
          <5> HIDE DEF r
          <5> QED
            BY <3>2, <3>4, <4>1, <4>2, <5>1, <5>2
        <4>3. CASE t = now + 1
          <5> HIDE DEF r
          <5> QED
            BY <3>2, <3>4, <4>1, <4>3
        <4> QED
          BY <1>2, <3>1, <4>2, <4>3
      <3>6. CASE last # -1 /\ expires
        <4>1. last' = -1 /\ now + 1 - last >= KeyTTL /\ last \in Nat
          BY <1>1, <1>2, <3>6
        <4>2. CASE t <= last
          <5>1. /\ Rates!Admitted(t, now) + tokens <= BucketSize + r(last - t)
                /\ t <= now
            BY <1>2, <3>1, <3>6, <4>2 DEF BucketInv
          <5>2. /\ last - t \in Nat /\ (now + 1 - last) - KeyTTL \in Nat
                /\ (last - t) + KeyTTL + ((now + 1 - last) - KeyTTL) = now + 1 - t
                /\ (last - t) + KeyTTL \in Nat
            BY <1>2, <3>1, <4>1, <4>2
          <5>3. /\ r(last - t) \in Nat /\ r(KeyTTL) \in Nat /\ r((last - t) + KeyTTL) \in Nat
                /\ r(last - t) + r(KeyTTL) <= r((last - t) + KeyTTL)
                /\ r((last - t) + KeyTTL) <= r(now + 1 - t)
            <6>1. /\ r(last - t) \in Nat /\ r(KeyTTL) \in Nat /\ r((last - t) + KeyTTL) \in Nat
                  /\ r(last - t) + r(KeyTTL) <= r((last - t) + KeyTTL)
              <7> HIDE DEF r
              <7> QED
                BY <1>2, <3>3, <5>2
            <6>2. /\ r((now + 1 - last) - KeyTTL) \in Nat
                  /\ r((last - t) + KeyTTL) + r((now + 1 - last) - KeyTTL)
                        <= r((last - t) + KeyTTL + ((now + 1 - last) - KeyTTL))
              <7> HIDE DEF r
              <7> QED
                BY <3>3, <5>2
            <6>3. r((last - t) + KeyTTL + ((now + 1 - last) - KeyTTL)) = r(now + 1 - t)
              BY <5>2
            <6> HIDE DEF r
            <6> QED
              BY <3>4, <6>1, <6>2, <6>3
          <5>4. BucketSize <= r(KeyTTL)
            BY DEF RatesAssumption
          <5> HIDE DEF r, expires
          <5> QED
            BY <1>2, <3>2, <3>4, <4>1, <5>1, <5>3, <5>4
        <4>3. CASE t > last
          <5>1. t <= now => Rates!Admitted(t, now) = 0
            BY <1>2, <3>1, <3>6, <4>3 DEF BucketInv
          <5>2. Rates!Admitted(t, now + 1) = 0
            BY <1>2, <3>1, <3>2, <5>1
          <5> HIDE DEF r
          <5> QED
            BY <3>4, <4>1, <5>2
        <4> QED
          BY <1>2, <3>1, <4>1, <4>2, <4>3
      <3>7. CASE last # -1 /\ ~expires
        <4>1. last' = last /\ tokens' = tokens
          BY <1>1, <3>7
        <4>2. CASE t <= now
          <5>1. IF t <= last THEN Rates!Admitted(t, now) + tokens <= BucketSize + r(last - t)
                ELSE Rates!Admitted(t, now) = 0
            BY <1>2, <3>1, <3>7, <4>2 DEF BucketInv
          <5> HIDE DEF r, expires
          <5> QED
            BY <3>2, <3>7, <4>1, <4>2, <5>1
        <4>3. CASE t = now + 1
          <5>1. ~(t <= last)
            BY <1>2, <4>3
          <5> HIDE DEF r, expires
          <5> QED
            BY <3>2, <3>7, <4>1, <4>3, <5>1
        <4> QED
          BY <1>2, <3>1, <4>2, <4>3
      <3> QED
        BY <3>5, <3>6, <3>7
    <2>3. ASSUME NEW t \in 0 .. now + 1
          PROVE  Rates!Admitted(t, now)' = Rates!Admitted(t, now + 1)
      BY <1>1 DEF Rates!Admitted, Rates!AdmittedBy
    <2>4. ASSUME NEW t \in 0 .. now'
          PROVE  IF last' = -1 THEN Rates!Admitted(t, now)' <= r(now' - t)
                 ELSE IF t <= last'
                 THEN Rates!Admitted(t, now)' + tokens' <= BucketSize + r(last' - t)
                 ELSE Rates!Admitted(t, now)' = 0
      <3>1. t \in 0 .. now + 1 /\ now' = now + 1
        BY <1>1
      <3>2. Rates!Admitted(t, now)' = Rates!Admitted(t, now + 1)
        BY <2>3, <3>1
      <3>3. IF last' = -1 THEN Rates!Admitted(t, now + 1) <= r(now + 1 - t)
            ELSE IF t <= last'
            THEN Rates!Admitted(t, now + 1) + tokens' <= BucketSize + r(last' - t)
            ELSE Rates!Admitted(t, now + 1) = 0
        BY <2>2, <3>1
      <3>4. r(now' - t) = r(now + 1 - t)
        <4>1. now' - t = now + 1 - t
          BY <1>2, <3>1
        <4> QED
          BY <4>1
      <3> HIDE DEF r
      <3> QED
        BY <3>2, <3>3, <3>4
    <2> QED
      BY <2>1, <2>4 DEF BucketInv
  <1> QED
    BY <1>5, <1>6, <1>7, <1>8 DEF RatesInv

\* RateLimiters: the fixed window lets through its limit in each of its windows and twice the
\* limit in any other, the sliding one requests of at most limit seconds of any window, the
\* bucket its capacity and what was refilled, whichever keys Redis has dropped meanwhile.
THEOREM RatesSafety ==
    ASSUME RatesAssumption
    PROVE  Rates!Spec => [](/\ Rates!TypeOK /\ Rates!FixedBound
                            /\ Rates!SlidingBound /\ Rates!BucketBound)
  <1>1. Rates!Init => RatesInv
    <2> SUFFICES ASSUME Rates!Init PROVE RatesInv
      OBVIOUS
    <2>1. /\ limiter \in Rates!Limiters /\ now = 0 /\ calls = 0 /\ tokens = 0 /\ last = -1
          /\ stamps = {} /\ count = [w \in Starts |-> 0]
          /\ admitted = [t \in Rates!Time |-> 0] /\ 0 \in Rates!Time
      BY DEF Rates!Init, Starts, RatesAssumption, Rates!Time
    <2>2. RatesTypes
      BY <2>1 DEF RatesTypes, Rates!TypeOK, RatesAssumption
    <2>3. \A s, t \in Int : Rates!Admitted(s, t) = 0
      BY <2>1 DEF Rates!Admitted, Rates!AdmittedBy, Rates!Time, RatesAssumption
    <2>4. FixedInv
      BY <2>1, <2>3, Windows DEF FixedInv, RatesAssumption, Rates!Time
    <2>5. ASSUME NEW t \in Rates!Time PROVE Cardinality(Granting(t)) <= limit
      <3>1. Granting(t) = {}
        BY <2>3 DEF Granting, Rates!Time
      <3> QED
        BY <3>1, FS_EmptySet DEF RatesAssumption
    <2>6. SlidingInv
      BY <2>3, <2>5, SlidingBoundIs DEF SlidingInv, Rates!Time
    <2>7. BucketInv
      <3>1. 0 .. now = {0} /\ refillRate * ((now - 0) \div refillPeriod) \in Nat
        BY <2>1, Refills DEF RatesAssumption
      <3> QED
        BY <2>1, <2>3, <3>1 DEF BucketInv, RatesAssumption
    <2> QED
      BY <2>2, <2>4, <2>6, <2>7 DEF RatesInv
  <1>2. RatesInv /\ [Rates!Next]_(Rates!vars) => RatesInv'
    <2> SUFFICES ASSUME RatesInv, [Rates!Next]_(Rates!vars) PROVE RatesInv'
      OBVIOUS
    <2>1. CASE UNCHANGED Rates!vars
      BY <2>1 DEF Rates!vars, Rates!store, RatesInv, RatesTypes, Rates!TypeOK, FixedInv,
         SlidingInv, BucketInv, Rates!SlidingBound, Rates!Admitted, Rates!AdmittedBy, Starts,
         Rates!Time, Rates!TruncateToWindow
    <2> QED
      BY <2>1, LimiterKeeps, SecondKeeps DEF Rates!Next
  <1>3. RatesInv => /\ Rates!TypeOK /\ Rates!FixedBound
                    /\ Rates!SlidingBound /\ Rates!BucketBound
    <2> SUFFICES ASSUME RatesInv
                 PROVE  /\ Rates!TypeOK /\ Rates!FixedBound
                        /\ Rates!SlidingBound /\ Rates!BucketBound
      OBVIOUS
    <2>1. Rates!TypeOK /\ RatesTypes
      BY DEF RatesInv, RatesTypes
    <2>2. Rates!FixedBound
      BY FixedHolds DEF RatesInv
    <2>3. Rates!SlidingBound
      BY SlidingBoundIs DEF RatesInv, SlidingInv
    <2>4. Rates!BucketBound
      <3> SUFFICES ASSUME limiter = "bucket", NEW t \in 0 .. now
                   PROVE  Rates!Admitted(t, now)
                             <= BucketSize + refillRate * ((now - t) \div refillPeriod)
        BY DEF Rates!BucketBound
      <3> DEFINE r(d) == refillRate * (d \div refillPeriod)
      <3>1. /\ now \in Nat /\ t \in Nat /\ t <= now /\ now - t \in Nat
            /\ last \in Nat \cup {-1} /\ last <= now
            /\ tokens \in Nat /\ BucketSize \in Nat
        BY <2>1 DEF RatesTypes, Rates!TypeOK, RatesAssumption, Rates!Time
      <3>2. \A a, b \in Nat : r(a) \in Nat /\ r(b) \in Nat /\ r(a + b) \in Nat
                              /\ r(a) + r(b) <= r(a + b)
        BY Refills
      <3>3. r(now - t) \in Nat /\ Rates!Admitted(t, now) \in Int
        <4>1. t \in Int /\ now \in Int
          BY <3>1
        <4>2. Rates!Admitted(t, now) \in Int
          BY <2>1, <4>1, AdmittedGrows
        <4>3. r(now - t) \in Nat
          BY <3>1, <3>2
        <4> QED
          BY <4>2, <4>3
      <3>4. IF last = -1 THEN Rates!Admitted(t, now) <= r(now - t)
            ELSE IF t <= last THEN Rates!Admitted(t, now) + tokens <= BucketSize + r(last - t)
            ELSE Rates!Admitted(t, now) = 0
        BY <3>1 DEF RatesInv, BucketInv
      <3>5. CASE last # -1 /\ t <= last
        <4>1. last - t \in Nat /\ now - last \in Nat /\ (last - t) + (now - last) = now - t
          BY <3>1, <3>5
        <4>2. /\ r(last - t) \in Nat /\ r(now - last) \in Nat
              /\ r(last - t) + r(now - last) <= r(now - t)
          <5> HIDE DEF r
          <5> QED
            BY <3>2, <4>1
        <4> HIDE DEF r
        <4>3. Rates!Admitted(t, now) <= BucketSize + r(now - t)
          BY <3>1, <3>3, <3>4, <3>5, <4>2
        <4> QED
          BY <4>3 DEF r
      <3>6. CASE last = -1 \/ t > last
        <4> HIDE DEF r
        <4>1. Rates!Admitted(t, now) <= BucketSize + r(now - t)
          BY <3>1, <3>3, <3>4, <3>6
        <4> QED
          BY <4>1 DEF r
      <3> QED
        BY <3>1, <3>5, <3>6
    <2> QED
      BY <2>1, <2>2, <2>3, <2>4
  <1> QED
    BY <1>1, <1>2, <1>3, PTL DEF Rates!Spec

=============================================================================
