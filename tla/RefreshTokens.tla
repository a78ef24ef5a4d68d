--------------------------- MODULE RefreshTokens ---------------------------
(***************************************************************************)
(* JWTManager and MemoryRefreshTokenStore                                  *)
(* (app/common/security/jwt_manager.go) with the tokens of one user.       *)
(*                                                                         *)
(* The store hands out pointers: IsUsed is a field of the one object that  *)
(* the map and every caller share, and it is read and written without a    *)
(* lock.  An access token is made of the secret it is signed with, the key *)
(* id in its header and its expiry.  Users, roles and claims are left out. *)
(***************************************************************************)
EXTENDS Naturals, FiniteSets, Functions

CONSTANTS Caller, Token, Key, Secret, NoToken, NoKey, NoSecret

VARIABLES
    keys,         \* key id -> its secret
    currentKeyID,
    rotated,      \* callers whose key a change has overtaken since they read it
    tokens,       \* the keys of the store's map
    used, expired,  \* refresh tokens with IsUsed, past ExpiresAt
    issued,       \* refresh tokens ever created
    access,       \* access tokens ever signed; torn: a change of its key overtook it
    at, token, key  \* caller -> its point, the refresh token and the secret it holds

keyVars == <<keys, currentKeyID, rotated>>
storeVars == <<tokens, used, expired, issued>>
vars == <<keyVars, storeVars, access, at, token, key>>

Init ==
    /\ keys = [k \in {} |-> NoSecret] /\ currentKeyID = NoKey /\ rotated = {}
    /\ tokens = {} /\ used = {} /\ expired = {} /\ issued = {} /\ access = {}
    /\ at = [c \in Caller |-> "idle"]
    /\ token = [c \in Caller |-> NoToken] /\ key = [c \in Caller |-> NoSecret]

Moves(c, point) == at' = [at EXCEPT ![c] = point]

-----------------------------------------------------------------------------
(***************************************************************************)
(* The keys.  A generated id is a new one; SetKey may give an id that is   *)
(* in use another secret.                                                  *)
(***************************************************************************)
Signing == {c \in Caller : at[c] = "sign"}
WithKey(k, s) == [i \in DOMAIN keys \cup {k} |-> IF i = k THEN s ELSE keys[i]]
Replaces(k, s) == k \in DOMAIN keys /\ keys[k] # s

GenerateKeyPair(k, s) ==
    /\ k \notin DOMAIN keys
    /\ keys' = WithKey(k, s) /\ currentKeyID' = k
    /\ rotated' = rotated \cup Signing
    /\ UNCHANGED <<storeVars, access, at, token, key>>

SetKey(k, s) ==
    /\ keys' = WithKey(k, s)
    /\ rotated' = IF Replaces(k, s) /\ k = currentKeyID THEN rotated \cup Signing ELSE rotated
    /\ access' = {[a EXCEPT !.torn = @ \/ (a.kid = k /\ Replaces(k, s))] : a \in access}
    /\ UNCHANGED <<currentKeyID, storeVars, at, token, key>>

SetCurrentKey(k) ==
    /\ k \in DOMAIN keys
    /\ currentKeyID' = k
    /\ rotated' = IF k # currentKeyID THEN rotated \cup Signing ELSE rotated
    /\ UNCHANGED <<keys, storeVars, access, at, token, key>>

-----------------------------------------------------------------------------
(***************************************************************************)
(* GenerateTokenPair: GenerateAccessToken reads the key with the lock and  *)
(* the key id of the header after it; GenerateRefreshToken saves.          *)
(***************************************************************************)
GenerateTokenPair(c) ==
    /\ at[c] = "idle" /\ Moves(c, "pair")
    /\ UNCHANGED <<keyVars, storeVars, access, token, key>>

ReadKey(c) ==
    /\ at[c] = "pair"
    /\ IF currentKeyID \in DOMAIN keys
       THEN key' = [key EXCEPT ![c] = keys[currentKeyID]] /\ Moves(c, "sign")
       ELSE UNCHANGED key /\ Moves(c, "idle")
    /\ rotated' = rotated \ {c}
    /\ UNCHANGED <<keys, currentKeyID, storeVars, access, token>>

GenerateAccessToken(c) ==
    /\ at[c] = "sign"
    /\ access' = access \cup {[kid |-> currentKeyID, key |-> key[c], live |-> TRUE,
                               torn |-> c \in rotated]}
    /\ Moves(c, "refreshToken")
    /\ UNCHANGED <<keyVars, storeVars, token, key>>

GenerateRefreshToken(c) ==
    /\ at[c] = "refreshToken"
    /\ \E t \in Token \ issued : issued' = issued \cup {t} /\ tokens' = tokens \cup {t}
    /\ Moves(c, "idle")
    /\ token' = [token EXCEPT ![c] = NoToken] /\ key' = [key EXCEPT ![c] = NoSecret]
    /\ UNCHANGED <<keyVars, used, expired, access>>

ValidateAccessToken(a) == a.live /\ a.kid \in DOMAIN keys /\ a.key = keys[a.kid]

-----------------------------------------------------------------------------
(***************************************************************************)
(* RefreshAccessToken: Get, the two checks, IsUsed, Save, a new pair.      *)
(***************************************************************************)
Get(c, t) ==
    /\ at[c] = "idle" /\ t \in tokens
    /\ token' = [token EXCEPT ![c] = t] /\ Moves(c, "check")
    /\ UNCHANGED <<keyVars, storeVars, access, key>>

Refused(t) == t \in expired \/ t \in used

CheckToken(c) ==
    /\ at[c] = "check"
    /\ IF Refused(token[c])
       THEN Moves(c, "idle") /\ token' = [token EXCEPT ![c] = NoToken]
       ELSE Moves(c, "mark") /\ UNCHANGED token
    /\ UNCHANGED <<keyVars, storeVars, access, key>>

\* Mutant: the token is saved before it is marked.
MarkUsedLate(c) ==
    /\ at[c] = "mark"
    /\ tokens' = tokens \cup {token[c]} /\ Moves(c, "save")
    /\ UNCHANGED <<keyVars, used, expired, issued, access, token, key>>

MarkUsed(c) ==
    /\ at[c] = "mark"
    /\ used' = used \cup {token[c]} /\ Moves(c, "save")
    /\ UNCHANGED <<keyVars, tokens, expired, issued, access, token, key>>

\* The save puts the token back if it was revoked meanwhile.
SaveUsed(c) ==
    /\ at[c] = "save"
    /\ tokens' = tokens \cup {token[c]} /\ Moves(c, "pair")
    /\ UNCHANGED <<keyVars, used, expired, issued, access, token, key>>

-----------------------------------------------------------------------------
RevokeRefreshToken(t) ==
    /\ t \in tokens /\ tokens' = tokens \ {t}
    /\ UNCHANGED <<keyVars, used, expired, issued, access, at, token, key>>

RevokeUserTokens ==
    /\ tokens # {} /\ tokens' = {}
    /\ UNCHANGED <<keyVars, used, expired, issued, access, at, token, key>>

CleanupExpiredTokens ==
    /\ tokens \cap expired # {} /\ tokens' = tokens \ expired
    /\ UNCHANGED <<keyVars, used, expired, issued, access, at, token, key>>

AccessExpires(a) ==
    /\ a.live /\ access' = (access \ {a}) \cup {[a EXCEPT !.live = FALSE]}
    /\ UNCHANGED <<keyVars, storeVars, at, token, key>>

Expires(t) ==
    /\ t \in issued \ expired /\ expired' = expired \cup {t}
    /\ UNCHANGED <<keyVars, tokens, used, issued, access, at, token, key>>

RefreshAccessToken(c) ==
    (\E t \in Token : Get(c, t)) \/ CheckToken(c) \/ MarkUsed(c) \/ SaveUsed(c)

Next ==
    \/ \E k \in Key :
          SetCurrentKey(k) \/ \E s \in Secret : GenerateKeyPair(k, s) \/ SetKey(k, s)
    \/ \E c \in Caller :
          \/ GenerateTokenPair(c) \/ ReadKey(c) \/ GenerateAccessToken(c)
          \/ GenerateRefreshToken(c) \/ RefreshAccessToken(c)
    \/ \E t \in Token : RevokeRefreshToken(t) \/ Expires(t)
    \/ RevokeUserTokens \/ CleanupExpiredTokens
    \/ \E a \in access : AccessExpires(a)

Spec == Init /\ [][Next]_vars

-----------------------------------------------------------------------------
\* The type invariant of the token manager.
TypeOK ==
    /\ DOMAIN keys \subseteq Key /\ Range(keys) \subseteq Secret
    /\ currentKeyID \in Key \cup {NoKey} /\ rotated \subseteq Caller
    /\ tokens \subseteq issued /\ used \subseteq issued /\ expired \subseteq issued
    /\ issued \subseteq Token
    /\ access \subseteq [kid : Key, key : Secret, live : BOOLEAN, torn : BOOLEAN]
    /\ token \in [Caller -> Token \cup {NoToken}] /\ key \in [Caller -> Secret \cup {NoSecret}]
    /\ at \in [Caller -> {"idle", "pair", "sign", "refreshToken", "check", "mark", "save"}]

Refreshable(t) == t \in tokens /\ t \notin used /\ t \notin expired

\* A refresh token that was used, revoked or has expired can never be used again, also when
\* the Save of a refresh under way puts it back into the store after its revocation.
DeadStaysDead == \A t \in issued : ~Refreshable(t) => ~Refreshable(t)'

\* A token validates until it expires, whatever keys are generated, set and made current
\* meanwhile.  The exceptions: its id was given another secret (SetKey), or a change of the
\* current key came between the reading of the secret and that of the id of the header.
SignedValidates == \A a \in access : a.live /\ ~a.torn => ValidateAccessToken(a)

\* "已使用": a refresh token is exchanged once.
ExchangedOnce ==
    \A c, d \in Caller :
        c # d /\ at[c] \in {"mark", "save"} /\ at[d] \in {"mark", "save"} => token[c] # token[d]

\* "撤销用户所有令牌": no refresh token of the user is left behind a revocation.
RevokedIsGone == tokens # {} /\ tokens' = {} => \A c \in Caller : at[c] \notin {"pair", "sign"}
=============================================================================
