---------------------------- MODULE GatewayAuth ----------------------------
(***************************************************************************)
(* Tokens at the gateway: the keys and tokens of utils/jwtUtils.go,        *)
(* the checks of app/gateway/middlewares/auth.go, and the providers and    *)
(* checks of auth_enhanced.go.                                             *)
(*                                                                         *)
(* A token is made of the key it is signed with, the key id in its header  *)
(* and its time of expiry.  CustomClaims, MassesClaims and AdminClaims     *)
(* declare a field "exp" of their own beside RegisteredClaims: it hides    *)
(* the registered one, which the parser of the jwt library looks at, so    *)
(* parsing a token does not test its expiry.  ParseToken does.             *)
(***************************************************************************)
EXTENDS Naturals, FiniteSets, Functions

CONSTANTS
    KeyID, Material,  \* key ids and the keys themselves
    Session, Request,
    TTL,              \* jwt.expirationHours
    NoToken, NoSession,
    MaxTime, MaxUpdates   \* bounds: the clock, key rotations

VARIABLES
    keys, currentKeyID, updates,
    clock,
    tokens,     \* session -> the token in its hands
    stored,     \* what the TokenStore of OAuth2 knows: <<session, "first" or "again">>
    cache,      \* sessions with a user entry in Redis
    at, of,     \* request -> its point, its session
    header,     \* request -> the token it carries
    lost,       \* requests in whose checks its key id stood for another key or for none
    check,      \* request -> which middleware guards its route
    late,       \* requests whose deadline has passed
    answers     \* request -> responses written

keyVars == <<keys, currentKeyID, updates>>
tokenVars == <<tokens, stored, cache>>
requestVars == <<at, of, header, check, late, answers>>
vars == <<keyVars, clock, tokenVars, requestVars, lost>>

\* The checks a route may have, by who made the token.
ByManager == {"user", "admin", "masses"}
ChecksOf == [manager |-> ByManager, jwt |-> {"jwt"}, oauth2 |-> {"first", "again"}]
Checks == UNION Range(ChecksOf)
KeySets == UNION {[ids -> Material] : ids \in SUBSET KeyID}

\* loadJWTKeys: the configured keys; the current id need not be one of them.
Init ==
    /\ keys \in {ks \in KeySets : DOMAIN ks # {}} /\ currentKeyID \in KeyID /\ updates = 0
    /\ clock = 0
    /\ tokens = [s \in Session |-> NoToken] /\ stored = {} /\ cache = {}
    /\ at = [r \in Request |-> "idle"] /\ of = [r \in Request |-> NoSession]
    /\ check = [r \in Request |-> "user"] /\ late = {}
    /\ answers = [r \in Request |-> 0]
    /\ header = [r \in Request |-> NoToken] /\ lost = {}

\* In the set ks the key id of t stands for the key that signed t.
Stands(t, ks) == t.kid \in DOMAIN ks /\ ks[t.kid] = t.key

KeyReads == {"check", "checkCurrent", "parse", "parseCurrent"}
AtKeys == {r \in Request : at[r] \in KeyReads /\ check[r] \in ByManager}

UpdateKeys(ks, current) ==
    /\ updates < MaxUpdates /\ updates' = updates + 1
    /\ keys' = ks /\ currentKeyID' = current
    /\ lost' = lost \cup {r \in AtKeys : ~Stands(header[r], ks)}
    /\ UNCHANGED <<clock, tokenVars, requestVars>>

\* A login, which may come again.  GetCurrentKey reads the id and its key at once; without
\* it no token is made.
GenerateToken(s) ==
    /\ tokens[s] # NoToken => tokens[s].by = "manager"
    /\ currentKeyID \in DOMAIN keys
    /\ tokens' = [tokens EXCEPT ![s] = [by |-> "manager", kid |-> currentKeyID,
                                       key |-> keys[currentKeyID], exp |-> clock + TTL]]
    /\ cache' = cache \cup {s}
    /\ UNCHANGED <<keyVars, clock, stored, requestVars, lost>>

\* JWTProvider has one key for good; OAuth2Provider stores a random token.
ProviderGenerateToken(s, provider) ==
    /\ tokens[s] = NoToken
    /\ tokens' = [tokens EXCEPT ![s] = [by |-> provider, exp |-> clock + TTL]]
    /\ stored' = IF provider = "oauth2" THEN stored \cup {<<s, "first">>} ELSE stored
    /\ UNCHANGED <<keyVars, clock, cache, requestVars, lost>>

Expired(t) == t.exp < clock

Answer(r, n) == answers' = [answers EXCEPT ![r] = @ + n]
Moves(r, point) == at' = [at EXCEPT ![r] = point]

Arrive(r, s, c) ==
    /\ at[r] = "idle" /\ tokens[s] # NoToken /\ c \in ChecksOf[tokens[s].by]
    /\ of' = [of EXCEPT ![r] = s] /\ check' = [check EXCEPT ![r] = c]
    /\ header' = [header EXCEPT ![r] = tokens[s]] /\ Moves(r, "check")
    /\ lost' = IF c \in ByManager /\ ~Stands(tokens[s], keys) THEN lost \cup {r} ELSE lost
    /\ UNCHANGED <<keyVars, clock, tokenVars, late, answers>>

\* A check that fails answers and ends the chain.
PassIf(r, passes, point) ==
    IF passes THEN Moves(r, point) /\ UNCHANGED answers
    ELSE Moves(r, "aborted") /\ Answer(r, 1)

AuthUserCheck(r, passes) ==
    PassIf(r, passes, IF check[r] = "masses" THEN "parse" ELSE "handler")

\* AuthMassesCheck parses the token again, for its expiry: ParseToken.
ParseToken(r, passes) ==
    IF passes /\ ~Expired(header[r]) THEN Moves(r, "handler") /\ UNCHANGED answers
    ELSE Moves(r, "unlink") /\ Answer(r, 1)

Parsed(r, key) ==
    IF at[r] \in {"check", "checkCurrent"} THEN AuthUserCheck(r, key = header[r].key)
    ELSE ParseToken(r, key = header[r].key)

\* The key function of the parser (AnalyseUserToken): the key of the id in the header, and
\* where there is none the current one, in a second period of the lock.
GetKeyByID(r) ==
    /\ r \in AtKeys /\ at[r] \in {"check", "parse"}
    /\ IF header[r].kid \in DOMAIN keys THEN Parsed(r, keys[header[r].kid])
       ELSE /\ Moves(r, IF at[r] = "check" THEN "checkCurrent" ELSE "parseCurrent")
            /\ UNCHANGED answers
    /\ UNCHANGED <<keyVars, clock, tokenVars, of, header, check, late, lost>>

GetCurrentKey(r) ==
    /\ at[r] \in {"checkCurrent", "parseCurrent"}
    /\ Parsed(r, IF currentKeyID \in DOMAIN keys THEN keys[currentKeyID] ELSE NoToken)
    /\ UNCHANGED <<keyVars, clock, tokenVars, of, header, check, late, lost>>

\* When ParseToken fails the user's entry is removed from the cache, after the answer; an
\* error of that is answered as well.
AuthMassesCheck(r) ==
    /\ at[r] = "unlink" /\ Moves(r, "aborted")
    /\ \/ cache' = cache \ {of[r]} /\ UNCHANGED answers
       \/ UNCHANGED cache /\ Answer(r, 1)
    /\ UNCHANGED <<keyVars, clock, tokens, stored, of, header, check, late, lost>>

\* Valid of Claims, and the lookup of the OAuth2 provider.
ValidateToken(r) ==
    \/ check[r] = "jwt" /\ ~Expired(header[r])
    \/ <<of[r], check[r]>> \in stored

EnhancedAuthMiddleware(r) ==
    /\ at[r] = "check" /\ check[r] \in {"jwt", "first", "again"}
    /\ PassIf(r, ValidateToken(r), "roles")
    /\ UNCHANGED <<keyVars, clock, tokenVars, of, header, check, late, lost>>

\* RoleBased-, PermissionBased- and ScopeAuthMiddleware look at the claims that the first
\* check put into the request, whatever became of the token.
RoleBasedAuthMiddleware(r) ==
    /\ at[r] = "roles" /\ \E has \in BOOLEAN : PassIf(r, has, "permissions")
    /\ UNCHANGED <<keyVars, clock, tokenVars, of, header, check, late, lost>>

PermissionBasedAuthMiddleware(r) ==
    /\ at[r] = "permissions" /\ \E has \in BOOLEAN : PassIf(r, has, "scopes")
    /\ UNCHANGED <<keyVars, clock, tokenVars, of, header, check, late, lost>>

ScopeAuthMiddleware(r) ==
    /\ at[r] = "scopes" /\ \E has \in BOOLEAN : PassIf(r, has, "handler")
    /\ UNCHANGED <<keyVars, clock, tokenVars, of, header, check, late, lost>>

Handle(r) ==
    /\ at[r] = "handler" /\ Moves(r, "handled") /\ Answer(r, 1)
    /\ UNCHANGED <<keyVars, clock, tokenVars, of, header, check, late, lost>>

\* RequestTimeout, around the chain: past the deadline it answers too.
RequestTimeout(r) ==
    /\ at[r] \in {"aborted", "handled"} /\ Moves(r, "done")
    /\ Answer(r, IF r \in late THEN 1 ELSE 0)
    /\ UNCHANGED <<keyVars, clock, tokenVars, of, header, check, late, lost>>

DeadlinePasses(r) ==
    /\ at[r] \notin {"idle", "done"} /\ r \notin late /\ late' = late \cup {r}
    /\ UNCHANGED <<keyVars, clock, tokenVars, at, of, header, check, answers, lost>>

\* RefreshToken of the providers: a new token of the same claims, the old one stays.
RefreshToken(s) ==
    /\ tokens[s] # NoToken
    /\ \/ /\ tokens[s].by = "jwt" /\ ~Expired(tokens[s])
          /\ tokens' = [tokens EXCEPT ![s].exp = clock + TTL] /\ UNCHANGED stored
       \/ /\ <<s, "first">> \in stored
          /\ stored' = stored \cup {<<s, "again">>} /\ UNCHANGED tokens
    /\ UNCHANGED <<keyVars, clock, cache, requestVars, lost>>

\* RevokeToken of OAuth2 deletes one token; that of JWTProvider does nothing.
RevokeToken(s) ==
    /\ \E t \in stored : t[1] = s /\ stored' = stored \ {t}
    /\ UNCHANGED <<keyVars, clock, tokens, cache, requestVars, lost>>

Tick ==
    /\ clock < MaxTime /\ clock' = clock + 1
    /\ UNCHANGED <<keyVars, tokenVars, requestVars, lost>>

Next ==
    \/ \E ks \in KeySets, k \in KeyID : UpdateKeys(ks, k)
    \/ \E s \in Session :
          \/ GenerateToken(s) \/ RefreshToken(s) \/ RevokeToken(s)
          \/ \E p \in {"jwt", "oauth2"} : ProviderGenerateToken(s, p)
    \/ \E r \in Request :
          \/ \E s \in Session, c \in Checks : Arrive(r, s, c)
          \/ GetKeyByID(r) \/ GetCurrentKey(r) \/ AuthMassesCheck(r)
          \/ EnhancedAuthMiddleware(r) \/ RoleBasedAuthMiddleware(r)
          \/ PermissionBasedAuthMiddleware(r) \/ ScopeAuthMiddleware(r)
          \/ Handle(r) \/ RequestTimeout(r) \/ DeadlinePasses(r)
    \/ Tick

Spec == Init /\ [][Next]_vars

-----------------------------------------------------------------------------
Tokens == [by : {"manager"}, kid : KeyID, key : Material, exp : Nat]
          \cup [by : {"jwt", "oauth2"}, exp : Nat]

\* The type invariant of the gateway's tokens.
TypeOK ==
    /\ keys \in KeySets /\ currentKeyID \in KeyID /\ clock \in 0 .. MaxTime
    /\ tokens \in [Session -> Tokens \cup {NoToken}]
    /\ header \in [Request -> Tokens \cup {NoToken}] /\ lost \subseteq Request
    /\ stored \subseteq Session \X {"first", "again"} /\ cache \subseteq Session
    /\ of \in [Request -> Session \cup {NoSession}] /\ check \in [Request -> Checks]
    /\ late \subseteq Request

\* A rotation that keeps a key keeps the sessions signed with it: a check refuses a token
\* only when it has expired or its id stood for another key at some moment of the check,
\* and the fall-back to the current key lets nobody in whose key is not in the set then.
RotationKeepsSessions ==
    \A r \in AtKeys :
        /\ at'[r] \in {"aborted", "unlink"} => r \in lost \/ clock > header[r].exp
        /\ at'[r] \in {"parse", "handler"} /\ at'[r] # at[r] => header[r].key \in Range(keys)

\* The entry of a user leaves the cache only for a request whose token has expired, or whose
\* key id stood for another key at some moment of its checks.
CacheLostWithCause ==
    \A s \in cache \ cache' :
        \E r \in Request : of[r] = s /\ (clock > header[r].exp \/ r \in lost)

\* Every request is answered, and more than once only past its deadline or when the cache
\* fails; never more than three times.
AnswersAccounted ==
    \A r \in Request :
        /\ at[r] \in {"unlink", "aborted", "handled", "done"} => answers[r] > 0
        /\ answers[r] <= 1 + (IF r \in late THEN 1 ELSE 0)
                           + (IF check[r] = "masses" THEN 1 ELSE 0)

\* "Token已过期": nobody gets to a handler with a token past its expiry.
ExpiredIsRefused ==
    \A r \in Request : at[r] # "handler" /\ at'[r] = "handler" => ~Expired(header[r])
=============================================================================
