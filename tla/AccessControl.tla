----------------------------- MODULE AccessControl -----------------------------
(***************************************************************************)
(* Which requests the API admits.  The role comes from the access token    *)
(* that Keycloak issued some time ago, activity from the users row as it   *)
(* is now; between the two an administrator may change either              *)
(* (services/oidc.go, authentication.go, identity.go; middleware/).        *)
(*                                                                         *)
(* The clock is the API's; Keycloak's is off by a constant.  The managed   *)
(* roles of an identity change as replaceRole and its restorations change  *)
(* them, one call at a time (see UserSync).                                *)
(***************************************************************************)
EXTENDS Integers, FiniteSets

CONSTANTS
    Users,      \* Keycloak users, whether linked to a row or not
    Requests,
    Lifetime,   \* of an access token
    Skew,       \* OIDC_CLOCK_SKEW
    MaxOffset,  \* bound: how far Keycloak's clock is off
    MaxTime,    \* bound: when the clock stops
    MaxTokens,  \* bound: how many tokens are issued
    MaxChanges, \* bound: how many calls the user administration makes
    None

ASSUME LifetimeType == Lifetime \in Nat
ASSUME SkewType == Skew \in Nat
ASSUME OffsetTolerated == MaxOffset \in 0..Skew
ASSUME MaxTimeType == MaxTime \in Nat
ASSUME MaxTokensType == MaxTokens \in Nat
ASSUME MaxChangesType == MaxChanges \in Nat

RoleCapabilities ==
    [employee        |-> {"inventory_read", "checkout_self"},
     inventory_admin |-> {"inventory_read", "inventory_manage", "users_manage",
                          "checkout_self", "checkout_manage", "history_read_all"},
     auditor         |-> {"inventory_read", "history_read_all"}]

Roles == DOMAIN RoleCapabilities

\* What a route asks for: one of these, or nothing but an account.
RouteNeeds ==
    [inventory_read    |-> {"inventory_read"},
     inventory_manage  |-> {"inventory_manage"},
     users             |-> {"users_manage"},
     lend_and_return   |-> {"checkout_self", "checkout_manage"},
     checkouts         |-> {"checkout_self", "history_read_all"},
     item_checkouts    |-> {"history_read_all"},
     me                |-> {}]

Routes == DOMAIN RouteNeeds

\* RequireAnyCapability.
Permits(capabilities, route) ==
    RouteNeeds[route] = {} \/ RouteNeeds[route] \cap capabilities # {}

Time == 0..MaxTime
Never == -(Lifetime + Skew + MaxOffset) - 1

Token == [user : Users, roles : SUBSET Roles, issued : Time]
ASSUME NoneIsNoToken == None \notin Token

Answers == {"none", "admitted", "authentication_required", "invalid_token", "forbidden",
            "identity_not_linked", "account_inactive", "request_timeout", "internal_error"}
Request == [route : Routes \cup {None}, token : Token \cup {None}, verified : Time \cup {None}]

VARIABLES
    clock,
    offset,    \* Keycloak's clock minus the API's
    roles,     \* the managed roles of an identity
    enabled,   \* whether Keycloak lets the user sign in
    linked,    \* whether a users row is linked to the identity
    active,    \* is_active of that row
    changes,   \* how often the administration changed them
    tokens,    \* every token issued so far
    pc,
    req,
    answer,
    unchecked, \* requests whose signature could not be checked
    soleAt,    \* when a role was last the only one of its user
    sawActive  \* whether the user was active at any time since the request came

vars == <<clock, offset, roles, enabled, linked, active, changes, tokens, pc, req, answer,
          unchecked, soleAt, sawActive>>
accounts == <<roles, enabled, linked, active, changes, tokens, soleAt>>
requests == <<pc, req, answer, unchecked>>

-------------------------------------------------------------------------------
(* Keycloak and the user administration. *)

SoleSince(r, now) ==
    [u \in Users |-> [role \in Roles |-> IF r[u] = {role} THEN now ELSE soleAt[u][role]]]

Tick ==
    /\ clock < MaxTime
    /\ clock' = clock + 1
    /\ soleAt' = SoleSince(roles, clock')
    /\ UNCHANGED <<offset, roles, enabled, linked, active, changes, tokens, requests, sawActive>>

IssueToken(u) ==
    /\ enabled[u]
    /\ Cardinality(tokens) < MaxTokens
    /\ tokens' = tokens \cup {[user |-> u, roles |-> roles[u], issued |-> clock]}
    /\ UNCHANGED <<clock, offset, roles, enabled, linked, active, changes, requests, soleAt, sawActive>>

Change == changes < MaxChanges /\ changes' = changes + 1

RemoveRoles(u) ==
    /\ Change
    /\ roles[u] # {}
    /\ roles' = [roles EXCEPT ![u] = {}]
    /\ UNCHANGED <<clock, offset, enabled, linked, active, tokens, requests, soleAt, sawActive>>

AddRole(u, role) ==
    /\ Change
    /\ role \notin roles[u]
    /\ roles' = [roles EXCEPT ![u] = @ \cup {role}]
    /\ soleAt' = SoleSince(roles', clock)
    /\ UNCHANGED <<clock, offset, enabled, linked, active, tokens, requests, sawActive>>

\* A status change reaches Keycloak, and then the row unless it fails on the way.
ReplaceEnabled(u) ==
    /\ Change
    /\ enabled' = [enabled EXCEPT ![u] = ~@]
    /\ UNCHANGED <<clock, offset, roles, linked, active, tokens, requests, soleAt, sawActive>>

CommitActive(u) ==
    /\ Change
    /\ linked[u]
    /\ active' = [active EXCEPT ![u] = ~@]
    /\ sawActive' = [r \in Requests |->
            sawActive[r] \/ (req[r].token # None /\ req[r].token.user = u /\ active'[u])]
    /\ UNCHANGED <<clock, offset, roles, enabled, linked, tokens, requests, soleAt>>

\* POST /users or reconcile-users link the identity to a row, which is active or
\* not: active says so of an identity that is not linked yet.
LinkUser(u) ==
    /\ Change
    /\ ~linked[u]
    /\ linked' = [linked EXCEPT ![u] = TRUE]
    /\ sawActive' = [r \in Requests |->
            sawActive[r] \/ (req[r].token # None /\ req[r].token.user = u /\ active[u])]
    /\ UNCHANGED <<clock, offset, roles, enabled, active, tokens, requests, soleAt>>

-------------------------------------------------------------------------------
(* A request. *)

\* Exactly one Bearer credential, or none that can be used.
RequireBearer(r) ==
    /\ pc[r] = "idle"
    /\ \E route \in Routes :
          \/ /\ answer' = [answer EXCEPT ![r] = "authentication_required"]
             /\ pc' = [pc EXCEPT ![r] = "done"]
             /\ req' = [req EXCEPT ![r].route = route]
             /\ UNCHANGED sawActive
          \/ \E token \in tokens :
             /\ req' = [req EXCEPT ![r].route = route, ![r].token = token]
             /\ pc' = [pc EXCEPT ![r] = "verify"]
             /\ sawActive' = [sawActive EXCEPT ![r] = linked[token.user] /\ active[token.user]]
             /\ UNCHANGED answer
    /\ UNCHANGED <<clock, offset, accounts, unchecked>>

IssuedAt(token) == token.issued + offset
ExpiresAt(token) == token.issued + offset + Lifetime

\* Mutant: the skew is forgotten.
ValidWithoutSkew(token) ==
    /\ clock <= ExpiresAt(token)
    /\ clock >= IssuedAt(token)

\* validTemporalClaims, of a token with iat and without nbf.
ValidTemporalClaims(token) ==
    /\ clock <= ExpiresAt(token) + Skew
    /\ clock + Skew >= IssuedAt(token)

\* Mutant: the capabilities of all roles together.
UnionOfCapabilities(token) == UNION {RoleCapabilities[role] : role \in token.roles}

\* Those of the one managed role of the token, or None.
CapabilitiesForRoles(token) ==
    IF Cardinality(token.roles) = 1
    THEN RoleCapabilities[CHOOSE role \in token.roles : TRUE]
    ELSE None

\* Keycloak leaves realm_access out of a token for a user without a managed role
\* (the client's scope maps these roles only), and realmRoles does not accept that.
VerifyOutcome(token) ==
    IF ~ValidTemporalClaims(token) \/ token.roles = {} THEN "invalid_token"
    ELSE IF CapabilitiesForRoles(token) = None THEN "forbidden"
    ELSE "ok"

Answered(r, a) ==
    /\ answer' = [answer EXCEPT ![r] = a]
    /\ pc' = [pc EXCEPT ![r] = "done"]

Verify(r) ==
    /\ pc[r] = "verify"
    /\ req' = [req EXCEPT ![r].verified = clock]
    /\ IF VerifyOutcome(req[r].token) = "ok"
       THEN pc' = [pc EXCEPT ![r] = "resolve"] /\ UNCHANGED answer
       ELSE Answered(r, VerifyOutcome(req[r].token))
    /\ UNCHANGED <<clock, offset, accounts, unchecked, sawActive>>

\* The signing keys cannot be fetched, or not before the request's deadline.
VerifyWithoutKeys(r) ==
    /\ pc[r] = "verify"
    /\ req' = [req EXCEPT ![r].verified = clock]
    /\ unchecked' = unchecked \cup {r}
    /\ \E a \in {"invalid_token", "request_timeout"} : Answered(r, a)
    /\ UNCHANGED <<clock, offset, accounts, sawActive>>

\* Mutants: is_active is not looked at; an answer no handler knows.
ResolveOutcomeAnyActivity(token, route) ==
    IF ~linked[token.user] THEN "identity_not_linked"
    ELSE IF ~Permits(CapabilitiesForRoles(token), route) THEN "forbidden"
    ELSE "admitted"
ResolveOutcomeUnknown(token, route) ==
    IF linked[token.user] /\ active[token.user] THEN "admitted" ELSE "unknown"

\* GetUserByExternalIdentity, then the route's RequireCapability.
ResolveOutcome(token, route) ==
    IF ~linked[token.user] THEN "identity_not_linked"
    ELSE IF ~active[token.user] THEN "account_inactive"
    ELSE IF ~Permits(CapabilitiesForRoles(token), route) THEN "forbidden"
    ELSE "admitted"

Resolve(r) ==
    /\ pc[r] = "resolve"
    /\ Answered(r, ResolveOutcome(req[r].token, req[r].route))
    /\ UNCHANGED <<clock, offset, accounts, req, unchecked, sawActive>>

\* The users row cannot be read.
ResolveFails(r) ==
    /\ pc[r] = "resolve"
    /\ \E a \in {"internal_error", "request_timeout"} : Answered(r, a)
    /\ UNCHANGED <<clock, offset, accounts, req, unchecked, sawActive>>

-------------------------------------------------------------------------------
Init ==
    /\ clock = 0
    /\ offset \in -MaxOffset..MaxOffset
    /\ roles \in [Users -> {{}} \cup {{role} : role \in Roles}]
    /\ enabled = [u \in Users |-> TRUE]
    /\ linked \in [Users -> BOOLEAN]
    /\ active \in [Users -> BOOLEAN]
    /\ changes = 0
    /\ tokens = {}
    /\ pc = [r \in Requests |-> "idle"]
    /\ req = [r \in Requests |-> [route |-> None, token |-> None, verified |-> None]]
    /\ answer = [r \in Requests |-> "none"]
    /\ unchecked = {}
    /\ soleAt = [u \in Users |-> [role \in Roles |->
                    IF roles[u] = {role} THEN 0 ELSE Never]]
    /\ sawActive = [r \in Requests |-> FALSE]

Next ==
    \/ Tick
    \/ \E u \in Users :
          \/ IssueToken(u) \/ RemoveRoles(u) \/ ReplaceEnabled(u) \/ CommitActive(u)
          \/ LinkUser(u)
          \/ \E role \in Roles : AddRole(u, role)
    \/ \E r \in Requests :
          \/ RequireBearer(r) \/ Verify(r) \/ VerifyWithoutKeys(r)
          \/ Resolve(r) \/ ResolveFails(r)

Spec == Init /\ [][Next]_vars

-------------------------------------------------------------------------------
(* Correctness. *)

\* Every variable has the shape Keycloak, the database and the API give it.
TypeOK ==
    /\ clock \in Time
    /\ offset \in -MaxOffset..MaxOffset
    /\ roles \in [Users -> SUBSET Roles]
    /\ enabled \in [Users -> BOOLEAN]
    /\ linked \in [Users -> BOOLEAN]
    /\ active \in [Users -> BOOLEAN]
    /\ changes \in 0..MaxChanges
    /\ tokens \subseteq Token
    /\ pc \in [Requests -> {"idle", "verify", "resolve", "done"}]
    /\ req \in [Requests -> Request]
    /\ answer \in [Requests -> Answers]
    /\ unchecked \subseteq Requests
    /\ soleAt \in [Users -> [Roles -> Time \cup {Never}]]
    /\ sawActive \in [Requests -> BOOLEAN]

\* The user had, alone, a role that permits the route at most `bound' ago.
HeldWithin(r, bound) ==
    \E role \in Roles :
        /\ Permits(RoleCapabilities[role], req[r].route)
        /\ soleAt[req[r].token.user][role] >= req[r].verified - bound

\* However roles are replaced meanwhile, a request is admitted only by a role
\* that was its user's only one when a token not older than its lifetime, the
\* skew and the clocks' difference was issued (oidc.go:110-135,
\* authentication.go:79-93).
RoleExposureBounded ==
    \A r \in Requests :
        answer[r] = "admitted" => HeldWithin(r, Lifetime + Skew + MaxOffset)

\* "an old token can retain its role only through the five-minute token
\* lifetime" (docs/keycloak-security-verification.md:85-86).
RoleEndsWithToken ==
    \A r \in Requests : answer[r] = "admitted" => HeldWithin(r, Lifetime)

\* A token whose signature can be checked is called invalid during its lifetime
\* only if it was issued while its user had no managed role, between the calls
\* that replace one: not because the clocks differ, as long as they differ by no
\* more than the skew (oidc.go:91-94, 110-135).
FreshTokensAccepted ==
    \A r \in Requests :
        answer[r] = "invalid_token" /\ r \notin unchecked =>
            req[r].token.roles = {} \/ req[r].verified > req[r].token.issued + Lifetime

\* A request that comes after the deactivation has been committed is refused,
\* whatever its token says (identity.go:28-57, README.md:461-463).
DeactivatedRefused ==
    \A r \in Requests : answer[r] = "admitted" => sawActive[r]

-------------------------------------------------------------------------------
(* Why it is: the inductive invariant of the proofs. *)

\* The ghost of the roles is up to date.
RolesInv ==
    \A u \in Users, role \in Roles :
        /\ soleAt[u][role] <= clock
        /\ roles[u] = {role} => soleAt[u][role] = clock

\* A token's only role was its user's only role when it was issued.
TokensInv ==
    \A token \in tokens :
        /\ token.issued <= clock
        /\ \A role \in Roles :
              token.roles = {role} => soleAt[token.user][role] >= token.issued

\* The request has passed Verify.
Verified(r) ==
    /\ req[r].token \in tokens
    /\ req[r].route \in Routes
    /\ req[r].verified \in Time
    /\ CapabilitiesForRoles(req[r].token) # None
    /\ req[r].verified <= req[r].token.issued + Lifetime + Skew + MaxOffset

RequestInv(r) ==
    /\ pc[r] # "done" => answer[r] = "none"
    /\ pc[r] = "idle" => req[r].token = None
    /\ pc[r] = "verify" => req[r].token \in tokens /\ req[r].route \in Routes
    /\ pc[r] = "resolve" => Verified(r)
    /\ pc[r] \in {"verify", "resolve"} =>
          (linked[req[r].token.user] /\ active[req[r].token.user] => sawActive[r])
    /\ answer[r] = "invalid_token" => req[r].token \in tokens /\ req[r].verified \in Time
    /\ answer[r] = "admitted" =>
          /\ Verified(r)
          /\ Permits(CapabilitiesForRoles(req[r].token), req[r].route)

AccessInv ==
    /\ TypeOK
    /\ RolesInv
    /\ TokensInv
    /\ \A r \in Requests : RequestInv(r)
    /\ FreshTokensAccepted
    /\ DeactivatedRefused
===============================================================================
