-------------------------- MODULE AccessControlProofs --------------------------
(***************************************************************************)
(* Proofs about AccessControl for any users, requests, token lifetime,     *)
(* skew and tolerated difference of the clocks: how long a role can be     *)
(* used after it was replaced, that fresh tokens are accepted, and that a  *)
(* deactivated user is refused.                                            *)
(***************************************************************************)
EXTENDS AccessControl, FiniteSetTheorems, TLAPS

USE LifetimeType, SkewType, OffsetTolerated, MaxTimeType, MaxTokensType, MaxChangesType

\* The clock advances no ghost but those of the roles now held.
LEMMA SoleSinceType ==
    ASSUME AccessInv, NEW r \in [Users -> SUBSET Roles], NEW now \in Time, now >= clock
    PROVE  /\ SoleSince(r, now) \in [Users -> [Roles -> Time \cup {Never}]]
           /\ \A u \in Users, role \in Roles :
                 /\ SoleSince(r, now)[u][role] >= soleAt[u][role]
                 /\ SoleSince(r, now)[u][role] <= now
                 /\ r[u] = {role} => SoleSince(r, now)[u][role] = now
<1>1. ASSUME NEW u \in Users, NEW role \in Roles
      PROVE  /\ soleAt[u][role] \in Time \cup {Never}
             /\ soleAt[u][role] <= clock
             /\ SoleSince(r, now)[u][role] = IF r[u] = {role} THEN now ELSE soleAt[u][role]
  BY DEF AccessInv, TypeOK, RolesInv, SoleSince
<1>2. ASSUME NEW u \in Users, NEW role \in Roles
      PROVE  /\ SoleSince(r, now)[u][role] >= soleAt[u][role]
             /\ SoleSince(r, now)[u][role] <= now
             /\ r[u] = {role} => SoleSince(r, now)[u][role] = now
  <2>1. soleAt[u][role] \in Int /\ clock \in Int /\ now \in Int
    BY <1>1 DEF AccessInv, TypeOK, Time, Never
  <2> QED
    BY <1>1, <2>1
<1>3. SoleSince(r, now) \in [Users -> [Roles -> Time \cup {Never}]]
  BY <1>1 DEF SoleSince
<1> QED
  BY <1>2, <1>3

\* A token with capabilities has one managed role, and those are its.
LEMMA OneRole ==
    ASSUME NEW token \in Token, CapabilitiesForRoles(token) # None
    PROVE  \E role \in Roles :
              token.roles = {role} /\ CapabilitiesForRoles(token) = RoleCapabilities[role]
<1>1. Cardinality(token.roles) = 1
  BY DEF CapabilitiesForRoles
<1>2. Roles = {"employee", "inventory_admin", "auditor"}
  BY DEF Roles, RoleCapabilities
<1>3. IsFiniteSet(Roles)
  <2>1. IsFiniteSet({"employee"} \cup {"inventory_admin"})
    BY FS_Singleton, FS_AddElement
  <2>2. IsFiniteSet(({"employee"} \cup {"inventory_admin"}) \cup {"auditor"})
    BY <2>1, FS_AddElement
  <2>3. Roles = ({"employee"} \cup {"inventory_admin"}) \cup {"auditor"}
    BY <1>2
  <2> QED
    BY <2>2, <2>3
<1>4. token.roles \in SUBSET Roles
  BY DEF Token
<1>5. IsFiniteSet(token.roles)
  BY <1>3, <1>4, FS_Subset
<1>6. PICK role : token.roles = {role}
  BY <1>1, <1>5, FS_Singleton
<1>7. (CHOOSE x \in token.roles : TRUE) = role
  BY <1>6
<1> QED
  BY <1>1, <1>4, <1>6, <1>7 DEF CapabilitiesForRoles

-------------------------------------------------------------------------------
(* Steps of Keycloak and of the administration: the requests stand still. *)

\* What a request knows stays true while tokens are only added.
LEMMA RequestsKeep ==
    ASSUME AccessInv, UNCHANGED requests, tokens \subseteq tokens',
           \A r \in Requests :
               /\ sawActive[r] => sawActive'[r]
               /\ pc[r] \in {"verify", "resolve"} /\ linked'[req[r].token.user]
                    /\ active'[req[r].token.user] => sawActive'[r]
    PROVE  /\ \A r \in Requests : RequestInv(r)'
           /\ FreshTokensAccepted'
           /\ DeactivatedRefused'
<1>1. ASSUME NEW r \in Requests PROVE RequestInv(r)'
  BY <1>1 DEF AccessInv, RequestInv, Verified, CapabilitiesForRoles, requests
<1> QED
  BY <1>1 DEF AccessInv, FreshTokensAccepted, DeactivatedRefused, requests

\* Tokens stay what they are while the clock and the ghost only grow.
LEMMA TokensKeep ==
    ASSUME AccessInv, UNCHANGED tokens, clock' \in Time, clock' >= clock,
           soleAt' \in [Users -> [Roles -> Time \cup {Never}]],
           \A u \in Users, role \in Roles : soleAt'[u][role] >= soleAt[u][role]
    PROVE  TokensInv'
<1>1. ASSUME NEW token \in tokens
      PROVE  /\ token.issued <= clock'
             /\ \A role \in Roles :
                   token.roles = {role} => soleAt'[token.user][role] >= token.issued
  <2>1. token \in Token
    BY DEF AccessInv, TypeOK
  <2>2. token.issued \in Int /\ token.user \in Users /\ clock \in Int /\ clock' \in Int
    BY <2>1 DEF AccessInv, TypeOK, Token, Time
  <2>3. token.issued <= clock
    BY DEF AccessInv, TokensInv
  <2>4. ASSUME NEW role \in Roles, token.roles = {role}
        PROVE  soleAt'[token.user][role] >= token.issued
    <3>1. /\ soleAt[token.user][role] >= token.issued
          /\ soleAt'[token.user][role] >= soleAt[token.user][role]
      BY <2>2, <2>4 DEF AccessInv, TokensInv
    <3>2. soleAt[token.user][role] \in Int /\ soleAt'[token.user][role] \in Int
      BY <2>2 DEF AccessInv, TypeOK, Time, Never
    <3> QED
      BY <2>2, <3>1, <3>2
  <2> QED
    BY <2>2, <2>3, <2>4
<1> QED
  BY <1>1 DEF TokensInv

LEMMA TickStep ==
    ASSUME AccessInv, Tick
    PROVE  AccessInv'
<1>1. /\ clock' \in Time
      /\ clock' >= clock
      /\ roles \in [Users -> SUBSET Roles]
      /\ clock \in Time
  BY DEF AccessInv, TypeOK, Tick, Time
<1>2. /\ soleAt' \in [Users -> [Roles -> Time \cup {Never}]]
      /\ \A u \in Users, role \in Roles :
            /\ soleAt'[u][role] >= soleAt[u][role]
            /\ soleAt'[u][role] <= clock'
            /\ roles[u] = {role} => soleAt'[u][role] = clock'
  BY <1>1, SoleSinceType DEF Tick
<1>3. TypeOK'
  BY <1>1, <1>2 DEF AccessInv, TypeOK, Tick, requests
<1>4. RolesInv'
  BY <1>2 DEF Tick, RolesInv
<1>5. TokensInv'
  BY <1>1, <1>2, TokensKeep DEF Tick
<1>6. /\ \A r \in Requests : RequestInv(r)'
      /\ FreshTokensAccepted'
      /\ DeactivatedRefused'
  <2>1. \A r \in Requests :
           /\ sawActive[r] => sawActive'[r]
           /\ pc[r] \in {"verify", "resolve"} /\ linked'[req[r].token.user]
                /\ active'[req[r].token.user] => sawActive'[r]
    BY DEF AccessInv, RequestInv, Tick
  <2> QED
    BY <2>1, RequestsKeep DEF Tick
<1> QED
  BY <1>3, <1>4, <1>5, <1>6 DEF AccessInv

LEMMA AddRoleStep ==
    ASSUME AccessInv, NEW u \in Users, NEW role \in Roles, AddRole(u, role)
    PROVE  AccessInv'
<1>1. /\ roles' \in [Users -> SUBSET Roles]
      /\ clock \in Time
  BY DEF AccessInv, TypeOK, AddRole
<1>2. /\ soleAt' \in [Users -> [Roles -> Time \cup {Never}]]
      /\ \A v \in Users, x \in Roles :
            /\ soleAt'[v][x] >= soleAt[v][x]
            /\ soleAt'[v][x] <= clock
            /\ roles'[v] = {x} => soleAt'[v][x] = clock
  <2>1. clock >= clock
    BY <1>1 DEF Time
  <2>2. soleAt' = SoleSince(roles', clock)
    BY DEF AddRole
  <2>3. /\ SoleSince(roles', clock) \in [Users -> [Roles -> Time \cup {Never}]]
        /\ \A v \in Users, x \in Roles :
              /\ SoleSince(roles', clock)[v][x] >= soleAt[v][x]
              /\ SoleSince(roles', clock)[v][x] <= clock
              /\ roles'[v] = {x} => SoleSince(roles', clock)[v][x] = clock
    BY <1>1, <2>1, SoleSinceType
  <2> QED
    BY <2>2, <2>3
<1>3. TypeOK'
  <2>1. changes' \in 0..MaxChanges
    BY DEF AccessInv, TypeOK, AddRole, Change
  <2>2. UNCHANGED <<clock, offset, enabled, linked, active, tokens, pc, req, answer,
                    unchecked, sawActive>>
    BY DEF AddRole, requests
  <2> QED
    BY <1>1, <1>2, <2>1, <2>2 DEF AccessInv, TypeOK
<1>4. RolesInv'
  BY <1>2 DEF AddRole, RolesInv
<1>5. TokensInv'
  <2>1. clock' = clock /\ clock \in Int /\ tokens' = tokens
    BY <1>1 DEF AddRole, Time
  <2> QED
    BY <1>1, <1>2, <2>1, TokensKeep
<1>6. /\ \A r \in Requests : RequestInv(r)'
      /\ FreshTokensAccepted'
      /\ DeactivatedRefused'
  <2>1. \A r \in Requests :
           /\ sawActive[r] => sawActive'[r]
           /\ pc[r] \in {"verify", "resolve"} /\ linked'[req[r].token.user]
                /\ active'[req[r].token.user] => sawActive'[r]
    BY DEF AccessInv, RequestInv, AddRole
  <2> QED
    BY <2>1, RequestsKeep DEF AddRole
<1> QED
  BY <1>3, <1>4, <1>5, <1>6 DEF AccessInv

LEMMA IssueTokenStep ==
    ASSUME AccessInv, NEW u \in Users, IssueToken(u)
    PROVE  AccessInv'
<1>1. TypeOK'
  BY DEF AccessInv, TypeOK, IssueToken, Token, requests
<1>2. RolesInv'
  BY DEF AccessInv, IssueToken, RolesInv
<1>3. TokensInv'
  <2>1. roles[u] \in SUBSET Roles /\ clock \in Int
    BY DEF AccessInv, TypeOK, Time
  <2>2. \A role \in Roles : roles[u] = {role} => soleAt[u][role] = clock
    BY DEF AccessInv, RolesInv
  <2> QED
    BY <2>1, <2>2 DEF AccessInv, TokensInv, IssueToken
<1>4. /\ \A r \in Requests : RequestInv(r)'
      /\ FreshTokensAccepted'
      /\ DeactivatedRefused'
  <2>1. \A r \in Requests :
           /\ sawActive[r] => sawActive'[r]
           /\ pc[r] \in {"verify", "resolve"} /\ linked'[req[r].token.user]
                /\ active'[req[r].token.user] => sawActive'[r]
    BY DEF AccessInv, RequestInv, IssueToken
  <2> QED
    BY <2>1, RequestsKeep DEF IssueToken
<1> QED
  BY <1>1, <1>2, <1>3, <1>4 DEF AccessInv

LEMMA RemoveRolesStep ==
    ASSUME AccessInv, NEW u \in Users, RemoveRoles(u)
    PROVE  AccessInv'
<1>1. TypeOK'
  BY DEF AccessInv, TypeOK, RemoveRoles, Change, requests
<1>2. RolesInv'
  BY DEF AccessInv, TypeOK, RemoveRoles, RolesInv
<1>3. TokensInv'
  BY DEF AccessInv, TokensInv, RemoveRoles
<1>4. /\ \A r \in Requests : RequestInv(r)'
      /\ FreshTokensAccepted'
      /\ DeactivatedRefused'
  <2>1. \A r \in Requests :
           /\ sawActive[r] => sawActive'[r]
           /\ pc[r] \in {"verify", "resolve"} /\ linked'[req[r].token.user]
                /\ active'[req[r].token.user] => sawActive'[r]
    BY DEF AccessInv, RequestInv, RemoveRoles
  <2> QED
    BY <2>1, RequestsKeep DEF RemoveRoles
<1> QED
  BY <1>1, <1>2, <1>3, <1>4 DEF AccessInv

\* Enabling, activating and linking leave roles and tokens alone; the ghost
\* sawActive follows the two that make a user active.
LEMMA AccountStep ==
    ASSUME AccessInv, NEW u \in Users,
           ReplaceEnabled(u) \/ CommitActive(u) \/ LinkUser(u)
    PROVE  AccessInv'
<1>1. UNCHANGED <<clock, offset, roles, tokens, soleAt, pc, req, answer, unchecked>>
  BY DEF ReplaceEnabled, CommitActive, LinkUser, requests
<1>2. TypeOK'
  <2>1. changes' \in 0..MaxChanges /\ enabled' \in [Users -> BOOLEAN]
    <3>1. CASE ReplaceEnabled(u)
      <4>1. changes' \in 0..MaxChanges
        BY <3>1 DEF AccessInv, TypeOK, ReplaceEnabled, Change
      <4>2. enabled' \in [Users -> BOOLEAN]
        BY <3>1 DEF AccessInv, TypeOK, ReplaceEnabled
      <4> QED
        BY <4>1, <4>2
    <3>2. CASE CommitActive(u)
      BY <3>2 DEF AccessInv, TypeOK, CommitActive, Change
    <3>3. CASE LinkUser(u)
      BY <3>3 DEF AccessInv, TypeOK, LinkUser, Change
    <3> QED
      BY <3>1, <3>2, <3>3
  <2>2. linked' \in [Users -> BOOLEAN] /\ active' \in [Users -> BOOLEAN]
    BY DEF AccessInv, TypeOK, ReplaceEnabled, CommitActive, LinkUser
  <2>3. sawActive' \in [Requests -> BOOLEAN]
    <3>1. CASE ReplaceEnabled(u)
      BY <3>1 DEF AccessInv, TypeOK, ReplaceEnabled
    <3>2. CASE CommitActive(u)
      BY <3>2 DEF AccessInv, TypeOK, CommitActive
    <3>3. CASE LinkUser(u)
      BY <3>3 DEF AccessInv, TypeOK, LinkUser
    <3> QED
      BY <3>1, <3>2, <3>3
  <2> QED
    BY <1>1, <2>1, <2>2, <2>3 DEF AccessInv, TypeOK
<1>3. RolesInv' /\ TokensInv'
  BY <1>1 DEF AccessInv, RolesInv, TokensInv
<1>4. ASSUME NEW r \in Requests
      PROVE  /\ sawActive[r] => sawActive'[r]
             /\ pc[r] \in {"verify", "resolve"} /\ linked'[req[r].token.user]
                  /\ active'[req[r].token.user] => sawActive'[r]
  <2>1. pc[r] \in {"verify", "resolve"} => req[r].token \in tokens
    BY DEF AccessInv, RequestInv, Verified
  <2>2. pc[r] \in {"verify", "resolve"} => req[r].token # None /\ req[r].token.user \in Users
    BY <2>1, NoneIsNoToken DEF AccessInv, TypeOK, Token
  <2>3. pc[r] \in {"verify", "resolve"} /\ linked[req[r].token.user]
            /\ active[req[r].token.user] => sawActive[r]
    BY DEF AccessInv, RequestInv
  <2>4. CASE ReplaceEnabled(u)
    BY <2>3, <2>4 DEF ReplaceEnabled
  <2>5. CASE CommitActive(u)
    BY <2>2, <2>3, <2>5 DEF AccessInv, TypeOK, CommitActive
  <2>6. CASE LinkUser(u)
    BY <2>2, <2>3, <2>6 DEF AccessInv, TypeOK, LinkUser
  <2> QED
    BY <2>4, <2>5, <2>6
<1>5. /\ \A r \in Requests : RequestInv(r)'
      /\ FreshTokensAccepted'
      /\ DeactivatedRefused'
  BY <1>1, <1>4, RequestsKeep DEF requests
<1> QED
  BY <1>2, <1>3, <1>5 DEF AccessInv

-------------------------------------------------------------------------------
(* Steps of a request: the accounts stand still, and so do other requests. *)

\* What a step of request r has to show.
LEMMA RequestStep ==
    ASSUME AccessInv, NEW r \in Requests, UNCHANGED <<clock, offset, accounts>>,
           pc' \in [Requests -> {"idle", "verify", "resolve", "done"}],
           req' \in [Requests -> Request], answer' \in [Requests -> Answers],
           unchecked' \subseteq Requests, sawActive' \in [Requests -> BOOLEAN],
           \A q \in Requests \ {r} :
               /\ pc'[q] = pc[q] /\ req'[q] = req[q] /\ answer'[q] = answer[q]
               /\ sawActive'[q] = sawActive[q] /\ (q \in unchecked => q \in unchecked'),
           RequestInv(r)',
           answer'[r] = "invalid_token" /\ r \notin unchecked' =>
               \/ req'[r].token.roles = {}
               \/ req'[r].verified > req'[r].token.issued + Lifetime,
           answer'[r] = "admitted" => sawActive'[r]
    PROVE  AccessInv'
<1>1. TypeOK' /\ RolesInv' /\ TokensInv'
  BY DEF AccessInv, TypeOK, RolesInv, TokensInv, accounts
<1>2. ASSUME NEW q \in Requests \ {r} PROVE RequestInv(q)'
  BY <1>2 DEF AccessInv, RequestInv, Verified, CapabilitiesForRoles, accounts
<1>3. FreshTokensAccepted' /\ DeactivatedRefused'
  BY DEF AccessInv, FreshTokensAccepted, DeactivatedRefused
<1> QED
  BY <1>1, <1>2, <1>3 DEF AccessInv

LEMMA RequireBearerStep ==
    ASSUME AccessInv, NEW r \in Requests, RequireBearer(r)
    PROVE  AccessInv'
<1>1. PICK route \in Routes :
         \/ /\ answer' = [answer EXCEPT ![r] = "authentication_required"]
            /\ pc' = [pc EXCEPT ![r] = "done"]
            /\ req' = [req EXCEPT ![r].route = route]
            /\ UNCHANGED sawActive
         \/ \E token \in tokens :
            /\ req' = [req EXCEPT ![r].route = route, ![r].token = token]
            /\ pc' = [pc EXCEPT ![r] = "verify"]
            /\ sawActive' = [sawActive EXCEPT ![r] = linked[token.user] /\ active[token.user]]
            /\ UNCHANGED answer
  BY DEF RequireBearer
<1>2. UNCHANGED <<clock, offset, accounts, unchecked>> /\ pc[r] = "idle"
  BY DEF RequireBearer
<1>3. req[r] \in Request /\ answer[r] = "none"
  BY <1>2 DEF AccessInv, TypeOK, RequestInv
<1>4. CASE UNCHANGED sawActive /\ answer' = [answer EXCEPT ![r] = "authentication_required"]
             /\ pc' = [pc EXCEPT ![r] = "done"] /\ req' = [req EXCEPT ![r].route = route]
  <2>1. /\ pc' \in [Requests -> {"idle", "verify", "resolve", "done"}]
        /\ answer' \in [Requests -> Answers]
        /\ sawActive' \in [Requests -> BOOLEAN]
    BY <1>4 DEF AccessInv, TypeOK, Answers
  <2>2. req' \in [Requests -> Request]
    BY <1>3, <1>4 DEF AccessInv, TypeOK, Request
  <2>3. pc'[r] = "done" /\ answer'[r] = "authentication_required"
    BY <1>4 DEF AccessInv, TypeOK
  <2>4. RequestInv(r)'
    BY <2>3 DEF RequestInv
  <2>5. \A q \in Requests \ {r} : pc'[q] = pc[q] /\ req'[q] = req[q] /\ answer'[q] = answer[q]
    BY <1>4 DEF AccessInv, TypeOK
  <2> QED
    BY <1>2, <1>4, <2>1, <2>2, <2>3, <2>4, <2>5, RequestStep DEF AccessInv, TypeOK
<1>5. ASSUME NEW token \in tokens,
             req' = [req EXCEPT ![r].route = route, ![r].token = token],
             pc' = [pc EXCEPT ![r] = "verify"],
             sawActive' = [sawActive EXCEPT ![r] = linked[token.user] /\ active[token.user]],
             UNCHANGED answer
      PROVE  AccessInv'
  <2>1. token \in Token /\ token.user \in Users
    BY DEF AccessInv, TypeOK, Token
  <2>2. (linked[token.user] /\ active[token.user]) \in BOOLEAN
    BY <2>1 DEF AccessInv, TypeOK
  <2>3. /\ pc' \in [Requests -> {"idle", "verify", "resolve", "done"}]
        /\ answer' \in [Requests -> Answers]
    BY <1>5 DEF AccessInv, TypeOK
  <2>4. sawActive' \in [Requests -> BOOLEAN]
    BY <1>5, <2>2 DEF AccessInv, TypeOK
  <2>5. req' \in [Requests -> Request]
    BY <1>3, <1>5, <2>1 DEF AccessInv, TypeOK, Request
  <2>6. pc'[r] = "verify" /\ answer'[r] = "none" /\ req'[r].route = route /\ req'[r].token = token
    BY <1>3, <1>5 DEF AccessInv, TypeOK, Request
  <2>7. sawActive'[r] = (linked[token.user] /\ active[token.user])
    BY <1>5 DEF AccessInv, TypeOK
  <2>8. RequestInv(r)'
    BY <1>2, <2>6, <2>7 DEF RequestInv, accounts
  <2>9. \A q \in Requests \ {r} :
           pc'[q] = pc[q] /\ req'[q] = req[q] /\ sawActive'[q] = sawActive[q]
    BY <1>5 DEF AccessInv, TypeOK
  <2> QED
    BY <1>2, <1>5, <2>3, <2>4, <2>5, <2>6, <2>8, <2>9, RequestStep DEF AccessInv, TypeOK
<1> QED
  BY <1>1, <1>4, <1>5

\* The bound: a token passes while clock and skew allow it.
LEMMA TemporalBounds ==
    ASSUME AccessInv, NEW token \in tokens
    PROVE  /\ ValidTemporalClaims(token) =>
                 clock <= token.issued + Lifetime + Skew + MaxOffset
           /\ ~ValidTemporalClaims(token) => clock > token.issued + Lifetime
<1>1. token.issued \in Int /\ token.issued <= clock /\ clock \in Int
  BY DEF AccessInv, TypeOK, TokensInv, Token, Time
<1>2. offset \in Int /\ -MaxOffset <= offset /\ offset <= MaxOffset /\ MaxOffset <= Skew
  BY DEF AccessInv, TypeOK
<1> QED
  BY <1>1, <1>2 DEF ValidTemporalClaims, ExpiresAt, IssuedAt

LEMMA VerifyStep ==
    ASSUME AccessInv, NEW r \in Requests, Verify(r)
    PROVE  AccessInv'
<1> DEFINE token == req[r].token
<1>1. /\ pc[r] = "verify"
      /\ req' = [req EXCEPT ![r].verified = clock]
      /\ UNCHANGED <<clock, offset, accounts, unchecked, sawActive>>
  BY DEF Verify
<1>2. /\ req[r] \in Request /\ clock \in Time /\ answer[r] = "none"
      /\ token \in tokens /\ req[r].route \in Routes
      /\ linked[token.user] /\ active[token.user] => sawActive[r]
  BY <1>1 DEF AccessInv, TypeOK, RequestInv
<1>3. req' \in [Requests -> Request]
  BY <1>1, <1>2 DEF AccessInv, TypeOK, Request
<1>4. req'[r].verified = clock /\ req'[r].token = token /\ req'[r].route = req[r].route
  BY <1>1, <1>2 DEF AccessInv, TypeOK, Request
<1>5. \A q \in Requests \ {r} : req'[q] = req[q]
  BY <1>1 DEF AccessInv, TypeOK
<1>6. CASE VerifyOutcome(token) = "ok"
  <2>1. pc' = [pc EXCEPT ![r] = "resolve"] /\ UNCHANGED answer
    BY <1>6 DEF Verify
  <2>2. ValidTemporalClaims(token) /\ CapabilitiesForRoles(token) # None
    BY <1>6 DEF VerifyOutcome
  <2>3. clock <= token.issued + Lifetime + Skew + MaxOffset
    BY <1>2, <2>2, TemporalBounds
  <2>4. Verified(r)'
    BY <1>1, <1>2, <1>4, <2>2, <2>3 DEF Verified, CapabilitiesForRoles, accounts, Time
  <2>5. pc'[r] = "resolve" /\ answer'[r] = "none"
    BY <1>2, <2>1 DEF AccessInv, TypeOK
  <2>6. RequestInv(r)'
    BY <1>1, <1>2, <1>4, <2>4, <2>5 DEF RequestInv, accounts
  <2>7. /\ pc' \in [Requests -> {"idle", "verify", "resolve", "done"}]
        /\ \A q \in Requests \ {r} : pc'[q] = pc[q]
    BY <2>1 DEF AccessInv, TypeOK
  <2> QED
    BY <1>1, <1>3, <1>5, <2>1, <2>5, <2>6, <2>7, RequestStep DEF AccessInv, TypeOK
<1>7. CASE VerifyOutcome(token) # "ok"
  <2>1. Answered(r, VerifyOutcome(token))
    BY <1>7 DEF Verify
  <2>2. VerifyOutcome(token) \in {"invalid_token", "forbidden"}
    BY <1>7 DEF VerifyOutcome
  <2>3. VerifyOutcome(token) = "invalid_token" =>
           token.roles = {} \/ clock > token.issued + Lifetime
    BY <1>2, TemporalBounds DEF VerifyOutcome
  <2>4. pc'[r] = "done" /\ answer'[r] = VerifyOutcome(token)
    BY <2>1 DEF Answered, AccessInv, TypeOK
  <2>5. RequestInv(r)'
    BY <1>1, <1>2, <1>4, <2>2, <2>4 DEF RequestInv, accounts
  <2>6. /\ pc' \in [Requests -> {"idle", "verify", "resolve", "done"}]
        /\ answer' \in [Requests -> Answers]
        /\ \A q \in Requests \ {r} : pc'[q] = pc[q] /\ answer'[q] = answer[q]
    BY <2>1, <2>2 DEF Answered, Answers, AccessInv, TypeOK
  <2> QED
    BY <1>1, <1>3, <1>4, <1>5, <2>2, <2>3, <2>4, <2>5, <2>6, RequestStep DEF AccessInv, TypeOK
<1> QED
  BY <1>6, <1>7

LEMMA VerifyWithoutKeysStep ==
    ASSUME AccessInv, NEW r \in Requests, VerifyWithoutKeys(r)
    PROVE  AccessInv'
<1>1. /\ pc[r] = "verify"
      /\ req' = [req EXCEPT ![r].verified = clock]
      /\ unchecked' = unchecked \cup {r}
      /\ UNCHANGED <<clock, offset, accounts, sawActive>>
  BY DEF VerifyWithoutKeys
<1>8. PICK a \in {"invalid_token", "request_timeout"} : Answered(r, a)
  BY DEF VerifyWithoutKeys
<1>2. req[r] \in Request /\ clock \in Time /\ req[r].token \in tokens
  BY <1>1 DEF AccessInv, TypeOK, RequestInv
<1>3. req' \in [Requests -> Request]
  BY <1>1, <1>2 DEF AccessInv, TypeOK, Request
<1>4. req'[r].verified = clock /\ req'[r].token = req[r].token
  BY <1>1, <1>2 DEF AccessInv, TypeOK, Request
<1>5. pc'[r] = "done" /\ answer'[r] = a
  BY <1>8 DEF Answered, AccessInv, TypeOK
<1>6. RequestInv(r)'
  BY <1>1, <1>2, <1>4, <1>5 DEF RequestInv, accounts
<1>7. /\ pc' \in [Requests -> {"idle", "verify", "resolve", "done"}]
      /\ answer' \in [Requests -> Answers]
      /\ unchecked' \subseteq Requests
      /\ \A q \in Requests \ {r} :
            pc'[q] = pc[q] /\ answer'[q] = answer[q] /\ req'[q] = req[q]
  BY <1>1, <1>8 DEF Answered, Answers, AccessInv, TypeOK
<1> QED
  BY <1>1, <1>3, <1>5, <1>6, <1>7, RequestStep DEF AccessInv, TypeOK

LEMMA ResolveStep ==
    ASSUME AccessInv, NEW r \in Requests, Resolve(r)
    PROVE  AccessInv'
<1> DEFINE token == req[r].token
           route == req[r].route
<1>1. /\ pc[r] = "resolve"
      /\ Answered(r, ResolveOutcome(token, route))
      /\ UNCHANGED <<clock, offset, accounts, req, unchecked, sawActive>>
  BY DEF Resolve
<1>2. Verified(r) /\ (linked[token.user] /\ active[token.user] => sawActive[r])
  BY <1>1 DEF AccessInv, RequestInv
<1>3. ResolveOutcome(token, route) \in
         {"identity_not_linked", "account_inactive", "forbidden", "admitted"}
  BY DEF ResolveOutcome
<1>4. ResolveOutcome(token, route) = "admitted" =>
         /\ linked[token.user] /\ active[token.user]
         /\ Permits(CapabilitiesForRoles(token), route)
  BY DEF ResolveOutcome
<1>5. pc'[r] = "done" /\ answer'[r] = ResolveOutcome(token, route)
  BY <1>1 DEF Answered, AccessInv, TypeOK
<1>6. Verified(r)'
  BY <1>1, <1>2 DEF Verified, CapabilitiesForRoles, accounts
<1>7. RequestInv(r)'
  BY <1>1, <1>3, <1>4, <1>5, <1>6 DEF RequestInv, CapabilitiesForRoles
<1>8. /\ pc' \in [Requests -> {"idle", "verify", "resolve", "done"}]
      /\ answer' \in [Requests -> Answers]
      /\ \A q \in Requests \ {r} : pc'[q] = pc[q] /\ answer'[q] = answer[q]
  BY <1>1, <1>3 DEF Answered, Answers, AccessInv, TypeOK
<1> QED
  BY <1>1, <1>2, <1>3, <1>4, <1>5, <1>7, <1>8, RequestStep DEF AccessInv, TypeOK

LEMMA ResolveFailsStep ==
    ASSUME AccessInv, NEW r \in Requests, ResolveFails(r)
    PROVE  AccessInv'
<1>1. UNCHANGED <<clock, offset, accounts, req, unchecked, sawActive>>
  BY DEF ResolveFails
<1>2. PICK a \in {"internal_error", "request_timeout"} : Answered(r, a)
  BY DEF ResolveFails
<1>3. pc'[r] = "done" /\ answer'[r] = a
  BY <1>2 DEF Answered, AccessInv, TypeOK
<1>4. RequestInv(r)'
  BY <1>3 DEF RequestInv
<1>5. /\ pc' \in [Requests -> {"idle", "verify", "resolve", "done"}]
      /\ answer' \in [Requests -> Answers]
      /\ \A q \in Requests \ {r} : pc'[q] = pc[q] /\ answer'[q] = answer[q]
  BY <1>2 DEF Answered, Answers, AccessInv, TypeOK
<1> QED
  BY <1>1, <1>3, <1>4, <1>5, RequestStep DEF AccessInv, TypeOK

-------------------------------------------------------------------------------
(* The theorems. *)

LEMMA InitEstablishes ==
    ASSUME Init
    PROVE  AccessInv
<1>1. clock \in Time /\ roles \in [Users -> SUBSET Roles] /\ changes \in 0..MaxChanges
  BY DEF Init, Time
<1>2. soleAt \in [Users -> [Roles -> Time \cup {Never}]]
  BY DEF Init, Time
<1>3. req \in [Requests -> Request] /\ answer \in [Requests -> Answers]
  BY DEF Init, Request, Answers
<1>4. TypeOK
  BY <1>1, <1>2, <1>3 DEF Init, TypeOK
<1>5. RolesInv
  BY DEF Init, RolesInv, Never
<1>6. TokensInv
  BY DEF Init, TokensInv
<1>7. \A r \in Requests : RequestInv(r)
  BY DEF Init, RequestInv
<1>8. FreshTokensAccepted /\ DeactivatedRefused
  BY DEF Init, FreshTokensAccepted, DeactivatedRefused
<1> QED
  BY <1>4, <1>5, <1>6, <1>7, <1>8 DEF AccessInv

LEMMA StepPreserves ==
    ASSUME AccessInv, [Next]_vars
    PROVE  AccessInv'
<1>1. CASE Tick
  BY <1>1, TickStep
<1>2. ASSUME NEW u \in Users,
             \/ IssueToken(u) \/ RemoveRoles(u) \/ ReplaceEnabled(u) \/ CommitActive(u)
             \/ LinkUser(u)
             \/ \E role \in Roles : AddRole(u, role)
      PROVE  AccessInv'
  BY <1>2, IssueTokenStep, RemoveRolesStep, AccountStep, AddRoleStep
<1>3. ASSUME NEW r \in Requests,
             \/ RequireBearer(r) \/ Verify(r) \/ VerifyWithoutKeys(r)
             \/ Resolve(r) \/ ResolveFails(r)
      PROVE  AccessInv'
  BY <1>3, RequireBearerStep, VerifyStep, VerifyWithoutKeysStep, ResolveStep,
     ResolveFailsStep
<1>4. CASE UNCHANGED vars
  <2>1. TypeOK' /\ RolesInv' /\ TokensInv'
    BY <1>4 DEF vars, AccessInv, TypeOK, RolesInv, TokensInv
  <2>2. \A r \in Requests : RequestInv(r)'
    BY <1>4 DEF vars, AccessInv, RequestInv, Verified, CapabilitiesForRoles
  <2>3. FreshTokensAccepted' /\ DeactivatedRefused'
    BY <1>4 DEF vars, AccessInv, FreshTokensAccepted, DeactivatedRefused, CapabilitiesForRoles
  <2> QED
    BY <2>1, <2>2, <2>3 DEF AccessInv
<1> QED
  BY <1>1, <1>2, <1>3, <1>4 DEF Next

\* AccessInv is an invariant: every token's role was its user's only one when
\* it was issued, and a request that was verified holds a token young enough.
THEOREM AccessInvariant == Spec => []AccessInv
BY InitEstablishes, StepPreserves, PTL DEF Spec

\* The variables keep their types.
THEOREM AccessTypeCorrect == Spec => []TypeOK
<1>1. AccessInv => TypeOK
  BY DEF AccessInv
<1> QED
  BY <1>1, AccessInvariant, PTL

\* For any lifetime, skew and tolerated difference of the clocks, a role
\* admits no request longer than their sum after it was last held.
THEOREM RoleExposureAlwaysBounded == Spec => []RoleExposureBounded
<1>1. AccessInv => RoleExposureBounded
  <2> SUFFICES ASSUME AccessInv, NEW r \in Requests, answer[r] = "admitted"
               PROVE  HeldWithin(r, Lifetime + Skew + MaxOffset)
    BY DEF RoleExposureBounded
  <2>1. Verified(r) /\ Permits(CapabilitiesForRoles(req[r].token), req[r].route)
    BY DEF AccessInv, RequestInv
  <2>2. req[r].token \in tokens /\ req[r].token \in Token
    BY <2>1 DEF Verified, AccessInv, TypeOK
  <2>3. PICK role \in Roles :
           /\ req[r].token.roles = {role}
           /\ CapabilitiesForRoles(req[r].token) = RoleCapabilities[role]
    BY <2>1, <2>2, OneRole DEF Verified
  <2>4. soleAt[req[r].token.user][role] >= req[r].token.issued
    BY <2>2, <2>3 DEF AccessInv, TokensInv
  <2>5. /\ soleAt[req[r].token.user][role] \in Int
        /\ req[r].token.issued \in Int
        /\ req[r].verified \in Int
    BY <2>1, <2>2 DEF AccessInv, TypeOK, Verified, Token, Time, Never
  <2>6. soleAt[req[r].token.user][role] >= req[r].verified - (Lifetime + Skew + MaxOffset)
    BY <2>1, <2>4, <2>5 DEF Verified
  <2> QED
    BY <2>1, <2>3, <2>6 DEF HeldWithin
<1> QED
  BY <1>1, AccessInvariant, PTL

\* For any lifetime and any clocks within the skew, a token whose signature can
\* be checked is called invalid during its lifetime only if it was issued while
\* its user had no managed role.
THEOREM FreshTokensAlwaysAccepted == Spec => []FreshTokensAccepted
<1>1. AccessInv => FreshTokensAccepted
  BY DEF AccessInv
<1> QED
  BY <1>1, AccessInvariant, PTL

\* No request that comes after a committed deactivation is admitted.
THEOREM DeactivatedAlwaysRefused == Spec => []DeactivatedRefused
<1>1. AccessInv => DeactivatedRefused
  BY DEF AccessInv
<1> QED
  BY <1>1, AccessInvariant, PTL
===============================================================================
