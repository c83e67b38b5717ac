------------------------------ MODULE Sessions ------------------------------
(***************************************************************************)
(* Sessions end to end: the handlers that call the refresh token store     *)
(* (internal/auth/handler/rpc/auth_handler.go and                          *)
(* internal/auth/handler/http/oauth_handler.go), the access tokens that    *)
(* they issue next to it (internal/auth/adapter/jwt/issuer.go), the        *)
(* interceptor that reads them back, and the clients that keep both.       *)
(*                                                                         *)
(* Goroutine c serves one request at a time; its calls of the store are    *)
(* the steps of RefreshTokens.  A client keeps its tokens in cookies after *)
(* a login through a provider, and holds them itself after a login by      *)
(* email.  Requests and access tokens age in ticks of a few minutes, the   *)
(* keys of the store in ticks of days.                                     *)
(***************************************************************************)
EXTENDS RefreshTokens

CONSTANTS
  Browsers,    \* clients; each has a User-Agent and an address of its own
  Proxied,     \* those of them that come through a proxy, which sets
               \* X-Forwarded-For
  Roles,       \* the roles that members are given; "none" without membership
  AccessTTL,   \* accessTokenTTL, 15 minutes, in ticks
  MaxDelay     \* a request takes at most so many ticks

Addresses == {"forwarded", "remote", "", "unknown"}

ASSUME SessionsAssumption ==
  /\ Browsers # {} /\ Proxied \subseteq Browsers
  /\ Browsers \X Addresses \subseteq Fingerprints
  /\ {"ADMIN", "none"} \subseteq Roles
  /\ AccessTTL \in Nat \ {0} /\ MaxDelay \in Nat

VARIABLES
  h,        \* h[c]: the handler that goroutine c runs
  jar,      \* jar[b]: the tokens that client b keeps
  role,     \* role[u]: the role of user u in the workspace (table memberships)
  aged,     \* history: aged[u][r]: ticks since user u last had role r, capped
  unlisted  \* history: tokens that were alive when they lost their index entry

sessionVars == <<h, jar, role, aged, unlisted>>
allVars == <<vars, sessionVars>>

-----------------------------------------------------------------------------
(* Roles and access tokens.                                                *)

\* roleHierarchy
roleHierarchy == [VIEWER |-> 1, MEMBER |-> 2, ADMIN |-> 3, OWNER |-> 4]
NoRole == "none"

isRoleSufficient(r, min) ==
  /\ r \in DOMAIN roleHierarchy /\ min \in DOMAIN roleHierarchy
  /\ roleHierarchy[r] >= roleHierarchy[min]

\* An error of GetUserWorkspaces is dropped and leaves no roles.
buildRoles(u) == {role[u], NoRole}

Anyone == CHOOSE u \in Users : TRUE
AccessToken == [user : Users, role : Roles, life : 0..AccessTTL]
NoAccess == [user |-> Anyone, role |-> NoRole, life |-> 0]
IssueAccessToken(u, r) == [user |-> u, role |-> r, life |-> AccessTTL]

NoTokens == [rt |-> NoToken, at |-> NoAccess, cookies |-> FALSE]
NoHandler == [op |-> "none", b |-> CHOOSE b \in Browsers : TRUE, user |-> Anyone,
              role |-> NoRole, claims |-> FALSE, new |-> NoToken, age |-> 0]
Ops == {"none", "otp", "oauth", "refresh", "user", "sign", "logout", "logoutAll"}
LongAgo == AccessTTL + MaxDelay

SessionsTypeOK ==
  /\ TypeOK
  /\ h \in [Clients -> [op : Ops, b : Browsers, user : Users, role : Roles,
                        claims : BOOLEAN, new : 0..MaxTokens, age : 0..MaxDelay]]
  /\ jar \in [Browsers -> [rt : 0..MaxTokens, at : AccessToken, cookies : BOOLEAN]]
  /\ role \in [Users -> Roles]
  /\ aged \in [Users -> [Roles -> 0..LongAgo]]
  /\ unlisted \subseteq Tokens

SessionsInit ==
  /\ Init
  /\ h = [c \in Clients |-> NoHandler]
  /\ jar = [b \in Browsers |-> NoTokens]
  /\ role = [u \in Users |-> "ADMIN"]
  /\ aged = [u \in Users |-> [r \in Roles |-> IF r = "ADMIN" THEN 0 ELSE LongAgo]]
  /\ unlisted = {}

-----------------------------------------------------------------------------
(* What a client sends.                                                    *)

\* The User-Agent and the address, hashed.
BuildFingerprint(b, ip) == <<b, ip>>

\* The address of a request as the callbacks see it, and as RefreshToken does.
extractClientIP(b) == IF b \in Proxied THEN "forwarded" ELSE "remote"

\* Faulty variant: the proxy's header is not looked at.
extractIPDirect(b) == "unknown"

extractIP(b) == IF b \in Proxied THEN "forwarded" ELSE "unknown"

\* Path attributes of the cookies, matched by the browser against the route.
PathMatch(path, route) == path \in {"/", route}
RefreshCookiePath == "/auth/token"

\* Validate accepts an access token that has not expired.
Validate(b) == jar[b].at.life > 0

\* Whether the handler finds claims: an expired token ends the request, and
\* without a token it goes on without claims.
NewAuthInterceptor(b) == {FALSE} \cup (IF Validate(b) THEN {TRUE} ELSE {})

\* The role is that of the token.
RequireWorkspaceRole(b, min) == Validate(b) /\ isRoleSufficient(jar[b].at.role, min)

Begin(c, b, op, u, r, claims) ==
  h' = [h EXCEPT ![c] = [NoHandler EXCEPT !.op = op, !.b = b, !.user = u,
                                          !.role = r, !.claims = claims]]

End(c) == h' = [h EXCEPT ![c] = NoHandler]

KeepUsers == UNCHANGED <<role, aged>>

-----------------------------------------------------------------------------
(* The handlers up to their call of the store.                             *)

\* The roles are read, then Issue is called, then the access token is signed.
issueTokenResponse(c, b, u, r) ==
  /\ h[c].op = "none" /\ r \in buildRoles(u)
  /\ IssueFor(c, u, BuildFingerprint(b, IF b \in Proxied THEN "forwarded" ELSE ""))
  /\ Begin(c, b, "otp", u, r, FALSE)
  /\ KeepUsers /\ UNCHANGED <<jar, unlisted>>

issueTokensAndRedirect(c, b, u, r) ==
  /\ h[c].op = "none" /\ r \in buildRoles(u)
  /\ IssueFor(c, u, BuildFingerprint(b, extractClientIP(b)))
  /\ Begin(c, b, "oauth", u, r, FALSE)
  /\ KeepUsers /\ UNCHANGED <<jar, unlisted>>

\* RefreshToken calls Rotate before it looks at its claims.
RefreshToken(c, b, claims) ==
  /\ h[c].op = "none" /\ jar[b].rt # NoToken /\ ~jar[b].cookies
  /\ claims \in NewAuthInterceptor(b)
  /\ RotateWith(c, jar[b].rt, BuildFingerprint(b, extractIP(b)))
  /\ Begin(c, b, "refresh", jar[b].at.user, NoRole, claims)
  /\ KeepUsers /\ UNCHANGED <<jar, unlisted>>

\* Logout; Revoke does nothing for a token that is gone.
Logout(c, b, claims) ==
  /\ h[c].op = "none" /\ jar[b].rt # NoToken /\ ~jar[b].cookies
  /\ claims \in NewAuthInterceptor(b)
  /\ IF Live(jar[b].rt)
     THEN /\ RevokeToken(c, jar[b].rt)
          /\ Begin(c, b, "logout", jar[b].at.user, NoRole, claims)
          /\ UNCHANGED jar
     ELSE jar' = [jar EXCEPT ![b] = NoTokens] /\ UNCHANGED <<vars, h>>
  /\ KeepUsers /\ UNCHANGED unlisted

\* LogoutAll needs claims; they come with the cookies too.
LogoutAll(c, b) ==
  /\ h[c].op = "none" /\ Validate(b)
  /\ RevokeAllOf(c, jar[b].at.user)
  /\ Begin(c, b, "logoutAll", jar[b].at.user, NoRole, TRUE)
  /\ KeepUsers /\ UNCHANGED <<jar, unlisted>>

\* GET /auth/logout: the token of the refresh cookie is revoked if the browser
\* sends it, and both cookies are cleared.
HTTPLogout(c, b) ==
  LET sent == PathMatch(RefreshCookiePath, "/auth/logout")
      t == jar[b].rt
  IN  /\ h[c].op = "none" /\ jar[b].cookies
      /\ IF sent /\ Live(t)
         THEN /\ RevokeToken(c, t)
              /\ Begin(c, b, "logout", jar[b].at.user, NoRole, FALSE)
              /\ UNCHANGED jar
         ELSE /\ jar' = [jar EXCEPT ![b] = NoTokens]
              /\ UNCHANGED <<vars, h>>
      /\ KeepUsers /\ UNCHANGED unlisted

-----------------------------------------------------------------------------
(* The calls of the store, and the handlers after them.                    *)

\* The tokens that lose their index entry and stay alive.
NoteUnlisted ==
  unlisted' = unlisted \cup
    {t \in Tokens : Live(t)' /\ \E u \in Users : t \in index[u].members \ index'[u].members}

StoreStep(c) ==
  /\ \/ Serve(c) \/ CallFails(c) \/ ReplyLost(c)
     \/ EnforceFails(c) \/ EnforceGetFails(c) \/ EnforceWriteFails(c)
  /\ NoteUnlisted

Returns(c) == req'[c].pc = "idle"

\* The token that the store returns; NoToken with an error.
Returned(c) == IF held' = held THEN NoToken ELSE req[c].new

Working(c) ==
  /\ StoreStep(c) /\ ~Returns(c)
  /\ UNCHANGED <<h, jar, role, aged>>

\* What a client held before is forgotten.
Store(b, t, at, cookies) ==
  jar' = [jar EXCEPT ![b] = [rt |-> t, at |-> at, cookies |-> cookies]]

\* The client gets both tokens, or nothing if one of them could not be made: a
\* refresh token that was written before the access token failed stays valid.
LoginReturns(c) ==
  LET x == h[c]
      t == Returned(c)
  IN  /\ x.op \in {"otp", "oauth"} /\ StoreStep(c) /\ Returns(c)
      /\ \/ UNCHANGED jar
         \/ t # NoToken /\ Store(x.b, t, IssueAccessToken(x.user, x.role), x.op = "oauth")
      /\ End(c)
      /\ KeepUsers

\* Without claims the request fails, after the rotation.
RotateReturns(c) ==
  LET x == h[c]
      t == Returned(c)
  IN  /\ x.op = "refresh" /\ StoreStep(c) /\ Returns(c)
      /\ IF t # NoToken /\ x.claims
         THEN h' = [h EXCEPT ![c].op = "user", ![c].new = t]
         ELSE End(c)
      /\ KeepUsers /\ UNCHANGED jar

\* A deleted user is not found; that, like any other error, ends the request.
GetByID(c) ==
  /\ h[c].op = "user"
  /\ h' = [h EXCEPT ![c].op = "sign"] \/ End(c)
  /\ KeepUsers /\ UNCHANGED <<vars, jar, unlisted>>

\* Faulty variant: the roles are taken from the old access token.
SignOldRoles(c) ==
  LET x == h[c]
  IN  /\ x.op = "sign"
      /\ Store(x.b, x.new, IssueAccessToken(x.user, jar[x.b].at.role), FALSE)
      /\ End(c)
      /\ KeepUsers /\ UNCHANGED <<vars, unlisted>>

\* The client gets both new tokens, or nothing if the access token cannot be made.
Sign(c) ==
  LET x == h[c]
  IN  /\ x.op = "sign"
      /\ \/ UNCHANGED jar
         \/ \E r \in buildRoles(x.user) : Store(x.b, x.new, IssueAccessToken(x.user, r), FALSE)
      /\ End(c)
      /\ KeepUsers /\ UNCHANGED <<vars, unlisted>>

\* "Success", whatever the store reports.  A client that holds its tokens itself
\* forgets them; cookies are cleared by GET /auth/logout only.
LogoutReturns(c) ==
  /\ h[c].op \in {"logout", "logoutAll"} /\ StoreStep(c) /\ Returns(c)
  /\ jar' = IF h[c].op = "logoutAll" /\ jar[h[c].b].cookies THEN jar
            ELSE [jar EXCEPT ![h[c].b] = NoTokens]
  /\ End(c)
  /\ KeepUsers

-----------------------------------------------------------------------------
(* What happens meanwhile.                                                 *)

SetRole(u, r) ==
  /\ r # role[u]
  /\ role' = [role EXCEPT ![u] = r]
  /\ aged' = [aged EXCEPT ![u][r] = 0]
  /\ UNCHANGED <<vars, h, jar, unlisted>>

\* Table workspace_memberships.
Upsert(u, r) == r # NoRole /\ SetRole(u, r)
RemoveMember(u) == SetRole(u, NoRole)

\* Minutes pass.  A cookie vanishes with its access token (MaxAge).
AgeAccess(j) ==
  IF j.at.life = 0 THEN j
  ELSE IF j.cookies /\ j.at.life = 1 THEN [j EXCEPT !.at = NoAccess]
  ELSE [j EXCEPT !.at.life = @ - 1]

AgeRole(u, r) == IF r = role[u] THEN 0 ELSE IF aged[u][r] = LongAgo THEN LongAgo ELSE aged[u][r] + 1

SessionsTick ==
  /\ \A c \in Clients : h[c].op # "none" => h[c].age < MaxDelay
  /\ h' = [c \in Clients |-> IF h[c].op = "none" THEN h[c] ELSE [h[c] EXCEPT !.age = @ + 1]]
  /\ jar' = [b \in Browsers |-> AgeAccess(jar[b])]
  /\ aged' = [u \in Users |-> [r \in Roles |-> AgeRole(u, r)]]
  /\ UNCHANGED <<vars, role, unlisted>>

\* A day passes in Redis, maybe while requests are served.  Access tokens are
\* left alone: a client that keeps refreshing has a fresh one on every day.
Expires ==
  /\ Tick /\ NoteUnlisted
  /\ UNCHANGED <<h, jar, role, aged>>

-----------------------------------------------------------------------------
Handle(c) ==
  \/ Working(c) \/ LoginReturns(c) \/ RotateReturns(c) \/ LogoutReturns(c)
  \/ GetByID(c) \/ Sign(c)

SessionsNext ==
  \/ \E c \in Clients, b \in Browsers :
       \/ \E u \in Users, r \in Roles :
            issueTokenResponse(c, b, u, r) \/ issueTokensAndRedirect(c, b, u, r)
       \/ \E claims \in BOOLEAN : RefreshToken(c, b, claims) \/ Logout(c, b, claims)
       \/ LogoutAll(c, b) \/ HTTPLogout(c, b)
  \/ \E c \in Clients : Handle(c)
  \/ \E u \in Users : RemoveMember(u) \/ \E r \in Roles : Upsert(u, r)
  \/ SessionsTick \/ Expires

SessionsSpec == SessionsInit /\ [][SessionsNext]_allVars

-----------------------------------------------------------------------------
(* Properties.                                                             *)

\* "Logout revokes a single refresh token", "LogoutAll revokes all sessions":
\* what was alive when they were called is dead when they say "success" after no
\* call of theirs failed, whatever other requests issue, rotate and revoke meanwhile.
\* LogoutAll goes by the index: it misses the tokens that have lost their entry
\* there, of which EntryLost says how.
LogoutEnds ==
  [][\A c \in Clients :
       faults' = faults /\ h[c].op \in {"logout", "logoutAll"} /\ h'[c].op = "none" =>
         \A t \in (req[c].targets \ unlisted) \cup ({req[c].tok} \ {NoToken}) : ~Live(t)']_allVars

\* A token that is alive loses its index entry, and so becomes invisible to
\* LogoutAll and to the session limit, in three ways only: the index of its owner
\* expires before it, which a rotated token may see (Rotate writes it for a full TTL
\* and leaves that of the index alone) and a token from a login never; a RevokeAll
\* that was called before the token was written deletes the index with its
\* entry; or the GET of enforceMaxSessions fails and is taken for "expired".
EntryLost ==
  [][\A t \in unlisted' \ unlisted :
       \/ UNCHANGED req /\ data[t].parent # NoToken
       \/ \E c \in Clients :
            \/ req[c].pc = "revokeAllExec" /\ req[c].user = data[t].user /\ t \notin req[c].targets
            \/ req[c].pc = "srem" /\ req[c].tok = t /\ faults > 0]_allVars

\* A client behind a proxy that uses its own token is never taken for another
\* one, whichever handler logged it in.  (Without a proxy the login by email
\* hashes the address "" and the refresh "unknown": every first refresh is a
\* mismatch and revokes all sessions.)
ProxiedNeverMismatch ==
  \A c \in Clients : h[c].op = "refresh" /\ h[c].b \in Proxied => req[c].pc = "rotateExec"

\* Roles are read when a token is issued and checked in the token: whoever is
\* let in by RequireWorkspaceRole had such a role within the lifetime of an access
\* token and of the request that issued it, however roles and tokens change.
AuthorizedRecently ==
  \A b \in Browsers, min \in Roles :
    RequireWorkspaceRole(b, min) =>
      \E r \in Roles :
        isRoleSufficient(r, min) /\ aged[jar[b].at.user][r] < AccessTTL + MaxDelay
=============================================================================
