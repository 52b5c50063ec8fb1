-------------------------------- MODULE Sessions --------------------------------
(***************************************************************************)
(* The auth service: users, Nostr identities, refresh-token sessions, and  *)
(* the role that an access token carries to the other services.            *)
(*                                                                         *)
(* A request is a sequence of committed statements and may fail between    *)
(* any two, or lose its answer after the last.  Rows are named after the   *)
(* request that made them: user q, session q and token q come from q.      *)
(* Passwords, signatures and TOTP codes are right.                         *)
(***************************************************************************)
EXTENDS Integers, FiniteSets

CONSTANTS
    Founders,      \* users there are at the start, with their roles
    FounderRole,
    Registers, Logins, NostrLogins, Refreshes, Logouts, RoleUpdates, Enables,
    Credential,    \* the email or public key a user or request has
    TargetOf, NewRoleOf,   \* what each role update asks for
    NoUser, NoCredential,
    AccessTTL, RefreshTTL,
    MaxNow         \* bound: how far time goes

Issuing == Registers \cup Logins \cup NostrLogins \cup Refreshes
AuthRequests == Issuing \cup Logouts \cup RoleUpdates \cup Enables
Roles == {"user", "seller", "admin", "auditor"}
UserIds == Founders \cup Registers \cup NostrLogins

\* The codes of a secret are named after it, and it after the request that made it.
NoCode == "no code"

\* A request is of one kind, and no founder is a request.
Kinds == <<Founders, Registers, Logins, NostrLogins, Refreshes, Logouts, RoleUpdates, Enables>>
OneKind == \A i, j \in 1..8 : i # j => Kinds[i] \cap Kinds[j] = {}

ASSUME SessionAssumption ==
    /\ OneKind /\ Enables \cap {"none", NoCode} = {}
    /\ FounderRole \in [Founders -> Roles]
    /\ DOMAIN Credential = Founders \cup Registers \cup Logins \cup NostrLogins
    /\ TargetOf \in [RoleUpdates -> UserIds] /\ NewRoleOf \in [RoleUpdates -> Roles]
    /\ NoUser \notin UserIds
    /\ \A x, y \in Founders : Credential[x] = Credential[y] => x = y
    /\ \A x \in DOMAIN Credential : Credential[x] # NoCredential
    /\ \A n \in NostrLogins, x \in DOMAIN Credential \ NostrLogins : Credential[n] # Credential[x]
    /\ AccessTTL \in Nat /\ RefreshTTL \in Nat /\ MaxNow \in Nat

VARIABLES
    present,    \* the requests of this behaviour, chosen once
    now,
    users,      \* users: email, role and totp_secret of each row
    linked,     \* nostr_identities: public key to user
    sessions,   \* refresh_token_sessions
    claims,     \* the claims of the token pairs issued
    stage,      \* where each request is
    seen,       \* the users row it has read
    presented,  \* the refresh token it came with
    lastHeld,   \* history: the last moment a user had a role
    overlapped  \* history: users for whom two enabling requests were at work at once

sessionVars ==
    <<present, now, users, linked, sessions, claims, stage, seen, presented, lastHeld, overlapped>>

NoRow == [user |-> NoUser, role |-> "user", at |-> 0]

SessionInit ==
    /\ now = 0 /\ linked = <<>> /\ sessions = <<>> /\ claims = <<>> /\ overlapped = {}
    /\ users = [u \in Founders |->
          [email |-> Credential[u], role |-> FounderRole[u], secret |-> "none"]]
    /\ stage = [q \in AuthRequests |-> "idle"]
    /\ seen = [q \in AuthRequests |-> NoRow]
    /\ presented = [q \in AuthRequests |-> "none"]
    /\ lastHeld = [u \in UserIds |-> [r \in Roles |-> -1]]

\* A table with the row of a new key.
Insert(table, key, row) ==
    [k \in DOMAIN table \cup {key} |-> IF k = key THEN row ELSE table[k]]

Goes(q, s) == stage' = [stage EXCEPT ![q] = s]
At(q, s) == q \in present /\ stage[q] = s
RowOf(u) == [user |-> u, role |-> users[u].role, at |-> now]
WithEmail(e) == {u \in DOMAIN users : users[u].email = e}

\* The last step of a request, answered or not.
Finishes(q) == Goes(q, "answered") \/ Goes(q, "failed")

\* The service dies, or the database does, between two steps of a request.
RequestFails(q) ==
    /\ q \in present /\ stage[q] \in {"create", "link", "issue", "rotate", "enable"}
    /\ Goes(q, "failed")
    /\ UNCHANGED <<present, now, users, linked, sessions, claims, seen, presented,
                   lastHeld, overlapped>>

ClockAdvances ==
    /\ present # {} /\ now < MaxNow /\ now' = now + 1
    /\ UNCHANGED <<present, users, linked, sessions, claims, stage, seen, presented,
                   lastHeld, overlapped>>

-----------------------------------------------------------------------------
(* Tokens and sessions                                                     *)

\* create_access_token, create_refresh_token: the role of the row that was read.
Claims(q) == [user |-> seen[q].user, role |-> seen[q].role, issued |-> now, read |-> seen[q].at]

\* decode_token: expired when exp < now
AccessValid(t) == now <= claims[t].issued + AccessTTL
RefreshValid(t) == now <= claims[t].issued + RefreshTTL

\* _get_current_principal of the admin, tokenization, education and marketplace services takes
\* the role from the token; the auth service looks at the row.
RequireAdmin(t) == AccessValid(t) /\ claims[t].role = "admin"
RequireSeller(t) == AccessValid(t) /\ claims[t].role \in {"seller", "admin"}
RequireRoles(t, roles) == AccessValid(t) /\ users[claims[t].user].role \in roles

\* Clients know the tokens of the answers they got.
Known == {t \in DOMAIN claims : stage[t] = "answered"}

NewSession(q, login) ==
    [user |-> seen[q].user, login |-> login, expires |-> now + RefreshTTL, revoked |-> FALSE]

\* The WHERE of rotate_refresh_session and revoke_refresh_session.
Live(s) == ~sessions[s].revoked /\ sessions[s].expires > now

\* _issue_auth_response: token pair and session of a register, login or Nostr login.
IssueAuthResponse(q) ==
    /\ At(q, "issue")
    /\ claims' = Insert(claims, q, Claims(q))
    /\ sessions' = Insert(sessions, q, NewSession(q, q))
    /\ Finishes(q)
    /\ UNCHANGED <<present, now, users, linked, seen, presented, lastHeld, overlapped>>

-----------------------------------------------------------------------------
(* POST /auth/register, /auth/login, /auth/nostr                           *)

NewUser(email) == [email |-> email, role |-> "user", secret |-> "none"]

RegisterRead(q) ==
    /\ At(q, "idle")
    /\ Goes(q, IF WithEmail(Credential[q]) = {} THEN "create" ELSE "refused")
    /\ UNCHANGED <<present, now, users, linked, sessions, claims, seen, presented,
                   lastHeld, overlapped>>

\* Mutant: email is not UNIQUE.
CreateAnyUser(q) ==
    /\ At(q, "create") /\ Goes(q, "issue")
    /\ users' = Insert(users, q, NewUser(Credential[q]))
    /\ seen' = [seen EXCEPT ![q] = [user |-> q, role |-> "user", at |-> now]]
    /\ UNCHANGED <<present, now, linked, sessions, claims, presented, lastHeld, overlapped>>

\* create_user; the unique email is answered with 409 email_taken.
CreateUser(q) ==
    /\ At(q, "create")
    /\ \/ /\ WithEmail(Credential[q]) = {} /\ Goes(q, "issue")
          /\ users' = Insert(users, q, NewUser(Credential[q]))
          /\ seen' = [seen EXCEPT ![q] = [user |-> q, role |-> "user", at |-> now]]
       \/ /\ WithEmail(Credential[q]) # {} /\ Goes(q, "refused")
          /\ UNCHANGED <<users, seen>>
    /\ UNCHANGED <<present, now, linked, sessions, claims, presented, lastHeld, overlapped>>

Register(q) == RegisterRead(q) \/ CreateUser(q) \/ IssueAuthResponse(q)

LoginRead(q) ==
    /\ At(q, "idle")
    /\ \/ \E u \in WithEmail(Credential[q]) :
             seen' = [seen EXCEPT ![q] = RowOf(u)] /\ Goes(q, "issue")
       \/ WithEmail(Credential[q]) = {} /\ Goes(q, "refused") /\ UNCHANGED seen
    /\ UNCHANGED <<present, now, users, linked, sessions, claims, presented, lastHeld, overlapped>>

Login(q) == LoginRead(q) \/ IssueAuthResponse(q)

NostrRead(q) ==
    /\ At(q, "idle")
    /\ \/ /\ Credential[q] \in DOMAIN linked
          /\ seen' = [seen EXCEPT ![q] = RowOf(linked[Credential[q]])] /\ Goes(q, "issue")
       \/ Credential[q] \notin DOMAIN linked /\ Goes(q, "create") /\ UNCHANGED seen
    /\ UNCHANGED <<present, now, users, linked, sessions, claims, presented, lastHeld, overlapped>>

\* create_nostr_user commits a user without a credential.
CreateNostrUser(q) ==
    /\ At(q, "create") /\ Goes(q, "link")
    /\ users' = Insert(users, q, NewUser(NoCredential))
    /\ seen' = [seen EXCEPT ![q] = [user |-> q, role |-> "user", at |-> now]]
    /\ UNCHANGED <<present, now, linked, sessions, claims, presented, lastHeld, overlapped>>

\* Mutant: pubkey is not UNIQUE.
LinkAnyIdentity(q) ==
    /\ At(q, "link") /\ Goes(q, "issue")
    /\ linked' = Insert(linked, Credential[q], q)
    /\ UNCHANGED <<present, now, users, sessions, claims, seen, presented, lastHeld, overlapped>>

\* create_nostr_identity: the unique pubkey is an unhandled error and leaves the user without it.
CreateNostrIdentity(q) ==
    /\ At(q, "link")
    /\ \/ /\ Credential[q] \notin DOMAIN linked /\ Goes(q, "issue")
          /\ linked' = Insert(linked, Credential[q], q)
       \/ Credential[q] \in DOMAIN linked /\ Goes(q, "failed") /\ UNCHANGED linked
    /\ UNCHANGED <<present, now, users, sessions, claims, seen, presented, lastHeld, overlapped>>

NostrLogin(q) ==
    NostrRead(q) \/ CreateNostrUser(q) \/ CreateNostrIdentity(q) \/ IssueAuthResponse(q)

-----------------------------------------------------------------------------
(* POST /auth/refresh, /auth/logout                                        *)

\* Mutant: the role comes from the refresh token.
RefreshFromClaims(q) ==
    /\ At(q, "idle")
    /\ \E t \in Known :
          /\ RefreshValid(t) /\ presented' = [presented EXCEPT ![q] = t]
          /\ seen' = [seen EXCEPT ![q] = [user |-> claims[t].user, role |-> claims[t].role, at |-> now]]
          /\ Goes(q, "rotate")
    /\ UNCHANGED <<present, now, users, linked, sessions, claims, lastHeld, overlapped>>

RefreshRead(q) ==
    /\ At(q, "idle")
    /\ \E t \in Known :
          /\ presented' = [presented EXCEPT ![q] = t]
          /\ \/ /\ RefreshValid(t) /\ Goes(q, "rotate")
                /\ seen' = [seen EXCEPT ![q] = RowOf(claims[t].user)]
             \/ ~RefreshValid(t) /\ Goes(q, "refused") /\ UNCHANGED seen
    /\ UNCHANGED <<present, now, users, linked, sessions, claims, lastHeld, overlapped>>

\* Mutant: a session that was revoked or replaced is rotated again.
RotateUnguarded(q) ==
    LET s == presented[q] IN
    /\ At(q, "rotate") /\ Finishes(q)
    /\ sessions' = Insert([sessions EXCEPT ![s].revoked = TRUE], q,
                          NewSession(q, sessions[s].login))
    /\ claims' = Insert(claims, q, Claims(q))
    /\ UNCHANGED <<present, now, users, linked, seen, presented, lastHeld, overlapped>>

\* rotate_refresh_session: revoke the old and insert the new session in one transaction.
RotateRefreshSession(q) ==
    LET s == presented[q] IN
    /\ At(q, "rotate")
    /\ \/ /\ Live(s) /\ Finishes(q)
          /\ sessions' = Insert([sessions EXCEPT ![s].revoked = TRUE], q,
                                NewSession(q, sessions[s].login))
          /\ claims' = Insert(claims, q, Claims(q))
       \/ ~Live(s) /\ Goes(q, "refused") /\ UNCHANGED <<sessions, claims>>
    /\ UNCHANGED <<present, now, users, linked, seen, presented, lastHeld, overlapped>>

Refresh(q) == RefreshRead(q) \/ RotateRefreshSession(q)

RevokeRefreshSession(t) ==
    Live(t) /\ sessions' = [sessions EXCEPT ![t].revoked = TRUE]

\* A session that is gone is refused.
Logout(q) ==
    /\ At(q, "idle")
    /\ \E t \in Known :
          /\ presented' = [presented EXCEPT ![q] = t]
          /\ \/ RefreshValid(t) /\ RevokeRefreshSession(t) /\ Finishes(q)
             \/ /\ ~(RefreshValid(t) /\ Live(t)) /\ Goes(q, "refused")
                /\ UNCHANGED sessions
    /\ UNCHANGED <<present, now, users, linked, claims, seen, lastHeld, overlapped>>

-----------------------------------------------------------------------------
(* PATCH /users/{id} of the admin service; POST /auth/2fa/enable           *)

\* Its answer may be lost after the commit; record_audit_event raises nothing.
UpdateUserRole(q) ==
    LET u == TargetOf[q] IN
    /\ At(q, "idle") /\ u \in DOMAIN users
    /\ \E t \in Known : RequireAdmin(t)
    /\ users' = [users EXCEPT ![u].role = NewRoleOf[q]]
    /\ lastHeld' = [lastHeld EXCEPT ![u][users[u].role] = now]
    /\ Finishes(q)
    /\ UNCHANGED <<present, now, linked, sessions, claims, seen, presented, overlapped>>

Enabling(u) == {q \in Enables : stage[q] = "enable" /\ seen[q].user = u}

\* Mutant: an enabled second factor is replaced.
EnableAlways(q) ==
    /\ At(q, "idle")
    /\ \E t \in Known :
          /\ AccessValid(t) /\ Goes(q, "enable")
          /\ seen' = [seen EXCEPT ![q] = RowOf(claims[t].user)]
          /\ overlapped' = overlapped \cup
                {u \in {claims[t].user} : Enabling(u) # {}}
    /\ UNCHANGED <<present, now, users, linked, sessions, claims, presented, lastHeld>>

\* get_user_2fa_secret: 409 when there is one
EnableRead(q) ==
    /\ At(q, "idle")
    /\ \E t \in Known :
          LET u == claims[t].user IN
          /\ AccessValid(t)
          /\ \/ /\ users[u].secret = "none" /\ Goes(q, "enable")
                /\ seen' = [seen EXCEPT ![q] = RowOf(u)]
                /\ overlapped' = IF Enabling(u) = {} THEN overlapped ELSE overlapped \cup {u}
             \/ /\ users[u].secret # "none" /\ Goes(q, "refused")
                /\ UNCHANGED <<seen, overlapped>>
    /\ UNCHANGED <<present, now, users, linked, sessions, claims, presented, lastHeld>>

\* enable_2fa writes without a condition.
EnableWrite(q) ==
    /\ At(q, "enable") /\ Finishes(q)
    /\ users' = [users EXCEPT ![seen[q].user].secret = q]
    /\ UNCHANGED <<present, now, linked, sessions, claims, seen, presented, lastHeld, overlapped>>

Enable2FA(q) == EnableRead(q) \/ EnableWrite(q)

\* Before a disbursement, a resolution or a signature: asked of those only who have a secret.
Check2FA(u, code) == users[u].secret # "none" => code = users[u].secret

\* Before a Lightning payment, by the wallet service.
Require2FA(u, code) == users[u].secret = "none" \/ code = users[u].secret

\* POST /auth/2fa/verify
VerifyTwoFactor(u, code) == users[u].secret # "none" /\ code = users[u].secret

SessionNext ==
    \/ ClockAdvances
    \/ \E q \in AuthRequests : RequestFails(q)
    \/ \E q \in Registers : Register(q)
    \/ \E q \in Logins : Login(q)
    \/ \E q \in NostrLogins : NostrLogin(q)
    \/ \E q \in Refreshes : Refresh(q)
    \/ \E q \in Logouts : Logout(q)
    \/ \E q \in RoleUpdates : UpdateUserRole(q)
    \/ \E q \in Enables : Enable2FA(q)
=============================================================================
