---------------------------- MODULE Identity_proofs ----------------------------
(***************************************************************************)
(* Proofs about Identity, for every set of users and requests and whatever *)
(* the limits are.                                                         *)
(*                                                                         *)
(* A request holds a users row, or a refresh token, that it read before    *)
(* other requests committed.  SInv says what such a row still tells of the *)
(* tables, which is what the properties of the answers follow from.        *)
(***************************************************************************)
EXTENDS Identity, WellFoundedInduction, TLAPS

Credentials == {Credential[x] : x \in DOMAIN Credential} \cup {NoCredential}
Stages == {"idle", "create", "link", "issue", "rotate", "enable", "answered", "refused", "failed"}
UserRow == [email : Credentials, role : Roles, secret : Enables \cup {"none"}]
SessionRow == [user : UserIds, login : Issuing, expires : Nat, revoked : BOOLEAN]
ClaimRow == [user : UserIds, role : Roles, issued : Nat, read : Nat]
SeenRow == [user : UserIds \cup {NoUser}, role : Roles, at : Nat]

Types ==
    /\ present \subseteq AuthRequests /\ now \in Nat
    /\ users \in [DOMAIN users -> UserRow] /\ DOMAIN users \subseteq UserIds
    /\ linked \in [DOMAIN linked -> DOMAIN users]
    /\ sessions \in [DOMAIN claims -> SessionRow]
    /\ claims \in [DOMAIN claims -> ClaimRow] /\ DOMAIN claims \subseteq Issuing
    /\ stage \in [AuthRequests -> Stages]
    /\ seen \in [AuthRequests -> SeenRow]
    /\ presented \in [AuthRequests -> Issuing \cup {"none"}]
    /\ lastHeld \in [UserIds -> [Roles -> Int]]
    /\ overlapped \subseteq UserIds

\* Where a request is tells what it is, what it has read and what it has written.
StageInv ==
    \A q \in AuthRequests :
        /\ stage[q] = "create" => q \in Registers \cup NostrLogins
        /\ stage[q] = "link" => q \in NostrLogins
        /\ stage[q] = "issue" => q \in Registers \cup Logins \cup NostrLogins
        /\ stage[q] = "rotate" => q \in Refreshes /\ presented[q] \in DOMAIN claims
        /\ stage[q] = "enable" => q \in Enables
        /\ stage[q] \in {"link", "issue", "rotate", "enable"} => seen[q].user \in DOMAIN users
        /\ seen[q].user \in DOMAIN users \cup {NoUser}
        /\ q \in DOMAIN claims => stage[q] \in {"answered", "failed"}
        /\ q \in Issuing /\ stage[q] = "answered" => q \in DOMAIN claims
        /\ q \in DOMAIN users => stage[q] \notin {"idle", "create"}

\* The UNIQUE email of users.
EmailsInv ==
    \A u, v \in DOMAIN users :
        users[u].email = users[v].email /\ users[u].email # NoCredential => u = v

\* Of the sessions of one login one is not revoked, and none after a logout.
LoginInv ==
    /\ \A s \in DOMAIN claims :
          /\ sessions[s].login \in DOMAIN claims
          /\ sessions[s].user = claims[s].user /\ claims[s].user \in DOMAIN users
    /\ \A s, t \in DOMAIN claims :
          ~sessions[s].revoked /\ ~sessions[t].revoked /\ sessions[s].login = sessions[t].login
            => s = t
    /\ \A q \in Logouts : stage[q] = "answered" =>
          /\ presented[q] \in DOMAIN claims
          /\ \A s \in DOMAIN claims :
                sessions[s].login = sessions[presented[q]].login => sessions[s].revoked

\* A role that was read at some time is still the user's, or was taken since.
HeldSince(u, role, at) == users[u].role = role \/ lastHeld[u][role] >= at

RoleInv ==
    /\ \A u \in UserIds, r \in Roles : lastHeld[u][r] <= now
    /\ \A q \in AuthRequests :
          /\ seen[q].at <= now
          /\ seen[q].user \in DOMAIN users => HeldSince(seen[q].user, seen[q].role, seen[q].at)
    /\ \A t \in DOMAIN claims :
          claims[t].read <= now /\ HeldSince(claims[t].user, claims[t].role, claims[t].read)

\* A token is issued to the user whose credential the request came with.
Authenticated(q) == stage[q] = "issue" \/ q \in DOMAIN claims

CredentialInv ==
    /\ \A q \in Registers \cup Logins : Authenticated(q) =>
          seen[q].user \in DOMAIN users /\ users[seen[q].user].email = Credential[q]
    /\ \A q \in NostrLogins :
          /\ stage[q] = "link" => seen[q].user = q
          /\ Authenticated(q) =>
                Credential[q] \in DOMAIN linked /\ linked[Credential[q]] = seen[q].user
    /\ \A q \in (Registers \cup Logins \cup NostrLogins) \cap DOMAIN claims :
          claims[q].user = seen[q].user

\* Unless two requests were enabling at once, a user who is about to get a secret has none,
\* and one whose request was answered has the secret of the answer.
SecretInv ==
    \A q \in Enables : seen[q].user \notin overlapped =>
        /\ stage[q] = "enable" =>
             /\ users[seen[q].user].secret = "none"
             /\ \A p \in Enables : stage[p] = "enable" /\ seen[p].user = seen[q].user => p = q
        /\ stage[q] = "answered" =>
             seen[q].user \in DOMAIN users /\ users[seen[q].user].secret = q

SInv == Types /\ StageInv /\ EmailsInv /\ LoginInv /\ RoleInv /\ CredentialInv /\ SecretInv

-----------------------------------------------------------------------------
\* What OneKind says of each kind of request.
LEMMA KindsDiffer ==
    /\ Registers \cap (Founders \cup Logins \cup NostrLogins \cup Refreshes) = {}
    /\ Logins \cap (Founders \cup NostrLogins \cup Refreshes) = {}
    /\ NostrLogins \cap (Founders \cup Refreshes) = {}
    /\ Issuing \cap (Logouts \cup RoleUpdates \cup Enables) = {}
    /\ Founders \cap AuthRequests = {}
    /\ Logouts \cap (RoleUpdates \cup Enables) = {}
    /\ RoleUpdates \cap Enables = {}
  <1> DEFINE K(i) == Kinds[i]
  <1>1. K(1) = Founders /\ K(2) = Registers /\ K(3) = Logins /\ K(4) = NostrLogins
        /\ K(5) = Refreshes /\ K(6) = Logouts /\ K(7) = RoleUpdates /\ K(8) = Enables
    BY DEF Kinds
  <1>2. \A i, j \in 1..8 : i # j => K(i) \cap K(j) = {}
    BY SessionAssumption DEF OneKind
  <1> HIDE DEF K
  <1>3. QED
    BY <1>1, <1>2 DEF Issuing, AuthRequests

\* The tables are as the founders left them, and no request has begun.
LEMMA SessionInitInv == present \in Workloads /\ SessionInit => SInv
  <1> SUFFICES ASSUME present \in Workloads, SessionInit PROVE SInv
    OBVIOUS
  <1> USE DEF SessionInit
  <1>1. Types
    BY WorkloadAssumption, SessionAssumption
       DEF Types, UserRow, Credentials, SessionRow, ClaimRow, SeenRow, NoRow, Stages, UserIds, Roles
  <1>2. StageInv
    BY KindsDiffer DEF StageInv, NoRow, AuthRequests
  <1>3. EmailsInv
    BY SessionAssumption DEF EmailsInv
  <1>4. LoginInv
    BY KindsDiffer DEF LoginInv, AuthRequests
  <1>5. RoleInv
    BY SessionAssumption DEF RoleInv, NoRow, UserIds
  <1>6. CredentialInv
    BY DEF CredentialInv, Authenticated, AuthRequests, Issuing
  <1>7. SecretInv
    BY DEF SecretInv, AuthRequests
  <1>8. QED
    BY <1>1, <1>2, <1>3, <1>4, <1>5, <1>6, <1>7 DEF SInv

\* A row or an entry of one request changes, and no other.
Sets(f, g, q, v) == g[q] = v /\ \A p \in AuthRequests \ {q} : g[p] = f[p]

\* EXCEPT changes the entry of one request.
LEMMA ExceptSets ==
    ASSUME NEW f, DOMAIN f = AuthRequests, NEW q \in AuthRequests, NEW v
    PROVE  Sets(f, [f EXCEPT ![q] = v], q, v)
  BY DEF Sets

\* Requests that have issued no tokens.
LEMMA Unissued ==
    ASSUME SInv, NEW q \in AuthRequests, stage[q] \notin {"answered", "failed"}
    PROVE  q \notin DOMAIN claims
  BY DEF SInv, StageInv

\* A request that only ends, or goes on to create a user, changes nothing for the others.
LEMMA StageStep ==
    ASSUME SInv, NEW q \in AuthRequests, stage[q] \notin {"answered", "failed"}, NEW s,
           Goes(q, s),
           s \in {"refused", "failed", "create"},
           s = "create" => stage[q] = "idle" /\ q \in Registers \cup NostrLogins,
           presented' = presented
             \/ \E t \in DOMAIN claims : presented' = [presented EXCEPT ![q] = t],
           UNCHANGED <<present, now, users, linked, sessions, claims, seen, lastHeld, overlapped>>
    PROVE  SInv'
  <1> USE DEF SInv
  <1>1. Sets(stage, stage', q, s) /\ q \notin DOMAIN claims /\ s \in Stages
    BY ExceptSets, Unissued DEF Goes, Types, Stages
  <1>2. /\ \A p \in AuthRequests \ {q} : presented'[p] = presented[p]
        /\ presented' \in [AuthRequests -> Issuing \cup {"none"}]
    BY DEF Types
  <1>3. Types'
    BY <1>1, <1>2 DEF Types, Goes
  <1>4. StageInv'
    <2> SUFFICES ASSUME NEW p \in AuthRequests PROVE StageInv!(p)'
      BY DEF StageInv
    <2>1. CASE p = q
      BY <1>1, <2>1, KindsDiffer DEF StageInv, Sets, Types
    <2>2. CASE p # q
      BY <1>1, <1>2, <2>2 DEF StageInv, Sets
    <2>3. QED
      BY <2>1, <2>2
  <1>5. EmailsInv'
    BY DEF EmailsInv
  <1>6. LoginInv'
    BY <1>1, <1>2 DEF LoginInv, Sets, AuthRequests
  <1>7. RoleInv'
    BY DEF RoleInv, HeldSince
  <1>8. CredentialInv'
    BY <1>1 DEF CredentialInv, Authenticated, Sets, AuthRequests, Issuing
  <1>9. SecretInv'
    BY <1>1 DEF SecretInv, Sets, AuthRequests
  <1>10. QED
    BY <1>3, <1>4, <1>5, <1>6, <1>7, <1>8, <1>9

\* A request that ends without tokens changes nothing that others go by.
LEMMA EndStep ==
    ASSUME SInv, NEW q \in AuthRequests, stage[q] \notin {"answered", "failed"},
           Goes(q, "refused") \/ Goes(q, "failed"),
           presented' = presented
             \/ \E t \in DOMAIN claims : presented' = [presented EXCEPT ![q] = t],
           UNCHANGED <<present, now, users, linked, sessions, claims, seen, lastHeld, overlapped>>
    PROVE  SInv'
  <1>1. PICK s \in {"refused", "failed"} : Goes(q, s)
    OBVIOUS
  <1>2. s \in {"refused", "failed", "create"} /\ s # "create"
    OBVIOUS
  <1>3. QED
    BY <1>1, <1>2, StageStep

\* Time makes no row older than it says.
LEMMA ClockStep == ASSUME SInv, ClockAdvances PROVE SInv'
  <1> USE DEF SInv, ClockAdvances
  <1>1. Types' /\ StageInv' /\ EmailsInv' /\ LoginInv' /\ CredentialInv' /\ SecretInv'
    BY DEF Types, StageInv, EmailsInv, LoginInv, CredentialInv, Authenticated, SecretInv
  <1>2. RoleInv'
    BY DEF Types, RoleInv, HeldSince, SeenRow, ClaimRow
  <1>3. QED
    BY <1>1, <1>2

\* A request takes the row of a user as it is now.
LEMMA ReadStep ==
    ASSUME SInv, NEW q \in AuthRequests, stage[q] = "idle", NEW s, Goes(q, s),
           NEW u \in DOMAIN users, seen' = [seen EXCEPT ![q] = RowOf(u)],
           \/ /\ s = "issue" /\ UNCHANGED <<presented, overlapped>>
              /\ \/ q \in Logins /\ users[u].email = Credential[q]
                 \/ /\ q \in NostrLogins /\ Credential[q] \in DOMAIN linked
                    /\ linked[Credential[q]] = u
           \/ /\ s = "rotate" /\ q \in Refreshes /\ UNCHANGED overlapped
              /\ \E t \in DOMAIN claims : presented' = [presented EXCEPT ![q] = t]
           \/ /\ s = "enable" /\ q \in Enables /\ UNCHANGED presented
              /\ users[u].secret = "none"
              /\ overlapped' = IF Enabling(u) = {} THEN overlapped ELSE overlapped \cup {u},
           UNCHANGED <<present, now, users, linked, sessions, claims, lastHeld>>
    PROVE  SInv'
  <1> USE DEF SInv
  <1> DEFINE row == RowOf(u)
  <1>1. /\ Sets(stage, stage', q, s) /\ Sets(seen, seen', q, row)
        /\ q \notin DOMAIN claims /\ s \in Stages
    BY ExceptSets, Unissued DEF Goes, Types, Stages
  <1>2. row \in SeenRow /\ row.user = u /\ row.role = users[u].role /\ row.at = now
    BY DEF RowOf, Types, SeenRow, UserRow
  <1>3. /\ \A p \in AuthRequests \ {q} : presented'[p] = presented[p]
        /\ presented' \in [AuthRequests -> Issuing \cup {"none"}]
        /\ s = "rotate" => presented'[q] \in DOMAIN claims
    BY DEF Types
  <1> HIDE DEF row
  <1>4. Types'
    BY <1>1, <1>2, <1>3 DEF Types, Goes, row
  <1>5. StageInv'
    <2> SUFFICES ASSUME NEW p \in AuthRequests PROVE StageInv!(p)'
      BY DEF StageInv
    <2>1. CASE p = q
      BY <1>1, <1>2, <1>3, <2>1 DEF StageInv, Sets
    <2>2. CASE p # q
      BY <1>1, <1>3, <2>2 DEF StageInv, Sets
    <2>3. QED
      BY <2>1, <2>2
  <1>6. EmailsInv'
    BY DEF EmailsInv
  <1>7. LoginInv'
    BY <1>1, <1>3, KindsDiffer DEF LoginInv, Sets, AuthRequests, Issuing
  <1>8. RoleInv'
    <2>1. now <= now
      BY DEF Types
    <2>2. \A p \in AuthRequests : seen'[p].at <= now
            /\ (seen'[p].user \in DOMAIN users => HeldSince(seen'[p].user, seen'[p].role, seen'[p].at))
      BY <1>1, <1>2, <2>1 DEF RoleInv, HeldSince, Sets
    <2>3. QED
      BY <2>2 DEF RoleInv, HeldSince
  <1>9. CredentialInv'
    <2>1. ASSUME NEW p \in Registers \cup Logins \cup NostrLogins, p # q
          PROVE  stage'[p] = stage[p] /\ seen'[p] = seen[p]
      BY <1>1, <2>1 DEF Sets, AuthRequests, Issuing
    <2>2. q \in Registers \cup Logins => (stage'[q] = "issue" =>
            seen'[q].user \in DOMAIN users /\ users[seen'[q].user].email = Credential[q])
      BY <1>1, <1>2, KindsDiffer DEF Sets
    <2>3. q \in NostrLogins => stage'[q] # "link" /\ (stage'[q] = "issue" =>
            Credential[q] \in DOMAIN linked /\ linked[Credential[q]] = seen'[q].user)
      BY <1>1, <1>2, KindsDiffer DEF Sets
    <2>4. QED
      BY <1>1, <2>1, <2>2, <2>3 DEF CredentialInv, Authenticated
  <1>10. SecretInv'
    <2>1. CASE s # "enable"
      BY <1>1, <1>2, <2>1, KindsDiffer DEF SecretInv, Sets, AuthRequests, Issuing
    <2>2. CASE s = "enable"
      <3>1. q \in Enables /\ users[u].secret = "none"
            /\ overlapped' = IF Enabling(u) = {} THEN overlapped ELSE overlapped \cup {u}
        BY <2>2
      <3>2. ASSUME NEW p \in Enables, seen'[p].user \notin overlapped', stage'[p] = "enable"
            PROVE  /\ users[seen'[p].user].secret = "none"
                   /\ \A r \in Enables :
                         stage'[r] = "enable" /\ seen'[r].user = seen'[p].user => r = p
        <4>1. CASE seen'[p].user = u
          <5>1. Enabling(u) = {}
            BY <3>1, <3>2, <4>1
          <5>2. \A r \in Enables \ {q} : ~(stage'[r] = "enable" /\ seen'[r].user = u)
            BY <1>1, <5>1 DEF Enabling, Sets, AuthRequests
          <5>3. QED
            BY <3>1, <3>2, <4>1, <5>2
        <4>2. CASE seen'[p].user # u
          BY <1>1, <1>2, <3>1, <3>2, <4>2 DEF SecretInv, Sets, AuthRequests
        <4>3. QED
          BY <4>1, <4>2
      <3>3. ASSUME NEW p \in Enables, seen'[p].user \notin overlapped', stage'[p] = "answered"
            PROVE  seen'[p].user \in DOMAIN users /\ users[seen'[p].user].secret = p
        BY <1>1, <2>2, <3>1, <3>3 DEF SecretInv, Sets, AuthRequests
      <3>4. QED
        BY <3>2, <3>3 DEF SecretInv
    <2>3. QED
      BY <2>1, <2>2
  <1>11. QED
    BY <1>4, <1>5, <1>6, <1>7, <1>8, <1>9, <1>10

\* create_user, create_nostr_user: nothing refers to the new row yet.
LEMMA NewUserStep ==
    ASSUME SInv, NEW q \in AuthRequests, stage[q] = "create", NEW s, Goes(q, s),
           NEW email \in Credentials, users' = Insert(users, q, NewUser(email)),
           seen' = [seen EXCEPT ![q] = [user |-> q, role |-> "user", at |-> now]],
           \/ /\ q \in Registers /\ s = "issue"
              /\ email = Credential[q] /\ WithEmail(email) = {}
           \/ q \in NostrLogins /\ s = "link" /\ email = NoCredential,
           UNCHANGED <<present, now, linked, sessions, claims, presented, lastHeld, overlapped>>
    PROVE  SInv'
  <1> USE DEF SInv
  <1> DEFINE row == [user |-> q, role |-> "user", at |-> now]
             new == NewUser(email)
  <1>1. /\ Sets(stage, stage', q, s) /\ Sets(seen, seen', q, row)
        /\ q \notin DOMAIN claims /\ s \in Stages
    BY ExceptSets, Unissued DEF Goes, Types, Stages
  <1>2. q \in UserIds /\ q \notin DOMAIN users /\ q # NoUser
    BY SessionAssumption DEF UserIds, StageInv
  <1>3. /\ row \in SeenRow /\ row.user = q /\ row.role = "user" /\ row.at = now
        /\ new \in UserRow /\ new.email = email /\ new.role = "user" /\ new.secret = "none"
    BY <1>2 DEF Types, SeenRow, UserRow, NewUser, Roles
  <1>4. /\ DOMAIN users' = DOMAIN users \cup {q} /\ users'[q] = new
        /\ \A u \in DOMAIN users : users'[u] = users[u]
    BY <1>2 DEF Insert
  <1>5. users' = [u \in DOMAIN users' |-> users'[u]]
    BY DEF Insert
  <1> HIDE DEF row, new
  <1>6. Types'
    <2>1. seen' \in [AuthRequests -> SeenRow] /\ stage' \in [AuthRequests -> Stages]
      BY <1>1, <1>3 DEF Types, Goes, row
    <2>2. users' \in [DOMAIN users' -> UserRow] /\ DOMAIN users' \subseteq UserIds
      BY <1>2, <1>3, <1>4, <1>5 DEF Types
    <2>3. linked \in [DOMAIN linked -> DOMAIN users']
      BY <1>4 DEF Types
    <2>4. QED
      BY <2>1, <2>2, <2>3 DEF Types
  <1>7. StageInv'
    <2> SUFFICES ASSUME NEW p \in AuthRequests PROVE StageInv!(p)'
      BY DEF StageInv
    <2>1. CASE p = q
      BY <1>1, <1>3, <1>4, <2>1 DEF StageInv, Sets
    <2>2. CASE p # q
      BY <1>1, <1>4, <2>2 DEF StageInv, Sets
    <2>3. QED
      BY <2>1, <2>2
  <1>8. EmailsInv'
    BY <1>3, <1>4 DEF EmailsInv, WithEmail
  <1>9. LoginInv'
    BY <1>1, <1>4, KindsDiffer DEF LoginInv, Sets, AuthRequests
  <1>10. RoleInv'
    <2>1. now <= now
      BY DEF Types
    <2>2. ASSUME NEW p \in AuthRequests
          PROVE  /\ seen'[p].at <= now
                 /\ seen'[p].user \in DOMAIN users' =>
                      HeldSince(seen[p].user, seen[p].role, seen[p].at)'
      <3>1. CASE p = q
        BY <1>1, <1>3, <1>4, <2>1, <3>1 DEF HeldSince, Sets
      <3>2. CASE p # q
        <4>1. seen'[p] = seen[p] /\ seen[p].user # q
          BY <1>1, <1>2, <3>2 DEF Sets, StageInv
        <4>2. QED
          BY <1>4, <4>1 DEF RoleInv, HeldSince
      <3>3. QED
        BY <3>1, <3>2
    <2>3. ASSUME NEW t \in DOMAIN claims
          PROVE  claims[t].read <= now
                 /\ HeldSince(claims[t].user, claims[t].role, claims[t].read)'
      BY <1>4 DEF RoleInv, HeldSince, LoginInv
    <2>4. QED
      BY <2>2, <2>3 DEF RoleInv
  <1>11. CredentialInv'
    <2>1. ASSUME NEW p \in Registers \cup Logins \cup NostrLogins, p # q
          PROVE  stage'[p] = stage[p] /\ seen'[p] = seen[p]
      BY <1>1, <2>1 DEF Sets, AuthRequests, Issuing
    <2>2. q \in Registers \cup Logins => (stage'[q] = "issue" =>
            seen'[q].user \in DOMAIN users' /\ users'[seen'[q].user].email = Credential[q])
      BY <1>1, <1>3, <1>4, KindsDiffer DEF Sets
    <2>3. q \in NostrLogins => stage'[q] = "link" /\ seen'[q].user = q
      BY <1>1, <1>3, KindsDiffer DEF Sets
    <2>4. QED
      BY <1>1, <1>4, <2>1, <2>2, <2>3 DEF CredentialInv, Authenticated
  <1>12. SecretInv'
    <2>1. q \notin Enables
      BY KindsDiffer DEF Issuing
    <2>2. ASSUME NEW p \in Enables
          PROVE  stage'[p] = stage[p] /\ seen'[p] = seen[p] /\ seen[p].user # q
                 /\ seen[p].user \in DOMAIN users \cup {NoUser}
      BY <1>1, <1>2, <2>1 DEF Sets, AuthRequests, StageInv
    <2>3. \A p \in Enables : stage[p] = "enable" => seen[p].user \in DOMAIN users
      BY DEF StageInv, AuthRequests
    <2>4. QED
      BY <1>4, <2>2, <2>3 DEF SecretInv
  <1>13. QED
    BY <1>6, <1>7, <1>8, <1>9, <1>10, <1>11, <1>12

\* create_nostr_identity: the key was free.
LEMMA LinkStep ==
    ASSUME SInv, NEW q \in NostrLogins, stage[q] = "link", Goes(q, "issue"),
           Credential[q] \notin DOMAIN linked, linked' = Insert(linked, Credential[q], q),
           UNCHANGED <<present, now, users, sessions, claims, seen, presented, lastHeld, overlapped>>
    PROVE  SInv'
  <1> USE DEF SInv
  <1>1. q \in AuthRequests /\ Sets(stage, stage', q, "issue") /\ q \notin DOMAIN claims
    BY ExceptSets, Unissued DEF Goes, Types, AuthRequests, Issuing
  <1>2. seen[q].user = q /\ q \in DOMAIN users
    BY <1>1 DEF CredentialInv, StageInv
  <1>3. /\ DOMAIN linked' = DOMAIN linked \cup {Credential[q]} /\ linked'[Credential[q]] = q
        /\ \A k \in DOMAIN linked : linked'[k] = linked[k]
        /\ linked' = [k \in DOMAIN linked' |-> linked'[k]]
    BY DEF Insert
  <1>4. Types'
    BY <1>1, <1>2, <1>3 DEF Types, Goes, Stages
  <1>5. StageInv'
    <2> SUFFICES ASSUME NEW p \in AuthRequests PROVE StageInv!(p)'
      BY DEF StageInv
    <2>1. CASE p = q
      BY <1>1, <1>2, <2>1 DEF StageInv, Sets
    <2>2. CASE p # q
      BY <1>1, <2>2 DEF StageInv, Sets
    <2>3. QED
      BY <2>1, <2>2
  <1>6. EmailsInv' /\ RoleInv'
    BY DEF EmailsInv, RoleInv, HeldSince
  <1>7. LoginInv'
    BY <1>1, KindsDiffer DEF LoginInv, Sets, AuthRequests, Issuing
  <1>8. CredentialInv'
    <2>1. \A p \in Registers \cup Logins : stage'[p] = stage[p]
      BY <1>1, KindsDiffer DEF Sets, AuthRequests, Issuing
    <2>2. ASSUME NEW p \in NostrLogins
          PROVE  /\ stage'[p] = "link" => seen[p].user = p
                 /\ Authenticated(p)' => /\ Credential[p] \in DOMAIN linked'
                                         /\ linked'[Credential[p]] = seen[p].user
      <3>1. CASE p = q
        BY <1>1, <1>2, <1>3, <3>1 DEF Sets
      <3>2. CASE p # q
        BY <1>1, <1>3, <3>2 DEF CredentialInv, Authenticated, Sets, AuthRequests, Issuing
      <3>3. QED
        BY <3>1, <3>2
    <2>3. QED
      BY <2>1, <2>2 DEF CredentialInv, Authenticated
  <1>9. SecretInv'
    BY <1>1, KindsDiffer DEF SecretInv, Sets, AuthRequests, Issuing
  <1>10. QED
    BY <1>4, <1>5, <1>6, <1>7, <1>8, <1>9

\* Tokens and a session of the user that was read.  The session continues the login of one
\* that is revoked at the same time, or begins a login.
LEMMA IssueStep ==
    ASSUME SInv, NEW q \in Issuing, Finishes(q),
           claims' = Insert(claims, q, Claims(q)),
           \/ stage[q] = "issue" /\ sessions' = Insert(sessions, q, NewSession(q, q))
           \/ /\ stage[q] = "rotate" /\ Live(presented[q])
              /\ sessions' = Insert([sessions EXCEPT ![presented[q]].revoked = TRUE], q,
                                    NewSession(q, sessions[presented[q]].login)),
           UNCHANGED <<present, now, users, linked, seen, presented, lastHeld, overlapped>>
    PROVE  SInv'
  <1> USE DEF SInv
  <1> DEFINE login == IF stage[q] = "issue" THEN q ELSE sessions[presented[q]].login
             new == NewSession(q, login)
             made == Claims(q)
  <1>1. PICK s \in {"answered", "failed"} : Goes(q, s)
    BY DEF Finishes
  <1>2. /\ q \in AuthRequests /\ Sets(stage, stage', q, s)
        /\ q \notin DOMAIN claims /\ seen[q].user \in DOMAIN users
    BY <1>1, ExceptSets, Unissued DEF Goes, Types, AuthRequests, StageInv
  <1>3. stage[q] = "rotate" =>
          /\ presented[q] \in DOMAIN claims /\ ~sessions[presented[q]].revoked
    BY <1>2 DEF StageInv, Live
  <1>4. /\ made \in ClaimRow /\ made.user = seen[q].user /\ made.role = seen[q].role
        /\ made.read = seen[q].at
        /\ login \in Issuing /\ new \in SessionRow /\ ~new.revoked
        /\ new.user = seen[q].user /\ new.login = login
    <2>1. seen[q] \in SeenRow /\ seen[q].user \in UserIds
      BY <1>2 DEF Types
    <2>2. login \in Issuing
      BY <1>3 DEF Types, SessionRow
    <2>3. now + RefreshTTL \in Nat
      BY SessionAssumption DEF Types
    <2>4. QED
      BY <2>1, <2>2, <2>3 DEF Types, SeenRow, Claims, NewSession, ClaimRow, SessionRow
  <1>5. /\ DOMAIN claims' = DOMAIN claims \cup {q} /\ DOMAIN sessions' = DOMAIN claims'
        /\ claims'[q] = made /\ \A t \in DOMAIN claims : claims'[t] = claims[t]
        /\ claims' = [t \in DOMAIN claims' |-> claims'[t]]
        /\ sessions' = [t \in DOMAIN claims' |-> sessions'[t]]
    BY <1>2 DEF Insert, Types
  <1>6. /\ sessions'[q] = new
        /\ \A t \in DOMAIN claims :
              /\ sessions'[t] \in SessionRow
              /\ sessions'[t].login = sessions[t].login /\ sessions'[t].user = sessions[t].user
              /\ sessions[t].revoked => sessions'[t].revoked
              /\ stage[q] = "rotate" /\ t = presented[q] => sessions'[t].revoked
    <2>1. CASE stage[q] = "issue"
      BY <1>2, <2>1 DEF Insert, Types
    <2>2. CASE stage[q] = "rotate"
      <3> DEFINE old == [sessions EXCEPT ![presented[q]].revoked = TRUE]
      <3>1. /\ DOMAIN old = DOMAIN claims /\ old[presented[q]].revoked
            /\ \A t \in DOMAIN claims :
                  /\ old[t] \in SessionRow
                  /\ old[t].login = sessions[t].login /\ old[t].user = sessions[t].user
                  /\ sessions[t].revoked => old[t].revoked
        BY <1>3, <2>2 DEF Types, SessionRow
      <3>2. sessions' = Insert(old, q, new)
        BY <2>2
      <3> HIDE DEF old
      <3>3. sessions'[q] = new /\ \A t \in DOMAIN claims : sessions'[t] = old[t]
        BY <1>2, <3>1, <3>2 DEF Insert
      <3>4. QED
        BY <3>1, <3>3
    <2>3. QED
      BY <2>1, <2>2
  <1> HIDE DEF new, made, login
  <1>7. Types'
    BY <1>1, <1>2, <1>4, <1>5, <1>6 DEF Types, Goes, Stages
  <1>8. StageInv'
    <2> SUFFICES ASSUME NEW p \in AuthRequests PROVE StageInv!(p)'
      BY DEF StageInv
    <2>1. CASE p = q
      BY <1>1, <1>2, <1>5, <2>1 DEF StageInv, Sets
    <2>2. CASE p # q
      BY <1>2, <1>5, <2>2 DEF StageInv, Sets
    <2>3. QED
      BY <2>1, <2>2
  <1>9. EmailsInv'
    BY DEF EmailsInv
  <1>10. LoginInv'
    <2>1. login \in DOMAIN claims' /\ (stage[q] = "issue" => login = q)
          /\ (stage[q] = "rotate" => login = sessions[presented[q]].login /\ login \in DOMAIN claims)
      BY <1>3, <1>5 DEF login, LoginInv
    <2>2. ASSUME NEW t \in DOMAIN claims, ~sessions'[t].revoked
          PROVE  sessions'[t].login # login
      <3>1. ~sessions[t].revoked /\ sessions'[t].login = sessions[t].login
            /\ sessions[t].login \in DOMAIN claims
        BY <1>6, <2>2 DEF LoginInv
      <3>2. CASE stage[q] = "issue"
        BY <1>2, <2>1, <3>1, <3>2
      <3>3. CASE stage[q] = "rotate"
        BY <1>3, <1>6, <2>1, <2>2, <3>1, <3>3 DEF LoginInv
      <3>4. QED
        BY <3>2, <3>3
    <2>3. ASSUME NEW r \in Logouts, stage'[r] = "answered"
          PROVE  /\ presented[r] \in DOMAIN claims
                 /\ sessions[presented[r]].login # login
                 /\ \A t \in DOMAIN claims :
                       sessions[t].login = sessions[presented[r]].login => sessions'[t].revoked
      <3>1. stage[r] = "answered"
        BY <1>2, <2>3, KindsDiffer DEF Sets, AuthRequests
      <3>2. presented[r] \in DOMAIN claims /\ sessions[presented[r]].login \in DOMAIN claims
        BY <3>1 DEF LoginInv
      <3>3. sessions[presented[r]].login # login
        BY <1>2, <1>3, <2>1, <3>1, <3>2 DEF LoginInv
      <3>4. \A t \in DOMAIN claims :
              sessions[t].login = sessions[presented[r]].login => sessions[t].revoked
        BY <3>1 DEF LoginInv
      <3>5. QED
        BY <1>6, <3>2, <3>3, <3>4
    <2>4. \A t \in DOMAIN claims' :
            /\ sessions'[t].login \in DOMAIN claims'
            /\ sessions'[t].user = claims'[t].user /\ claims'[t].user \in DOMAIN users
      BY <1>2, <1>4, <1>5, <1>6, <2>1 DEF LoginInv
    <2>5. ASSUME NEW t \in DOMAIN claims', NEW v \in DOMAIN claims',
                 ~sessions'[t].revoked, ~sessions'[v].revoked,
                 sessions'[t].login = sessions'[v].login
          PROVE  t = v
      <3>1. sessions'[q].login = login
        BY <1>4, <1>6
      <3>2. CASE t \in DOMAIN claims /\ v \in DOMAIN claims
        <4>1. ~sessions[t].revoked /\ ~sessions[v].revoked /\ sessions[t].login = sessions[v].login
          BY <1>6, <2>5, <3>2
        <4>2. QED
          BY <3>2, <4>1 DEF LoginInv
      <3>3. QED
        BY <1>5, <2>2, <2>5, <3>1, <3>2
    <2>6. ASSUME NEW r \in Logouts, stage'[r] = "answered"
          PROVE  /\ presented'[r] \in DOMAIN claims'
                 /\ \A t \in DOMAIN claims' :
                       sessions'[t].login = sessions'[presented'[r]].login => sessions'[t].revoked
      BY <1>4, <1>5, <1>6, <2>3, <2>6
    <2>7. QED
      BY <2>4, <2>5, <2>6 DEF LoginInv
  <1>11. RoleInv'
    <2>1. ASSUME NEW t \in DOMAIN claims'
          PROVE  claims'[t].read <= now /\ HeldSince(claims'[t].user, claims'[t].role, claims'[t].read)
      BY <1>2, <1>4, <1>5 DEF RoleInv
    <2>2. QED
      BY <2>1 DEF RoleInv, HeldSince
  <1>12. CredentialInv'
    <2>1. ASSUME NEW p \in Registers \cup Logins \cup NostrLogins
          PROVE  (Authenticated(p)' => Authenticated(p)) /\ (stage'[p] = "link" => stage[p] = "link")
      <3>1. CASE p = q
        <4>1. stage[q] = "issue"
          BY <3>1, <1>2, KindsDiffer DEF StageInv
        <4>2. QED
          BY <1>1, <1>2, <3>1, <4>1 DEF Authenticated, Sets
      <3>2. CASE p # q
        BY <1>2, <1>5, <3>2 DEF Authenticated, Sets, AuthRequests, Issuing
      <3>3. QED
        BY <3>1, <3>2
    <2>2. QED
      BY <1>4, <1>5, <2>1 DEF CredentialInv
  <1>13. SecretInv'
    BY <1>2, KindsDiffer DEF SecretInv, Sets, AuthRequests
  <1>14. QED
    BY <1>7, <1>8, <1>9, <1>10, <1>11, <1>12, <1>13

\* revoke_refresh_session: the one session of the login that was left.
LEMMA LogoutStep ==
    ASSUME SInv, NEW q \in Logouts, stage[q] = "idle", Finishes(q),
           NEW t \in DOMAIN claims, RevokeRefreshSession(t),
           presented' = [presented EXCEPT ![q] = t],
           UNCHANGED <<present, now, users, linked, claims, seen, lastHeld, overlapped>>
    PROVE  SInv'
  <1> USE DEF SInv
  <1>1. PICK s \in {"answered", "failed"} : Goes(q, s)
    BY DEF Finishes
  <1>2. /\ q \in AuthRequests /\ q \notin Issuing /\ q \notin Enables
        /\ Sets(stage, stage', q, s) /\ Sets(presented, presented', q, t)
    BY <1>1, ExceptSets, KindsDiffer DEF Goes, Types, AuthRequests
  <1>3. /\ ~sessions[t].revoked /\ sessions' \in [DOMAIN claims -> SessionRow]
        /\ sessions'[t].revoked
        /\ \A v \in DOMAIN claims :
              /\ sessions'[v].login = sessions[v].login /\ sessions'[v].user = sessions[v].user
              /\ sessions[v].revoked => sessions'[v].revoked
    BY DEF RevokeRefreshSession, Live, Types, SessionRow
  <1>4. Types'
    BY <1>1, <1>2, <1>3 DEF Types, Goes, Stages
  <1>5. StageInv'
    <2> SUFFICES ASSUME NEW p \in AuthRequests PROVE StageInv!(p)'
      BY DEF StageInv
    <2>1. CASE p = q
      BY <1>1, <1>2, <2>1 DEF StageInv, Sets, Types
    <2>2. CASE p # q
      BY <1>2, <2>2 DEF StageInv, Sets
    <2>3. QED
      BY <2>1, <2>2
  <1>6. EmailsInv' /\ RoleInv'
    BY DEF EmailsInv, RoleInv, HeldSince
  <1>7. LoginInv'
    <2>1. \A v \in DOMAIN claims : sessions[v].login = sessions[t].login => sessions'[v].revoked
      BY <1>3 DEF LoginInv
    <2>2. ASSUME NEW r \in Logouts, stage'[r] = "answered"
          PROVE  /\ presented'[r] \in DOMAIN claims
                 /\ \A v \in DOMAIN claims :
                       sessions[v].login = sessions[presented'[r]].login => sessions'[v].revoked
      <3>1. CASE r = q
        BY <1>2, <2>1, <3>1 DEF Sets
      <3>2. CASE r # q
        <4>1. stage[r] = "answered" /\ presented'[r] = presented[r]
          BY <1>2, <2>2, <3>2 DEF Sets, AuthRequests
        <4>2. presented[r] \in DOMAIN claims
              /\ \A v \in DOMAIN claims :
                    sessions[v].login = sessions[presented[r]].login => sessions[v].revoked
          BY <4>1 DEF LoginInv
        <4>3. QED
          BY <1>3, <4>1, <4>2
      <3>3. QED
        BY <3>1, <3>2
    <2>3. \A r \in Logouts : stage'[r] = "answered" =>
            /\ presented'[r] \in DOMAIN claims
            /\ \A v \in DOMAIN claims :
                  sessions'[v].login = sessions'[presented'[r]].login => sessions'[v].revoked
      BY <1>3, <2>2
    <2>4. /\ \A v \in DOMAIN claims :
                /\ sessions'[v].login \in DOMAIN claims
                /\ sessions'[v].user = claims[v].user /\ claims[v].user \in DOMAIN users
          /\ \A v, w \in DOMAIN claims :
                ~sessions'[v].revoked /\ ~sessions'[w].revoked
                  /\ sessions'[v].login = sessions'[w].login => v = w
      BY <1>3 DEF LoginInv
    <2>5. QED
      BY <2>3, <2>4 DEF LoginInv
  <1>8. CredentialInv'
    BY <1>2 DEF CredentialInv, Authenticated, Sets, AuthRequests, Issuing
  <1>9. SecretInv'
    BY <1>2 DEF SecretInv, Sets, AuthRequests
  <1>10. QED
    BY <1>4, <1>5, <1>6, <1>7, <1>8, <1>9

\* update_user_role: who was given the old role has it no longer, which lastHeld tells.
LEMMA RoleStep == ASSUME SInv, NEW q \in RoleUpdates, UpdateUserRole(q) PROVE SInv'
  <1> USE DEF SInv
  <1> DEFINE u == TargetOf[q]
             old == users[u].role
  <1>1. PICK s \in {"answered", "failed"} : Goes(q, s)
    BY DEF UpdateUserRole, Finishes
  <1>2. /\ q \in AuthRequests /\ q \notin Issuing /\ q \notin Enables /\ q \notin Logouts
        /\ Sets(stage, stage', q, s) /\ stage[q] = "idle"
    BY <1>1, ExceptSets, KindsDiffer DEF Goes, Types, AuthRequests, UpdateUserRole, At
  <1>3. /\ u \in DOMAIN users /\ u \in UserIds /\ old \in Roles /\ NewRoleOf[q] \in Roles
    BY SessionAssumption DEF UpdateUserRole, Types, UserRow
  <1>4. /\ users' \in [DOMAIN users -> UserRow]
        /\ \A v \in DOMAIN users :
              users'[v].email = users[v].email /\ users'[v].secret = users[v].secret
        /\ \A v \in DOMAIN users \ {u} : users'[v] = users[v]
    BY <1>3 DEF UpdateUserRole, Types, UserRow
  <1>5. /\ lastHeld' \in [UserIds -> [Roles -> Int]] /\ lastHeld'[u][old] = now
        /\ \A v \in UserIds, r \in Roles : ~(v = u /\ r = old) => lastHeld'[v][r] = lastHeld[v][r]
    <2>1. now \in Int /\ lastHeld \in [UserIds -> [Roles -> Int]]
      BY DEF Types
    <2>2. lastHeld' = [lastHeld EXCEPT ![u] = [lastHeld[u] EXCEPT ![old] = now]]
      BY DEF UpdateUserRole
    <2> HIDE DEF u, old
    <2>3. QED
      BY <1>3, <2>1, <2>2
  <1>6. UNCHANGED <<present, now, linked, sessions, claims, seen, presented, overlapped>>
    BY DEF UpdateUserRole
  <1> HIDE DEF u, old
  <1>7. Types'
    BY <1>1, <1>2, <1>4, <1>5, <1>6 DEF Types, Goes, Stages
  <1>8. StageInv'
    <2>0. DOMAIN users' = DOMAIN users
      BY <1>4
    <2> SUFFICES ASSUME NEW p \in AuthRequests PROVE StageInv!(p)'
      BY DEF StageInv
    <2>1. CASE p = q
      BY <1>2, <1>6, <2>0, <2>1 DEF StageInv, Sets, Types
    <2>2. CASE p # q
      BY <1>2, <1>6, <2>0, <2>2 DEF StageInv, Sets
    <2>3. QED
      BY <2>1, <2>2
  <1>9. EmailsInv'
    BY <1>4 DEF EmailsInv
  <1>10. LoginInv'
    BY <1>2, <1>4, <1>6 DEF LoginInv, Sets, AuthRequests
  <1>11. ASSUME NEW v \in DOMAIN users, NEW r \in Roles, NEW at \in Nat, at <= now,
                HeldSince(v, r, at)
         PROVE  HeldSince(v, r, at)'
    <2>1. at \in Nat
      OBVIOUS
    <2>2. CASE v = u /\ r = old
      BY <1>5, <1>11, <2>2 DEF HeldSince
    <2>3. CASE v = u /\ r # old
      BY <1>3, <1>5, <1>11, <2>3 DEF HeldSince, old
    <2>4. CASE v # u
      <3>1. v \in UserIds
        BY DEF Types
      <3>2. users'[v] = users[v] /\ lastHeld'[v][r] = lastHeld[v][r]
        BY <1>4, <1>5, <2>4, <3>1
      <3>3. QED
        BY <1>11, <3>2 DEF HeldSince
    <2>5. QED
      BY <2>2, <2>3, <2>4
  <1>12. RoleInv'
    <2>1. \A v \in UserIds, r \in Roles : lastHeld'[v][r] <= now
      BY <1>3, <1>5 DEF RoleInv, Types
    <2>2. ASSUME NEW p \in AuthRequests
          PROVE  /\ seen[p].at <= now
                 /\ seen[p].user \in DOMAIN users =>
                      HeldSince(seen[p].user, seen[p].role, seen[p].at)'
      <3>1. seen[p] \in SeenRow
        BY DEF Types
      <3>2. seen[p].role \in Roles /\ seen[p].at \in Nat
        BY <3>1 DEF SeenRow
      <3>3. QED
        BY <1>6, <1>11, <3>2 DEF RoleInv
    <2>3. ASSUME NEW t \in DOMAIN claims
          PROVE  claims[t].read <= now
                 /\ HeldSince(claims[t].user, claims[t].role, claims[t].read)'
      <3>1. claims[t] \in ClaimRow
        BY DEF Types
      <3>2. claims[t].role \in Roles /\ claims[t].read \in Nat /\ claims[t].user \in DOMAIN users
        BY <3>1 DEF ClaimRow, LoginInv
      <3>3. QED
        BY <1>6, <1>11, <3>2 DEF RoleInv
    <2>4. DOMAIN users' = DOMAIN users
      BY <1>4
    <2>5. QED
      BY <1>6, <2>1, <2>2, <2>3, <2>4 DEF RoleInv
  <1>13. CredentialInv'
    BY <1>2, <1>4, <1>6 DEF CredentialInv, Authenticated, Sets, AuthRequests, Issuing
  <1>14. SecretInv'
    <2>1. \A p \in Enables : stage'[p] = stage[p]
      BY <1>2 DEF Sets, AuthRequests
    <2>2. \A p \in Enables : stage[p] = "enable" => seen[p].user \in DOMAIN users
      BY DEF StageInv, AuthRequests
    <2>3. QED
      BY <1>4, <1>6, <2>1, <2>2 DEF SecretInv
  <1>15. QED
    BY <1>7, <1>8, <1>9, <1>10, <1>12, <1>13, <1>14

\* enable_2fa: the secret of the only request at work is the one that stays.
LEMMA EnableStep == ASSUME SInv, NEW q \in Enables, EnableWrite(q) PROVE SInv'
  <1> USE DEF SInv
  <1> DEFINE u == seen[q].user
  <1>1. PICK s \in {"answered", "failed"} : Goes(q, s)
    BY DEF EnableWrite, Finishes
  <1>2. /\ q \in AuthRequests /\ q \notin Issuing /\ q \notin Logouts
        /\ Sets(stage, stage', q, s) /\ stage[q] = "enable" /\ u \in DOMAIN users
    BY <1>1, ExceptSets, KindsDiffer DEF Goes, Types, AuthRequests, EnableWrite, At, StageInv
  <1>3. /\ users' \in [DOMAIN users -> UserRow] /\ users'[u].secret = q
        /\ \A v \in DOMAIN users :
              users'[v].email = users[v].email /\ users'[v].role = users[v].role
        /\ \A v \in DOMAIN users \ {u} : users'[v] = users[v]
    BY <1>2 DEF EnableWrite, Types, UserRow
  <1>4. UNCHANGED <<present, now, linked, sessions, claims, seen, presented, lastHeld, overlapped>>
    BY DEF EnableWrite
  <1>5. DOMAIN users' = DOMAIN users
    BY <1>3
  <1> HIDE DEF u
  <1>6. Types'
    BY <1>1, <1>2, <1>3, <1>4 DEF Types, Goes, Stages
  <1>7. StageInv'
    <2> SUFFICES ASSUME NEW p \in AuthRequests PROVE StageInv!(p)'
      BY DEF StageInv
    <2>1. CASE p = q
      BY <1>1, <1>2, <1>4, <1>5, <2>1 DEF StageInv, Sets
    <2>2. CASE p # q
      BY <1>2, <1>4, <1>5, <2>2 DEF StageInv, Sets
    <2>3. QED
      BY <2>1, <2>2
  <1>8. EmailsInv'
    BY <1>3 DEF EmailsInv
  <1>9. LoginInv'
    BY <1>2, <1>4, <1>5, KindsDiffer DEF LoginInv, Sets, AuthRequests
  <1>10. RoleInv'
    <2>1. ASSUME NEW v \in DOMAIN users, NEW r, NEW at, HeldSince(v, r, at)
          PROVE  HeldSince(v, r, at)'
      BY <1>3, <1>4, <2>1 DEF HeldSince
    <2>2. \A t \in DOMAIN claims : claims[t].user \in DOMAIN users
      BY DEF LoginInv
    <2>3. QED
      BY <1>4, <1>5, <2>1, <2>2 DEF RoleInv
  <1>11. CredentialInv'
    BY <1>2, <1>3, <1>4 DEF CredentialInv, Authenticated, Sets, AuthRequests, Issuing
  <1>12. SecretInv'
    <2> SUFFICES ASSUME NEW p \in Enables, seen[p].user \notin overlapped
                 PROVE  SecretInv!(p)!2'
      BY <1>4 DEF SecretInv
    <2>0. p \in AuthRequests /\ \A r \in Enables : r \in AuthRequests
      BY DEF AuthRequests
    <2>1. CASE p = q
      BY <1>1, <1>2, <1>3, <1>4, <1>5, <2>1 DEF Sets, u
    <2>2. CASE p # q /\ seen[p].user = u
      <3>1. stage[p] # "enable" /\ stage[p] # "answered"
        <4>1. users[u].secret = "none" /\ (stage[p] = "enable" => p = q)
          BY <1>2, <2>2 DEF SecretInv, u
        <4>2. p # "none"
          BY SessionAssumption
        <4>3. QED
          BY <2>2, <4>1, <4>2 DEF SecretInv
      <3>2. QED
        BY <1>2, <2>0, <2>2, <3>1 DEF Sets
    <2>3. CASE seen[p].user # u
      BY <1>2, <1>3, <1>4, <1>5, <2>0, <2>3 DEF SecretInv, Sets, StageInv, u
    <2>4. QED
      BY <2>1, <2>2, <2>3
  <1>13. QED
    BY <1>6, <1>7, <1>8, <1>9, <1>10, <1>11, <1>12

-----------------------------------------------------------------------------
\* Register, login and Nostr login.
LEMMA RegisterInv == ASSUME SInv, NEW q \in Registers, Register(q) PROVE SInv'
  <1>1. q \in AuthRequests /\ q \in Issuing /\ q \in DOMAIN Credential
    BY SessionAssumption DEF AuthRequests, Issuing
  <1>2. CASE RegisterRead(q)
    <2>1. PICK s \in {"create", "refused"} : Goes(q, s)
      BY <1>2 DEF RegisterRead
    <2>2. QED
      BY <1>1, <1>2, <2>1, StageStep DEF RegisterRead, At
  <1>3. CASE CreateUser(q)
    <2>1. CASE WithEmail(Credential[q]) = {} /\ Goes(q, "issue")
               /\ users' = Insert(users, q, NewUser(Credential[q]))
               /\ seen' = [seen EXCEPT ![q] = [user |-> q, role |-> "user", at |-> now]]
      BY <1>1, <1>3, <2>1, NewUserStep DEF CreateUser, At, Credentials
    <2>2. CASE Goes(q, "refused") /\ UNCHANGED <<users, seen>>
      BY <1>1, <1>3, <2>2, EndStep DEF CreateUser, At
    <2>3. QED
      BY <1>3, <2>1, <2>2 DEF CreateUser
  <1>4. CASE IssueAuthResponse(q)
    BY <1>1, <1>4, IssueStep DEF IssueAuthResponse, At
  <1>5. QED
    BY <1>2, <1>3, <1>4 DEF Register

\* A login goes by the row it has read, and issues its tokens for that user.
LEMMA LoginsInv == ASSUME SInv, NEW q \in Logins, Login(q) PROVE SInv'
  <1>1. q \in AuthRequests /\ q \in Issuing
    BY DEF AuthRequests, Issuing
  <1>2. CASE LoginRead(q)
    <2>1. ASSUME NEW u \in WithEmail(Credential[q]), seen' = [seen EXCEPT ![q] = RowOf(u)],
                 Goes(q, "issue")
          PROVE  SInv'
      BY <1>1, <1>2, <2>1, ReadStep DEF LoginRead, At, WithEmail
    <2>2. CASE Goes(q, "refused") /\ UNCHANGED seen
      BY <1>1, <1>2, <2>2, EndStep DEF LoginRead, At
    <2>3. QED
      BY <1>2, <2>1, <2>2 DEF LoginRead
  <1>3. CASE IssueAuthResponse(q)
    BY <1>1, <1>3, IssueStep DEF IssueAuthResponse, At
  <1>4. QED
    BY <1>2, <1>3 DEF Login

\* A Nostr login creates the user and the identity in two transactions; only the second links the
\* key, and only once.
LEMMA NostrLoginInv == ASSUME SInv, NEW q \in NostrLogins, NostrLogin(q) PROVE SInv'
  <1>1. q \in AuthRequests /\ q \in Issuing
    BY DEF AuthRequests, Issuing
  <1>2. CASE NostrRead(q)
    <2>1. CASE Credential[q] \in DOMAIN linked
               /\ seen' = [seen EXCEPT ![q] = RowOf(linked[Credential[q]])] /\ Goes(q, "issue")
      <3>1. linked[Credential[q]] \in DOMAIN users
        BY <2>1 DEF SInv, Types
      <3>2. QED
        BY <1>1, <1>2, <2>1, <3>1, ReadStep DEF NostrRead, At
    <2>2. CASE Goes(q, "create") /\ UNCHANGED seen
      BY <1>1, <1>2, <2>2, StageStep DEF NostrRead, At
    <2>3. QED
      BY <1>2, <2>1, <2>2 DEF NostrRead
  <1>3. CASE CreateNostrUser(q)
    BY <1>1, <1>3, NewUserStep DEF CreateNostrUser, At, Credentials
  <1>4. CASE CreateNostrIdentity(q)
    <2>1. CASE Credential[q] \notin DOMAIN linked /\ Goes(q, "issue")
               /\ linked' = Insert(linked, Credential[q], q)
      BY <1>4, <2>1, LinkStep DEF CreateNostrIdentity, At
    <2>2. CASE Goes(q, "failed") /\ UNCHANGED linked
      BY <1>1, <1>4, <2>2, EndStep DEF CreateNostrIdentity, At
    <2>3. QED
      BY <1>4, <2>1, <2>2 DEF CreateNostrIdentity
  <1>5. CASE IssueAuthResponse(q)
    BY <1>1, <1>5, IssueStep DEF IssueAuthResponse, At
  <1>6. QED
    BY <1>2, <1>3, <1>4, <1>5 DEF NostrLogin

\* Refresh and logout, with any token a client has.
LEMMA RefreshInv == ASSUME SInv, NEW q \in Refreshes, Refresh(q) PROVE SInv'
  <1>1. q \in AuthRequests /\ q \in Issuing
    BY DEF AuthRequests, Issuing
  <1>2. CASE RefreshRead(q)
    <2>1. PICK t \in DOMAIN claims :
            /\ presented' = [presented EXCEPT ![q] = t]
            /\ \/ Goes(q, "rotate") /\ seen' = [seen EXCEPT ![q] = RowOf(claims[t].user)]
               \/ Goes(q, "refused") /\ UNCHANGED seen
      BY <1>2 DEF RefreshRead, Known
    <2>2. claims[t].user \in DOMAIN users
      BY DEF SInv, LoginInv
    <2>3. CASE Goes(q, "rotate") /\ seen' = [seen EXCEPT ![q] = RowOf(claims[t].user)]
      BY <1>1, <1>2, <2>1, <2>2, <2>3, ReadStep DEF RefreshRead, At
    <2>4. CASE Goes(q, "refused") /\ UNCHANGED seen
      BY <1>1, <1>2, <2>1, <2>4, EndStep DEF RefreshRead, At
    <2>5. QED
      BY <2>1, <2>3, <2>4
  <1>3. CASE RotateRefreshSession(q)
    <2>1. CASE Live(presented[q]) /\ Finishes(q)
               /\ sessions' = Insert([sessions EXCEPT ![presented[q]].revoked = TRUE], q,
                                     NewSession(q, sessions[presented[q]].login))
               /\ claims' = Insert(claims, q, Claims(q))
      BY <1>1, <1>3, <2>1, IssueStep DEF RotateRefreshSession, At
    <2>2. CASE Goes(q, "refused") /\ UNCHANGED <<sessions, claims>>
      BY <1>1, <1>3, <2>2, EndStep DEF RotateRefreshSession, At
    <2>3. QED
      BY <1>3, <2>1, <2>2 DEF RotateRefreshSession
  <1>4. QED
    BY <1>2, <1>3 DEF Refresh

\* A logout revokes the session of the token it presents.
LEMMA LogoutInv == ASSUME SInv, NEW q \in Logouts, Logout(q) PROVE SInv'
  <1>1. q \in AuthRequests
    BY DEF AuthRequests
  <1>2. PICK t \in DOMAIN claims :
          /\ presented' = [presented EXCEPT ![q] = t]
          /\ \/ RevokeRefreshSession(t) /\ Finishes(q)
             \/ Goes(q, "refused") /\ UNCHANGED sessions
    BY DEF Logout, Known
  <1>3. CASE RevokeRefreshSession(t) /\ Finishes(q)
    BY <1>2, <1>3, LogoutStep DEF Logout, At
  <1>4. CASE Goes(q, "refused") /\ UNCHANGED sessions
    BY <1>1, <1>2, <1>4, EndStep DEF Logout, At
  <1>5. QED
    BY <1>2, <1>3, <1>4

\* POST /auth/2fa/enable, for the user of any token.
LEMMA EnableInv == ASSUME SInv, NEW q \in Enables, Enable2FA(q) PROVE SInv'
  <1>1. q \in AuthRequests
    BY DEF AuthRequests
  <1>2. CASE EnableRead(q)
    <2>1. PICK t \in DOMAIN claims :
            \/ /\ users[claims[t].user].secret = "none" /\ Goes(q, "enable")
               /\ seen' = [seen EXCEPT ![q] = RowOf(claims[t].user)]
               /\ overlapped' = IF Enabling(claims[t].user) = {} THEN overlapped
                                ELSE overlapped \cup {claims[t].user}
            \/ Goes(q, "refused") /\ UNCHANGED <<seen, overlapped>>
      BY <1>2 DEF EnableRead, Known
    <2>2. claims[t].user \in DOMAIN users
      BY DEF SInv, LoginInv
    <2>3. QED
      BY <1>1, <1>2, <2>1, <2>2, ReadStep, EndStep DEF EnableRead, At
  <1>3. CASE EnableWrite(q)
    BY <1>3, EnableStep
  <1>4. QED
    BY <1>2, <1>3 DEF Enable2FA

\* A request may fail anywhere: what it has committed stays true.
LEMMA FailsInv == ASSUME SInv, NEW q \in AuthRequests, RequestFails(q) PROVE SInv'
  BY EndStep DEF RequestFails

\* Every request keeps what the others hold true.
LEMMA SessionStepInv == SInv /\ SessionNext => SInv'
  BY ClockStep, FailsInv, RegisterInv, LoginsInv, NostrLoginInv, RefreshInv, LogoutInv,
     RoleStep, EnableInv DEF SessionNext

\* A step of the limiter leaves the sessions as they are.
LEMMA SessionStutterInv == SInv /\ UNCHANGED sessionVars => SInv'
  BY DEF SInv, sessionVars, Types, StageInv, EmailsInv, LoginInv, RoleInv, HeldSince,
     CredentialInv, Authenticated, SecretInv

\* The invariant behind the others: whatever requests interleave and fail, rows, sessions and the
\* claims of tokens fit what each request has read so far.
THEOREM SessionsInv == Spec => []SInv
  <1>1. Init => SInv
    BY SessionInitInv DEF Init
  <1>2. SInv /\ [Next]_vars => SInv'
    BY SessionStepInv, SessionStutterInv DEF Next, vars
  <1>3. QED
    BY <1>1, <1>2, PTL DEF Spec

\* A login has one live session, however often its tokens are presented at the same time,
\* and none after a logout.
THEOREM OneSession == Spec => []OneLiveSessionPerLogin
  <1>1. SInv => OneLiveSessionPerLogin
    BY DEF SInv, Types, LoginInv, OneLiveSessionPerLogin, Live
  <1>2. QED
    BY <1>1, SessionsInv, PTL

\* A role that was taken opens nothing once the tokens issued before have run out, whatever
\* chain of refreshes follows.
THEOREM RolesRunOut == Spec => []TakenRolesRunOut
  <1>1. ASSUME SInv, NEW t \in DOMAIN claims
        PROVE  LET c == claims[t]
                   stale == \/ RequireAdmin(t) /\ ~RequireRoles(t, {"admin"})
                            \/ RequireSeller(t) /\ ~RequireRoles(t, {"seller", "admin"})
               IN  stale => now - lastHeld[c.user][c.role] <= AccessTTL + (c.issued - c.read)
    <2> DEFINE c == claims[t]
    <2> SUFFICES ASSUME AccessValid(t), users[c.user].role # c.role
                 PROVE  now - lastHeld[c.user][c.role] <= AccessTTL + (c.issued - c.read)
      BY DEF RequireAdmin, RequireSeller, RequireRoles
    <2>1. c \in ClaimRow /\ now \in Nat /\ c.user \in UserIds /\ c.role \in Roles
      BY <1>1 DEF SInv, Types, ClaimRow
    <2>2. lastHeld[c.user][c.role] \in Int /\ lastHeld[c.user][c.role] >= c.read
      BY <1>1, <2>1 DEF SInv, Types, RoleInv, HeldSince
    <2>3. c.issued \in Nat /\ c.read \in Nat /\ now <= c.issued + AccessTTL
      BY <2>1 DEF ClaimRow, AccessValid
    <2> HIDE DEF c
    <2>4. QED
      BY <2>1, <2>2, <2>3, SessionAssumption
  <1>2. SInv => TakenRolesRunOut
    BY <1>1 DEF TakenRolesRunOut
  <1>3. QED
    BY <1>2, SessionsInv, PTL

\* One email or public key is one account, in all answers of register, login and Nostr login.
THEOREM OneAccount == Spec => []SameCredentialSameUser
  <1>1. ASSUME SInv, NEW p \in Registers \cup Logins \cup NostrLogins,
               NEW q \in Registers \cup Logins \cup NostrLogins,
               stage[p] = "answered", stage[q] = "answered", Credential[p] = Credential[q]
        PROVE  claims[p].user = claims[q].user
    <2>1. p \in DOMAIN claims /\ q \in DOMAIN claims
          /\ claims[p].user = seen[p].user /\ claims[q].user = seen[q].user
      BY <1>1 DEF SInv, StageInv, CredentialInv, AuthRequests, Issuing
    <2>2. p \in DOMAIN Credential /\ q \in DOMAIN Credential
      BY SessionAssumption
    <2>3. (p \in NostrLogins <=> q \in NostrLogins) /\ Credential[p] # NoCredential
      BY <1>1, <2>2, SessionAssumption
    <2>4. CASE p \in NostrLogins
      BY <1>1, <2>1, <2>3, <2>4 DEF SInv, CredentialInv, Authenticated
    <2>5. CASE p \notin NostrLogins
      <3>1. /\ seen[p].user \in DOMAIN users /\ users[seen[p].user].email = Credential[p]
            /\ seen[q].user \in DOMAIN users /\ users[seen[q].user].email = Credential[q]
        BY <1>1, <2>1, <2>3, <2>5 DEF SInv, CredentialInv, Authenticated
      <3>2. QED
        BY <1>1, <2>1, <2>3, <3>1 DEF SInv, EmailsInv
    <2>6. QED
      BY <2>4, <2>5
  <1>2. SInv => SameCredentialSameUser
    BY <1>1 DEF SameCredentialSameUser
  <1>3. QED
    BY <1>2, SessionsInv, PTL

-----------------------------------------------------------------------------
(* Second factors.  What does not depend on who was enabling at once.      *)

\* A secret is the one that a request of its user stored, and an answered request left one.
FactorInv ==
    /\ \A u \in DOMAIN users : users[u].secret # "none" =>
          LET p == users[u].secret
          IN  p \in Enables /\ seen[p].user = u /\ stage[p] \in {"answered", "failed"}
    /\ \A q \in Enables : stage[q] = "answered" =>
          seen[q].user \in DOMAIN users /\ users[seen[q].user].secret # "none"

\* Steps that store no secret, and change a request that enables only before its last step.
LEMMA FactorQuiet ==
    ASSUME FactorInv,
           \A p \in Enables :
              \/ stage'[p] = stage[p] /\ seen'[p] = seen[p]
              \/ stage[p] \notin {"answered", "failed"} /\ stage'[p] # "answered",
           \A u \in DOMAIN users : u \in DOMAIN users' /\ users'[u].secret = users[u].secret,
           \A u \in DOMAIN users' \ DOMAIN users : users'[u].secret = "none"
    PROVE  FactorInv'
  <1>1. ASSUME NEW u \in DOMAIN users', users'[u].secret # "none"
        PROVE  LET p == users'[u].secret
               IN  p \in Enables /\ seen'[p].user = u /\ stage'[p] \in {"answered", "failed"}
    <2>1. u \in DOMAIN users /\ users'[u].secret = users[u].secret
      BY <1>1
    <2>2. QED
      BY <1>1, <2>1 DEF FactorInv
  <1>2. ASSUME NEW q \in Enables, stage'[q] = "answered"
        PROVE  seen'[q].user \in DOMAIN users' /\ users'[seen'[q].user].secret # "none"
    <2>1. stage[q] = "answered" /\ seen'[q] = seen[q]
      BY <1>2
    <2>2. QED
      BY <2>1 DEF FactorInv
  <1>3. QED
    BY <1>1, <1>2 DEF FactorInv

\* The steps of the other requests: only the register and first Nostr login add users, and the
\* role update changes one.
LEMMA FactorOthers ==
    ASSUME FactorInv, SInv, NEW q \in AuthRequests \ Enables,
           \E s : Goes(q, s),
           UNCHANGED seen \/ \E r : seen' = [seen EXCEPT ![q] = r],
           \/ UNCHANGED users
           \/ q \notin DOMAIN users /\ \E e : users' = Insert(users, q, NewUser(e))
           \/ \E u, r : users' = [users EXCEPT ![u].role = r]
    PROVE  FactorInv'
  <1>1. \A p \in Enables : p \in AuthRequests /\ p # q
    BY DEF AuthRequests
  <1>2. stage \in [AuthRequests -> Stages] /\ seen \in [AuthRequests -> SeenRow]
        /\ users \in [DOMAIN users -> UserRow]
    BY DEF SInv, Types
  <1>3. \A p \in Enables : stage'[p] = stage[p] /\ seen'[p] = seen[p]
    BY <1>1, <1>2 DEF Goes
  <1>4. CASE UNCHANGED users
    BY <1>3, <1>4, FactorQuiet
  <1>5. CASE q \notin DOMAIN users /\ \E e : users' = Insert(users, q, NewUser(e))
    <2>1. /\ \A u \in DOMAIN users : u \in DOMAIN users' /\ users'[u].secret = users[u].secret
          /\ \A u \in DOMAIN users' \ DOMAIN users : users'[u].secret = "none"
      BY <1>5 DEF Insert, NewUser
    <2>2. QED
      BY <1>3, <2>1, FactorQuiet
  <1>6. CASE \E u, r : users' = [users EXCEPT ![u].role = r]
    <2>1. DOMAIN users' = DOMAIN users
          /\ \A u \in DOMAIN users : users'[u].secret = users[u].secret
      BY <1>2, <1>6 DEF UserRow
    <2>2. QED
      BY <1>3, <2>1, FactorQuiet
  <1>7. QED
    BY <1>4, <1>5, <1>6

\* enable_2fa stores a secret whether or not its answer arrives.
LEMMA FactorEnable ==
    ASSUME FactorInv, SInv, NEW q \in Enables, Enable2FA(q) \/ RequestFails(q)
    PROVE  FactorInv'
  <1>1. /\ q \in AuthRequests /\ \A p \in Enables : p \in AuthRequests
        /\ stage \in [AuthRequests -> Stages] /\ seen \in [AuthRequests -> SeenRow]
        /\ users \in [DOMAIN users -> UserRow]
    BY DEF SInv, Types, AuthRequests
  <1>2. CASE EnableRead(q) \/ RequestFails(q)
    <2>1. users' = users /\ stage[q] \notin {"answered", "failed"} /\ stage'[q] # "answered"
      BY <1>1, <1>2 DEF EnableRead, RequestFails, At, Goes
    <2>2. \A p \in Enables \ {q} : stage'[p] = stage[p] /\ seen'[p] = seen[p]
      BY <1>1, <1>2 DEF EnableRead, RequestFails, Goes
    <2>3. QED
      BY <2>1, <2>2, FactorQuiet
  <1>3. CASE EnableWrite(q)
    <2> DEFINE v == seen[q].user
    <2>1. /\ v \in DOMAIN users /\ stage[q] = "enable" /\ seen' = seen
          /\ stage'[q] \in {"answered", "failed"}
          /\ \A p \in Enables \ {q} : stage'[p] = stage[p]
      BY <1>1, <1>3 DEF EnableWrite, At, Finishes, Goes, SInv, StageInv
    <2>2. /\ DOMAIN users' = DOMAIN users /\ users'[v].secret = q
          /\ \A u \in DOMAIN users \ {v} : users'[u].secret = users[u].secret
      BY <1>1, <1>3, <2>1 DEF EnableWrite, UserRow
    <2>3. q # "none"
      BY SessionAssumption
    <2> HIDE DEF v
    <2>4. ASSUME NEW u \in DOMAIN users, users'[u].secret # "none"
          PROVE  LET p == users'[u].secret
                 IN  p \in Enables /\ seen'[p].user = u /\ stage'[p] \in {"answered", "failed"}
      <3>1. CASE u = v
        BY <2>1, <2>2, <3>1 DEF v
      <3>2. CASE u # v
        BY <2>1, <2>2, <2>4, <3>2 DEF FactorInv
      <3>3. QED
        BY <3>1, <3>2
    <2>5. ASSUME NEW p \in Enables, stage'[p] = "answered"
          PROVE  seen[p].user \in DOMAIN users /\ users'[seen[p].user].secret # "none"
      <3>1. CASE p = q
        BY <2>1, <2>2, <2>3, <3>1 DEF v
      <3>2. CASE p # q
        BY <2>1, <2>2, <2>3, <2>5, <3>2 DEF FactorInv
      <3>3. QED
        BY <3>1, <3>2
    <2>6. QED
      BY <2>1, <2>2, <2>4, <2>5 DEF FactorInv
  <1>4. QED
    BY <1>2, <1>3 DEF Enable2FA

\* Whatever the others do, stored secrets stay.
LEMMA FactorStep == ASSUME FactorInv, SInv, SessionNext PROVE FactorInv'
  <1>1. CASE ClockAdvances
    BY <1>1, FactorQuiet DEF ClockAdvances
  <1>2. ASSUME NEW q \in AuthRequests, RequestFails(q)
        PROVE  FactorInv'
    <2>1. CASE q \in Enables
      BY <1>2, <2>1, FactorEnable
    <2>2. CASE q \notin Enables
      BY <1>2, <2>2, FactorOthers DEF RequestFails
    <2>3. QED
      BY <2>1, <2>2
  <1>3. ASSUME NEW q \in Registers, Register(q)
        PROVE  FactorInv'
    <2>1. q \in AuthRequests \ Enables
      BY KindsDiffer DEF Issuing, AuthRequests
    <2>2. stage[q] = "create" => q \notin DOMAIN users
      BY <2>1 DEF SInv, StageInv
    <2>3. CASE RegisterRead(q)
      BY <2>1, <2>3, FactorOthers DEF RegisterRead
    <2>4. CASE CreateUser(q)
      BY <2>1, <2>2, <2>4, FactorOthers DEF CreateUser, At
    <2>5. CASE IssueAuthResponse(q)
      BY <2>1, <2>5, FactorOthers DEF IssueAuthResponse, Finishes
    <2>6. QED
      BY <1>3, <2>3, <2>4, <2>5 DEF Register
  <1>4. ASSUME NEW q \in Logins, Login(q)
        PROVE  FactorInv'
    <2>1. q \in AuthRequests \ Enables
      BY KindsDiffer DEF Issuing, AuthRequests
    <2>2. QED
      BY <1>4, <2>1, FactorOthers DEF Login, LoginRead, IssueAuthResponse, Finishes
  <1>5. ASSUME NEW q \in NostrLogins, NostrLogin(q)
        PROVE  FactorInv'
    <2>1. q \in AuthRequests \ Enables
      BY KindsDiffer DEF Issuing, AuthRequests
    <2>2. stage[q] = "create" => q \notin DOMAIN users
      BY <2>1 DEF SInv, StageInv
    <2>3. CASE NostrRead(q)
      BY <2>1, <2>3, FactorOthers DEF NostrRead
    <2>4. CASE CreateNostrUser(q)
      BY <2>1, <2>2, <2>4, FactorOthers DEF CreateNostrUser, At
    <2>5. CASE CreateNostrIdentity(q)
      BY <2>1, <2>5, FactorOthers DEF CreateNostrIdentity
    <2>6. CASE IssueAuthResponse(q)
      BY <2>1, <2>6, FactorOthers DEF IssueAuthResponse, Finishes
    <2>7. QED
      BY <1>5, <2>3, <2>4, <2>5, <2>6 DEF NostrLogin
  <1>6. ASSUME NEW q \in Refreshes, Refresh(q)
        PROVE  FactorInv'
    <2>1. q \in AuthRequests \ Enables
      BY KindsDiffer DEF Issuing, AuthRequests
    <2>2. CASE RefreshRead(q)
      BY <2>1, <2>2, FactorOthers DEF RefreshRead
    <2>3. CASE RotateRefreshSession(q)
      BY <2>1, <2>3, FactorOthers DEF RotateRefreshSession, Finishes
    <2>4. QED
      BY <1>6, <2>2, <2>3 DEF Refresh
  <1>7. ASSUME NEW q \in Logouts, Logout(q)
        PROVE  FactorInv'
    <2>1. q \in AuthRequests \ Enables
      BY KindsDiffer DEF AuthRequests
    <2>2. QED
      BY <1>7, <2>1, FactorOthers DEF Logout, Finishes
  <1>8. ASSUME NEW q \in RoleUpdates, UpdateUserRole(q)
        PROVE  FactorInv'
    <2>1. q \in AuthRequests \ Enables
      BY KindsDiffer DEF AuthRequests
    <2>2. QED
      BY <1>8, <2>1, FactorOthers DEF UpdateUserRole, Finishes
  <1>9. ASSUME NEW q \in Enables, Enable2FA(q)
        PROVE  FactorInv'
    BY <1>9, FactorEnable
  <1>10. QED
    BY <1>1, <1>2, <1>3, <1>4, <1>5, <1>6, <1>7, <1>8, <1>9 DEF SessionNext

\* Who was given a TOTP secret is asked for a code ever after and passes with one of an own
\* request: with the answered one, unless two requests were enabling at once.
THEOREM SecretInForce == Spec => []AnsweredSecretIsInForce
  <1>1. Init => FactorInv
    <2> SUFFICES ASSUME Init PROVE FactorInv
      OBVIOUS
    <2>1. /\ \A u \in DOMAIN users : users[u].secret = "none"
          /\ \A q \in Enables : stage[q] = "idle"
      BY DEF Init, SessionInit, AuthRequests
    <2>2. QED
      BY <2>1 DEF FactorInv
  <1>2. SInv /\ FactorInv /\ [Next]_vars => FactorInv'
    <2>1. ASSUME SInv, FactorInv, UNCHANGED sessionVars PROVE FactorInv'
      BY <2>1, FactorQuiet DEF sessionVars
    <2>2. QED
      BY <2>1, FactorStep DEF Next, vars
  <1>3. SInv /\ FactorInv => AnsweredSecretIsInForce
    <2>1. ASSUME SInv, FactorInv, NEW q \in Enables, stage[q] = "answered"
          PROVE  LET u == seen[q].user
                 IN  /\ ~Check2FA(u, NoCode) /\ ~Require2FA(u, NoCode)
                     /\ \E p \in Enables :
                           /\ seen[p].user = u /\ stage[p] \in {"answered", "failed"}
                           /\ VerifyTwoFactor(u, p)
                     /\ u \notin overlapped =>
                           VerifyTwoFactor(u, q) /\ Check2FA(u, q) /\ Require2FA(u, q)
      BY <2>1, SessionAssumption
         DEF SInv, SecretInv, FactorInv, VerifyTwoFactor, Check2FA, Require2FA
    <2>2. QED
      BY <2>1 DEF AnsweredSecretIsInForce
  <1>4. QED
    BY <1>1, <1>2, <1>3, SessionsInv, PTL DEF Spec

-----------------------------------------------------------------------------
(* The rate limiter.                                                       *)

\* What _hits of a bucket (h) is of the requests let through (a): the last of them, and those
\* before have expired at t.  Below, l is the limit, p the promise and r the last refusal.
Window(h, a, t, l, p, r) ==
    /\ h \in Seq(0..t) /\ a \in Seq(0..t) /\ p \in Int /\ r \in Int
    /\ Len(h) <= l /\ Len(h) <= Len(a) /\ Len(a) <= l + 1
    /\ \A i, j \in 1..Len(a) : i <= j => a[i] <= a[j]
    /\ \A i \in 1..Len(h) : h[i] = a[i + Len(a) - Len(h)]
    /\ \A i \in 1..Len(a) : i <= Len(a) - Len(h) => a[i] <= t - Span
    /\ Len(a) = l + 1 => a[l + 1] - a[1] >= Span
    /\ p # 0 => Len(h) = l /\ h[1] + Span < p /\ r < p

RInv ==
    /\ tick \in Nat
    /\ hits = [b \in Buckets |-> hits[b]] /\ DOMAIN admitted = Buckets
    /\ DOMAIN promise = Buckets /\ DOMAIN refused = Buckets
    /\ \A b \in Buckets :
          Window(hits[b], admitted[b], tick, Limit(b[1]), promise[b], refused[b])

\* The window has a length.
LEMMA SpanType == Span \in Nat /\ Span > 0
  <1>1. WindowSeconds \in Nat /\ TicksPerSecond \in Nat /\ WindowSeconds > 0 /\ TicksPerSecond > 0
    BY RateAssumption
  <1>2. WindowSeconds * TicksPerSecond \in Nat /\ WindowSeconds * TicksPerSecond > 0
    BY <1>1
  <1>3. QED
    BY <1>2 DEF Span

\* A rule without a limit makes no bucket.
LEMMA BucketsHaveLimits == \A b \in Buckets : Limit(b[1]) \in Nat /\ Limit(b[1]) > 0
  <1>1. Rules \in Seq({"sensitive", "writes"}) /\ Len(Rules) \in 0..2
        /\ \A i \in DOMAIN Rules : Limit(Rules[i]) \in Nat /\ Limit(Rules[i]) > 0
    <2> DEFINE first == IF SensitivePaths # {} /\ SensitiveLimit > 0 THEN <<"sensitive">> ELSE <<>>
               second == IF WriteLimit > 0 THEN <<"writes">> ELSE <<>>
    <2>1. /\ first \in Seq({"sensitive", "writes"}) /\ Len(first) \in 0..1
          /\ \A i \in 1..Len(first) : Limit(first[i]) \in Nat /\ Limit(first[i]) > 0
      <3>1. CASE SensitivePaths # {} /\ SensitiveLimit > 0
        <4>1. first = <<"sensitive">> /\ Limit("sensitive") = SensitiveLimit
          BY <3>1 DEF Limit
        <4> HIDE DEF first
        <4>2. QED
          BY <3>1, <4>1, RateAssumption
      <3>2. CASE ~(SensitivePaths # {} /\ SensitiveLimit > 0)
        <4>1. first = <<>>
          BY <3>2
        <4> HIDE DEF first
        <4>2. QED
          BY <4>1
      <3>3. QED
        BY <3>1, <3>2
    <2>2. /\ second \in Seq({"sensitive", "writes"}) /\ Len(second) \in 0..1
          /\ \A i \in 1..Len(second) : Limit(second[i]) \in Nat /\ Limit(second[i]) > 0
      BY RateAssumption DEF Limit
    <2>3. Rules = first \o second
      BY DEF Rules
    <2> HIDE DEF first, second
    <2>4. QED
      BY <2>1, <2>2, <2>3
  <1>2. ASSUME NEW c \in Clients, NEW p \in Paths, Matching(p) # {}
        PROVE  Limit(BucketOf(c, p)[1]) \in Nat /\ Limit(BucketOf(c, p)[1]) > 0
    <2>1. Matching(p) \subseteq {1, 2} /\ Matching(p) \subseteq DOMAIN Rules
      BY <1>1 DEF Matching
    <2>2. \E x \in Matching(p) : \A y \in Matching(p) : x <= y
      <3>1. CASE 1 \in Matching(p)
        BY <2>1, <3>1
      <3>2. CASE 1 \notin Matching(p)
        BY <1>2, <2>1, <3>2
      <3>3. QED
        BY <3>1, <3>2
    <2>3. Min(Matching(p)) \in Matching(p)
      BY <2>2 DEF Min
    <2>4. BucketOf(c, p)[1] = Rules[Min(Matching(p))]
      BY DEF BucketOf
    <2>5. QED
      BY <1>1, <2>1, <2>3, <2>4
  <1>3. QED
    BY <1>2 DEF Buckets

\* _trim_expired drops hits that have expired, up to the first that has not.
LEMMA TrimKeepsLater ==
    ASSUME tick \in Nat, NEW s \in Seq(0..tick)
    PROVE  \E n \in 0..Len(s) :
              /\ Trim(s) = SubSeq(s, n + 1, Len(s))
              /\ \A i \in 1..n : s[i] <= tick - Span
              /\ n < Len(s) => s[n+1] > tick - Span
  <1> DEFINE E(n) == (\A i \in 1..n : s[i] <= tick - Span) /\ (n < Len(s) => s[n+1] > tick - Span)
             T == {n \in 0..Len(s) : n < Len(s) => s[n+1] > tick - Span}
  <1>1. Len(s) \in Nat /\ \A i \in 1..Len(s) : s[i] \in Int
    OBVIOUS
  <1>2. T \subseteq Nat /\ Len(s) \in T
    BY <1>1
  <1>3. PICK n \in T : \A m \in T : ~(m < n)
    <2> HIDE DEF T
    <2>1. \E x \in T : \A y \in T : ~(<<y, x>> \in OpToRel(<, Nat))
      BY <1>2, WFMin, NatLessThanWellFounded
    <2>2. QED
      BY <1>2, <2>1 DEF OpToRel
  <1>4. ASSUME NEW i \in 1..n
        PROVE  i - 1 \in 0..Len(s) /\ i - 1 < n /\ i - 1 < Len(s) /\ i - 1 \notin T
    <2>1. n \in 0..Len(s)
      BY <1>3
    <2>2. i - 1 \in 0..Len(s) /\ i - 1 < n /\ i - 1 < Len(s)
      BY <1>1, <2>1
    <2> HIDE DEF T
    <2>3. QED
      BY <1>3, <2>2
  <1>5. E(n)
    BY <1>1, <1>3, <1>4, SpanType
  <1>6. E(CHOOSE m \in 0..Len(s) : E(m)) /\ (CHOOSE m \in 0..Len(s) : E(m)) \in 0..Len(s)
    <2>1. n \in 0..Len(s)
      BY <1>3
    <2> HIDE DEF E, T
    <2>2. QED
      BY <1>5, <2>1
  <1>7. Trim(s) = SubSeq(s, (CHOOSE m \in 0..Len(s) : E(m)) + 1, Len(s))
    BY DEF Trim
  <1> DEFINE x == CHOOSE m \in 0..Len(s) : E(m)
  <1>8. x \in 0..Len(s) /\ E(x) /\ Trim(s) = SubSeq(s, x + 1, Len(s))
    BY <1>6, <1>7
  <1> HIDE DEF x
  <1>9. QED
    BY <1>8

\* What is left after the trim is still a window, and its first hit has not expired.
LEMMA KeptIsWindow ==
    ASSUME tick \in Nat, NEW h, NEW a, NEW l \in Nat, NEW p, NEW r, Window(h, a, tick, l, p, r)
    PROVE  /\ Window(Trim(h), a, tick, l, 0, r)
           /\ Len(Trim(h)) > 0 => Trim(h)[1] > tick - Span
           /\ Len(Trim(h)) >= l => Trim(h) = h
  <1> USE SpanType
  <1>1. PICK n \in 0..Len(h) :
           /\ Trim(h) = SubSeq(h, n + 1, Len(h))
           /\ \A i \in 1..n : h[i] <= tick - Span
           /\ n < Len(h) => h[n+1] > tick - Span
    BY TrimKeepsLater DEF Window
  <1> DEFINE k == Trim(h)
  <1>2. /\ h \in Seq(0..tick) /\ Len(h) \in Nat /\ Len(a) \in Nat
        /\ \A i \in 1..Len(h) : h[i] \in 0..tick
    <2>1. h \in Seq(0..tick) /\ a \in Seq(0..tick)
      BY DEF Window
    <2>2. Len(h) \in Nat /\ Len(a) \in Nat
      BY <2>1
    <2>3. QED
      BY <2>1, <2>2
  <1>3. k \in Seq(0..tick) /\ Len(k) = Len(h) - n /\ \A i \in 1..Len(k) : k[i] = h[i + n]
    BY <1>1, <1>2
  <1> HIDE DEF k
  <1>4. ASSUME NEW i \in 1..Len(k) PROVE k[i] = a[i + Len(a) - Len(k)]
    <2>1. i + n \in 1..Len(h) /\ (i + n) + Len(a) - Len(h) = i + Len(a) - Len(k)
      BY <1>2, <1>3
    <2>2. h[i + n] = a[(i + n) + Len(a) - Len(h)]
      BY <2>1 DEF Window
    <2>3. QED
      BY <1>3, <2>1, <2>2
  <1>5. \A i \in 1..Len(a) : i <= Len(a) - Len(k) => a[i] <= tick - Span
    <2> SUFFICES ASSUME NEW i \in 1..Len(a), i <= Len(a) - Len(k), i > Len(a) - Len(h)
                 PROVE  a[i] <= tick - Span
      BY <1>2, <1>3 DEF Window
    <2> DEFINE j == i - Len(a) + Len(h)
    <2>1. j \in 1..n /\ j \in 1..Len(h) /\ j + Len(a) - Len(h) = i
      BY <1>2, <1>3
    <2> HIDE DEF j
    <2>2. h[j] = a[i]
      BY <2>1 DEF Window
    <2>3. QED
      BY <1>1, <2>1, <2>2
  <1>6. Window(k, a, tick, l, 0, r)
    BY <1>2, <1>3, <1>4, <1>5 DEF Window
  <1>7. Len(k) > 0 => k[1] > tick - Span
    <2> SUFFICES ASSUME Len(k) > 0 PROVE k[1] > tick - Span
      OBVIOUS
    <2>1. n < Len(h) /\ 1 \in 1..Len(k)
      BY <1>2, <1>3
    <2>2. k[1] = h[1 + n] /\ 1 + n = n + 1
      BY <1>3, <2>1
    <2>3. QED
      BY <1>1, <2>1, <2>2
  <1>8. Len(k) >= l => k = h
    <2> SUFFICES ASSUME Len(k) >= l PROVE k = h
      OBVIOUS
    <2>1. n = 0
      BY <1>2, <1>3 DEF Window
    <2>2. QED
      BY <1>1, <1>2, <2>1 DEF k
  <1>9. QED
    BY <1>6, <1>7, <1>8 DEF k

\* q is s with the moment t at its end, and without its first entry if d is 1.
Logged(q, s, t, d) ==
    /\ q \in Seq(0..t) /\ d \in {0, 1} /\ Len(q) = Len(s) + 1 - d
    /\ \A i \in 1..Len(q) : q[i] = IF i + d <= Len(s) THEN s[i + d] ELSE t

\* One more request is let through; at most one of the earlier ones is forgotten (d).
LEMMA AdmittedIsWindow ==
    ASSUME tick \in Nat, NEW k, NEW a, NEW l \in Nat, l > 0, NEW r, NEW hh, NEW aa, NEW d,
           Window(k, a, tick, l, 0, r), Len(k) < l,
           Logged(hh, k, tick, 0), Logged(aa, a, tick, d), Len(aa) <= l + 1,
           d = 1 => Len(a) = l + 1
    PROVE  Window(hh, aa, tick, l, 0, r)
  <1> USE SpanType
  <1> DEFINE n == Len(k)
             m == Len(a)
             nn == Len(hh)
             mm == Len(aa)
  <1>1. n \in Nat /\ m \in Nat /\ n <= m /\ m <= l + 1 /\ n < l
    BY DEF Window
  <1>2. nn = n + 1 /\ d \in {0, 1} /\ mm = m + 1 - d /\ mm <= l + 1 /\ (d = 1 => m = l + 1)
    BY DEF Logged
  <1>3. nn \in Nat /\ mm \in Nat /\ d \in Nat
    BY <1>1, <1>2
  <1>4. \A i \in 1..m : a[i] \in 0..tick
    BY DEF Window
  <1>5. \A i \in 1..mm : aa[i] = IF i + d <= m THEN a[i + d] ELSE tick
    BY DEF Logged
  <1>6. \A i \in 1..nn : hh[i] = IF i <= n THEN k[i] ELSE tick
    BY <1>1, <1>3 DEF Logged
  <1>7. /\ \A i, j \in 1..m : i <= j => a[i] <= a[j]
        /\ \A i \in 1..n : k[i] = a[i + m - n]
        /\ \A i \in 1..m : i <= m - n => a[i] <= tick - Span
    BY DEF Window
  <1> HIDE DEF n, m, nn, mm
  <1>8. ASSUME NEW i \in 1..mm, NEW j \in 1..mm, i <= j PROVE aa[i] <= aa[j]
    <2>1. i \in Nat /\ j \in Nat /\ i + d > 0 /\ j + d > 0
      BY <1>3
    <2>2. CASE j + d <= m
      <3>1. i + d \in 1..m /\ j + d \in 1..m /\ i + d <= j + d
        BY <1>1, <1>3, <1>8, <2>1, <2>2
      <3>2. QED
        BY <1>5, <1>7, <1>8, <2>2, <3>1
    <2>3. CASE j + d > m
      <3>1. aa[j] = tick
        BY <1>1, <1>3, <1>5, <2>1, <2>3
      <3>2. CASE i + d <= m
        <4>1. i + d \in 1..m
          BY <1>1, <1>3, <2>1, <3>2
        <4>2. QED
          BY <1>4, <1>5, <3>1, <3>2, <4>1
      <3>3. CASE i + d > m
        BY <1>1, <1>3, <1>5, <2>1, <3>1, <3>3
      <3>4. QED
        BY <1>1, <1>3, <2>1, <3>2, <3>3
    <2>4. QED
      BY <1>1, <1>3, <2>1, <2>2, <2>3
  <1>9. ASSUME NEW i \in 1..nn PROVE hh[i] = aa[i + mm - nn]
    <2> DEFINE x == i + mm - nn
    <2>1. x \in 1..mm /\ x + d = i + m - n /\ (i <= n <=> x + d <= m)
      BY <1>1, <1>2, <1>3
    <2> HIDE DEF x
    <2>2. i <= n => i \in 1..n
      BY <1>1, <1>3
    <2>3. hh[i] = aa[x]
      BY <1>5, <1>6, <1>7, <2>1, <2>2
    <2>4. QED
      BY <2>3 DEF x
  <1>10. ASSUME NEW i \in 1..mm, i <= mm - nn PROVE aa[i] <= tick - Span
    <2>1. i + d \in 1..m /\ i + d <= m - n /\ i + d <= m
      BY <1>1, <1>2, <1>3, <1>10
    <2>2. QED
      BY <1>5, <1>7, <2>1
  <1>11. mm = l + 1 => aa[l + 1] - aa[1] >= Span
    <2> SUFFICES ASSUME mm = l + 1 PROVE aa[l + 1] - aa[1] >= Span
      OBVIOUS
    <2>1. l + 1 \in 1..mm /\ 1 \in 1..mm /\ 1 <= mm - nn /\ ~(l + 1 + d <= m)
          /\ 1 + d <= m /\ 1 + d \in 1..m
      BY <1>1, <1>2, <1>3
    <2>2. aa[l + 1] = tick /\ aa[1] = a[1 + d]
      BY <1>5, <2>1
    <2>3. aa[1] <= tick - Span /\ aa[1] \in Int
      BY <1>4, <1>10, <2>1, <2>2
    <2>4. QED
      BY <2>2, <2>3
  <1>12. nn <= l /\ nn <= mm
    BY <1>1, <1>2, <1>3
  <1>13. hh \in Seq(0..tick) /\ aa \in Seq(0..tick) /\ r \in Int
    BY DEF Logged, Window
  <1>14. QED
    BY <1>2, <1>8, <1>9, <1>10, <1>11, <1>12, <1>13 DEF Window, n, m, nn, mm

\* Append, and the Tail of what is longer than the history keeps.
LEMMA AppendIsLogged ==
    ASSUME NEW t \in Nat, NEW s \in Seq(0..t)
    PROVE  Logged(Append(s, t), s, t, 0) /\ Logged(Tail(Append(s, t)), s, t, 1)
  <1> DEFINE q == Append(s, t)
  <1>1. /\ q \in Seq(0..t) /\ Len(q) = Len(s) + 1 /\ Len(s) \in Nat
        /\ \A i \in 1..Len(q) : q[i] = IF i <= Len(s) THEN s[i] ELSE t
    OBVIOUS
  <1> HIDE DEF q
  <1>2. Logged(q, s, t, 0)
    BY <1>1 DEF Logged
  <1> DEFINE p == Tail(q)
  <1>3. p \in Seq(0..t) /\ Len(p) = Len(q) - 1 /\ \A i \in 1..Len(p) : p[i] = q[i + 1]
    BY <1>1
  <1> HIDE DEF p
  <1>4. Logged(p, s, t, 1)
    <2>1. Len(p) = Len(s) + 1 - 1 /\ Len(p) = Len(s)
      BY <1>1, <1>3
    <2>2. ASSUME NEW i \in 1..Len(p) PROVE p[i] = IF i + 1 <= Len(s) THEN s[i + 1] ELSE t
      <3>1. i + 1 \in 1..Len(q) /\ p[i] = q[i + 1]
        BY <1>1, <1>3, <2>1
      <3>2. QED
        BY <1>1, <3>1
    <2>3. QED
      BY <1>3, <2>1, <2>2 DEF Logged
  <1>5. QED
    BY <1>2, <1>4 DEF p, q

\* Empty windows, at the start and after a restart.
LEMMA NoHitsIsWindow ==
    ASSUME tick \in Nat, NEW l \in Nat, l > 0
    PROVE  Window(<<>>, <<>>, tick, l, 0, 0)
  BY DEF Window

\* At the start every window is empty.
LEMMA RateInitInv == RateInit => RInv
  <1> SUFFICES ASSUME RateInit PROVE RInv
    OBVIOUS
  <1>1. tick \in Nat
    BY DEF RateInit
  <1>2. ASSUME NEW b \in Buckets
        PROVE  Window(hits[b], admitted[b], tick, Limit(b[1]), promise[b], refused[b])
    BY <1>1, BucketsHaveLimits, NoHitsIsWindow DEF RateInit
  <1>3. QED
    BY <1>1, <1>2 DEF RInv, RateInit

\* A restart forgets the hits, and so what was promised about them.
LEMMA RestartInv == RInv /\ Restart => RInv'
  <1> SUFFICES ASSUME RInv, Restart PROVE RInv'
    OBVIOUS
  <1>1. tick \in Nat /\ tick' = tick
    BY DEF RInv, Restart
  <1>2. ASSUME NEW b \in Buckets
        PROVE  Window(hits'[b], admitted'[b], tick, Limit(b[1]), promise'[b], refused'[b])
    BY <1>1, BucketsHaveLimits, NoHitsIsWindow DEF Restart
  <1>3. QED
    BY <1>1, <1>2 DEF RInv, Restart

\* What has expired stays expired.
LEMMA LaterWindow ==
    ASSUME NEW t \in Nat, NEW u \in Nat, t <= u, NEW h, NEW a, NEW l, NEW p, NEW r, Window(h, a, t, l, p, r)
    PROVE  Window(h, a, u, l, p, r)
  <1>1. h \in Seq(0..t) /\ a \in Seq(0..t)
    BY DEF Window
  <1>2. 0..t \subseteq 0..u
    OBVIOUS
  <1>3. h \in Seq(0..u) /\ a \in Seq(0..u) /\ \A i \in 1..Len(a) : a[i] \in 0..t
    BY <1>1, <1>2
  <1>4. \A i \in 1..Len(a) : i <= Len(a) - Len(h) => a[i] <= u - Span
    <2>1. \A i \in 1..Len(a) : i <= Len(a) - Len(h) => a[i] <= t - Span
      BY DEF Window
    <2>2. QED
      BY <1>3, <2>1, SpanType
  <1>5. /\ Len(a) = l + 1 => a[l + 1] - a[1] >= Span
        /\ p # 0 => Len(h) = l /\ h[1] + Span < p /\ r < p
        /\ p \in Int /\ r \in Int /\ Len(h) <= l /\ Len(h) <= Len(a) /\ Len(a) <= l + 1
        /\ \A i, j \in 1..Len(a) : i <= j => a[i] <= a[j]
        /\ \A i \in 1..Len(h) : h[i] = a[i + Len(a) - Len(h)]
    BY DEF Window
  <1>6. h \in Seq(0..u) /\ a \in Seq(0..u)
    BY <1>3
  <1>7. QED
    BY <1>4, <1>5, <1>6 DEF Window

\* As time goes by hits leave the window, and what was promised comes true.
LEMMA TickInv == RInv /\ Tick => RInv'
  <1> SUFFICES ASSUME RInv, Tick PROVE RInv'
    OBVIOUS
  <1>1. tick \in Nat /\ tick' = tick + 1
    BY DEF RInv, Tick
  <1>2. QED
    BY <1>1, LaterWindow DEF RInv, Tick

\* A request that is let through finds less than the limit in the window, and adds its hit.
LEMMA AdmitInv == ASSUME RInv, NEW b \in Buckets, Admit(b) PROVE RInv'
  <1> DEFINE l == Limit(b[1])
             kept == Trim(hits[b])
             all == Append(admitted[b], tick)
  <1>1. tick \in Nat /\ l \in Nat /\ l > 0
        /\ Window(hits[b], admitted[b], tick, l, promise[b], refused[b])
    BY BucketsHaveLimits DEF RInv
  <1>2. /\ Len(kept) < l /\ hits' = [hits EXCEPT ![b] = Append(kept, tick)]
        /\ admitted' = [admitted EXCEPT ![b] = IF Len(all) > l + 1 THEN Tail(all) ELSE all]
        /\ promise' = [promise EXCEPT ![b] = 0] /\ tick' = tick /\ refused' = refused
    BY DEF Admit
  <1>3. Window(kept, admitted[b], tick, l, 0, refused[b])
    BY <1>1, KeptIsWindow
  <1>4. kept \in Seq(0..tick) /\ admitted[b] \in Seq(0..tick) /\ Len(admitted[b]) <= l + 1
        /\ Len(admitted[b]) \in Nat
    BY <1>3 DEF Window
  <1>5. PICK d : /\ Logged(admitted'[b], admitted[b], tick, d) /\ Len(admitted'[b]) <= l + 1
                 /\ d = 1 => Len(admitted[b]) = l + 1
    <2>1. Len(all) = Len(admitted[b]) + 1
      BY <1>1, <1>4
    <2>2. admitted'[b] = IF Len(all) > l + 1 THEN Tail(all) ELSE all
      BY <1>2 DEF RInv
    <2>3. Logged(all, admitted[b], tick, 0) /\ Logged(Tail(all), admitted[b], tick, 1)
      BY <1>1, <1>4, AppendIsLogged
    <2> HIDE DEF all, l
    <2>4. CASE Len(all) > l + 1
      <3>1. Len(admitted[b]) = l + 1 /\ Len(Tail(all)) = l + 1
        <4>1. Len(Tail(all)) = Len(admitted[b]) + 1 - 1
          BY ONLY <2>3 DEF Logged
        <4>2. l \in Nat /\ Len(admitted[b]) \in Nat /\ Len(admitted[b]) <= l + 1
          BY ONLY <1>1, <1>4
        <4>3. Len(admitted[b]) + 1 > l + 1
          BY ONLY <2>1, <2>4
        <4>4. QED
          BY ONLY <4>1, <4>2, <4>3
      <3>2. QED
        BY <1>1, <2>2, <2>3, <2>4, <3>1
    <2>5. CASE ~(Len(all) > l + 1)
      BY <1>1, <1>4, <2>1, <2>2, <2>3, <2>5
    <2>6. QED
      BY <2>4, <2>5
  <1>6. Logged(Append(kept, tick), kept, tick, 0)
    BY <1>1, <1>4, AppendIsLogged
  <1>7. Window(Append(kept, tick), admitted'[b], tick, l, 0, refused[b])
    BY <1>1, <1>2, <1>3, <1>5, <1>6, AdmittedIsWindow
  <1>8. hits'[b] = Append(kept, tick) /\ promise'[b] = 0
    BY <1>2 DEF RInv
  <1> HIDE DEF l, kept, all
  <1>9. ASSUME NEW c \in Buckets
        PROVE  Window(hits'[c], admitted'[c], tick, Limit(c[1]), promise'[c], refused'[c])
    <2>1. CASE c = b
      BY <1>2, <1>7, <1>8, <2>1 DEF l
    <2>2. CASE c # b
      BY <1>2, <2>2 DEF RInv
    <2>3. QED
      BY <2>1, <2>2
  <1>10. QED
    BY <1>2, <1>9 DEF RInv

\* The promise is kept while no other request is admitted, since the window stays full.
LEMMA RefuseInv == ASSUME RInv, NEW b \in Buckets, Refuse(b) PROVE RInv'
  <1> DEFINE l == Limit(b[1])
             kept == Trim(hits[b])
             p == promise[b]
             soon == tick + (RetryAfter(kept) + 1) * TicksPerSecond
  <1>1. tick \in Nat /\ l \in Nat /\ l > 0
        /\ Window(hits[b], admitted[b], tick, l, p, refused[b])
    BY BucketsHaveLimits DEF RInv
  <1>2. /\ Len(kept) >= l /\ hits' = [hits EXCEPT ![b] = kept]
        /\ promise' = [promise EXCEPT ![b] = IF @ = 0 THEN soon ELSE @]
        /\ refused' = [refused EXCEPT ![b] = tick] /\ tick' = tick /\ admitted' = admitted
    BY DEF Refuse
  <1>3. /\ Window(kept, admitted[b], tick, l, 0, refused[b]) /\ kept = hits[b]
        /\ Len(kept) > 0 => kept[1] > tick - Span
    BY <1>1, <1>2, KeptIsWindow
  <1>4. /\ kept \in Seq(0..tick) /\ Len(kept) = l
        /\ kept[1] \in 0..tick /\ kept[1] > tick - Span
    BY <1>1, <1>2, <1>3 DEF Window
  <1>5. soon \in Int /\ kept[1] + Span < soon
    <2> DEFINE n == Span - (tick - kept[1])
               retry == RetryAfter(kept)
    <2>1. n \in Int /\ TicksPerSecond \in Nat /\ TicksPerSecond > 0
      BY <1>1, <1>4, SpanType, RateAssumption
    <2>2. retry \in Int /\ retry >= n \div TicksPerSecond
      <3>1. retry = Max({1, n \div TicksPerSecond})
        BY <1>1, <1>4 DEF RetryAfter
      <3>2. n \div TicksPerSecond \in Int
        BY <2>1
      <3> HIDE DEF n, retry
      <3>3. \E x \in {1, n \div TicksPerSecond} : \A y \in {1, n \div TicksPerSecond} : x >= y
        BY <3>2
      <3>4. QED
        BY <3>1, <3>2, <3>3 DEF Max
    <2> HIDE DEF n, retry
    <2>3. (n \div TicksPerSecond + 1) * TicksPerSecond > n
      BY <2>1
    <2>4. (retry + 1) * TicksPerSecond >= (n \div TicksPerSecond + 1) * TicksPerSecond
      BY <2>1, <2>2
    <2>5. (retry + 1) * TicksPerSecond \in Int /\ (retry + 1) * TicksPerSecond > n
      BY <2>1, <2>2, <2>3, <2>4
    <2>6. QED
      BY <1>1, <1>4, <2>5, SpanType DEF n, retry
  <1>6. promise'[b] = (IF p = 0 THEN soon ELSE p) /\ refused'[b] = tick /\ hits'[b] = kept
    BY <1>2 DEF RInv
  <1> HIDE DEF l, kept, soon, p
  <1>7. Window(kept, admitted[b], tick, l, promise'[b], tick)
    <2>1. p # 0 => kept[1] + Span < p /\ p \in Int
      BY <1>1, <1>3 DEF Window
    <2>2. tick < kept[1] + Span
      BY <1>1, <1>4, SpanType
    <2>3. promise'[b] \in Int /\ kept[1] + Span < promise'[b] /\ tick < promise'[b]
      BY <1>1, <1>4, <1>5, <1>6, <2>1, <2>2, SpanType
    <2>4. QED
      BY <1>1, <1>3, <1>4, <2>3 DEF Window
  <1>8. ASSUME NEW c \in Buckets
        PROVE  Window(hits'[c], admitted'[c], tick, Limit(c[1]), promise'[c], refused'[c])
    <2>1. CASE c = b
      BY <1>2, <1>6, <1>7, <2>1 DEF l
    <2>2. CASE c # b
      BY <1>2, <2>2 DEF RInv
    <2>3. QED
      BY <2>1, <2>2
  <1>9. QED
    BY <1>2, <1>8 DEF RInv

\* Every request, admitted or not, keeps the windows.
LEMMA RateStepInv == RInv /\ RateNext => RInv'
  <1> SUFFICES ASSUME RInv, RateNext PROVE RInv'
    OBVIOUS
  <1>1. ASSUME NEW c \in Clients, NEW p \in Paths, Dispatch(c, p)
        PROVE  RInv'
    <2>1. BucketOf(c, p) \in Buckets
      BY <1>1 DEF Dispatch, Buckets
    <2>2. QED
      BY <1>1, <2>1, AdmitInv, RefuseInv DEF Dispatch
  <1>2. QED
    BY <1>1, TickInv, RestartInv DEF RateNext

\* A step of the sessions leaves the limiter as it is.
LEMMA RateStutterInv == RInv /\ UNCHANGED rateVars => RInv'
  BY DEF RInv, rateVars

\* What the limiter keeps of a bucket is the end of the requests it has let through.
THEOREM LimiterInv == Spec => []RInv
  <1>1. Init => RInv
    BY RateInitInv DEF Init
  <1>2. RInv /\ [Next]_vars => RInv'
    BY RateStepInv, RateStutterInv DEF Next, vars
  <1>3. QED
    BY <1>1, <1>2, PTL DEF Spec

\* No window lets more than the limit through, wherever it starts, and nobody is held back
\* for longer than Retry-After said.
THEOREM LimiterFair == Spec => []LimiterIsFair
  <1>1. ASSUME RInv, NEW b \in Buckets, NEW i \in DOMAIN admitted[b],
               i + Limit(b[1]) \in DOMAIN admitted[b]
        PROVE  admitted[b][i + Limit(b[1])] - admitted[b][i] >= Span
    <2> DEFINE a == admitted[b]
               l == Limit(b[1])
    <2>1. a \in Seq(0..tick) /\ Len(a) <= l + 1 /\ (Len(a) = l + 1 => a[l + 1] - a[1] >= Span)
      BY <1>1 DEF RInv, Window
    <2>2. l \in Nat /\ Len(a) \in Nat /\ i \in 1..Len(a) /\ i + l \in 1..Len(a)
      BY <1>1, <2>1, BucketsHaveLimits
    <2> HIDE DEF a, l
    <2>3. i = 1 /\ Len(a) = l + 1
      BY <2>1, <2>2
    <2>4. QED
      BY <2>1, <2>2, <2>3 DEF a, l
  <1>2. ASSUME RInv, NEW b \in Buckets, promise[b] # 0
        PROVE  refused[b] < promise[b]
    BY <1>2 DEF RInv, Window
  <1>3. RInv => LimiterIsFair
    BY <1>1, <1>2 DEF LimiterIsFair, WindowIsRespected, RefusalsEnd
  <1>4. QED
    BY <1>3, LimiterInv, PTL

\* Types, the foreign keys, the UNIQUE email, and the times the limiter keeps.
THEOREM IdentityTypes == Spec => []TypeOK
  <1>1. SInv /\ RInv => TypeOK
    <2> SUFFICES ASSUME SInv, RInv PROVE TypeOK
      OBVIOUS
    <2>1. hits \in [Buckets -> Seq(0..tick)]
      <3>1. \A b \in Buckets : hits[b] \in Seq(0..tick)
        BY DEF RInv, Window
      <3>2. QED
        BY <3>1 DEF RInv
    <2>2. \A u \in DOMAIN users : users[u].role \in Roles /\ users[u].secret \in Enables \cup {"none"}
      BY DEF SInv, Types, UserRow
    <2>3. QED
      BY <2>1, <2>2 DEF SInv, Types, EmailsInv, LoginInv, TypeOK
  <1>2. QED
    BY <1>1, SessionsInv, LimiterInv, PTL
=============================================================================
