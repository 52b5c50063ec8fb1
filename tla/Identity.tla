-------------------------------- MODULE Identity --------------------------------
(***************************************************************************)
(* Who may do what, and how often: sessions and roles beside the rate      *)
(* limiter that stands before every handler.                               *)
(***************************************************************************)
EXTENDS Sessions, RateLimiter

CONSTANT Workloads   \* the sets of requests that may come together

ASSUME WorkloadAssumption == Workloads \subseteq SUBSET AuthRequests

vars == <<sessionVars, rateVars>>

Init == present \in Workloads /\ SessionInit /\ RateInit

\* A behaviour is either about sessions or, without any, about the limiter.
Next ==
    \/ SessionNext /\ UNCHANGED rateVars
    \/ present = {} /\ RateNext /\ UNCHANGED sessionVars

Spec == Init /\ [][Next]_vars

-----------------------------------------------------------------------------
(* Properties.                                                             *)

\* Types, the foreign keys, and the UNIQUE email of users.
TypeOK ==
    /\ DOMAIN users \subseteq UserIds
    /\ \A u, v \in DOMAIN users :
          users[u].email = users[v].email /\ users[u].email # NoCredential => u = v
    /\ \A u \in DOMAIN users : users[u].role \in Roles /\ users[u].secret \in Enables \cup {"none"}
    /\ \A k \in DOMAIN linked : linked[k] \in DOMAIN users
    /\ DOMAIN sessions = DOMAIN claims /\ DOMAIN sessions \subseteq Issuing
    /\ \A s \in DOMAIN sessions : sessions[s].user \in DOMAIN users /\ sessions[s].user = claims[s].user
    /\ hits \in [Buckets -> Seq(0..tick)]

\* specs/abuse-controls.md:54 and specs/database-schema.md:384: a refresh token is good once.
\* However often the tokens of a login are presented at the same time, at most one session
\* descends from it, and none does after a logout that was answered.
OneLiveSessionPerLogin ==
    /\ \A s, t \in DOMAIN sessions :
          Live(s) /\ Live(t) /\ sessions[s].login = sessions[t].login => s = t
    /\ \A q \in Logouts : stage[q] = "answered" =>
          ~\E s \in DOMAIN sessions : Live(s) /\ sessions[s].login = sessions[presented[q]].login

\* The services trust the role in the token.  A role that was taken from a user opens no
\* endpoint once the tokens issued before have run out, whatever chain of refreshes follows:
\* it was held AccessTTL ago at the earliest, plus what the issuing request took.
TakenRolesRunOut ==
    \A t \in DOMAIN claims :
        LET c == claims[t]
            stale == \/ RequireAdmin(t) /\ ~RequireRoles(t, {"admin"})
                     \/ RequireSeller(t) /\ ~RequireRoles(t, {"seller", "admin"})
        IN  stale => now - lastHeld[c.user][c.role] <= AccessTTL + (c.issued - c.read)

\* One email or public key is one account, in all answers of register, login and Nostr login.
SameCredentialSameUser ==
    \A p, q \in Registers \cup Logins \cup NostrLogins :
        stage[p] = "answered" /\ stage[q] = "answered" /\ Credential[p] = Credential[q] =>
            claims[p].user = claims[q].user

\* A user who was given a TOTP secret is asked for a code at every check of a second factor ever
\* after, and passes with the codes of a request that this user made; with those of the answer,
\* unless two requests were enabling at the same time.
AnsweredSecretIsInForce ==
    \A q \in Enables :
        LET u == seen[q].user
        IN  stage[q] = "answered" =>
                /\ ~Check2FA(u, NoCode) /\ ~Require2FA(u, NoCode)
                /\ \E p \in Enables :
                      seen[p].user = u /\ stage[p] \in {"answered", "failed"} /\ VerifyTwoFactor(u, p)
                /\ u \notin overlapped =>
                      VerifyTwoFactor(u, q) /\ Check2FA(u, q) /\ Require2FA(u, q)

\* specs/abuse-controls.md:160: no window of WindowSeconds lets more than the limit of a bucket
\* through, wherever it starts.
WindowIsRespected ==
    \A b \in Buckets : \A i \in DOMAIN admitted[b] :
        i + Limit(b[1]) \in DOMAIN admitted[b] =>
            admitted[b][i + Limit(b[1])] - admitted[b][i] >= Span

\* Who was refused is admitted a second after Retry-After (which is rounded down), unless
\* another request of the bucket was admitted first.
RefusalsEnd ==
    \A b \in Buckets : promise[b] # 0 => refused[b] < promise[b]

\* The limiter holds back what exceeds the limit, and nobody for longer than it says.
LimiterIsFair == WindowIsRespected /\ RefusalsEnd
=============================================================================
