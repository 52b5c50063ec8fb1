------------------------------ MODULE KycReferral ------------------------------
(***************************************************************************)
(* Identity verification and the referral reward it unlocks.               *)
(*                                                                         *)
(* A user submits a verification, admins review it any number of times.    *)
(* A review commits the new status and then, in a second transaction,      *)
(* credits the referrer if it was this review that made the user verified. *)
(***************************************************************************)
EXTENDS Treasury

CONSTANTS
    Users, NoUser,
    Referrer,     \* users.referrer_id, fixed at registration
    Submissions,  \* POST /auth/kyc/submit requests
    Reviews,      \* PUT /auth/kyc/admin/{user_id} requests
    UserOf,       \* the user each of them is about
    Bonus         \* REFERRAL_SIGNUP_BONUS_SAT

ASSUME ReferralAssumption ==
    /\ IsFiniteSet(Users) /\ Referrer \in [Users -> Users \cup {NoUser}]
    /\ \A u \in Users : Referrer[u] # u       \* self-referrals are rejected at registration
    /\ Submissions \cup Reviews \subseteq Requests \ (Settlements \cup Disbursals)
    /\ \A p \in Submissions \cup Reviews : UserOf[p] \in Users
    /\ Bonus \in Nat \ {0}

VARIABLES
    kyc,        \* kyc_verifications.status, "none" without a row
    rewards,    \* referral_rewards rows
    verified    \* history: the users that have ever been verified

kycVars == <<kyc, rewards, verified>>

KycStatuses == {"none", "pending", "verified", "rejected"}   \* "expired" is handled like "rejected"

ReferralInit ==
    /\ kyc = [u \in Users |-> "none"] /\ rewards = {} /\ verified = {}

IsKycVerified(u) == kyc[u] = "verified"
Rewarded(u) == \E r \in rewards : r.referred = u

-----------------------------------------------------------------------------
(* submit_kyc                                                              *)

SubmitRead(p) ==
    /\ p \in Submissions /\ Begins(p)
    /\ Goto(p, IF kyc[UserOf[p]] = "none" THEN "insert" ELSE "answered")
    /\ UNCHANGED <<active, treasury, clock, seen, contended, kycVars>>

\* uq_kyc_verifications_user_id
SubmitInsert(p) ==
    /\ p \in Submissions /\ stage[p] = "insert"
    /\ \/ /\ kyc[UserOf[p]] = "none"
          /\ kyc' = [kyc EXCEPT ![UserOf[p]] = "pending"] /\ Goto(p, "answered")
       \/ kyc[UserOf[p]] # "none" /\ Goto(p, "failed") /\ UNCHANGED kyc
    /\ UNCHANGED <<active, treasury, clock, seen, contended, rewards, verified>>

-----------------------------------------------------------------------------
(* update_kyc_admin                                                        *)

ReviewRead(p) ==
    /\ p \in Reviews /\ Begins(p)
    /\ \/ kyc[UserOf[p]] = "none" /\ Goto(p, "refused") /\ UNCHANGED seen
       \/ /\ kyc[UserOf[p]] # "none"
          /\ \E v \in {"pending", "verified", "rejected"} :
                seen' = [seen EXCEPT ![p].status = kyc[UserOf[p]], ![p].verdict = v]
          /\ Goto(p, "update")
    /\ UNCHANGED <<active, treasury, clock, contended, kycVars>>

SetStatus(p) ==
    /\ kyc' = [kyc EXCEPT ![UserOf[p]] = seen[p].verdict]
    /\ verified' = IF seen[p].verdict = "verified" THEN verified \cup {UserOf[p]} ELSE verified

\* Mutant: the old status is read back after the update.
RewardByNewStatus(p) ==
    /\ p \in Reviews /\ stage[p] = "update" /\ SetStatus(p)
    /\ Goto(p, IF seen[p].verdict = "verified" /\ kyc'[UserOf[p]] # "verified"
               THEN "reward" ELSE "answered")
    /\ UNCHANGED <<active, treasury, clock, seen, contended, rewards>>

ReviewUpdate(p) ==
    /\ p \in Reviews /\ stage[p] = "update" /\ SetStatus(p)
    /\ Goto(p, IF seen[p].verdict = "verified" /\ seen[p].status # "verified"
               THEN "reward" ELSE "answered")
    /\ UNCHANGED <<active, treasury, clock, seen, contended, rewards>>

\* create_referral_signup_reward: no referrer, or rewarded before, or on to the insert.
RewardCheck(p) ==
    /\ p \in Reviews /\ stage[p] = "reward"
    /\ \/ /\ Referrer[UserOf[p]] = NoUser \/ Rewarded(UserOf[p])
          /\ Goto(p, "answered") /\ UNCHANGED <<clock, seen, contended>>
       \/ /\ Referrer[UserOf[p]] # NoUser /\ ~Rewarded(UserOf[p])
          /\ TakeTime(p) /\ NoteContention(p)
    /\ UNCHANGED <<active, treasury, kycVars>>

\* The reward row is inserted; a second one for the user waits for the first and then raises.
RewardInsert(p) ==
    /\ p \in Reviews /\ stage[p] = "timed"
    /\ \A q \in Reviews \ {p} : UserOf[q] = UserOf[p] => stage[q] # "read"
    /\ \/ ~Rewarded(UserOf[p]) /\ ReadLatest(p)
       \/ Rewarded(UserOf[p]) /\ Goto(p, "failed") /\ UNCHANGED seen
    /\ UNCHANGED <<active, treasury, clock, contended, kycVars>>

\* The reward and the treasury entry that pays it are one transaction.
RewardCommit(p) ==
    /\ p \in Reviews /\ stage[p] = "read"
    /\ rewards' = rewards \cup
          {[referrer |-> Referrer[UserOf[p]], referred |-> UserOf[p], amount |-> Bonus]}
    /\ treasury' = treasury \cup {Entry(p, "referral_reward", Bonus, seen[p].at)}
    /\ Goto(p, "answered")
    /\ UNCHANGED <<active, clock, seen, contended, kyc, verified>>

SubmitKyc(p) == SubmitRead(p) \/ SubmitInsert(p)
CreateReferralSignupReward(p) == RewardCheck(p) \/ RewardInsert(p) \/ RewardCommit(p)
UpdateKycAdmin(p) == ReviewRead(p) \/ ReviewUpdate(p) \/ CreateReferralSignupReward(p)

ReferralNext ==
    \/ \E p \in Submissions : SubmitKyc(p)
    \/ \E p \in Reviews : UpdateKycAdmin(p)
    \/ TreasuryNext /\ UNCHANGED kycVars

-----------------------------------------------------------------------------
(* What the summaries report.                                              *)

\* GET /auth/referrals/summary, GET /referrals/{user_id}
SummarizeReferralsForUser(u) ==
    [referrals |-> Cardinality({v \in Users : Referrer[v] = u}),
     total |-> MapThenSumSet(LAMBDA r : r.amount, {r \in rewards : r.referrer = u})]

\* GET /referrals/summary
SummarizeReferralsPlatform ==
    [referred |-> Cardinality({u \in Users : Referrer[u] # NoUser}),
     referrers |-> Cardinality({r.referrer : r \in rewards}),
     total |-> MapThenSumSet(LAMBDA r : r.amount, rewards)]
=============================================================================
