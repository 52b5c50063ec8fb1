-------------------------------- MODULE Rewards --------------------------------
(***************************************************************************)
(* What the platform pays besides trades: referral rewards and their       *)
(* treasury entries, disbursements, and yield.                             *)
(***************************************************************************)
EXTENDS KycReferral, YieldAccrual

CONSTANT Workloads   \* the sets of requests that may come together

ASSUME WorkloadAssumption == Workloads \subseteq SUBSET (Requests \cup YieldReads)

ledgerVars == <<active, treasury, clock, stage, seen, contended, kycVars>>
vars == <<ledgerVars, yieldVars>>

Init ==
    /\ \E w \in Workloads : active = w \cap Requests /\ visiting = w \cap YieldReads
    /\ TreasuryInit /\ ReferralInit /\ YieldInit

Next ==
    \/ ReferralNext /\ UNCHANGED yieldVars
    \/ YieldNext /\ UNCHANGED ledgerVars

Spec == Init /\ [][Next]_vars

-----------------------------------------------------------------------------
(* GET /referrals/summary, /referrals/{user_id}, /yield/summary, /yield/{user_id} *)

AdminSummaries ==
    [referrals |-> SummarizeReferralsPlatform,
     referralsOf |-> [u \in Users |-> SummarizeReferralsForUser(u)],
     yield |-> SummarizeYieldPlatform,
     yieldOf |-> [u \in Holders |-> SummarizeYieldForUser(u)]]

-----------------------------------------------------------------------------
(* Properties.                                                             *)

\* Types and the CHECK constraints of yield_accruals: a row that violates one makes GET /wallet fail.
TypeOK ==
    /\ kyc \in [Users -> KycStatuses]
    /\ \A e \in treasury :
          /\ e.type \in {"fee_income", "disbursement", "referral_reward"}
          /\ e.amount \in Nat \ {0} /\ e.balance \in Int /\ e.at \in 1..clock
    /\ \A r \in rewards : r.referrer \in Users /\ r.referred \in Users /\ r.referrer # r.referred
    /\ \A a \in accruals :
          /\ a.holder \in Holders /\ a.quantity \in 1..MaxBalance
          /\ a.amount \in Nat \ {0} /\ a.to > a.from

\* specs/database-schema.md:300: the bonus is credited once, only after the account reached
\* verified; the platform's total is what the treasury has paid, and each
\* platform summary adds up to the summaries of its users.
RewardsAreEarnedOnce ==
    /\ \A r \in rewards : r.referred \in verified /\ r.referrer = Referrer[r.referred]
    /\ \A r, s \in rewards : r.referred = s.referred => r = s
    /\ AdminSummaries.referrals.total =
          MapThenSumSet(LAMBDA e : e.amount, {e \in treasury : e.type = "referral_reward"})
    /\ AdminSummaries.referrals.total =
          MapThenSumSet(LAMBDA u : AdminSummaries.referralsOf[u].total, Users)
    /\ AdminSummaries.yield.total = MapThenSumSet(LAMBDA u : AdminSummaries.yieldOf[u], Holders)

Busy(u) == \E p \in Reviews : UserOf[p] = u /\ stage[p] \in {"update", "reward", "timed", "read"}
Failed(u) == \E p \in Reviews : UserOf[p] = u /\ stage[p] = "failed"

\* Whatever reviews of one user interleave, the referrer of a verified user is credited once
\* the reviews are over, unless one of them failed halfway.
VerifiedReferralsAreRewarded ==
    \A u \in Users :
        IsKycVerified(u) /\ Referrer[u] # NoUser /\ ~Busy(u) /\ ~Failed(u) => Rewarded(u)

\* The referrer of a verified account is credited, and credited once.
RewardsAreEarned == RewardsAreEarnedOnce /\ VerifiedReferralsAreRewarded

EntriesUpTo(e) == {f \in treasury : f.at <= e.at}
Sum(entries) == MapThenSumSet(LAMBDA e : Delta(e.type, e.amount), entries)

\* specs/database-schema.md:339: balance_after_sat is the running balance after the entry.
BalancesAddUp == \A e \in treasury : e.balance = Sum(EntriesUpTo(e))

\* The three writers of the ledger keep its balance as long as no two are at work at once,
\* and a disbursement then never spends more than there is.
UncontendedBalancesAddUp ==
    ~contended =>
        /\ BalancesAddUp
        /\ \A e \in treasury : e.type = "disbursement" => Sum(EntriesUpTo(e)) >= 0

\* Every day of a holding is paid once.  An accrual begins no later than where the last one
\* ended or the holding changed, so that no day is skipped, however many amounts were too small
\* to record; it covers nothing that was paid, unless two requests accrued at once; and none is
\* recorded that has no days or pays nothing.
YieldDaysArePaidOnce ==
    [][\A a \in accruals' \ accruals :
          LET ends == {b.to : b \in AccrualsOf(a.holder)}
          IN  /\ a.to > a.from /\ a.amount > 0
              /\ \E start \in ends \cup {updated[a.holder]} : a.from <= start
              /\ ~raced => \A end \in ends : end <= a.from]_vars

\* Claimed by docs/wallet-integration.md:168: "Accrual start time is the latest of prior accrual
\* end, token balance update time, or token mint time."
YieldStartsAfterUpdate ==
    [][\A g \in YieldReads :
          progress[g] = "idle" /\ progress'[g] = "insert" =>
              row'[g].from >= updated[HolderOf[g]]]_vars
=============================================================================
