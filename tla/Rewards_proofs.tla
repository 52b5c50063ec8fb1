----------------------------- MODULE Rewards_proofs -----------------------------
(***************************************************************************)
(* Proofs about Rewards, for every set of users, requests and holdings.    *)
(*                                                                         *)
(* A referral is rewarded once although the check, the status update and   *)
(* the reward are three transactions, of reviews that overlap: what keeps  *)
(* it right is that the reward's row is inserted under its primary key     *)
(* before the treasury is read.  The treasury's balances and the days of   *)
(* yield have no such key; they are right while no two writers overlap,    *)
(* which is what the history variables contended and raced tell.           *)
(***************************************************************************)
EXTENDS Rewards, FiniteSums, TLAPS

-----------------------------------------------------------------------------
(* The inductive invariant of the ledger.                                  *)

Stages == {"idle", "timed", "read", "insert", "update", "reward",
           "answered", "refused", "failed"}
Over == {"answered", "refused", "failed"}
Verdicts == {"pending", "verified", "rejected"}
SeenRow == [status: KycStatuses, verdict: KycStatuses, at: Nat, balance: Int]

EntryOK(e) ==
    /\ e.type \in {"fee_income", "disbursement", "referral_reward"}
    /\ e.amount \in Nat \ {0} /\ e.balance \in Int /\ e.at \in 1..clock
    /\ e.source \in Requests /\ stage[e.source] \in Over

RewardOf(u) == [referrer |-> Referrer[u], referred |-> u, amount |-> Bonus]

LedgerTypes ==
    /\ active \subseteq Requests /\ clock \in Nat /\ contended \in BOOLEAN
    /\ stage \in [Requests -> Stages] /\ seen \in [Requests -> SeenRow]
    /\ kyc \in [Users -> KycStatuses]
    /\ IsFiniteSet(treasury) /\ \A e \in treasury : EntryOK(e)
    /\ IsFiniteSet(rewards)
    /\ \A r \in rewards : /\ r.referred \in Users /\ r = RewardOf(r.referred)
                          /\ r.referrer \in Users /\ r.referred \in verified

\* What a request holds at its stage.
Holds(p, s, r, time, ever) ==
    /\ s \in {"timed", "read"} /\ p \notin Disbursals => r.at \in 1..time
    /\ p \in Reviews =>
         /\ s = "update" => /\ r.verdict \in Verdicts
                            /\ r.status = "verified" => UserOf[p] \in ever
         /\ s \in {"reward", "timed", "read"} => UserOf[p] \in ever
         /\ s \in {"timed", "read"} => Referrer[UserOf[p]] # NoUser

\* Of the reviews of a user one at a time holds the inserted reward, and only while
\* none is committed.
OneInsert ==
    \A p \in Reviews : stage[p] = "read" =>
        /\ ~Rewarded(UserOf[p])
        /\ \A q \in Reviews : UserOf[q] = UserOf[p] /\ stage[q] = "read" => q = p

\* The reward of a user once verified is on its way, was given up halfway or is paid.
OnItsWay ==
    /\ \A u \in Users : IsKycVerified(u) => u \in verified
    /\ \A u \in verified :
         \/ Referrer[u] = NoUser \/ Rewarded(u)
         \/ \E q \in Reviews : UserOf[q] = u /\ stage[q] \in {"reward", "timed", "read", "failed"}

LedgerInv ==
    /\ LedgerTypes
    /\ \A p \in Requests : Holds(p, stage[p], seen[p], clock, verified)
    /\ OneInsert
    /\ OnItsWay

HasLatest == treasury # {} => \E e \in treasury : \A f \in treasury : f.at <= e.at

OneWriter == \A p, q \in Requests : Writing(p) /\ Writing(q) => p = q

ReadsLatest ==
    \A p \in Requests : stage[p] = "read" =>
        seen[p].balance = LatestBalance /\ (p \in Disbursals => LatestBalance >= Disbursed)

ComesLater ==
    \A p \in Requests \ Disbursals : Writing(p) => \A e \in treasury : e.at < seen[p].at

UpTo(T, e) == {f \in T : f.at <= e.at}
Deltas(T) == [e \in T |-> Delta(e.type, e.amount)]
AddsUp(T) == \A e \in T : e.balance = SumOf(Deltas(UpTo(T, e)), UpTo(T, e))
NeverOverspent(T) == \A e \in T : e.type = "disbursement" => e.balance >= 0

\* A writer that was alone since it read the latest entry has read the latest entry.
BalanceInv ==
    /\ HasLatest
    /\ ~contended => OneWriter /\ ReadsLatest /\ ComesLater /\ AddsUp(treasury)
                        /\ NeverOverspent(treasury)

-----------------------------------------------------------------------------
(* The inductive invariant of the accruals.                                *)

AccrualRow ==
    [id: YieldReads \cup {"none"}, holder: Holders \cup {"none"}, quantity: 0..MaxBalance,
     amount: Int, from: Int, to: Int, at: Nat]

DueRow(r) == r \in AccrualRow /\ r.holder \in Holders /\ IsDue(r)

YieldTypes ==
    /\ visiting \subseteq YieldReads /\ now \in Nat /\ raced \in BOOLEAN
    /\ balance \in [Holders -> 0..MaxBalance] /\ updated \in [Holders -> Nat]
    /\ \A u \in Holders : updated[u] <= now
    /\ progress \in [YieldReads -> {"idle", "insert", "answered", "failed"}]
    /\ row \in [YieldReads -> AccrualRow]
    /\ IsFiniteSet(accruals) /\ \A a \in accruals : DueRow(a)
    /\ \A g \in YieldReads : progress[g] = "insert" => DueRow(row[g]) /\ row[g].holder = HolderOf[g]

\* The accruals of a holder have a last one.
Last(W) == W # {} => \E a \in W : \A b \in W : b.to <= a.to

\* The window a request is about to insert covers nothing that was paid.
Follows(r, W) == \A a \in W : a.to <= r.from

\* It begins no later than where the last accrual ended or the holding changed.
InTime(r, u) == \E start \in {a.to : a \in AccrualsOf(u)} \cup {updated[u]} : r.from <= start

YieldInv ==
    /\ YieldTypes
    /\ \A u \in Holders : Last(AccrualsOf(u))
    /\ \A g \in YieldReads : progress[g] = "insert" => InTime(row[g], HolderOf[g])
    /\ ~raced =>
         /\ \A g, h \in YieldReads :
              progress[g] = "insert" /\ progress[h] = "insert" /\ HolderOf[g] = HolderOf[h]
                => g = h
         /\ \A g \in YieldReads : progress[g] = "insert" => Follows(row[g], AccrualsOf(HolderOf[g]))

-----------------------------------------------------------------------------
(* Steps of the ledger.                                                    *)

\* A request without anything read holds a row of the right type.
LEMMA NothingTyped == NothingSeen \in SeenRow
  BY DEF NothingSeen, SeenRow, KycStatuses

\* The latest balance is a number.
LEMMA LatestTyped ==
    ASSUME LedgerTypes, HasLatest
    PROVE  LatestBalance \in Int
  <1>1. CASE treasury = {}
    BY <1>1 DEF LatestBalance
  <1>2. CASE treasury # {}
    BY <1>2 DEF LatestBalance, HasLatest, LedgerTypes, EntryOK
  <1>3. QED
    BY <1>1, <1>2

\* What is left alone when a request moves on: time does not go back, who was verified
\* stays so, and the tables only grow.
Onward ==
    /\ active' = active /\ clock' \in {clock, clock + 1} /\ contended' \in BOOLEAN
    /\ kyc' \in [Users -> KycStatuses] /\ verified \subseteq verified'
    /\ rewards \subseteq rewards' /\ treasury \subseteq treasury'

\* Request p goes on to stage s holding r.
Moves(p, s, r) ==
    /\ stage[p] \notin Over /\ s \in Stages /\ r \in SeenRow
    /\ stage' = [stage EXCEPT ![p] = s] /\ seen' = [seen EXCEPT ![p] = r]

\* A request that does not move holds what it held.
LEMMA OthersHold ==
    ASSUME LedgerTypes, Onward, NEW q \in Requests,
           Holds(q, stage[q], seen[q], clock, verified)
    PROVE  Holds(q, stage[q], seen[q], clock', verified')
  <1>1. clock \in Nat /\ seen[q].at \in Nat
    BY DEF LedgerTypes, SeenRow
  <1>2. 1..clock \subseteq 1..clock'
    BY <1>1 DEF Onward
  <1>3. QED
    BY <1>2 DEF Holds, Onward

\* A step of one request keeps what all of them hold, if it keeps what this one holds.
LEMMA MoveHolds ==
    ASSUME LedgerInv, Onward, NEW p \in Requests, NEW s, NEW r, Moves(p, s, r),
           Holds(p, s, r, clock', verified')
    PROVE  /\ \A q \in Requests : Holds(q, stage'[q], seen'[q], clock', verified')
           /\ stage' \in [Requests -> Stages] /\ seen' \in [Requests -> SeenRow]
           /\ stage'[p] = s /\ seen'[p] = r
           /\ \A q \in Requests \ {p} : stage'[q] = stage[q] /\ seen'[q] = seen[q]
  <1>1. stage \in [Requests -> Stages] /\ seen \in [Requests -> SeenRow]
    BY DEF LedgerInv, LedgerTypes
  <1>2. /\ stage' \in [Requests -> Stages] /\ seen' \in [Requests -> SeenRow]
        /\ stage'[p] = s /\ seen'[p] = r
        /\ \A q \in Requests \ {p} : stage'[q] = stage[q] /\ seen'[q] = seen[q]
    BY <1>1 DEF Moves
  <1>3. \A q \in Requests \ {p} : Holds(q, stage[q], seen[q], clock', verified')
    BY OthersHold DEF LedgerInv
  <1>4. QED
    BY <1>2, <1>3

\* Entries stay right while time goes on and requests that are over stay so.
LEMMA EntriesKept ==
    ASSUME LedgerInv, Onward, NEW p \in Requests, NEW s, NEW r, Moves(p, s, r)
    PROVE  \A e \in treasury : EntryOK(e)'
  <1>1. /\ clock \in Nat /\ clock' \in {clock, clock + 1} /\ stage[p] \notin Over
        /\ stage \in [Requests -> Stages] /\ stage' = [stage EXCEPT ![p] = s]
    BY DEF LedgerInv, LedgerTypes, Onward, Moves
  <1>2. 1..clock \subseteq 1..clock'
    BY <1>1
  <1>3. ASSUME NEW e \in treasury PROVE EntryOK(e)'
    <2>1. EntryOK(e)
      BY DEF LedgerInv, LedgerTypes
    <2>2. stage'[e.source] = stage[e.source]
      BY <1>1, <2>1 DEF EntryOK
    <2>3. QED
      BY <1>2, <2>1, <2>2 DEF EntryOK
  <1>4. QED
    BY <1>3

Paying == {"reward", "timed", "read", "failed"}

\* What a step that writes no reward keeps of the invariant.
LEMMA MoveInv ==
    ASSUME LedgerInv, Onward, NEW p \in Requests, NEW s, NEW r, Moves(p, s, r),
           Holds(p, s, r, clock', verified'), rewards' = rewards,
           treasury' = treasury \/ \E e : treasury' = treasury \cup {e} /\ EntryOK(e)',
           p \in Reviews /\ s = "read" =>
             /\ ~Rewarded(UserOf[p])
             /\ \A q \in Reviews : UserOf[q] = UserOf[p] /\ stage[q] = "read" => q = p,
           \A u \in Users : kyc'[u] = "verified" => u \in verified',
           p \in Reviews /\ stage[p] \in Paying =>
             s \in Paying \/ Referrer[UserOf[p]] = NoUser \/ Rewarded(UserOf[p]),
           \A u \in verified' : u \in verified \/ (p \in Reviews /\ UserOf[p] = u /\ s = "reward")
    PROVE  LedgerInv'
  <1>1. /\ \A q \in Requests : Holds(q, stage'[q], seen'[q], clock', verified')
        /\ stage' \in [Requests -> Stages] /\ seen' \in [Requests -> SeenRow]
        /\ stage'[p] = s /\ seen'[p] = r
        /\ \A q \in Requests \ {p} : stage'[q] = stage[q] /\ seen'[q] = seen[q]
    BY MoveHolds
  <1>2. Reviews \subseteq Requests
    BY ReferralAssumption DEF ReferralAssumption
  <1>3. \A u : Rewarded(u)' <=> Rewarded(u)
    BY DEF Rewarded
  <1>4. LedgerTypes'
    <2>1. \A e \in treasury' : EntryOK(e)'
      BY EntriesKept
    <2>2. IsFiniteSet(treasury')
      BY FS_AddElement DEF LedgerInv, LedgerTypes
    <2>3. clock' \in Nat
      BY DEF Onward, LedgerInv, LedgerTypes
    <2>4. /\ IsFiniteSet(rewards')
          /\ \A q \in rewards' : /\ q.referred \in Users /\ q = RewardOf(q.referred)
                                 /\ q.referrer \in Users /\ q.referred \in verified'
      BY DEF Onward, LedgerInv, LedgerTypes
    <2>5. active' \subseteq Requests
      BY DEF Onward, LedgerInv, LedgerTypes
    <2>6. QED
      BY <1>1, <2>1, <2>2, <2>3, <2>4, <2>5 DEF LedgerTypes, Onward, RewardOf
  <1>5. OneInsert'
    <2>1. ASSUME NEW a \in Reviews, stage'[a] = "read"
          PROVE  /\ ~Rewarded(UserOf[a])'
                 /\ \A q \in Reviews : UserOf[q] = UserOf[a] /\ stage'[q] = "read" => q = a
      <3>1. CASE a = p
        BY <1>1, <1>2, <1>3, <2>1, <3>1
      <3>2. CASE a # p
        BY <1>1, <1>2, <1>3, <2>1, <3>2 DEF LedgerInv, OneInsert
      <3>3. QED
        BY <3>1, <3>2
    <2>2. QED
      BY <2>1 DEF OneInsert
  <1>6. OnItsWay'
    <2>1. ASSUME NEW u \in verified'
          PROVE  \/ Referrer[u] = NoUser \/ Rewarded(u)'
                 \/ \E q \in Reviews : UserOf[q] = u /\ stage'[q] \in Paying
      <3>1. CASE u \in verified
        <4>1. CASE Referrer[u] = NoUser \/ Rewarded(u)
          BY <1>3, <4>1
        <4>2. ASSUME NEW q \in Reviews, UserOf[q] = u, stage[q] \in Paying
              PROVE  \/ Referrer[u] = NoUser \/ Rewarded(u)'
                     \/ stage'[q] \in Paying
          <5>1. CASE q = p
            BY <1>1, <1>3, <4>2, <5>1
          <5>2. CASE q # p
            BY <1>1, <1>2, <4>2, <5>2
          <5>3. QED
            BY <5>1, <5>2
        <4>3. QED
          BY <3>1, <4>1, <4>2 DEF LedgerInv, OnItsWay, Paying
      <3>2. CASE u \notin verified
        BY <1>1, <3>2 DEF Paying
      <3>3. QED
        BY <3>1, <3>2
    <2>2. QED
      BY <2>1 DEF OnItsWay, IsKycVerified, Paying
  <1>7. QED
    BY <1>1, <1>4, <1>5, <1>6 DEF LedgerInv

\* The same for a step that writes no table at all.
LEMMA QuietMove ==
    ASSUME LedgerInv, NEW p \in Requests, NEW s, NEW r, Moves(p, s, r),
           UNCHANGED <<active, treasury, kycVars>>,
           clock' \in {clock, clock + 1}, contended' \in BOOLEAN,
           Holds(p, s, r, clock', verified),
           p \in Reviews => s # "read",
           p \in Reviews /\ stage[p] \in Paying =>
             s \in Paying \/ Referrer[UserOf[p]] = NoUser \/ Rewarded(UserOf[p])
    PROVE  LedgerInv'
  <1>1. /\ active' = active /\ treasury' = treasury /\ kyc' = kyc
        /\ rewards' = rewards /\ verified' = verified
    BY DEF kycVars
  <1>2. Onward
    BY <1>1 DEF Onward, LedgerInv, LedgerTypes
  <1>3. \A u \in Users : kyc'[u] = "verified" => u \in verified'
    BY <1>1 DEF LedgerInv, OnItsWay, IsKycVerified
  <1>4. QED
    BY <1>1, <1>2, <1>3, MoveInv

-----------------------------------------------------------------------------
(* The steps of the ledger, one by one.                                    *)

\* Going to a stage without reading anything.
LEMMA GotoMoves ==
    ASSUME LedgerInv, NEW p \in Requests, NEW s \in Stages, Goto(p, s), seen' = seen,
           stage[p] \notin Over
    PROVE  Moves(p, s, seen[p])
  <1>1. seen \in [Requests -> SeenRow]
    BY DEF LedgerInv, LedgerTypes
  <1>2. QED
    BY <1>1 DEF Moves, Goto

\* Taking the time of an entry.
LEMMA TimeMoves ==
    ASSUME LedgerInv, NEW p \in Requests, TakeTime(p), stage[p] \notin Over
    PROVE  \E r \in SeenRow : /\ Moves(p, "timed", r) /\ r.at = clock + 1
                              /\ r.at \in 1..clock' /\ clock' = clock + 1
  <1> DEFINE r == [seen[p] EXCEPT !.at = clock + 1]
  <1>1. seen \in [Requests -> SeenRow] /\ clock \in Nat
    BY DEF LedgerInv, LedgerTypes
  <1>2. r \in SeenRow /\ r.at = clock + 1
    BY <1>1 DEF SeenRow
  <1>3. seen' = [seen EXCEPT ![p] = r] /\ clock' = clock + 1
    BY <1>1 DEF TakeTime
  <1> HIDE DEF r
  <1>4. Moves(p, "timed", r)
    BY <1>2, <1>3 DEF Moves, TakeTime, Goto, Stages
  <1>5. QED
    BY <1>1, <1>2, <1>3, <1>4

\* Reading the latest entry.
LEMMA ReadMoves ==
    ASSUME LedgerInv, HasLatest, NEW p \in Requests, ReadLatest(p), stage[p] \notin Over
    PROVE  \E r \in SeenRow : /\ Moves(p, "read", r) /\ r.at = seen[p].at
                              /\ r.balance = LatestBalance
  <1> DEFINE r == [seen[p] EXCEPT !.balance = LatestBalance]
  <1>1. seen \in [Requests -> SeenRow] /\ LatestBalance \in Int
    BY LatestTyped DEF LedgerInv, LedgerTypes
  <1>2. r \in SeenRow /\ r.at = seen[p].at /\ r.balance = LatestBalance
    BY <1>1 DEF SeenRow
  <1>3. seen' = [seen EXCEPT ![p] = r]
    BY <1>1 DEF ReadLatest
  <1> HIDE DEF r
  <1>4. Moves(p, "read", r)
    BY <1>2, <1>3 DEF Moves, ReadLatest, Goto, Stages
  <1>5. QED
    BY <1>2, <1>4

\* An entry made with a balance and a time read before is well formed.
LEMMA EntryIsOK ==
    ASSUME LedgerInv, NEW p \in Requests, NEW amount \in Nat \ {0}, NEW at \in 1..clock',
           NEW type \in {"fee_income", "disbursement", "referral_reward"},
           stage'[p] \in Over, NEW e, e = Entry(p, type, amount, at)
    PROVE  EntryOK(e)'
  <1>1. seen[p] \in SeenRow
    BY DEF LedgerInv, LedgerTypes
  <1>2. seen[p].balance + Delta(type, amount) \in Int
    BY <1>1 DEF SeenRow, Delta
  <1>3. /\ e.source = p /\ e.type = type /\ e.amount = amount /\ e.at = at
        /\ e.balance = seen[p].balance + Delta(type, amount)
    BY DEF Entry
  <1>4. QED
    BY <1>2, <1>3 DEF EntryOK

\* The three kinds of requests are different requests.
LEMMA Kinds ==
    /\ Settlements \subseteq Requests /\ Disbursals \subseteq Requests
    /\ Reviews \subseteq Requests /\ Submissions \subseteq Requests
    /\ Settlements \cap Reviews = {} /\ Disbursals \cap Reviews = {}
    /\ Settlements \cap Disbursals = {} /\ Disbursals \cap Submissions = {}
    /\ \A p \in Submissions \cup Reviews : UserOf[p] \in Users
    /\ Fee \in Nat \ {0} /\ Disbursed \in Nat \ {0} /\ Bonus \in Nat \ {0}
  BY TreasuryAssumption, ReferralAssumption DEF TreasuryAssumption, ReferralAssumption

\* A new history of contention is a truth value.
LEMMA Contention == ASSUME NEW p, NoteContention(p) PROVE contended' \in BOOLEAN
  BY DEF NoteContention

\* submit_kyc inserts at most a pending row.
LEMMA SubmitInv ==
    ASSUME LedgerInv, NEW p \in Submissions, SubmitKyc(p)
    PROVE  LedgerInv'
  <1> USE DEF Stages, Over, Paying
  <1>1. p \in Requests /\ clock \in Nat /\ contended \in BOOLEAN /\ seen[p] \in SeenRow
        /\ kyc \in [Users -> KycStatuses] /\ UserOf[p] \in Users
    BY Kinds DEF LedgerInv, LedgerTypes
  <1>2. CASE SubmitRead(p)
    <2> DEFINE s == IF kyc[UserOf[p]] = "none" THEN "insert" ELSE "answered"
    <2>1. Goto(p, s) /\ stage[p] = "idle"
      BY <1>2 DEF SubmitRead, Begins
    <2>2. s \in {"insert", "answered"}
      OBVIOUS
    <2> HIDE DEF s
    <2>3. UNCHANGED <<active, treasury, clock, seen, contended, kycVars>>
      BY <1>2 DEF SubmitRead
    <2>4. Moves(p, s, seen[p])
      BY <1>1, <2>1, <2>2, <2>3, GotoMoves
    <2>5. Holds(p, s, seen[p], clock', verified)
      BY <2>2 DEF Holds
    <2>6. QED
      BY <1>1, <2>1, <2>2, <2>3, <2>4, <2>5, QuietMove
  <1>3. CASE SubmitInsert(p)
    <2>1. PICK s \in {"answered", "failed"} : Goto(p, s)
      BY <1>3 DEF SubmitInsert
    <2>2. /\ stage[p] = "insert" /\ (kyc' = kyc \/ kyc' = [kyc EXCEPT ![UserOf[p]] = "pending"])
          /\ UNCHANGED <<active, treasury, clock, seen, contended, rewards, verified>>
      BY <1>3 DEF SubmitInsert
    <2>3. Moves(p, s, seen[p])
      BY <1>1, <2>1, <2>2, GotoMoves
    <2>4. kyc' \in [Users -> KycStatuses] /\ \A u \in Users : kyc'[u] = "verified" => kyc[u] = "verified"
      BY <1>1, <2>2 DEF KycStatuses
    <2>5. Onward
      BY <1>1, <2>2, <2>4 DEF Onward
    <2>6. Holds(p, s, seen[p], clock', verified')
      BY <2>1 DEF Holds
    <2>7. \A u \in Users : kyc'[u] = "verified" => u \in verified'
      BY <2>2, <2>4 DEF LedgerInv, OnItsWay, IsKycVerified
    <2>8. QED
      BY <1>1, <2>2, <2>3, <2>5, <2>6, <2>7, MoveInv
  <1>4. QED
    BY <1>2, <1>3 DEF SubmitKyc

\* The treasury's own writers: what they take and read, and the entries they commit.
LEMMA TreasuryInv ==
    ASSUME LedgerInv, HasLatest, NEW p \in Requests, UNCHANGED kycVars,
           RecordTradeFeeIncome(p) \/ DisburseTreasury(p) \/ RequestFails(p)
    PROVE  LedgerInv'
  <1> USE DEF Stages, Over, Paying
  <1>1. clock \in Nat /\ contended \in BOOLEAN /\ seen[p] \in SeenRow /\ stage[p] \in Stages
        /\ Holds(p, stage[p], seen[p], clock, verified)
    BY DEF LedgerInv, LedgerTypes
  <1>a. rewards' = rewards /\ verified' = verified /\ kyc' = kyc
    BY DEF kycVars
  <1>2. CASE Settle(p)
    <2>1. /\ p \notin Reviews /\ stage[p] = "idle" /\ TakeTime(p)
          /\ contended' \in BOOLEAN /\ UNCHANGED <<active, treasury>>
      BY <1>2, Kinds, Contention DEF Settle, Begins
    <2>2. PICK r \in SeenRow : /\ Moves(p, "timed", r) /\ r.at \in 1..clock'
                               /\ clock' = clock + 1
      BY <2>1, TimeMoves
    <2>3. Holds(p, "timed", r, clock', verified)
      BY <2>1, <2>2 DEF Holds
    <2>4. QED
      BY <2>1, <2>2, <2>3, QuietMove
  <1>3. CASE SettleRead(p)
    <2>1. /\ p \notin Reviews /\ p \notin Disbursals /\ stage[p] = "timed" /\ ReadLatest(p)
          /\ UNCHANGED <<active, treasury, clock, contended>>
      BY <1>3, Kinds DEF SettleRead
    <2>2. PICK r \in SeenRow : Moves(p, "read", r) /\ r.at = seen[p].at
      BY <2>1, ReadMoves
    <2>3. Holds(p, "read", r, clock', verified)
      BY <1>1, <2>1, <2>2 DEF Holds
    <2>4. QED
      BY <1>1, <2>1, <2>2, <2>3, QuietMove
  <1>4. ASSUME p \notin Reviews, stage[p] = "read", NEW s \in {"answered", "failed"}, Goto(p, s),
               UNCHANGED <<active, seen, contended>>, clock' \in {clock, clock + 1},
               NEW e, treasury' = treasury \cup {e}, EntryOK(e)'
        PROVE  LedgerInv'
    <2>1. Moves(p, s, seen[p])
      BY <1>4, GotoMoves
    <2>2. Holds(p, s, seen[p], clock', verified')
      BY <1>4 DEF Holds
    <2>3. Onward
      BY <1>1, <1>4, <1>a DEF Onward, LedgerInv, LedgerTypes
    <2>4. \A u \in Users : kyc'[u] = "verified" => u \in verified'
      BY <1>a DEF LedgerInv, OnItsWay, IsKycVerified
    <2>5. QED
      BY <1>4, <1>a, <2>1, <2>2, <2>3, <2>4, MoveInv
  <1>5. CASE SettleCommit(p)
    <2>1. /\ p \notin Reviews /\ p \notin Disbursals /\ stage[p] = "read" /\ Goto(p, "answered")
          /\ UNCHANGED <<active, clock, seen, contended>>
          /\ treasury' = treasury \cup {Entry(p, "fee_income", Fee, seen[p].at)}
      BY <1>5, Kinds DEF SettleCommit
    <2>2. seen[p].at \in 1..clock' /\ stage'[p] \in Over
      BY <1>1, <2>1 DEF Holds, Goto, LedgerInv, LedgerTypes
    <2>3. PICK e : e = Entry(p, "fee_income", Fee, seen[p].at)
      OBVIOUS
    <2>4. EntryOK(e)'
      BY <2>2, <2>3, Kinds, EntryIsOK
    <2>5. QED
      BY <1>4, <2>1, <2>3, <2>4
  <1>6. CASE DisburseRead(p)
    <2>1. /\ p \notin Reviews /\ p \in Disbursals /\ stage[p] = "idle"
          /\ contended' \in BOOLEAN /\ UNCHANGED <<active, treasury, clock>>
      BY <1>6, Kinds, Contention DEF DisburseRead, Begins
    <2>2. CASE ReadLatest(p)
      <3>1. PICK r \in SeenRow : Moves(p, "read", r)
        BY <2>1, <2>2, ReadMoves
      <3>2. Holds(p, "read", r, clock', verified)
        BY <2>1 DEF Holds
      <3>3. QED
        BY <2>1, <3>1, <3>2, QuietMove
    <2>3. CASE Goto(p, "refused") /\ seen' = seen
      <3>1. Moves(p, "refused", seen[p])
        BY <2>1, <2>3, GotoMoves
      <3>2. Holds(p, "refused", seen[p], clock', verified)
        BY <2>1 DEF Holds
      <3>3. QED
        BY <1>1, <2>1, <3>1, <3>2, QuietMove
    <2>4. QED
      BY <1>6, <2>2, <2>3 DEF DisburseRead
  <1>7. CASE DisburseCommit(p)
    <2>1. /\ p \notin Reviews /\ stage[p] = "read" /\ (Goto(p, "answered") \/ Goto(p, "failed"))
          /\ UNCHANGED <<active, seen, contended>> /\ clock' = clock + 1
          /\ treasury' = treasury \cup {Entry(p, "disbursement", Disbursed, clock + 1)}
      BY <1>7, Kinds DEF DisburseCommit
    <2>2. clock + 1 \in 1..clock' /\ stage'[p] \in Over
      BY <1>1, <2>1 DEF Goto, LedgerInv, LedgerTypes
    <2>3. PICK e : e = Entry(p, "disbursement", Disbursed, clock + 1)
      OBVIOUS
    <2>4. EntryOK(e)'
      BY <2>2, <2>3, Kinds, EntryIsOK
    <2>5. QED
      BY <1>4, <2>1, <2>3, <2>4
  <1>8. CASE RequestFails(p)
    <2>1. /\ stage[p] \notin Over /\ Goto(p, "failed")
          /\ UNCHANGED <<active, treasury, clock, seen, contended>>
      BY <1>1, <1>8 DEF RequestFails
    <2>2. Moves(p, "failed", seen[p])
      BY <2>1, GotoMoves
    <2>3. Holds(p, "failed", seen[p], clock', verified)
      BY DEF Holds
    <2>4. QED
      BY <1>1, <2>1, <2>2, <2>3, QuietMove
  <1>9. QED
    BY <1>2, <1>3, <1>5, <1>6, <1>7, <1>8 DEF RecordTradeFeeIncome, DisburseTreasury

\* update_kyc_admin up to the reward's row: a verdict is stored, and the review that saw
\* another status before it goes on to the reward.
LEMMA ReviewInv ==
    ASSUME LedgerInv, HasLatest, NEW p \in Reviews, UpdateKycAdmin(p), ~RewardCommit(p)
    PROVE  LedgerInv'
  <1> USE DEF Stages, Over, Paying
  <1> DEFINE u == UserOf[p]
  <1>1. /\ p \in Requests /\ p \notin Disbursals /\ u \in Users
        /\ clock \in Nat /\ contended \in BOOLEAN /\ seen \in [Requests -> SeenRow]
        /\ seen[p] \in SeenRow /\ kyc \in [Users -> KycStatuses]
        /\ Holds(p, stage[p], seen[p], clock, verified)
    BY Kinds DEF LedgerInv, LedgerTypes
  <1>2. CASE ReviewRead(p)
    <2>1. stage[p] = "idle" /\ UNCHANGED <<active, treasury, clock, contended, kycVars>>
      BY <1>2 DEF ReviewRead, Begins
    <2>2. CASE Goto(p, "refused") /\ seen' = seen
      <3>1. Moves(p, "refused", seen[p])
        BY <1>1, <2>1, <2>2, GotoMoves
      <3>2. Holds(p, "refused", seen[p], clock', verified)
        BY DEF Holds
      <3>3. QED
        BY <1>1, <2>1, <3>1, <3>2, QuietMove
    <2>3. ASSUME NEW v \in Verdicts, Goto(p, "update"),
                 seen' = [seen EXCEPT ![p].status = kyc[u], ![p].verdict = v]
          PROVE  LedgerInv'
      <3> DEFINE r == [seen[p] EXCEPT !.status = kyc[u], !.verdict = v]
      <3>1. /\ r \in SeenRow /\ r.status = kyc[u] /\ r.verdict = v
        BY <1>1, <2>3 DEF SeenRow, Verdicts, KycStatuses
      <3>2. seen' = [seen EXCEPT ![p] = r]
        BY <1>1, <2>3
      <3> HIDE DEF r
      <3>3. Moves(p, "update", r)
        BY <2>1, <2>3, <3>1, <3>2 DEF Moves, Goto
      <3>4. r.status = "verified" => u \in verified
        BY <1>1, <3>1 DEF LedgerInv, OnItsWay, IsKycVerified
      <3>5. Holds(p, "update", r, clock', verified)
        BY <3>1, <3>4 DEF Holds
      <3>6. QED
        BY <1>1, <2>1, <3>3, <3>5, QuietMove
    <2>4. QED
      BY <1>2, <2>2, <2>3 DEF ReviewRead, Verdicts
  <1>3. CASE ReviewUpdate(p)
    <2> DEFINE s == IF seen[p].verdict = "verified" /\ seen[p].status # "verified"
                    THEN "reward" ELSE "answered"
    <2>1. /\ stage[p] = "update" /\ Goto(p, s) /\ kyc' = [kyc EXCEPT ![u] = seen[p].verdict]
          /\ verified' = IF seen[p].verdict = "verified" THEN verified \cup {u} ELSE verified
          /\ UNCHANGED <<active, treasury, clock, seen, contended, rewards>>
      BY <1>3 DEF ReviewUpdate, SetStatus
    <2>2. /\ seen[p].verdict \in Verdicts
          /\ seen[p].status = "verified" => u \in verified
      BY <1>1, <2>1 DEF Holds
    <2>3. s \in {"reward", "answered"} /\ (s = "reward" => u \in verified')
      BY <2>1
    <2>4. \A w \in verified' : w \in verified \/ (u = w /\ s = "reward")
      BY <2>1, <2>2
    <2> HIDE DEF s
    <2>5. Moves(p, s, seen[p])
      BY <1>1, <2>1, <2>3, GotoMoves
    <2>6. Holds(p, s, seen[p], clock', verified')
      BY <2>3 DEF Holds
    <2>7. kyc' \in [Users -> KycStatuses]
      BY <1>1, <2>1, <2>2 DEF Verdicts, KycStatuses
    <2>8. Onward
      BY <1>1, <2>1, <2>7 DEF Onward
    <2>9. ASSUME NEW w \in Users, kyc'[w] = "verified" PROVE w \in verified'
      <3>1. CASE w = u
        BY <1>1, <2>1, <2>9, <3>1
      <3>2. CASE w # u
        BY <1>1, <2>1, <2>9, <3>2 DEF LedgerInv, OnItsWay, IsKycVerified
      <3>3. QED
        BY <3>1, <3>2
    <2>10. QED
      BY <1>1, <2>1, <2>3, <2>4, <2>5, <2>6, <2>8, <2>9, MoveInv
  <1>4. CASE RewardCheck(p)
    <2>1. stage[p] = "reward" /\ UNCHANGED <<active, treasury, kycVars>> /\ u \in verified
      BY <1>1, <1>4 DEF RewardCheck, Holds
    <2>2. CASE /\ Referrer[u] = NoUser \/ Rewarded(u)
               /\ Goto(p, "answered") /\ UNCHANGED <<clock, seen, contended>>
      <3>1. Moves(p, "answered", seen[p])
        BY <1>1, <2>1, <2>2, GotoMoves
      <3>2. Holds(p, "answered", seen[p], clock', verified)
        BY DEF Holds
      <3>3. QED
        BY <1>1, <2>1, <2>2, <3>1, <3>2, QuietMove
    <2>3. CASE Referrer[u] # NoUser /\ TakeTime(p) /\ NoteContention(p)
      <3>1. PICK r \in SeenRow : /\ Moves(p, "timed", r) /\ r.at \in 1..clock'
                                 /\ clock' = clock + 1
        BY <1>1, <2>1, <2>3, TimeMoves
      <3>2. Holds(p, "timed", r, clock', verified)
        BY <2>1, <2>3, <3>1 DEF Holds
      <3>3. QED
        BY <1>1, <2>1, <2>3, <3>1, <3>2, Contention, QuietMove
    <2>4. QED
      BY <1>4, <2>2, <2>3 DEF RewardCheck
  <1>5. CASE RewardInsert(p)
    <2>1. /\ stage[p] = "timed" /\ UNCHANGED <<active, treasury, clock, contended, kycVars>>
          /\ \A q \in Reviews \ {p} : UserOf[q] = u => stage[q] # "read"
      BY <1>5 DEF RewardInsert
    <2>2. CASE ~Rewarded(u) /\ ReadLatest(p)
      <3>1. PICK r \in SeenRow : Moves(p, "read", r) /\ r.at = seen[p].at
        BY <1>1, <2>1, <2>2, ReadMoves
      <3>2. Holds(p, "read", r, clock', verified')
        BY <1>1, <2>1, <3>1 DEF Holds, kycVars
      <3>3. /\ rewards' = rewards /\ verified' = verified /\ kyc' = kyc
        BY <2>1 DEF kycVars
      <3>4. Onward
        BY <1>1, <2>1, <3>3 DEF Onward
      <3>5. \A w \in Users : kyc'[w] = "verified" => w \in verified'
        BY <3>3 DEF LedgerInv, OnItsWay, IsKycVerified
      <3>6. QED
        BY <1>1, <2>1, <2>2, <3>1, <3>2, <3>3, <3>4, <3>5, MoveInv
    <2>3. CASE Goto(p, "failed") /\ seen' = seen
      <3>1. Moves(p, "failed", seen[p])
        BY <1>1, <2>1, <2>3, GotoMoves
      <3>2. Holds(p, "failed", seen[p], clock', verified)
        BY DEF Holds
      <3>3. QED
        BY <1>1, <2>1, <3>1, <3>2, QuietMove
    <2>4. QED
      BY <1>5, <2>2, <2>3 DEF RewardInsert
  <1>6. QED
    BY <1>2, <1>3, <1>4, <1>5 DEF UpdateKycAdmin, CreateReferralSignupReward

\* The reward and the entry that pays it are committed together, and for the first time.
LEMMA RewardCommitInv ==
    ASSUME LedgerInv, NEW p \in Reviews, RewardCommit(p)
    PROVE  LedgerInv'
  <1> USE DEF Stages, Over, Paying
  <1> DEFINE u == UserOf[p]
             new == RewardOf(u)
  <1>1. /\ p \in Requests /\ p \notin Disbursals /\ u \in Users
        /\ clock \in Nat /\ seen[p] \in SeenRow /\ contended \in BOOLEAN
        /\ stage \in [Requests -> Stages] /\ kyc \in [Users -> KycStatuses]
        /\ Holds(p, stage[p], seen[p], clock, verified) /\ Reviews \subseteq Requests
    BY Kinds DEF LedgerInv, LedgerTypes
  <1>2. /\ stage[p] = "read" /\ Goto(p, "answered") /\ rewards' = rewards \cup {new}
        /\ treasury' = treasury \cup {Entry(p, "referral_reward", Bonus, seen[p].at)}
        /\ UNCHANGED <<active, clock, seen, contended, kyc, verified>>
    BY <1>1 DEF RewardCommit, RewardOf
  <1>3. u \in verified /\ Referrer[u] # NoUser /\ seen[p].at \in 1..clock'
    BY <1>1, <1>2 DEF Holds
  <1>4. new.referred = u /\ new = RewardOf(new.referred) /\ new.referrer \in Users
    BY <1>1, <1>3, ReferralAssumption DEF RewardOf, ReferralAssumption
  <1> HIDE DEF new
  <1>5. Moves(p, "answered", seen[p])
    BY <1>1, <1>2, GotoMoves
  <1>6. Onward
    BY <1>1, <1>2 DEF Onward
  <1>7. Holds(p, "answered", seen[p], clock', verified')
    BY DEF Holds
  <1>8. /\ \A q \in Requests : Holds(q, stage'[q], seen'[q], clock', verified')
        /\ stage' \in [Requests -> Stages] /\ seen' \in [Requests -> SeenRow]
        /\ stage'[p] = "answered"
        /\ \A q \in Requests \ {p} : stage'[q] = stage[q]
    BY <1>1, <1>5, <1>6, <1>7, MoveHolds
  <1>9. \A e \in treasury' : EntryOK(e)'
    <2>1. PICK e : e = Entry(p, "referral_reward", Bonus, seen[p].at)
      OBVIOUS
    <2>2. EntryOK(e)'
      BY <1>1, <1>3, <1>8, <2>1, Kinds, EntryIsOK
    <2>3. \A f \in treasury : EntryOK(f)'
      BY <1>1, <1>5, <1>6, EntriesKept
    <2>4. QED
      BY <1>2, <2>1, <2>2, <2>3
  <1>10. LedgerTypes'
    <2>1. IsFiniteSet(treasury') /\ IsFiniteSet(rewards')
      BY <1>2, FS_AddElement DEF LedgerInv, LedgerTypes
    <2>2. \A q \in rewards' : /\ q.referred \in Users /\ q = RewardOf(q.referred)
                              /\ q.referrer \in Users /\ q.referred \in verified'
      BY <1>1, <1>2, <1>3, <1>4 DEF LedgerInv, LedgerTypes
    <2>3. active' \subseteq Requests /\ clock' \in Nat /\ contended' \in BOOLEAN
          /\ kyc' \in [Users -> KycStatuses]
      BY <1>1, <1>2 DEF LedgerInv, LedgerTypes
    <2>4. QED
      BY <1>8, <1>9, <2>1, <2>2, <2>3 DEF LedgerTypes, RewardOf
  <1>11. \A w : Rewarded(w)' <=> Rewarded(w) \/ w = u
    BY <1>2, <1>4 DEF Rewarded
  <1>12. OneInsert'
    <2>1. ASSUME NEW a \in Reviews, stage'[a] = "read"
          PROVE  /\ ~Rewarded(UserOf[a])'
                 /\ \A q \in Reviews : UserOf[q] = UserOf[a] /\ stage'[q] = "read" => q = a
      <3>1. a # p /\ stage[a] = "read"
        BY <1>1, <1>8, <2>1
      <3>2. UserOf[a] # u
        BY <1>2, <3>1 DEF LedgerInv, OneInsert
      <3>3. QED
        BY <1>1, <1>8, <1>11, <3>1, <3>2 DEF LedgerInv, OneInsert
    <2>2. QED
      BY <2>1 DEF OneInsert
  <1>13. OnItsWay'
    <2>1. ASSUME NEW w \in verified
          PROVE  \/ Referrer[w] = NoUser \/ Rewarded(w)'
                 \/ \E q \in Reviews : UserOf[q] = w /\ stage'[q] \in Paying
      BY <1>1, <1>8, <1>11 DEF LedgerInv, OnItsWay
    <2>2. QED
      BY <1>2, <2>1 DEF OnItsWay, IsKycVerified, LedgerInv
  <1>14. QED
    BY <1>8, <1>10, <1>12, <1>13 DEF LedgerInv

-----------------------------------------------------------------------------
(* What a step is to the writers of the ledger.                            *)

\* What one step of the ledger does for its request: it moves without writing, or begins
\* to write, or reads the latest entry, or commits the next one.
Moved(p) ==
    /\ \A q \in Requests \ {p} : stage'[q] = stage[q] /\ seen'[q] = seen[q]
    /\ \/ treasury' = treasury /\ ~Writing(p)' /\ (contended => contended')
       \/ /\ treasury' = treasury /\ ~Writing(p) /\ NoteContention(p) /\ p \notin Disbursals
          /\ stage'[p] = "timed" /\ seen'[p].at = clock + 1
       \/ /\ treasury' = treasury /\ stage[p] = "timed" /\ contended' = contended
          /\ p \notin Disbursals /\ stage'[p] = "read"
          /\ seen'[p].at = seen[p].at /\ seen'[p].balance = LatestBalance
       \/ /\ treasury' = treasury /\ ~Writing(p) /\ NoteContention(p) /\ p \in Disbursals
          /\ stage'[p] = "read" /\ LatestBalance >= Disbursed
          /\ seen'[p].balance = LatestBalance

Committed(p, e) ==
    /\ \A q \in Requests \ {p} : stage'[q] = stage[q] /\ seen'[q] = seen[q]
    /\ stage[p] = "read" /\ ~Writing(p)' /\ contended' = contended
    /\ treasury' = treasury \cup {e} /\ e.source = p /\ e.amount \in Nat \ {0}
    /\ e.balance = seen[p].balance + Delta(e.type, e.amount)
    /\ \/ p \notin Disbursals /\ e.at = seen[p].at /\ e.type # "disbursement"
       \/ /\ p \in Disbursals /\ e.at = clock + 1
          /\ e.type = "disbursement" /\ e.amount = Disbursed

\* A move changes what its request holds, and nothing else.
LEMMA MovesOne ==
    ASSUME LedgerInv, NEW p \in Requests, NEW s, NEW r, Moves(p, s, r)
    PROVE  /\ stage'[p] = s /\ seen'[p] = r
           /\ \A q \in Requests \ {p} : stage'[q] = stage[q] /\ seen'[q] = seen[q]
  BY DEF Moves, LedgerInv, LedgerTypes

\* Going on without reading anything.
LEMMA GotoOne ==
    ASSUME LedgerInv, NEW p \in Requests, NEW s, Goto(p, s)
    PROVE  stage'[p] = s /\ \A q \in Requests \ {p} : stage'[q] = stage[q]
  BY DEF Goto, LedgerInv, LedgerTypes

\* The treasury's own writers.
LEMMA TreasuryMoves ==
    ASSUME LedgerInv, HasLatest, NEW p \in Requests,
           RecordTradeFeeIncome(p) \/ DisburseTreasury(p) \/ RequestFails(p)
    PROVE  Moved(p) \/ \E e : Committed(p, e)
  <1> USE DEF Stages, Over, Writing
  <1>1. seen \in [Requests -> SeenRow] /\ stage \in [Requests -> Stages]
    BY DEF LedgerInv, LedgerTypes
  <1>2. CASE Settle(p)
    <2>1. /\ p \notin Disbursals /\ stage[p] = "idle" /\ TakeTime(p) /\ NoteContention(p)
          /\ treasury' = treasury
      BY <1>2, Kinds DEF Settle, Begins
    <2>2. PICK r \in SeenRow : Moves(p, "timed", r) /\ r.at = clock + 1
      BY <2>1, TimeMoves
    <2>3. QED
      BY <2>1, <2>2, MovesOne DEF Moved
  <1>3. CASE SettleRead(p)
    <2>1. /\ p \notin Disbursals /\ stage[p] = "timed" /\ ReadLatest(p)
          /\ treasury' = treasury /\ contended' = contended
      BY <1>3, Kinds DEF SettleRead
    <2>2. PICK r \in SeenRow : /\ Moves(p, "read", r) /\ r.at = seen[p].at
                               /\ r.balance = LatestBalance
      BY <2>1, ReadMoves
    <2>3. QED
      BY <2>1, <2>2, MovesOne DEF Moved
  <1>4. CASE SettleCommit(p)
    <2>1. /\ p \notin Disbursals /\ stage[p] = "read" /\ Goto(p, "answered")
          /\ treasury' = treasury \cup {Entry(p, "fee_income", Fee, seen[p].at)}
          /\ seen' = seen /\ contended' = contended
      BY <1>4, Kinds DEF SettleCommit
    <2>2. PICK e : e = Entry(p, "fee_income", Fee, seen[p].at)
      OBVIOUS
    <2>3. /\ e.source = p /\ e.amount = Fee /\ e.at = seen[p].at /\ e.type = "fee_income"
          /\ e.balance = seen[p].balance + Delta(e.type, e.amount)
      BY <2>2 DEF Entry
    <2>4. Committed(p, e)
      BY <2>1, <2>2, <2>3, GotoOne, Kinds DEF Committed
    <2>5. QED
      BY <2>4
  <1>5. CASE DisburseRead(p)
    <2>1. /\ p \in Disbursals /\ stage[p] = "idle" /\ NoteContention(p)
          /\ treasury' = treasury /\ (contended => contended')
      BY <1>5 DEF DisburseRead, Begins, NoteContention
    <2>2. CASE LatestBalance >= Disbursed /\ ReadLatest(p)
      <3>1. PICK r \in SeenRow : Moves(p, "read", r) /\ r.balance = LatestBalance
        BY <2>1, <2>2, ReadMoves
      <3>2. QED
        BY <2>1, <2>2, <3>1, MovesOne DEF Moved
    <2>3. CASE Goto(p, "refused") /\ seen' = seen
      BY <2>1, <2>3, GotoOne DEF Moved
    <2>4. QED
      BY <1>5, <2>2, <2>3 DEF DisburseRead
  <1>6. CASE DisburseCommit(p)
    <2>1. /\ p \in Disbursals /\ stage[p] = "read"
          /\ (Goto(p, "answered") \/ Goto(p, "failed"))
          /\ treasury' = treasury \cup {Entry(p, "disbursement", Disbursed, clock + 1)}
          /\ seen' = seen /\ contended' = contended
      BY <1>6 DEF DisburseCommit
    <2>2. PICK e : e = Entry(p, "disbursement", Disbursed, clock + 1)
      OBVIOUS
    <2>3. /\ e.source = p /\ e.amount = Disbursed /\ e.at = clock + 1
          /\ e.type = "disbursement"
          /\ e.balance = seen[p].balance + Delta(e.type, e.amount)
      BY <2>2 DEF Entry
    <2>4. Committed(p, e)
      BY <2>1, <2>2, <2>3, GotoOne, Kinds DEF Committed
    <2>5. QED
      BY <2>4
  <1>7. CASE RequestFails(p)
    BY <1>7, GotoOne DEF RequestFails, Moved
  <1>8. QED
    BY <1>2, <1>3, <1>4, <1>5, <1>6, <1>7 DEF RecordTradeFeeIncome, DisburseTreasury

\* The requests of the auth service.
LEMMA ReferralMoves ==
    ASSUME LedgerInv, HasLatest, NEW p \in Submissions \cup Reviews,
           (p \in Submissions /\ SubmitKyc(p)) \/ (p \in Reviews /\ UpdateKycAdmin(p))
    PROVE  Moved(p) \/ \E e : Committed(p, e)
  <1> USE DEF Stages, Over, Writing
  <1>1. /\ seen \in [Requests -> SeenRow] /\ stage \in [Requests -> Stages]
        /\ p \in Requests /\ p \notin Disbursals
    BY Kinds DEF LedgerInv, LedgerTypes
  <1>2. ASSUME NEW s \in Stages \ {"timed", "read"}, Goto(p, s), treasury' = treasury,
               seen' = seen, contended' = contended
        PROVE  Moved(p)
    BY <1>1, <1>2, GotoOne DEF Moved
  <1>3. CASE SubmitKyc(p)
    BY <1>2, <1>3 DEF SubmitKyc, SubmitRead, SubmitInsert
  <1>4. CASE ReviewRead(p)
    <2>1. CASE Goto(p, "refused") /\ seen' = seen
      BY <1>2, <1>4, <2>1 DEF ReviewRead
    <2>2. CASE Goto(p, "update")
      BY <1>1, <1>4, <2>2, GotoOne DEF ReviewRead, Moved
    <2>3. QED
      BY <1>4, <2>1, <2>2 DEF ReviewRead
  <1>5. CASE ReviewUpdate(p)
    BY <1>2, <1>5 DEF ReviewUpdate
  <1>6. CASE RewardCheck(p)
    <2>1. CASE Goto(p, "answered") /\ UNCHANGED <<clock, seen, contended>>
      BY <1>2, <1>6, <2>1 DEF RewardCheck
    <2>2. CASE TakeTime(p) /\ NoteContention(p)
      <3>1. stage[p] = "reward" /\ treasury' = treasury
        BY <1>6 DEF RewardCheck
      <3>2. PICK r \in SeenRow : Moves(p, "timed", r) /\ r.at = clock + 1
        BY <1>1, <2>2, <3>1, TimeMoves
      <3>3. QED
        BY <1>1, <2>2, <3>1, <3>2, MovesOne DEF Moved
    <2>3. QED
      BY <1>6, <2>1, <2>2 DEF RewardCheck
  <1>7. CASE RewardInsert(p)
    <2>1. CASE Goto(p, "failed") /\ seen' = seen
      BY <1>2, <1>7, <2>1 DEF RewardInsert
    <2>2. CASE ReadLatest(p)
      <3>1. stage[p] = "timed" /\ treasury' = treasury /\ contended' = contended
        BY <1>7 DEF RewardInsert
      <3>2. PICK r \in SeenRow : /\ Moves(p, "read", r) /\ r.at = seen[p].at
                                 /\ r.balance = LatestBalance
        BY <1>1, <2>2, <3>1, ReadMoves
      <3>3. QED
        BY <1>1, <3>1, <3>2, MovesOne DEF Moved
    <2>3. QED
      BY <1>7, <2>1, <2>2 DEF RewardInsert
  <1>8. CASE RewardCommit(p)
    <2>1. /\ stage[p] = "read" /\ Goto(p, "answered")
          /\ treasury' = treasury \cup {Entry(p, "referral_reward", Bonus, seen[p].at)}
          /\ seen' = seen /\ contended' = contended
      BY <1>8 DEF RewardCommit
    <2>2. PICK e : e = Entry(p, "referral_reward", Bonus, seen[p].at)
      OBVIOUS
    <2>3. /\ e.source = p /\ e.amount = Bonus /\ e.at = seen[p].at
          /\ e.type = "referral_reward"
          /\ e.balance = seen[p].balance + Delta(e.type, e.amount)
      BY <2>2 DEF Entry
    <2>4. Committed(p, e)
      BY <1>1, <2>1, <2>2, <2>3, GotoOne, Kinds DEF Committed
    <2>5. QED
      BY <2>4
  <1>9. QED
    BY <1>3, <1>4, <1>5, <1>6, <1>7, <1>8 DEF UpdateKycAdmin, CreateReferralSignupReward

\* Every step of the ledger keeps its invariant and is one of these.
LEMMA LedgerStep ==
    ASSUME LedgerInv, HasLatest, ReferralNext
    PROVE  LedgerInv' /\ \E p \in Requests : Moved(p) \/ \E e : Committed(p, e)
  <1>1. ASSUME NEW p \in Submissions, SubmitKyc(p)
        PROVE  LedgerInv' /\ (Moved(p) \/ \E e : Committed(p, e))
    BY <1>1, SubmitInv, ReferralMoves
  <1>2. ASSUME NEW p \in Reviews, UpdateKycAdmin(p)
        PROVE  LedgerInv' /\ (Moved(p) \/ \E e : Committed(p, e))
    BY <1>2, ReviewInv, RewardCommitInv, ReferralMoves
  <1>3. ASSUME TreasuryNext, UNCHANGED kycVars
        PROVE  LedgerInv' /\ \E p \in Requests : Moved(p) \/ \E e : Committed(p, e)
    BY <1>3, TreasuryInv, TreasuryMoves DEF TreasuryNext
  <1>4. QED
    BY <1>1, <1>2, <1>3, Kinds DEF ReferralNext

\* There is a latest entry again after each commit.
LEMMA LatestStep ==
    ASSUME LedgerInv, HasLatest, NEW p \in Requests, Moved(p) \/ \E e : Committed(p, e)
    PROVE  HasLatest'
  <1>1. CASE Moved(p)
    BY <1>1 DEF Moved, HasLatest
  <1>2. ASSUME NEW e, Committed(p, e) PROVE HasLatest'
    <2>1. e.at \in Nat /\ clock \in Nat /\ \A f \in treasury : f.at \in Nat
      BY <1>2 DEF Committed, LedgerInv, LedgerTypes, SeenRow, EntryOK
    <2>2. treasury' = treasury \cup {e}
      BY <1>2 DEF Committed
    <2>3. CASE treasury = {}
      BY <2>1, <2>2, <2>3 DEF HasLatest
    <2>4. CASE treasury # {}
      <3>1. PICK g \in treasury : \A f \in treasury : f.at <= g.at
        BY <2>4 DEF HasLatest
      <3>2. CASE e.at <= g.at
        BY <2>2, <3>1, <3>2 DEF HasLatest
      <3>3. CASE g.at < e.at
        <4>1. \A f \in treasury' : f.at <= e.at
          BY <2>1, <2>2, <3>1, <3>3
        <4>2. QED
          BY <2>2, <4>1 DEF HasLatest
      <3>4. QED
        BY <2>1, <3>1, <3>2, <3>3
    <2>5. QED
      BY <2>3, <2>4
  <1>3. QED
    BY <1>1, <1>2

-----------------------------------------------------------------------------
(* The balances of the ledger.                                             *)

\* The sum of the entries, as the properties write it, is the sum of their deltas.
LEMMA DeltaSum ==
    ASSUME NEW S, IsFiniteSet(S)
    PROVE  Sum(S) = SumOf(Deltas(S), S)
  <1> DEFINE q == Deltas(S)
             P(g) == g = [s \in SUBSET S |-> IF s = {} THEN 0
                      ELSE LET x == CHOOSE x \in s : TRUE
                           IN Delta(x.type, x.amount) + g[s \ {x}]]
             G == CHOOSE g : P(g)
  <1>1. Sum(S) = G[S]
    BY DEF Sum, MapThenSumSet, MapThenFoldSet
  <1>2. \A s \in SUBSET S : s # {} => q[Pick(s)] = Delta(Pick(s).type, Pick(s).amount)
    BY DEF Pick, Deltas
  <1>3. ASSUME NEW g PROVE P(g) <=> Sums(g, q, S)
    <2> DEFINE A == [s \in SUBSET S |-> IF s = {} THEN 0
                      ELSE LET x == CHOOSE x \in s : TRUE
                           IN Delta(x.type, x.amount) + g[s \ {x}]]
               B == [s \in SUBSET S |-> IF s = {} THEN 0
                      ELSE LET x == Pick(s) IN q[x] + g[s \ {x}]]
    <2>1. \A s \in SUBSET S : A[s] = B[s]
      BY <1>2 DEF Pick
    <2>2. A = B
      <3>1. A = [s \in SUBSET S |-> A[s]] /\ B = [s \in SUBSET S |-> B[s]]
        OBVIOUS
      <3> HIDE DEF A, B
      <3>2. QED
        BY <2>1, <3>1
    <2>3. Sums(g, q, S) <=> g = B
      BY DEF Sums
    <2>4. QED
      BY <2>2, <2>3
  <1>4. Sums(G, q, S)
    <2> HIDE DEF P, q
    <2> QED BY <1>3, SumsExist
  <1>5. QED
    BY <1>1, <1>4, SumsGiveSum

\* The deltas of a set of entries do not depend on the ledger they are looked up in.
LEMMA DeltasAgree ==
    ASSUME NEW T, IsFiniteSet(T), NEW S \in SUBSET T
    PROVE  SumOf(Deltas(S), S) = SumOf(Deltas(T), S)
  <1>1. IsFiniteSet(S)
    BY FS_Subset
  <1>2. \A e \in S : Deltas(S)[e] = Deltas(T)[e]
    BY DEF Deltas
  <1>3. QED
    BY <1>1, <1>2, SumEqual

\* The latest balance is the sum of all entries.
LEMMA LatestIsSum ==
    ASSUME HasLatest, IsFiniteSet(treasury), AddsUp(treasury)
    PROVE  LatestBalance = SumOf(Deltas(treasury), treasury)
  <1>1. CASE treasury = {}
    <2>1. SumOf(Deltas(treasury), {}) = 0
      BY FS_EmptySet, SumEquation
    <2>2. QED
      BY <1>1, <2>1 DEF LatestBalance
  <1>2. CASE treasury # {}
    <2> DEFINE L == CHOOSE e \in treasury : \A f \in treasury : f.at <= e.at
    <2>1. L \in treasury /\ \A f \in treasury : f.at <= L.at
      BY <1>2 DEF HasLatest
    <2>2. LatestBalance = L.balance
      BY <1>2 DEF LatestBalance
    <2> HIDE DEF L
    <2>3. UpTo(treasury, L) = treasury
      BY <2>1 DEF UpTo
    <2>4. QED
      BY <2>1, <2>2, <2>3 DEF AddsUp
  <1>3. QED
    BY <1>1, <1>2

\* An entry dated after all others, with the balance after it, keeps the balances right.
LEMMA AnotherAddsUp ==
    ASSUME NEW T, IsFiniteSet(T), AddsUp(T), NEW e, e.at \in Int,
           \A f \in T \cup {e} : Delta(f.type, f.amount) \in Int /\ f.at \in Int,
           \A f \in T : f.at < e.at,
           e.balance = SumOf(Deltas(T), T) + Delta(e.type, e.amount)
    PROVE  AddsUp(T \cup {e})
  <1> DEFINE U == T \cup {e}
  <1>1. e \notin T /\ IsFiniteSet(U)
    BY FS_AddElement
  <1>2. ASSUME NEW f \in T
        PROVE  f.balance = SumOf(Deltas(UpTo(U, f)), UpTo(U, f))
    <2>1. UpTo(U, f) = UpTo(T, f)
      BY DEF UpTo
    <2>2. QED
      BY <2>1 DEF AddsUp
  <1>3. UpTo(U, e) = U
    BY DEF UpTo
  <1>4. SumOf(Deltas(U), U) = Delta(e.type, e.amount) + SumOf(Deltas(U), T)
    <2>1. \A x \in U : Deltas(U)[x] \in Int
      BY DEF Deltas
    <2>2. Deltas(U)[e] = Delta(e.type, e.amount)
      BY DEF Deltas
    <2>3. QED
      BY <1>1, <2>1, <2>2, SumAdd
  <1>5. SumOf(Deltas(U), T) = SumOf(Deltas(T), T)
    BY <1>1, DeltasAgree
  <1>6. SumOf(Deltas(T), T) \in Int
    <2>1. \A x \in T : Deltas(T)[x] \in Int
      BY DEF Deltas
    <2>2. QED
      BY <2>1, SumType
  <1>7. e.balance = SumOf(Deltas(UpTo(U, e)), UpTo(U, e))
    <2>1. Delta(e.type, e.amount) \in Int
      OBVIOUS
    <2> HIDE DEF U
    <2>2. QED
      BY <1>3, <1>4, <1>5, <1>6, <2>1
  <1>8. QED
    BY <1>2, <1>7 DEF AddsUp

\* A request that moves without committing keeps the balances.
LEMMA MovedBalances ==
    ASSUME LedgerInv, BalanceInv, NEW p \in Requests, Moved(p)
    PROVE  BalanceInv'
  <1>1. treasury' = treasury /\ LatestBalance' = LatestBalance /\ HasLatest'
    <2>1. treasury' = treasury
      BY DEF Moved
    <2>2. LatestBalance' = LatestBalance
      BY <2>1 DEF LatestBalance
    <2>3. HasLatest'
      BY <2>1 DEF HasLatest, BalanceInv
    <2>4. QED
      BY <2>1, <2>2, <2>3
  <1>2. (contended => contended') /\ (AddsUp(treasury) => AddsUp(treasury)')
        /\ (NeverOverspent(treasury) => NeverOverspent(treasury)')
    <2>1. contended => contended'
      BY DEF Moved, NoteContention
    <2>2. AddsUp(treasury) => AddsUp(treasury)'
      BY <1>1
    <2>3. NeverOverspent(treasury) => NeverOverspent(treasury)'
      BY <1>1
    <2>4. QED
      BY <2>1, <2>2, <2>3
  <1>3. ASSUME ~contended' PROVE OneWriter' /\ ReadsLatest' /\ ComesLater'
    <2>1. OneWriter /\ ReadsLatest /\ ComesLater
      BY <1>2, <1>3 DEF BalanceInv
    <2>2. /\ \A q \in Requests \ {p} : stage'[q] = stage[q] /\ seen'[q] = seen[q]
          /\ \A q \in Requests \ {p} : Writing(q)' <=> Writing(q)
      BY DEF Moved, Writing
    <2>3. Writing(p)' => \A q \in Requests \ {p} : ~Writing(q)
      BY <1>3, <2>1 DEF Moved, NoteContention, OneWriter, Writing
    <2>4. OneWriter'
      BY <2>2, <2>3, <2>1 DEF OneWriter
    <2>5. ReadsLatest'
      <3>1. ASSUME NEW q \in Requests, stage'[q] = "read"
            PROVE  /\ seen'[q].balance = LatestBalance
                   /\ q \in Disbursals => LatestBalance >= Disbursed
        <4>1. CASE q = p
          BY <3>1, <4>1, <2>1 DEF Moved, Writing
        <4>2. CASE q # p
          BY <3>1, <4>2, <2>1, <2>2 DEF ReadsLatest
        <4>3. QED
          BY <4>1, <4>2
      <3>2. QED
        BY <1>1, <3>1 DEF ReadsLatest
    <2>6. ComesLater'
      <3>1. ASSUME NEW q \in Requests \ Disbursals, Writing(q)', NEW e \in treasury
            PROVE  e.at < seen'[q].at
        <4>1. e.at \in Nat /\ clock \in Nat /\ e.at <= clock
          BY DEF LedgerInv, LedgerTypes, EntryOK
        <4>2. CASE q = p
          BY <3>1, <4>1, <4>2, <2>1 DEF Moved, Writing, ComesLater
        <4>3. CASE q # p
          BY <3>1, <4>3, <2>1, <2>2 DEF ComesLater
        <4>4. QED
          BY <4>2, <4>3
      <3>2. QED
        BY <1>1, <3>1 DEF ComesLater
    <2>7. QED
      BY <2>4, <2>5, <2>6
  <1>4. QED
    BY <1>1, <1>2, <1>3 DEF BalanceInv

\* The entry a writer commits, alone since it read the latest one, goes on from it.
LEMMA CommittedBalances ==
    ASSUME LedgerInv, BalanceInv, LedgerInv', NEW p \in Requests, NEW e, Committed(p, e)
    PROVE  BalanceInv'
  <1>1. HasLatest'
    BY LatestStep DEF BalanceInv
  <1>2. SUFFICES ASSUME ~contended
                 PROVE  OneWriter' /\ ReadsLatest' /\ ComesLater' /\ AddsUp(treasury')
                        /\ NeverOverspent(treasury')
    BY <1>1 DEF BalanceInv, Committed
  <1>3. /\ OneWriter /\ ReadsLatest /\ ComesLater /\ AddsUp(treasury)
        /\ NeverOverspent(treasury)
    BY <1>2 DEF BalanceInv
  <1>4. /\ stage[p] = "read" /\ ~Writing(p)' /\ treasury' = treasury \cup {e}
        /\ e.amount \in Nat \ {0}
        /\ e.balance = seen[p].balance + Delta(e.type, e.amount)
        /\ \A q \in Requests \ {p} : stage'[q] = stage[q]
    BY DEF Committed
  <1>5. \A q \in Requests : ~Writing(q)'
    BY <1>3, <1>4 DEF OneWriter, Writing
  <1>6. OneWriter' /\ ReadsLatest' /\ ComesLater'
    BY <1>5 DEF OneWriter, ReadsLatest, ComesLater, Writing
  <1>7. /\ LatestBalance \in Int /\ IsFiniteSet(treasury) /\ clock \in Nat /\ e.at \in Int
        /\ \A f \in treasury : f.at \in Int /\ f.at <= clock
        /\ \A f \in treasury \cup {e} : f.amount \in Nat \ {0} /\ f.at \in Int
    <2>1. LatestBalance \in Int
      BY LatestTyped DEF LedgerInv, BalanceInv
    <2>2. \A f \in treasury' : EntryOK(f)'
      BY DEF LedgerInv, LedgerTypes
    <2>3. clock' \in Nat /\ e \in treasury'
      BY <1>4 DEF LedgerInv, LedgerTypes
    <2>4. \A f \in treasury' : f.at \in Int
      BY <2>2, <2>3 DEF EntryOK
    <2>5. QED
      BY <1>4, <2>1, <2>3, <2>4 DEF LedgerInv, LedgerTypes, EntryOK
  <1>8. \A f \in treasury : f.at < e.at
    <2>1. CASE p \in Disbursals
      BY <1>7, <2>1 DEF Committed
    <2>2. CASE p \notin Disbursals
      BY <1>3, <1>4, <2>2 DEF Committed, ComesLater, Writing
    <2>3. QED
      BY <2>1, <2>2
  <1>9. AddsUp(treasury')
    <2>1. seen[p].balance = LatestBalance
      BY <1>3, <1>4 DEF ReadsLatest
    <2>2. e.balance = SumOf(Deltas(treasury), treasury) + Delta(e.type, e.amount)
      BY <1>3, <1>4, <1>7, <2>1, LatestIsSum DEF BalanceInv
    <2>3. \A f \in treasury \cup {e} : Delta(f.type, f.amount) \in Int
      BY <1>7 DEF Delta
    <2>4. QED
      BY <1>3, <1>4, <1>7, <1>8, <2>2, <2>3, AnotherAddsUp
  <1>10. NeverOverspent(treasury')
    <2>1. e.type = "disbursement" => e.balance >= 0
      <3>1. SUFFICES ASSUME e.type = "disbursement" PROVE e.balance >= 0
        OBVIOUS
      <3>2. p \in Disbursals /\ e.amount = Disbursed
        BY <3>1 DEF Committed
      <3>3. LatestBalance >= Disbursed /\ seen[p].balance = LatestBalance
        BY <1>3, <1>4, <3>2 DEF ReadsLatest
      <3>4. e.balance = LatestBalance - Disbursed
        BY <1>4, <1>7, <3>1, <3>2, <3>3, Kinds DEF Delta
      <3>5. QED
        BY <1>7, <3>3, <3>4, Kinds
    <2>2. QED
      BY <1>3, <1>4, <2>1 DEF NeverOverspent
  <1>11. QED
    BY <1>6, <1>9, <1>10

-----------------------------------------------------------------------------
(* What the summaries report.                                              *)

Amounts(S) == [x \in S |-> x.amount]
PaidIn(T) == {e \in T : e.type = "referral_reward"}
ReferralTotals == [u \in Users |-> AdminSummaries.referralsOf[u].total]
YieldTotals == [u \in Holders |-> AdminSummaries.yieldOf[u]]

\* What has been credited is what the treasury has paid.
RewardsArePaid ==
    SumOf(Amounts(rewards), rewards) = SumOf(Amounts(PaidIn(treasury)), PaidIn(treasury))

\* The sum of the amounts of rows, as the summaries write it.
LEMMA AmountSum ==
    ASSUME NEW S, IsFiniteSet(S)
    PROVE  MapThenSumSet(LAMBDA x : x.amount, S) = SumOf(Amounts(S), S)
  <1> DEFINE q == Amounts(S)
             P(g) == g = [s \in SUBSET S |-> IF s = {} THEN 0
                      ELSE LET x == CHOOSE x \in s : TRUE
                           IN x.amount + g[s \ {x}]]
             G == CHOOSE g : P(g)
  <1>1. MapThenSumSet(LAMBDA x : x.amount, S) = G[S]
    BY DEF MapThenSumSet, MapThenFoldSet
  <1>2. \A s \in SUBSET S : s # {} => q[Pick(s)] = Pick(s).amount
    BY DEF Pick, Amounts
  <1>3. ASSUME NEW g PROVE P(g) <=> Sums(g, q, S)
    <2> DEFINE A == [s \in SUBSET S |-> IF s = {} THEN 0
                      ELSE LET x == CHOOSE x \in s : TRUE
                           IN x.amount + g[s \ {x}]]
               B == [s \in SUBSET S |-> IF s = {} THEN 0
                      ELSE LET x == Pick(s) IN q[x] + g[s \ {x}]]
    <2>1. \A s \in SUBSET S : A[s] = B[s]
      BY <1>2 DEF Pick
    <2>2. A = B
      <3>1. A = [s \in SUBSET S |-> A[s]] /\ B = [s \in SUBSET S |-> B[s]]
        OBVIOUS
      <3> HIDE DEF A, B
      <3>2. QED
        BY <2>1, <3>1
    <2>3. Sums(g, q, S) <=> g = B
      BY DEF Sums
    <2>4. QED
      BY <2>2, <2>3
  <1>4. Sums(G, q, S)
    <2> HIDE DEF P, q
    <2> QED BY <1>3, SumsExist
  <1>5. QED
    BY <1>1, <1>4, SumsGiveSum

\* The sum of the users' referral totals.
LEMMA ReferralTotalSum ==
    ASSUME IsFiniteSet(Users)
    PROVE  MapThenSumSet(LAMBDA u : AdminSummaries.referralsOf[u].total, Users) = SumOf(ReferralTotals, Users)
  <1> DEFINE q == ReferralTotals
             P(g) == g = [s \in SUBSET Users |-> IF s = {} THEN 0
                      ELSE LET x == CHOOSE x \in s : TRUE
                           IN AdminSummaries.referralsOf[x].total + g[s \ {x}]]
             G == CHOOSE g : P(g)
  <1>1. MapThenSumSet(LAMBDA u : AdminSummaries.referralsOf[u].total, Users) = G[Users]
    BY DEF MapThenSumSet, MapThenFoldSet
  <1>2. \A s \in SUBSET Users : s # {} => q[Pick(s)] = AdminSummaries.referralsOf[Pick(s)].total
    BY DEF Pick, ReferralTotals
  <1>3. ASSUME NEW g PROVE P(g) <=> Sums(g, q, Users)
    <2> DEFINE A == [s \in SUBSET Users |-> IF s = {} THEN 0
                      ELSE LET x == CHOOSE x \in s : TRUE
                           IN AdminSummaries.referralsOf[x].total + g[s \ {x}]]
               B == [s \in SUBSET Users |-> IF s = {} THEN 0
                      ELSE LET x == Pick(s) IN q[x] + g[s \ {x}]]
    <2>1. \A s \in SUBSET Users : A[s] = B[s]
      BY <1>2 DEF Pick
    <2>2. A = B
      <3>1. A = [s \in SUBSET Users |-> A[s]] /\ B = [s \in SUBSET Users |-> B[s]]
        OBVIOUS
      <3> HIDE DEF A, B
      <3>2. QED
        BY <2>1, <3>1
    <2>3. Sums(g, q, Users) <=> g = B
      BY DEF Sums
    <2>4. QED
      BY <2>2, <2>3
  <1>4. Sums(G, q, Users)
    <2> HIDE DEF P, q
    <2> QED BY <1>3, SumsExist
  <1>5. QED
    BY <1>1, <1>4, SumsGiveSum

\* The sum of the holders' yields.
LEMMA YieldTotalSum ==
    ASSUME IsFiniteSet(Holders)
    PROVE  MapThenSumSet(LAMBDA u : AdminSummaries.yieldOf[u], Holders) = SumOf(YieldTotals, Holders)
  <1> DEFINE q == YieldTotals
             P(g) == g = [s \in SUBSET Holders |-> IF s = {} THEN 0
                      ELSE LET x == CHOOSE x \in s : TRUE
                           IN AdminSummaries.yieldOf[x] + g[s \ {x}]]
             G == CHOOSE g : P(g)
  <1>1. MapThenSumSet(LAMBDA u : AdminSummaries.yieldOf[u], Holders) = G[Holders]
    BY DEF MapThenSumSet, MapThenFoldSet
  <1>2. \A s \in SUBSET Holders : s # {} => q[Pick(s)] = AdminSummaries.yieldOf[Pick(s)]
    BY DEF Pick, YieldTotals
  <1>3. ASSUME NEW g PROVE P(g) <=> Sums(g, q, Holders)
    <2> DEFINE A == [s \in SUBSET Holders |-> IF s = {} THEN 0
                      ELSE LET x == CHOOSE x \in s : TRUE
                           IN AdminSummaries.yieldOf[x] + g[s \ {x}]]
               B == [s \in SUBSET Holders |-> IF s = {} THEN 0
                      ELSE LET x == Pick(s) IN q[x] + g[s \ {x}]]
    <2>1. \A s \in SUBSET Holders : A[s] = B[s]
      BY <1>2 DEF Pick
    <2>2. A = B
      <3>1. A = [s \in SUBSET Holders |-> A[s]] /\ B = [s \in SUBSET Holders |-> B[s]]
        OBVIOUS
      <3> HIDE DEF A, B
      <3>2. QED
        BY <2>1, <3>1
    <2>3. Sums(g, q, Holders) <=> g = B
      BY DEF Sums
    <2>4. QED
      BY <2>2, <2>3
  <1>4. Sums(G, q, Holders)
    <2> HIDE DEF P, q
    <2> QED BY <1>3, SumsExist
  <1>5. QED
    BY <1>1, <1>4, SumsGiveSum

\* The sum of the amounts of some rows does not depend on the others.
LEMMA AmountsAgree ==
    ASSUME NEW T, IsFiniteSet(T), NEW S \in SUBSET T
    PROVE  SumOf(Amounts(S), S) = SumOf(Amounts(T), S)
  <1>1. IsFiniteSet(S)
    BY FS_Subset
  <1>2. \A e \in S : Amounts(S)[e] = Amounts(T)[e]
    BY DEF Amounts
  <1>3. QED
    BY <1>1, <1>2, SumEqual

\* Another row adds its amount.
LEMMA AmountAdded ==
    ASSUME NEW S, IsFiniteSet(S), NEW y, y \notin S, \A x \in S \cup {y} : x.amount \in Int
    PROVE  SumOf(Amounts(S \cup {y}), S \cup {y}) = y.amount + SumOf(Amounts(S), S)
  <1> DEFINE U == S \cup {y}
  <1>1. IsFiniteSet(U)
    BY FS_AddElement
  <1>2. (\A x \in U : Amounts(U)[x] \in Int) /\ Amounts(U)[y] = y.amount
    BY DEF Amounts
  <1>3. SumOf(Amounts(U), U) = y.amount + SumOf(Amounts(U), S)
    BY <1>2, SumAdd
  <1>4. SumOf(Amounts(U), S) = SumOf(Amounts(S), S)
    BY <1>1, AmountsAgree
  <1>5. QED
    BY <1>3, <1>4

\* Only the commit of a reward changes what has been credited or paid.
LEMMA RewardsKept ==
    ASSUME ReferralNext
    PROVE  \/ \E p \in Reviews : RewardCommit(p)
           \/ rewards' = rewards /\ PaidIn(treasury') = PaidIn(treasury)
  <1>1. ASSUME NEW p \in Submissions, SubmitKyc(p)
        PROVE  rewards' = rewards /\ treasury' = treasury
    BY <1>1 DEF SubmitKyc, SubmitRead, SubmitInsert, kycVars
  <1>2. ASSUME NEW p \in Reviews, UpdateKycAdmin(p), ~RewardCommit(p)
        PROVE  rewards' = rewards /\ treasury' = treasury
    BY <1>2 DEF UpdateKycAdmin, CreateReferralSignupReward, ReviewRead, ReviewUpdate,
                RewardCheck, RewardInsert, kycVars
  <1>3. ASSUME NEW p \in Requests, SettleCommit(p) \/ DisburseCommit(p)
        PROVE  PaidIn(treasury') = PaidIn(treasury)
    <2>1. PICK e : treasury' = treasury \cup {e} /\ e.type \in {"fee_income", "disbursement"}
      <3>1. CASE SettleCommit(p)
        <4>1. PICK e : e = Entry(p, "fee_income", Fee, seen[p].at)
          OBVIOUS
        <4>2. QED
          BY <3>1, <4>1 DEF SettleCommit, Entry
      <3>2. CASE DisburseCommit(p)
        <4>1. PICK e : e = Entry(p, "disbursement", Disbursed, clock + 1)
          OBVIOUS
        <4>2. QED
          BY <3>2, <4>1 DEF DisburseCommit, Entry
      <3>3. QED
        BY <1>3, <3>1, <3>2
    <2>2. QED
      BY <2>1 DEF PaidIn
  <1>4. ASSUME NEW p \in Requests, ~SettleCommit(p), ~DisburseCommit(p),
               RecordTradeFeeIncome(p) \/ DisburseTreasury(p) \/ RequestFails(p)
        PROVE  treasury' = treasury
    BY <1>4 DEF RecordTradeFeeIncome, DisburseTreasury, Settle, SettleRead, DisburseRead,
                RequestFails
  <1>5. QED
    BY <1>1, <1>2, <1>3, <1>4 DEF ReferralNext, TreasuryNext, kycVars

\* A reward is credited by the transaction that pays it.
LEMMA RewardsPaidStep ==
    ASSUME LedgerInv, RewardsArePaid, ReferralNext
    PROVE  RewardsArePaid'
  <1>1. CASE rewards' = rewards /\ PaidIn(treasury') = PaidIn(treasury)
    BY <1>1 DEF RewardsArePaid
  <1>2. ASSUME NEW p \in Reviews, RewardCommit(p)
        PROVE  RewardsArePaid'
    <2> DEFINE u == UserOf[p]
    <2>1. PICK r : r = RewardOf(u)
      OBVIOUS
    <2>2. PICK e : e = Entry(p, "referral_reward", Bonus, seen[p].at)
      OBVIOUS
    <2>3. /\ rewards' = rewards \cup {r} /\ treasury' = treasury \cup {e}
          /\ stage[p] = "read"
      BY <1>2, <2>1, <2>2 DEF RewardCommit, RewardOf
    <2>4. /\ r.referred = u /\ r.amount = Bonus
          /\ e.source = p /\ e.amount = Bonus /\ e.type = "referral_reward"
      BY <2>1, <2>2 DEF RewardOf, Entry
    <2>5. r \notin rewards
      BY <2>3, <2>4 DEF LedgerInv, OneInsert, Rewarded
    <2>6. e \notin treasury
      BY <2>3, <2>4 DEF LedgerInv, LedgerTypes, EntryOK, Over
    <2>7. PaidIn(treasury') = PaidIn(treasury) \cup {e} /\ e \notin PaidIn(treasury)
      BY <2>3, <2>4, <2>6 DEF PaidIn
    <2>8. IsFiniteSet(rewards) /\ IsFiniteSet(PaidIn(treasury))
      BY FS_Subset DEF LedgerInv, LedgerTypes, PaidIn
    <2>9. /\ \A x \in rewards \cup {r} : x.amount \in Int
          /\ \A x \in PaidIn(treasury) \cup {e} : x.amount \in Int
      BY <2>4, Kinds DEF LedgerInv, LedgerTypes, RewardOf, EntryOK, PaidIn
    <2>10. SumOf(Amounts(rewards'), rewards') = Bonus + SumOf(Amounts(rewards), rewards)
      BY <2>3, <2>4, <2>5, <2>8, <2>9, AmountAdded
    <2>11. SumOf(Amounts(PaidIn(treasury')), PaidIn(treasury'))
             = Bonus + SumOf(Amounts(PaidIn(treasury)), PaidIn(treasury))
      BY <2>4, <2>7, <2>8, <2>9, AmountAdded
    <2>12. QED
      BY <2>10, <2>11 DEF RewardsArePaid
  <1>3. QED
    BY <1>1, <1>2, RewardsKept

-----------------------------------------------------------------------------
(* The ledger's theorems.                                                  *)

LedgerAll == LedgerInv /\ BalanceInv /\ RewardsArePaid

\* The platform starts with an empty ledger and nobody verified.
LEMMA LedgerInit ==
    ASSUME Init
    PROVE  LedgerAll
  <1>1. /\ treasury = {} /\ clock = 0 /\ rewards = {} /\ verified = {} /\ active \subseteq Requests
        /\ stage = [p \in Requests |-> "idle"] /\ seen = [p \in Requests |-> NothingSeen]
        /\ kyc = [u \in Users |-> "none"] /\ contended = FALSE
    BY DEF Init, TreasuryInit, ReferralInit
  <1>2. /\ stage \in [Requests -> Stages] /\ seen \in [Requests -> SeenRow]
        /\ \A p \in Requests : stage[p] = "idle"
    BY <1>1, NothingTyped DEF Stages
  <1>3. LedgerTypes
    BY <1>1, <1>2, FS_EmptySet DEF LedgerTypes, KycStatuses
  <1>4. \A p \in Requests : Holds(p, stage[p], seen[p], clock, verified)
    BY <1>2 DEF Holds
  <1>5. OneInsert /\ OnItsWay
    BY <1>1, <1>2, Kinds DEF OneInsert, OnItsWay, IsKycVerified
  <1>6. HasLatest /\ OneWriter /\ ReadsLatest /\ ComesLater /\ AddsUp(treasury)
        /\ NeverOverspent(treasury)
    BY <1>1, <1>2 DEF HasLatest, OneWriter, ReadsLatest, ComesLater, AddsUp, NeverOverspent,
                      Writing
  <1>7. RewardsArePaid
    <2>1. PaidIn(treasury) = rewards
      BY <1>1 DEF PaidIn
    <2>2. QED
      BY <2>1 DEF RewardsArePaid
  <1>8. QED
    BY <1>3, <1>4, <1>5, <1>6, <1>7 DEF LedgerAll, LedgerInv, BalanceInv

\* Steps of the yield leave the ledger alone.
LEMMA LedgerStutter ==
    ASSUME LedgerAll, UNCHANGED ledgerVars
    PROVE  LedgerAll'
  <1>1. /\ active' = active /\ treasury' = treasury /\ clock' = clock /\ stage' = stage
        /\ seen' = seen /\ contended' = contended /\ kyc' = kyc /\ rewards' = rewards
        /\ verified' = verified
    BY DEF ledgerVars, kycVars
  <1>2. LedgerTypes'
    <2>1. \A e : EntryOK(e)' <=> EntryOK(e)
      BY <1>1 DEF EntryOK
    <2>2. QED
      BY <1>1, <2>1 DEF LedgerTypes, LedgerAll, LedgerInv, RewardOf
  <1>3. OneInsert' /\ OnItsWay'
    BY <1>1 DEF OneInsert, OnItsWay, LedgerAll, LedgerInv, Rewarded, IsKycVerified
  <1>4. LedgerInv'
    BY <1>1, <1>2, <1>3 DEF LedgerAll, LedgerInv
  <1>5. LatestBalance' = LatestBalance /\ \A p : Writing(p)' <=> Writing(p)
    <2>1. LatestBalance' = LatestBalance
      BY <1>1 DEF LatestBalance
    <2>2. QED
      BY <1>1, <2>1 DEF Writing
  <1>6. OneWriter => OneWriter'
    BY <1>5 DEF OneWriter
  <1>7. ReadsLatest => ReadsLatest'
    BY <1>1, <1>5 DEF ReadsLatest
  <1>8. ComesLater => ComesLater'
    BY <1>1, <1>5 DEF ComesLater
  <1>9. AddsUp(treasury) => AddsUp(treasury)'
    BY <1>1
  <1>10. NeverOverspent(treasury) => NeverOverspent(treasury)'
    BY <1>1
  <1>11. HasLatest'
    BY <1>1 DEF HasLatest, LedgerAll, BalanceInv
  <1>12. BalanceInv'
    BY <1>1, <1>6, <1>7, <1>8, <1>9, <1>10, <1>11 DEF LedgerAll, BalanceInv
  <1>13. RewardsArePaid'
    BY <1>1 DEF RewardsArePaid, LedgerAll
  <1>14. QED
    BY <1>4, <1>12, <1>13 DEF LedgerAll

\* Every step keeps the ledger's invariant.
LEMMA LedgerNext ==
    ASSUME LedgerAll, [Next]_vars
    PROVE  LedgerAll'
  <1>1. CASE ReferralNext
    <2>1. LedgerInv' /\ \E p \in Requests : Moved(p) \/ \E e : Committed(p, e)
      BY <1>1, LedgerStep DEF LedgerAll, BalanceInv
    <2>2. BalanceInv'
      BY <2>1, MovedBalances, CommittedBalances DEF LedgerAll
    <2>3. RewardsArePaid'
      BY <1>1, RewardsPaidStep DEF LedgerAll
    <2>4. QED
      BY <2>1, <2>2, <2>3 DEF LedgerAll
  <1>2. CASE UNCHANGED ledgerVars
    BY <1>2, LedgerStutter
  <1>3. QED
    BY <1>1, <1>2 DEF Next, vars

\* As long as no two writers of the treasury's ledger are at work at once, the balance each
\* entry stores is the sum of the entries up to it, and no disbursement makes it negative.
THEOREM BalancesKept == Spec => []UncontendedBalancesAddUp
  <1>1. LedgerAll => UncontendedBalancesAddUp
    <2>1. SUFFICES ASSUME LedgerAll, ~contended, NEW e \in treasury
                   PROVE  /\ e.balance = Sum(EntriesUpTo(e))
                          /\ e.type = "disbursement" => Sum(EntriesUpTo(e)) >= 0
      BY DEF UncontendedBalancesAddUp, BalancesAddUp
    <2>2. AddsUp(treasury) /\ NeverOverspent(treasury) /\ IsFiniteSet(treasury)
      BY <2>1 DEF LedgerAll, BalanceInv, LedgerInv, LedgerTypes
    <2>3. EntriesUpTo(e) = UpTo(treasury, e)
      BY DEF EntriesUpTo, UpTo
    <2>4. IsFiniteSet(EntriesUpTo(e))
      BY <2>2, FS_Subset DEF EntriesUpTo
    <2>5. Sum(EntriesUpTo(e)) = SumOf(Deltas(UpTo(treasury, e)), UpTo(treasury, e))
      BY <2>3, <2>4, DeltaSum
    <2>6. QED
      BY <2>1, <2>2, <2>5 DEF AddsUp, NeverOverspent
  <1>2. QED
    BY <1>1, LedgerInit, LedgerNext, PTL DEF Spec

-----------------------------------------------------------------------------
(* Yield.                                                                  *)

\* A holder has accruals that end last among its own.
LEMMA StartType ==
    ASSUME YieldInv, NEW u \in Holders
    PROVE  /\ StartAt(u) \in Int
           /\ \A a \in AccrualsOf(u) : a.to <= StartAt(u)
           /\ StartAt(u) \in {a.to : a \in AccrualsOf(u)} \cup {updated[u]}
  <1>1. \A a \in AccrualsOf(u) : a.to \in Int
    BY DEF AccrualsOf, YieldInv, YieldTypes, DueRow, AccrualRow
  <1>2. CASE AccrualsOf(u) = {}
    BY <1>2 DEF StartAt, YieldInv, YieldTypes
  <1>3. CASE AccrualsOf(u) # {}
    <2> DEFINE times == {a.to : a \in AccrualsOf(u)}
               t == LatestOf(times)
    <2>1. \E x \in times : \A s \in times : s <= x
      BY <1>3 DEF YieldInv, Last
    <2>2. t \in times /\ \A s \in times : s <= t
      <3> HIDE DEF times
      <3>1. QED
        BY <2>1 DEF LatestOf
    <2>3. StartAt(u) = t
      BY <1>3 DEF StartAt
    <2> HIDE DEF t
    <2>4. QED
      BY <1>1, <2>2, <2>3
  <1>4. QED
    BY <1>2, <1>3

\* The window a request finds due is a row of its holder, and begins where the last one ends.
LEMMA PendingRow ==
    ASSUME YieldInv, NEW g \in YieldReads
    PROVE  /\ Pending(g) \in AccrualRow /\ Pending(g).holder = HolderOf[g]
           /\ HolderOf[g] \in Holders /\ Follows(Pending(g), AccrualsOf(HolderOf[g]))
           /\ InTime(Pending(g), HolderOf[g])
  <1> DEFINE u == HolderOf[g]
             start == StartAt(u)
             days == Date(now) - Date(start)
  <1>1. /\ u \in Holders /\ Rate \in Nat /\ Scale \in Nat \ {0} /\ TicksPerDay \in Nat \ {0}
        /\ MaxBalance \in Nat \ {0}
    BY YieldAssumption DEF YieldAssumption
  <1>2. /\ start \in Int /\ \A a \in AccrualsOf(u) : a.to <= start
        /\ start \in {a.to : a \in AccrualsOf(u)} \cup {updated[u]}
    BY <1>1, StartType
  <1>3. now \in Nat /\ balance[u] \in 0..MaxBalance /\ balance[u] \in Nat
    BY <1>1 DEF YieldInv, YieldTypes
  <1> HIDE DEF u, start
  <1>4. days \in Int
    BY <1>1, <1>2, <1>3 DEF Date
  <1>5. start + days * TicksPerDay \in Int
    <2> HIDE DEF days
    <2>1. QED
      BY <1>1, <1>2, <1>4
  <1>6. YieldFor(balance[u], days) \in Int
    <2> HIDE DEF days
    <2>1. balance[u] * Rate \in Int
      BY <1>1, <1>3
    <2>2. balance[u] * Rate * days \in Int
      BY <1>4, <2>1
    <2>3. QED
      BY <1>1, <2>2 DEF YieldFor
  <1>7. Pending(g) = [id |-> g, holder |-> u, quantity |-> balance[u],
                      amount |-> YieldFor(balance[u], days), from |-> start,
                      to |-> start + days * TicksPerDay, at |-> now]
    BY DEF Pending, Window, u, start
  <1> HIDE DEF days
  <1>8. Pending(g) \in AccrualRow /\ Pending(g).holder = u /\ Pending(g).from = start
    BY <1>1, <1>2, <1>3, <1>5, <1>6, <1>7 DEF AccrualRow
  <1>9. Follows(Pending(g), AccrualsOf(u)) /\ InTime(Pending(g), u)
    BY <1>2, <1>8 DEF Follows, InTime
  <1>10. QED
    BY <1>1, <1>8, <1>9 DEF u

\* Another row leaves a last one.
LEMMA LastGrows ==
    ASSUME NEW W, Last(W), NEW r, \A a \in W \cup {r} : a.to \in Int
    PROVE  Last(W \cup {r})
  <1>1. CASE W = {}
    BY <1>1 DEF Last
  <1>2. CASE W # {}
    <2>1. PICK a \in W : \A b \in W : b.to <= a.to
      BY <1>2 DEF Last
    <2>2. CASE r.to <= a.to
      BY <2>1, <2>2 DEF Last
    <2>3. CASE a.to < r.to
      <3>1. \A b \in W \cup {r} : b.to <= r.to
        BY <2>1, <2>3
      <3>2. QED
        BY <3>1 DEF Last
    <2>4. QED
      BY <2>1, <2>2, <2>3
  <1>3. QED
    BY <1>1, <1>2

\* The SELECT of an accrual.
LEMMA AccrueReadInv ==
    ASSUME YieldInv, NEW g \in YieldReads, AccrueRead(g)
    PROVE  YieldInv'
  <1> DEFINE u == HolderOf[g]
  <1>1. /\ accruals' = accruals /\ visiting' = visiting /\ now' = now /\ balance' = balance
        /\ updated' = updated /\ progress[g] = "idle"
    BY DEF AccrueRead
  <1>2. \A w : AccrualsOf(w)' = AccrualsOf(w)
    BY <1>1 DEF AccrualsOf
  <1>3. /\ Pending(g) \in AccrualRow /\ Pending(g).holder = u /\ u \in Holders
        /\ Follows(Pending(g), AccrualsOf(u)) /\ InTime(Pending(g), u)
    BY PendingRow
  <1>4. /\ progress' \in [YieldReads -> {"idle", "insert", "answered", "failed"}]
        /\ row' \in [YieldReads -> AccrualRow]
        /\ \A h \in YieldReads \ {g} : progress'[h] = progress[h] /\ row'[h] = row[h]
        /\ progress'[g] = "insert" => row'[g] = Pending(g) /\ IsDue(Pending(g))
    BY <1>3 DEF AccrueRead, YieldInv, YieldTypes
  <1>5. YieldTypes'
    <2>1. ASSUME NEW h \in YieldReads, progress'[h] = "insert"
          PROVE  DueRow(row'[h]) /\ row'[h].holder = HolderOf[h]
      <3>1. CASE h = g
        BY <1>3, <1>4, <2>1, <3>1 DEF DueRow
      <3>2. CASE h # g
        BY <1>4, <2>1, <3>2 DEF YieldInv, YieldTypes
      <3>3. QED
        BY <3>1, <3>2
    <2>2. raced' \in BOOLEAN
      BY DEF AccrueRead
    <2>3. QED
      BY <1>1, <1>4, <2>1, <2>2 DEF YieldInv, YieldTypes
  <1>6. ASSUME ~raced'
        PROVE  /\ \A h, k \in YieldReads :
                    progress'[h] = "insert" /\ progress'[k] = "insert" /\ HolderOf[h] = HolderOf[k]
                      => h = k
               /\ \A h \in YieldReads : progress'[h] = "insert" =>
                    Follows(row'[h], AccrualsOf(HolderOf[h]))
    <2>1. ~raced /\ \A h \in YieldReads \ {g} : HolderOf[h] = u => progress[h] # "insert"
      BY <1>6 DEF AccrueRead
    <2>2. QED
      BY <1>3, <1>4, <2>1 DEF YieldInv
  <1>7. ASSUME NEW h \in YieldReads, progress'[h] = "insert"
        PROVE  InTime(row'[h], HolderOf[h])
    <2>1. CASE h = g
      BY <1>3, <1>4, <1>7, <2>1
    <2>2. CASE h # g
      BY <1>4, <1>7, <2>2 DEF YieldInv
    <2>3. QED
      BY <2>1, <2>2
  <1>8. \A h \in YieldReads : progress'[h] = "insert" => InTime(row[h], HolderOf[h])'
    BY <1>1, <1>2, <1>7 DEF InTime
  <1>9. QED
    BY <1>2, <1>5, <1>6, <1>8 DEF YieldInv

\* The INSERT of an accrual.
LEMMA AccrueCommitInv ==
    ASSUME YieldInv, NEW g \in YieldReads, AccrueCommit(g)
    PROVE  YieldInv'
  <1> DEFINE u == HolderOf[g]
             r == row[g]
  <1>1. /\ visiting' = visiting /\ now' = now /\ balance' = balance /\ updated' = updated
        /\ row' = row /\ raced' = raced /\ accruals' = accruals \cup {r}
        /\ progress[g] = "insert"
    BY DEF AccrueCommit
  <1>2. /\ progress' \in [YieldReads -> {"idle", "insert", "answered", "failed"}]
        /\ \A h \in YieldReads \ {g} : progress'[h] = progress[h]
        /\ progress'[g] # "insert"
    BY DEF AccrueCommit, YieldInv, YieldTypes
  <1>3. DueRow(r) /\ r.holder = u /\ u \in Holders
    BY <1>1, YieldAssumption DEF YieldInv, YieldTypes, YieldAssumption
  <1>4. r.to > r.from /\ \A a \in accruals \cup {r} : a.to \in Int /\ a.from \in Int
    BY <1>3 DEF YieldInv, YieldTypes, DueRow, IsDue, AccrualRow
  <1> HIDE DEF r
  <1>5. AccrualsOf(u)' = AccrualsOf(u) \cup {r} /\ \A w \in Holders \ {u} : AccrualsOf(w)' = AccrualsOf(w)
    BY <1>1, <1>3 DEF AccrualsOf
  <1>6. \A w : AccrualsOf(w) \subseteq accruals
    BY DEF AccrualsOf
  <1>7. YieldTypes'
    <2>1. IsFiniteSet(accruals') /\ \A a \in accruals' : DueRow(a)
      BY <1>1, <1>3, FS_AddElement DEF YieldInv, YieldTypes
    <2>2. \A h \in YieldReads : progress'[h] = "insert" => progress[h] = "insert"
      BY <1>2
    <2>3. QED
      BY <1>1, <1>2, <2>1, <2>2 DEF YieldInv, YieldTypes
  <1>8. \A w \in Holders : Last(AccrualsOf(w)')
    <2>1. Last(AccrualsOf(u) \cup {r})
      BY <1>3, <1>4, <1>6, LastGrows DEF YieldInv
    <2>2. QED
      BY <1>5, <2>1 DEF YieldInv
  <1>9. ASSUME ~raced
        PROVE  /\ \A h, k \in YieldReads :
                    progress'[h] = "insert" /\ progress'[k] = "insert" /\ HolderOf[h] = HolderOf[k]
                      => h = k
               /\ \A h \in YieldReads : progress'[h] = "insert" =>
                    Follows(row[h], AccrualsOf(HolderOf[h])')
    <2>1. ASSUME NEW h \in YieldReads, progress'[h] = "insert"
          PROVE  HolderOf[h] # u /\ HolderOf[h] \in Holders /\ progress[h] = "insert"
      BY <1>1, <1>2, <1>9, <2>1, YieldAssumption DEF YieldInv, YieldAssumption
    <2>2. \A h \in YieldReads : progress'[h] = "insert" =>
             Follows(row[h], AccrualsOf(HolderOf[h])')
      BY <1>5, <1>9, <2>1 DEF YieldInv
    <2>3. QED
      BY <1>9, <2>1, <2>2 DEF YieldInv
  <1>10. \A h \in YieldReads : progress'[h] = "insert" => InTime(row[h], HolderOf[h])'
    <2>1. \A h \in YieldReads : progress'[h] = "insert" => InTime(row[h], HolderOf[h])
      BY <1>1, <1>2 DEF YieldInv
    <2>2. \A w : AccrualsOf(w) \subseteq AccrualsOf(w)'
      BY <1>1 DEF AccrualsOf
    <2>3. QED
      BY <1>1, <2>1, <2>2 DEF InTime
  <1>11. QED
    BY <1>1, <1>7, <1>8, <1>9, <1>10 DEF YieldInv

\* Nothing is accrued at first.
LEMMA YieldInitInv ==
    ASSUME Init
    PROVE  YieldInv
  <1>1. /\ now = 0 /\ accruals = {} /\ raced = FALSE /\ visiting \subseteq YieldReads
        /\ balance = [u \in Holders |-> 1] /\ updated = [u \in Holders |-> 0]
        /\ progress = [g \in YieldReads |-> "idle"] /\ row = [g \in YieldReads |-> NoRow]
    BY DEF Init, YieldInit
  <1>2. NoRow \in AccrualRow /\ 1 \in 0..MaxBalance
    BY YieldAssumption DEF NoRow, AccrualRow, YieldAssumption
  <1>7. \A u \in Holders : updated[u] <= now
    BY <1>1
  <1>3. YieldTypes
    BY <1>1, <1>2, <1>7, FS_EmptySet DEF YieldTypes
  <1>4. \A u : AccrualsOf(u) = {}
    BY <1>1 DEF AccrualsOf
  <1>5. \A g \in YieldReads : progress[g] = "idle"
    BY <1>1
  <1>6. QED
    BY <1>3, <1>4, <1>5 DEF YieldInv, Last

\* Time, trades and failures leave the accruals and the windows to be inserted alone.
LEMMA YieldQuiet ==
    ASSUME YieldInv, accruals' = accruals, row' = row, raced' = raced, visiting' = visiting,
           now' \in Nat, balance' \in [Holders -> 0..MaxBalance], updated' \in [Holders -> Nat],
           \A u \in Holders : updated[u] <= updated'[u] /\ updated'[u] <= now',
           progress' \in [YieldReads -> {"idle", "insert", "answered", "failed"}],
           \A g \in YieldReads : progress'[g] = "insert" => progress[g] = "insert"
    PROVE  YieldInv'
  <1>1. \A w : AccrualsOf(w)' = AccrualsOf(w)
    BY DEF AccrualsOf
  <1>2. YieldTypes'
    BY DEF YieldInv, YieldTypes
  <1>3. ASSUME NEW g \in YieldReads, progress'[g] = "insert"
        PROVE  InTime(row[g], HolderOf[g])'
    <2> DEFINE u == HolderOf[g]
    <2>1. /\ u \in Holders /\ row[g].from \in Int /\ row'[g] = row[g]
          /\ updated[u] \in Nat /\ updated'[u] \in Nat /\ updated[u] <= updated'[u]
      BY YieldAssumption DEF YieldInv, YieldTypes, AccrualRow, YieldAssumption
    <2>2. PICK start \in {a.to : a \in AccrualsOf(u)} \cup {updated[u]} : row[g].from <= start
      BY <1>3 DEF YieldInv, InTime
    <2>3. CASE start = updated[u]
      BY <2>1, <2>2, <2>3 DEF InTime
    <2>4. CASE start \in {a.to : a \in AccrualsOf(u)}
      BY <1>1, <2>1, <2>2, <2>4 DEF InTime
    <2>5. QED
      BY <2>2, <2>3, <2>4
  <1>4. QED
    BY <1>1, <1>2, <1>3 DEF YieldInv

\* Every step keeps the invariant of the accruals.
LEMMA YieldNextInv ==
    ASSUME YieldInv, [Next]_vars
    PROVE  YieldInv'
  <1>1. /\ now \in Nat /\ balance \in [Holders -> 0..MaxBalance] /\ updated \in [Holders -> Nat]
        /\ \A u \in Holders : updated[u] <= now
        /\ progress \in [YieldReads -> {"idle", "insert", "answered", "failed"}]
    BY DEF YieldInv, YieldTypes
  <1>2. CASE UNCHANGED yieldVars
    BY <1>1, <1>2, YieldQuiet DEF yieldVars
  <1>3. CASE TimePasses
    BY <1>1, <1>3, YieldQuiet DEF TimePasses
  <1>4. ASSUME NEW u \in Holders, TokenBalanceChanges(u) PROVE YieldInv'
    <2>1. /\ balance' \in [Holders -> 0..MaxBalance] /\ updated' \in [Holders -> Nat]
          /\ \A w \in Holders : updated[w] <= updated'[w] /\ updated'[w] <= now
      BY <1>1, <1>4 DEF TokenBalanceChanges
    <2>2. QED
      BY <1>1, <1>4, <2>1, YieldQuiet DEF TokenBalanceChanges
  <1>5. ASSUME NEW g \in YieldReads, AccrueFails(g) PROVE YieldInv'
    <2>1. /\ progress' \in [YieldReads -> {"idle", "insert", "answered", "failed"}]
          /\ \A h \in YieldReads : progress'[h] = "insert" => progress[h] = "insert"
      BY <1>1, <1>5 DEF AccrueFails
    <2>2. QED
      BY <1>1, <1>5, <2>1, YieldQuiet DEF AccrueFails
  <1>6. ASSUME NEW g \in YieldReads, AccruePendingYield(g) PROVE YieldInv'
    BY <1>5, <1>6, AccrueReadInv, AccrueCommitInv DEF AccruePendingYield
  <1>7. QED
    BY <1>2, <1>3, <1>4, <1>6 DEF Next, vars, YieldNext

\* An accrual skips no day and pays none that was paid, as long as no two requests of the
\* holder accrue at once, whatever trades and failures come between; and it is not empty.
THEOREM DaysPaidOnce == Spec => YieldDaysArePaidOnce
  <1> DEFINE Paid(a) ==
               LET ends == {b.to : b \in AccrualsOf(a.holder)}
               IN  /\ a.to > a.from /\ a.amount > 0
                   /\ \E start \in ends \cup {updated[a.holder]} : a.from <= start
                   /\ ~raced => \A end \in ends : end <= a.from
  <1>1. ASSUME YieldInv, [Next]_vars, NEW a \in accruals', a \notin accruals
        PROVE  Paid(a)
    <2>1. PICK g \in YieldReads : AccrueCommit(g)
      BY <1>1 DEF Next, YieldNext, vars, yieldVars, TimePasses, TokenBalanceChanges,
         AccruePendingYield, AccrueRead, AccrueFails
    <2>2. a = row[g] /\ progress[g] = "insert"
      BY <1>1, <2>1 DEF AccrueCommit
    <2>3. a.to > a.from /\ a.amount > 0 /\ a.holder = HolderOf[g]
      BY <1>1, <2>2 DEF YieldInv, YieldTypes, DueRow, IsDue
    <2>4. InTime(a, a.holder)
      BY <1>1, <2>2, <2>3 DEF YieldInv
    <2>5. ~raced => Follows(a, AccrualsOf(a.holder))
      BY <1>1, <2>2, <2>3 DEF YieldInv
    <2>6. QED
      BY <2>3, <2>4, <2>5 DEF InTime, Follows
  <1>2. YieldInv /\ [Next]_vars => \A a \in accruals' \ accruals : Paid(a)
    BY <1>1
  <1>3. QED
    BY <1>2, YieldInitInv, YieldNextInv, PTL DEF Spec, YieldDaysArePaidOnce

-----------------------------------------------------------------------------
(* Both together.                                                          *)

\* Every row of the ledger, of the rewards and of the accruals is of its type and satisfies
\* the CHECK constraints of its table.
THEOREM RewardsTypes == Spec => []TypeOK
  <1>1. LedgerAll /\ YieldInv => TypeOK
    <2>1. SUFFICES ASSUME LedgerTypes, YieldTypes PROVE TypeOK
      BY DEF LedgerAll, LedgerInv, YieldInv
    <2>2. kyc \in [Users -> KycStatuses]
      BY <2>1 DEF LedgerTypes
    <2>3. \A e \in treasury :
            /\ e.type \in {"fee_income", "disbursement", "referral_reward"}
            /\ e.amount \in Nat \ {0} /\ e.balance \in Int /\ e.at \in 1..clock
      BY <2>1 DEF LedgerTypes, EntryOK
    <2>4. \A r \in rewards : r.referrer \in Users /\ r.referred \in Users /\ r.referrer # r.referred
      BY <2>1, ReferralAssumption DEF LedgerTypes, RewardOf, ReferralAssumption
    <2>5. \A a \in accruals :
            /\ a.holder \in Holders /\ a.quantity \in 1..MaxBalance
            /\ a.amount \in Nat \ {0} /\ a.to > a.from
      BY <2>1, YieldAssumption DEF YieldTypes, DueRow, IsDue, AccrualRow, YieldAssumption
    <2>6. QED
      BY <2>2, <2>3, <2>4, <2>5 DEF TypeOK
  <1>2. QED
    BY <1>1, LedgerInit, LedgerNext, YieldInitInv, YieldNextInv, PTL DEF Spec

\* The credited rewards of a user add up to its total, and the totals to the platform's.
LEMMA ReferralTotalsAddUp ==
    ASSUME LedgerTypes
    PROVE  AdminSummaries.referrals.total
             = MapThenSumSet(LAMBDA u : AdminSummaries.referralsOf[u].total, Users)
  <1> DEFINE Of(u) == {r \in rewards : r.referrer = u}
             key == [r \in rewards |-> r.referrer]
             parts == [u \in Users |-> SumOf(Amounts(rewards), {r \in rewards : key[r] = u})]
  <1>1. IsFiniteSet(Users) /\ IsFiniteSet(rewards)
    BY ReferralAssumption DEF ReferralAssumption, LedgerTypes
  <1>2. \A r \in rewards : Amounts(rewards)[r] \in Int /\ key[r] \in Users
    BY Kinds DEF LedgerTypes, RewardOf, Amounts
  <1>3. AdminSummaries.referrals.total = SumOf(Amounts(rewards), rewards)
    <2>1. AdminSummaries.referrals.total = MapThenSumSet(LAMBDA r : r.amount, rewards)
      BY DEF AdminSummaries, SummarizeReferralsPlatform
    <2>2. QED
      BY <1>1, <2>1, AmountSum
  <1>4. SumOf(Amounts(rewards), rewards) = SumOf(parts, Users)
    <2> HIDE DEF key
    <2>1. QED
      BY <1>1, <1>2, SumByKey
  <1>5. ASSUME NEW u \in Users PROVE ReferralTotals[u] = parts[u]
    <2>1. ReferralTotals[u] = MapThenSumSet(LAMBDA r : r.amount, Of(u))
      BY DEF ReferralTotals, AdminSummaries, SummarizeReferralsForUser
    <2>2. Of(u) \in SUBSET rewards /\ IsFiniteSet(Of(u))
      BY <1>1, FS_Subset
    <2>3. Of(u) = {r \in rewards : key[r] = u}
      OBVIOUS
    <2> HIDE DEF Of, key
    <2>4. ReferralTotals[u] = SumOf(Amounts(Of(u)), Of(u))
      BY <2>1, <2>2, AmountSum
    <2>5. SumOf(Amounts(Of(u)), Of(u)) = SumOf(Amounts(rewards), Of(u))
      BY <1>1, <2>2, AmountsAgree
    <2>6. QED
      BY <2>3, <2>4, <2>5
  <1> HIDE DEF parts
  <1>6. SumOf(ReferralTotals, Users) = SumOf(parts, Users)
    BY <1>1, <1>5, SumEqual
  <1>7. QED
    BY <1>1, <1>3, <1>4, <1>6, ReferralTotalSum

\* So do the accruals of a holder, and the holders' yields.
LEMMA YieldTotalsAddUp ==
    ASSUME YieldTypes
    PROVE  AdminSummaries.yield.total = MapThenSumSet(LAMBDA u : AdminSummaries.yieldOf[u], Holders)
  <1> DEFINE key == [a \in accruals |-> a.holder]
             parts == [u \in Holders |-> SumOf(Amounts(accruals), {a \in accruals : key[a] = u})]
  <1>1. IsFiniteSet(Holders) /\ IsFiniteSet(accruals)
    BY YieldAssumption DEF YieldAssumption, YieldTypes
  <1>2. \A a \in accruals : Amounts(accruals)[a] \in Int /\ key[a] \in Holders
    BY DEF YieldTypes, DueRow, AccrualRow, Amounts
  <1>3. AdminSummaries.yield.total = SumOf(Amounts(accruals), accruals)
    <2>1. AdminSummaries.yield.total = MapThenSumSet(LAMBDA a : a.amount, accruals)
      BY DEF AdminSummaries, SummarizeYieldPlatform
    <2>2. QED
      BY <1>1, <2>1, AmountSum
  <1>4. SumOf(Amounts(accruals), accruals) = SumOf(parts, Holders)
    <2> HIDE DEF key
    <2>1. QED
      BY <1>1, <1>2, SumByKey
  <1>5. ASSUME NEW u \in Holders PROVE YieldTotals[u] = parts[u]
    <2>1. YieldTotals[u] = MapThenSumSet(LAMBDA a : a.amount, AccrualsOf(u))
      BY DEF YieldTotals, AdminSummaries, SummarizeYieldForUser
    <2>2. AccrualsOf(u) \in SUBSET accruals /\ IsFiniteSet(AccrualsOf(u))
      BY <1>1, FS_Subset DEF AccrualsOf
    <2>3. AccrualsOf(u) = {a \in accruals : key[a] = u}
      BY DEF AccrualsOf
    <2> HIDE DEF key
    <2>4. YieldTotals[u] = SumOf(Amounts(AccrualsOf(u)), AccrualsOf(u))
      BY <2>1, <2>2, AmountSum
    <2>5. SumOf(Amounts(AccrualsOf(u)), AccrualsOf(u)) = SumOf(Amounts(accruals), AccrualsOf(u))
      BY <1>1, <2>2, AmountsAgree
    <2>6. QED
      BY <2>3, <2>4, <2>5
  <1> HIDE DEF parts
  <1>6. SumOf(YieldTotals, Holders) = SumOf(parts, Holders)
    BY <1>1, <1>5, SumEqual
  <1>7. QED
    BY <1>1, <1>3, <1>4, <1>6, YieldTotalSum

\* A referral is rewarded once, after its verification, by an entry of the treasury, however
\* the reviews of a user overlap; it is rewarded at last unless one of them failed halfway; and
\* the summaries add up.
THEOREM RewardsEarned == Spec => []RewardsAreEarned
  <1>1. LedgerAll /\ YieldInv => RewardsAreEarned
    <2>1. SUFFICES ASSUME LedgerInv, RewardsArePaid, YieldTypes PROVE RewardsAreEarned
      BY DEF LedgerAll, YieldInv
    <2>2. LedgerTypes /\ OnItsWay
      BY <2>1 DEF LedgerInv
    <2>3. \A r \in rewards : r.referred \in verified /\ r.referrer = Referrer[r.referred]
      BY <2>2 DEF LedgerTypes, RewardOf
    <2>4. \A r, s \in rewards : r.referred = s.referred => r = s
      BY <2>2 DEF LedgerTypes
    <2>5. AdminSummaries.referrals.total =
            MapThenSumSet(LAMBDA e : e.amount, {e \in treasury : e.type = "referral_reward"})
      <3>1. AdminSummaries.referrals.total = MapThenSumSet(LAMBDA r : r.amount, rewards)
        BY DEF AdminSummaries, SummarizeReferralsPlatform
      <3>2. IsFiniteSet(rewards) /\ IsFiniteSet(PaidIn(treasury))
        BY <2>2, FS_Subset DEF LedgerTypes, PaidIn
      <3>3. /\ MapThenSumSet(LAMBDA r : r.amount, rewards) = SumOf(Amounts(rewards), rewards)
            /\ MapThenSumSet(LAMBDA e : e.amount, PaidIn(treasury))
                 = SumOf(Amounts(PaidIn(treasury)), PaidIn(treasury))
        BY <3>2, AmountSum
      <3>4. PaidIn(treasury) = {e \in treasury : e.type = "referral_reward"}
        BY DEF PaidIn
      <3>5. QED
        BY <2>1, <3>1, <3>3, <3>4 DEF RewardsArePaid
    <2>6. VerifiedReferralsAreRewarded
      BY <2>2 DEF OnItsWay, VerifiedReferralsAreRewarded, Busy, Failed
    <2>7. QED
      BY <2>1, <2>2, <2>3, <2>4, <2>5, <2>6, ReferralTotalsAddUp, YieldTotalsAddUp
         DEF RewardsAreEarned, RewardsAreEarnedOnce
  <1>2. QED
    BY <1>1, LedgerInit, LedgerNext, YieldInitInv, YieldNextInv, PTL DEF Spec
=============================================================================
