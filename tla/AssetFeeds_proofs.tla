--------------------------- MODULE AssetFeeds_proofs ---------------------------
(***************************************************************************)
(* Proofs about AssetFeeds, for any assets, requests, readers and streams. *)
(*                                                                         *)
(* AInv is about the requests and tasks of the tokenization service: what  *)
(* the status column tells each of them when it next looks at it.  FInv is *)
(* about the readers: what is left of an answer of XREAD, and how it meets *)
(* the position, the resume token and the messages handed over.            *)
(***************************************************************************)
EXTENDS AssetFeeds, FiniteSetTheorems, WellFoundedInduction, TLAPS

AssetStages ==
    Ended \cup {"begin", "dispatch", "task", "persist", "announce", "reset", "issue", "record"}

AssetTypes ==
    /\ status \in [Assets -> Statuses] /\ submitted \in [Assets -> Submissions]
    /\ DOMAIN result = Assets
    /\ tokens \subseteq [asset : Assets, liquid : issued] /\ issued \subseteq Tokenizes
    /\ stage \in [AssetRequests -> AssetStages]
    /\ fallback \in [AssetRequests -> EvaluableStatuses \cup {"none"}]

\* What the stage of a request tells of it.
StageInv ==
    \A p \in AssetRequests :
        /\ stage[p] \in {"begin", "dispatch", "task", "persist", "reset"} =>
             p \in Evaluates /\ fallback[p] \in EvaluableStatuses
        /\ stage[p] = "record" => p \in issued
        /\ (\E row \in tokens : row.liquid = p) => stage[p] \in {"announce", "answered", "crashed"}

\* A token is what makes an asset tokenized, and there is no second one.
TokenInv ==
    /\ \A a \in Assets : status[a] = "tokenized" <=> \E row \in tokens : row.asset = a
    /\ \A r, s \in tokens : r.asset = s.asset \/ r.liquid = s.liquid => r = s

\* Who is between begin_asset_evaluation and the last write of the task.
Evaluating(p) == stage[p] \in {"dispatch", "task", "persist", "reset"}

\* The status keeps others out while one evaluates, unless a completion was misjudged.
LockInv ==
    \A p \in AssetRequests :
        Evaluating(p) /\ Asset(p) \notin misjudged =>
            /\ status[Asset(p)] = "evaluating"
            /\ \A q \in AssetRequests : Evaluating(q) /\ Asset(q) = Asset(p) => q = p

\* A result is that of the submission, which is never replaced.
ResultInv ==
    \A a \in Assets :
        /\ status[a] = "none" => result[a] = NoResult
        /\ result[a] # NoResult => result[a] = EvaluateAssetSubmission(submitted[a])

AInv == AssetTypes /\ StageInv /\ TokenInv /\ LockInv /\ ResultInv

-----------------------------------------------------------------------------
(* The score of a submission.                                              *)

\* The score is whole, and every bracket and cap keeps the order of submissions.
LEMMA ScoreIsMonotone ==
    ASSUME NEW s \in SubmissionType, NEW t \in SubmissionType, NoWorse(s, t)
    PROVE  Score(s) >= Score(t)
  <1>1. /\ s.words \in Nat /\ s.title \in Nat /\ s.positive \in Nat /\ s.negative \in Nat
        /\ t.words \in Nat /\ t.title \in Nat /\ t.positive \in Nat /\ t.negative \in Nat
        /\ s.valuation \in Nat /\ t.valuation \in Nat
        /\ s.documented \in BOOLEAN /\ t.documented \in BOOLEAN
    BY DEF SubmissionType
  <1>2. /\ CategoryScore(s.category) \in Int /\ CategoryScore(t.category) \in Int
        /\ CategoryScore(s.category) >= CategoryScore(t.category)
    BY DEF NoWorse, CategoryScore
  <1>3. /\ (IF s.documented THEN 8 ELSE -12) \in Int /\ (IF t.documented THEN 8 ELSE -12) \in Int
        /\ (IF s.documented THEN 8 ELSE -12) >= (IF t.documented THEN 8 ELSE -12)
    BY <1>1 DEF NoWorse
  <1>4. /\ Least(s.words * 990, 12 * Point) \in Int /\ Least(t.words * 990, 12 * Point) \in Int
        /\ Least(s.words * 990, 12 * Point) >= Least(t.words * 990, 12 * Point)
    BY <1>1 DEF NoWorse, Least, Point
  <1>5. /\ Least(s.title * 100, 4 * Point) \in Int /\ Least(t.title * 100, 4 * Point) \in Int
        /\ Least(s.title * 100, 4 * Point) >= Least(t.title * 100, 4 * Point)
    BY <1>1 DEF NoWorse, Least, Point
  <1>6. /\ Least(s.positive * 4500, 8 * Point) \in Int /\ Least(t.positive * 4500, 8 * Point) \in Int
        /\ Least(s.positive * 4500, 8 * Point) >= Least(t.positive * 4500, 8 * Point)
    BY <1>1 DEF NoWorse, Least, Point
  <1>7. /\ Least(s.negative * 6300, 14 * Point) \in Int /\ Least(t.negative * 6300, 14 * Point) \in Int
        /\ Least(s.negative * 6300, 14 * Point) <= Least(t.negative * 6300, 14 * Point)
    BY <1>1 DEF NoWorse, Least, Point
  <1>8. /\ ValuationModifier(s.valuation) \in Int /\ ValuationModifier(t.valuation) \in Int
        /\ ValuationModifier(s.valuation) >= ValuationModifier(t.valuation)
    <2>1. ASSUME NEW n \in Nat
          PROVE  ValuationModifier(n) = IF n <= 5 THEN 6 ELSE IF n <= 25 THEN 3
                                        ELSE IF n <= 150 THEN 0 ELSE IF n <= 500 THEN -4 ELSE -8
      BY DEF ValuationModifier
    <2>2. s.valuation <= t.valuation
      BY DEF NoWorse
    <2>3. QED
      BY <1>1, <2>1, <2>2
  <1>9. RawScore(s) \in Int /\ RawScore(t) \in Int /\ RawScore(s) >= RawScore(t)
    BY <1>2, <1>3, <1>4, <1>5, <1>6, <1>7, <1>8 DEF RawScore, Point
  <1>10. QED
    BY <1>9 DEF Score, Clamp, Point

\* What clamping and rounding leave.
LEMMA ClampBounds ==
    ASSUME NEW x \in Int, NEW low \in Int, NEW high \in Int, low <= high
    PROVE  Clamp(x, low, high) \in Int /\ low <= Clamp(x, low, high) /\ Clamp(x, low, high) <= high
  BY DEF Clamp

\* What integer division leaves out is less than the divisor.
LEMMA DivisionIsWhole ==
    ASSUME NEW x \in Int, NEW d \in Nat \ {0}
    PROVE  x \div d \in Int /\ d * (x \div d) <= x /\ x < d * (x \div d) + d
  OBVIOUS

\* The scores and returns that end up in the row.
LEMMA ResultIsBounded ==
    ASSUME NEW s \in SubmissionType
    PROVE  /\ Score(s) \in 0..MaxScore /\ ProjectedRoi(s) \in 0..MaxRoi
           /\ Verdict(s) \in {"approved", "rejected"}
  <1>1. /\ s.words \in Nat /\ s.title \in Nat /\ s.positive \in Nat /\ s.negative \in Nat
        /\ s.valuation \in Nat
    BY DEF SubmissionType
  <1>2. CategoryScore(s.category) \in Int /\ CategoryRoi(s.category) \in Int
        /\ (IF s.documented THEN 8 ELSE -12) \in Int
    BY DEF CategoryScore, CategoryRoi
  <1>3. /\ Least(s.words * 990, 12 * Point) \in Int /\ Least(s.title * 100, 4 * Point) \in Int
        /\ Least(s.positive * 4500, 8 * Point) \in Int /\ Least(s.negative * 6300, 14 * Point) \in Int
    BY <1>1 DEF Least, Point
  <1>4. ValuationModifier(s.valuation) \in Int
    BY <1>1 DEF ValuationModifier
  <1>5. RawScore(s) \in Int
    BY <1>2, <1>3, <1>4 DEF RawScore, Point
  <1>6. Score(s) \in Int /\ 0 <= Score(s) /\ Score(s) <= 10000
    <2> DEFINE top == 100 * Point
               c == Clamp(RawScore(s), 0, top)
    <2>0. top = 180000
      BY DEF Point
    <2>1. top \in Int /\ 0 <= top
      BY DEF Point
    <2>2. Score(s) = (c + 9) \div 18
      BY DEF Score
    <2> HIDE DEF top
    <2> DEFINE raw == RawScore(s)
    <2>3. raw \in Int
      BY <1>5
    <2> HIDE DEF raw
    <2>4. Clamp(raw, 0, top) \in Int /\ 0 <= Clamp(raw, 0, top) /\ Clamp(raw, 0, top) <= top
      BY <2>1, <2>3, ClampBounds
    <2>5. c \in Int /\ 0 <= c /\ c <= top
      BY <2>4 DEF raw
    <2> HIDE DEF c
    <2>6. QED
      BY <2>0, <2>1, <2>2, <2>5
  <1>7. ProjectedRoi(s) \in Int /\ 150 <= ProjectedRoi(s) /\ ProjectedRoi(s) <= 2400
    <2> DEFINE gain == (4 * (Score(s) - 6000) + 15) \div 30
               roi == 10 * CategoryRoi(s.category) + gain + 25 * s.positive - 35 * s.negative
    <2>1. gain \in Int
      BY <1>6
    <2>2. ProjectedRoi(s) = Clamp(roi, 150, 2400)
      BY DEF ProjectedRoi
    <2> HIDE DEF gain
    <2>3. roi \in Int
      BY <1>1, <1>2, <2>1
    <2> HIDE DEF roi
    <2>4. QED
      BY <2>2, <2>3, ClampBounds
  <1>8. MaxScore = 10000 /\ MaxRoi = 2400
    BY DEF MaxScore, MaxRoi
  <1>9. Score(s) \in 0..MaxScore /\ ProjectedRoi(s) \in 0..MaxRoi
    <2>1. Score(s) \in 0..MaxScore
      <3> DEFINE x == Score(s)
      <3>1. x \in Int /\ 0 <= x /\ x <= MaxScore /\ MaxScore \in Int
        BY <1>6, <1>8
      <3> HIDE DEF x
      <3>2. x \in 0..MaxScore
        BY <3>1
      <3>3. QED
        BY <3>2 DEF x
    <2>2. ProjectedRoi(s) \in 0..MaxRoi
      BY <1>7, <1>8
    <2>3. QED
      BY <2>1, <2>2
  <1>10. QED
    BY <1>9 DEF Verdict

-----------------------------------------------------------------------------
(* Requests and tasks.                                                     *)

\* Before any request there is no asset, and nothing to be out of step.
LEMMA AssetInitInv == AssetInit => AInv
  <1> SUFFICES ASSUME AssetInit PROVE AInv
    OBVIOUS
  <1> USE DEF AssetInit
  <1>1. (CHOOSE s \in Submissions : TRUE) \in Submissions
    BY AssetAssumption
  <1>2. AssetTypes
    BY <1>1 DEF AssetTypes, Statuses, AssetStages, Ended
  <1>3. StageInv /\ TokenInv /\ LockInv /\ ResultInv
    BY DEF StageInv, TokenInv, LockInv, Evaluating, ResultInv
  <1>4. QED
    BY <1>2, <1>3 DEF AInv

\* One entry of a function changes, and no other.
Sets(f, g, q, v) == g[q] = v /\ \A p \in DOMAIN f : p # q => g[p] = f[p]

\* A request goes on and leaves the tables alone.
LEMMA GoesStep ==
    ASSUME AInv, NEW p \in AssetRequests, NEW s \in AssetStages, Goto(p, s),
           stage[p] \notin {"announce", "answered", "crashed"}
             \/ s \in {"announce", "answered", "crashed"},
           s \in {"dispatch", "task", "persist", "reset"} => Evaluating(p),
           s = "begin" => p \in Evaluates /\ fallback'[p] \in EvaluableStatuses,
           s = "record" => p \in issued',
           \/ UNCHANGED fallback
           \/ \E v \in EvaluableStatuses : fallback' = [fallback EXCEPT ![p] = v],
           issued \subseteq issued', issued' \subseteq Tokenizes,
           UNCHANGED <<status, submitted, result, tokens, misjudged>>
    PROVE  AInv'
  <1> USE DEF AInv
  <1>1. /\ stage' \in [AssetRequests -> AssetStages] /\ stage'[p] = s
        /\ \A q \in AssetRequests \ {p} : stage'[q] = stage[q]
    BY DEF Goto, AssetTypes
  <1>2. /\ fallback' \in [AssetRequests -> EvaluableStatuses \cup {"none"}]
        /\ fallback[p] \in EvaluableStatuses => fallback'[p] \in EvaluableStatuses
        /\ \A q \in AssetRequests \ {p} : fallback'[q] = fallback[q]
    BY DEF AssetTypes
  <1>3. AssetTypes'
    BY <1>1, <1>2 DEF AssetTypes
  <1>4. StageInv'
    BY <1>1, <1>2 DEF StageInv, Evaluating
  <1>5. TokenInv' /\ ResultInv'
    BY DEF TokenInv, ResultInv
  <1>6. \A q \in AssetRequests : Evaluating(q)' => Evaluating(q)
    BY <1>1 DEF Evaluating
  <1>7. LockInv'
    BY <1>6 DEF LockInv, Asset
  <1>8. QED
    BY <1>3, <1>4, <1>5, <1>7

\* begin_asset_evaluation takes the lock; completion and reset give it back.
TakesLock(p, v, s) ==
    /\ status[Asset(p)] \in EvaluableStatuses /\ s \in {"dispatch", "failed"}
    /\ v = "evaluating" /\ UNCHANGED <<result, misjudged>>

GivesBack(p, s) ==
    /\ status[Asset(p)] = "evaluating" /\ stage[p] \in {"persist", "reset"}
    /\ \/ s \in {"announce", "failed"} /\ UNCHANGED misjudged
       \/ s = "reset" /\ misjudged' = misjudged \cup {Asset(p)}
    /\ \/ UNCHANGED result
       \/ result' = [result EXCEPT ![Asset(p)] = EvaluateAssetSubmission(submitted[Asset(p)])]

\* A request writes the status of an asset that has one, other than for its token.
LEMMA StatusStep ==
    ASSUME AInv, NEW p \in AssetRequests, NEW v, NEW s, SetStatus(Asset(p), v), Goto(p, s),
           p \in Evaluates, stage[p] \in {"begin", "persist", "reset"},
           v \in {"evaluating", "pending", "approved", "rejected"},
           TakesLock(p, v, s) \/ GivesBack(p, s),
           UNCHANGED <<submitted, tokens, issued, fallback>>
    PROVE  AInv'
  <1> USE DEF AInv
  <1> DEFINE a == Asset(p)
  <1>1. a \in Assets /\ s \in AssetStages /\ v \in Statuses
    BY AssetAssumption DEF Asset, AssetStages, Ended, Statuses, TakesLock, GivesBack
  <1>2. /\ stage' \in [AssetRequests -> AssetStages] /\ stage'[p] = s
        /\ \A q \in AssetRequests \ {p} : stage'[q] = stage[q]
    BY <1>1 DEF Goto, AssetTypes
  <1>3. /\ status' \in [Assets -> Statuses] /\ status'[a] = v
        /\ \A b \in Assets \ {a} : status'[b] = status[b]
    BY <1>1 DEF SetStatus, AssetTypes
  <1>4. /\ DOMAIN result' = Assets /\ \A b \in Assets \ {a} : result'[b] = result[b]
        /\ result'[a] = result[a] \/ result'[a] = EvaluateAssetSubmission(submitted[a])
    BY <1>1 DEF AssetTypes, TakesLock, GivesBack
  <1>5. status[a] \in {"evaluating", "pending", "approved", "rejected"}
    BY DEF EvaluableStatuses, TakesLock, GivesBack
  <1>6. AssetTypes'
    BY <1>2, <1>3, <1>4 DEF AssetTypes
  <1>7. StageInv'
    BY <1>2 DEF StageInv, TakesLock, GivesBack
  <1>8. TokenInv'
    BY <1>1, <1>3, <1>5 DEF TokenInv
  <1>9. LockInv'
    <2> SUFFICES ASSUME NEW q \in AssetRequests, Evaluating(q)', Asset(q) \notin misjudged'
                 PROVE  /\ status'[Asset(q)] = "evaluating"
                        /\ \A r \in AssetRequests : Evaluating(r)' /\ Asset(r) = Asset(q) => r = q
      BY DEF LockInv, Asset
    <2>1. Asset(q) \in Assets /\ Asset(q) \notin misjudged
      BY AssetAssumption DEF Asset, TakesLock, GivesBack
    <2>2. \A r \in AssetRequests \ {p} : Evaluating(r)' <=> Evaluating(r)
      BY <1>2 DEF Evaluating
    <2>3. CASE TakesLock(p, v, s)
      BY <1>3, <2>1, <2>2, <2>3 DEF LockInv, EvaluableStatuses, TakesLock
    <2>4. CASE GivesBack(p, s)
      <3>1. Evaluating(p) /\ (Asset(q) = a => ~Evaluating(p)')
        BY <1>2, <2>4 DEF Evaluating, GivesBack
      <3>2. Asset(q) # a
        BY <2>1, <2>2, <2>4, <3>1 DEF LockInv, GivesBack
      <3>3. QED
        BY <1>3, <2>1, <2>2, <3>2 DEF LockInv
    <2>5. QED
      BY <2>3, <2>4
  <1>10. ResultInv'
    BY <1>1, <1>3, <1>4, <1>5 DEF ResultInv
  <1>11. QED
    BY <1>6, <1>7, <1>8, <1>9, <1>10

\* submit_asset inserts its row as pending: nothing evaluates it or issues its token yet.
LEMMA CreateAssetInv == ASSUME AInv, NEW p \in AssetRequests, CreateAsset(p) PROVE AInv'
  <1> USE DEF AInv, CreateAsset, Begins
  <1> DEFINE a == Asset(p)
  <1>1. a \in Assets /\ status[a] = "none" /\ stage[p] = "idle"
    BY AssetAssumption DEF Asset
  <1>2. /\ stage' \in [AssetRequests -> AssetStages] /\ stage'[p] = "announce"
        /\ \A q \in AssetRequests \ {p} : stage'[q] = stage[q]
    BY DEF Goto, AssetTypes, AssetStages
  <1>3. /\ status' \in [Assets -> Statuses] /\ status'[a] = "pending"
        /\ \A b \in Assets \ {a} : status'[b] = status[b]
    BY <1>1 DEF SetStatus, AssetTypes, Statuses
  <1>4. submitted' \in [Assets -> Submissions] /\ \A b \in Assets \ {a} : submitted'[b] = submitted[b]
    BY <1>1 DEF AssetTypes
  <1>5. AssetTypes'
    BY <1>2, <1>3, <1>4 DEF AssetTypes
  <1>6. StageInv'
    BY <1>1, <1>2 DEF StageInv
  <1>7. TokenInv'
    BY <1>1, <1>3 DEF TokenInv
  <1>8. LockInv'
    <2>1. \A q \in AssetRequests : Evaluating(q)' => Evaluating(q) /\ Asset(q) \in Assets
      BY <1>2, AssetAssumption DEF Evaluating, Asset
    <2>2. QED
      BY <1>1, <1>3, <2>1 DEF LockInv, Asset
  <1>9. ResultInv'
    BY <1>1, <1>3, <1>4 DEF ResultInv
  <1>10. QED
    BY <1>5, <1>6, <1>7, <1>8, <1>9

\* create_asset_token
LEMMA CreateTokenInv ==
    ASSUME AInv, NEW p \in Tokenizes, stage[p] = "record", status[Asset(p)] = "approved",
           SetStatus(Asset(p), "tokenized"), Goto(p, "announce"),
           tokens' = tokens \cup {[asset |-> Asset(p), liquid |-> p]},
           UNCHANGED <<submitted, result, issued, fallback, misjudged>>
    PROVE  AInv'
  <1> USE DEF AInv
  <1> DEFINE a == Asset(p)
             row == [asset |-> a, liquid |-> p]
  <1>1. p \in AssetRequests /\ a \in Assets /\ p \in issued
    BY AssetAssumption DEF Asset, AssetRequests, StageInv
  <1>2. /\ stage' \in [AssetRequests -> AssetStages] /\ stage'[p] = "announce"
        /\ \A q \in AssetRequests \ {p} : stage'[q] = stage[q]
    BY <1>1 DEF Goto, AssetTypes, AssetStages
  <1>3. /\ status' \in [Assets -> Statuses] /\ status'[a] = "tokenized"
        /\ \A b \in Assets \ {a} : status'[b] = status[b]
    BY <1>1 DEF SetStatus, AssetTypes, Statuses
  <1>4. \A r \in tokens : r.asset # a /\ r.liquid # p
    BY <1>1 DEF TokenInv, StageInv
  <1>5. AssetTypes'
    BY <1>1, <1>2, <1>3 DEF AssetTypes
  <1>6. StageInv'
    BY <1>1, <1>2, <1>4 DEF StageInv
  <1>7. TokenInv'
    <2>1. row.asset = a /\ row.liquid = p /\ tokens' = tokens \cup {row}
      OBVIOUS
    <2> HIDE DEF row, a
    <2>2. QED
      BY <1>1, <1>3, <1>4, <2>1 DEF TokenInv
  <1>8. LockInv'
    <2>1. \A q \in AssetRequests : Evaluating(q)' => Evaluating(q) /\ Asset(q) \in Assets
      BY <1>2, AssetAssumption DEF Evaluating, Asset
    <2>2. QED
      BY <1>1, <1>3, <2>1 DEF LockInv, Asset
  <1>9. ResultInv'
    BY <1>1, <1>3 DEF ResultInv
  <1>10. QED
    BY <1>5, <1>6, <1>7, <1>8, <1>9

\* The requests of a process that restarts are gone; the rows stay as they are.
LEMMA CrashInv == ASSUME AInv, Crash PROVE AInv'
  <1> USE DEF AInv, Crash
  <1>1. \A p \in AssetRequests :
           stage'[p] = "crashed" \/ (stage'[p] = stage[p] /\ stage[p] \in Ended)
    BY DEF table
  <1>2. AssetTypes'
    BY <1>1 DEF AssetTypes, AssetStages, Ended, table
  <1>3. StageInv'
    BY <1>1 DEF StageInv, Ended, table
  <1>4. TokenInv' /\ ResultInv'
    BY DEF TokenInv, ResultInv, table
  <1>5. LockInv'
    BY <1>1 DEF LockInv, Evaluating, Ended
  <1>6. QED
    BY <1>2, <1>3, <1>4, <1>5

\* Every request of the service, and its task.
LEMMA RequestInv ==
    ASSUME AInv, NEW p \in AssetRequests,
           SubmitAsset(p) \/ RequestAssetEvaluation(p) \/ RunAssetEvaluation(p) \/ TokenizeAsset(p)
    PROVE  AInv'
  <1> USE DEF table
  <1>1. stage[p] \in {"begin", "dispatch", "task", "persist", "reset"} =>
           p \in Evaluates /\ fallback[p] \in EvaluableStatuses
    BY DEF AInv, StageInv
  <1>2. CASE SubmitAsset(p)
    <2>1. CASE PublishAssetCreated(p)
      BY <2>1, GoesStep DEF PublishAssetCreated, Announce, AssetStages, Ended, AInv, AssetTypes
    <2>2. QED
      BY <1>2, <2>1, CreateAssetInv DEF SubmitAsset
  <1>3. CASE RequestAssetEvaluation(p)
    <2>1. CASE EvaluateRead(p)
      BY <2>1, GoesStep
         DEF EvaluateRead, Begins, AssetStages, Ended, AInv, AssetTypes
    <2>2. CASE BeginAssetEvaluation(p)
      <3>1. CASE status[Asset(p)] \in EvaluableStatuses /\ SetStatus(Asset(p), "evaluating")
                 /\ (Goto(p, "dispatch") \/ Goto(p, "failed"))
        BY <2>2, <3>1, StatusStep DEF BeginAssetEvaluation, TakesLock
      <3>2. CASE Goto(p, "refused") /\ UNCHANGED <<status, abandoned>>
        BY <2>2, <3>2, GoesStep DEF BeginAssetEvaluation, AssetStages, Ended, AInv, AssetTypes
      <3>3. QED
        BY <2>2, <3>1, <3>2 DEF BeginAssetEvaluation
    <2>3. CASE DispatchAssetEvaluation(p)
      BY <2>3, GoesStep
         DEF DispatchAssetEvaluation, Evaluating, AssetStages, Ended, AInv, AssetTypes
    <2>4. QED
      BY <1>3, <2>1, <2>2, <2>3 DEF RequestAssetEvaluation
  <1>4. CASE RunAssetEvaluation(p)
    <2>1. CASE Evaluate(p)
      BY <2>1, GoesStep DEF Evaluate, Evaluating, AssetStages, Ended, AInv, AssetTypes
    <2>2. CASE CompleteAssetEvaluation(p)
      <3>1. CASE /\ status[Asset(p)] = "evaluating"
                 /\ LET r == EvaluateAssetSubmission(submitted[Asset(p)])
                    IN  result' = [result EXCEPT ![Asset(p)] = r] /\ SetStatus(Asset(p), r.status)
                 /\ \/ Goto(p, "announce") /\ UNCHANGED misjudged
                    \/ Goto(p, "reset") /\ misjudged' = misjudged \cup {Asset(p)}
        <4>1. submitted[Asset(p)] \in SubmissionType
          BY AssetAssumption DEF AInv, AssetTypes, Asset
        <4>2. EvaluateAssetSubmission(submitted[Asset(p)]).status \in {"approved", "rejected"}
          BY <4>1, ResultIsBounded DEF EvaluateAssetSubmission
        <4>3. QED
          BY <2>2, <3>1, <4>2, StatusStep DEF CompleteAssetEvaluation, GivesBack
      <3>2. CASE Goto(p, "dropped") /\ UNCHANGED <<status, result, misjudged>>
        BY <2>2, <3>2, GoesStep DEF CompleteAssetEvaluation, AssetStages, Ended, AInv, AssetTypes
      <3>3. QED
        BY <2>2, <3>1, <3>2 DEF CompleteAssetEvaluation
    <2>3. CASE PublishEvaluationComplete(p)
      BY <2>3, GoesStep DEF PublishEvaluationComplete, Announce, AssetStages, Ended, AInv, AssetTypes
    <2>4. CASE TaskFails(p)
      BY <2>4, GoesStep DEF TaskFails, Evaluating, AssetStages, Ended, AInv, AssetTypes
    <2>5. CASE ResetAssetEvaluation(p)
      <3>1. CASE status[Asset(p)] = "evaluating" /\ SetStatus(Asset(p), fallback[p])
        BY <1>1, <2>5, <3>1, StatusStep DEF ResetAssetEvaluation, EvaluableStatuses, GivesBack
      <3>2. CASE UNCHANGED status
        BY <2>5, <3>2, GoesStep DEF ResetAssetEvaluation, AssetStages, Ended, AInv, AssetTypes
      <3>3. QED
        BY <2>5, <3>1, <3>2 DEF ResetAssetEvaluation
    <2>6. CASE ResetFails(p)
      BY <2>6, GoesStep DEF ResetFails, AssetStages, Ended, AInv, AssetTypes
    <2>7. QED
      BY <1>4, <2>1, <2>2, <2>3, <2>4, <2>5, <2>6 DEF RunAssetEvaluation
  <1>5. CASE TokenizeAsset(p)
    <2>1. CASE TokenizeRead(p)
      <3>1. \E s \in {"issue", "refused"} : Goto(p, s)
        BY <2>1 DEF TokenizeRead
      <3>2. QED
        BY <2>1, <3>1, GoesStep DEF TokenizeRead, Begins, AssetStages, Ended, AInv, AssetTypes
    <2>2. CASE Issue(p)
      BY <2>2, GoesStep DEF Issue, AssetStages, Ended, AInv, AssetTypes
    <2>3. CASE CreateAssetToken(p)
      <3>1. CASE UNCHANGED <<status, tokens>> /\ Goto(p, "orphaned")
        BY <2>3, <3>1, GoesStep DEF CreateAssetToken, AssetStages, Ended, AInv, AssetTypes
      <3>2. QED
        BY <2>3, <3>1, CreateTokenInv DEF CreateAssetToken
    <2>4. CASE PublishTokenMinted(p)
      BY <2>4, GoesStep DEF PublishTokenMinted, Announce, AssetStages, Ended, AInv, AssetTypes
    <2>5. QED
      BY <1>5, <2>1, <2>2, <2>3, <2>4 DEF TokenizeAsset
  <1>6. QED
    BY <1>2, <1>3, <1>4, <1>5

\* A step of the feeds leaves the assets as they are.
LEMMA AssetStutterInv == AInv /\ UNCHANGED assetVars => AInv'
  BY DEF AInv, assetVars, table, AssetTypes, StageInv, TokenInv, LockInv, Evaluating, ResultInv, Asset

\* Status, token rows and results stay in step, whatever requests race or are cut short.
THEOREM AssetsInv == Spec => []AInv
  <1>1. Init => AInv
    BY AssetInitInv DEF Init
  <1>2. AInv /\ [Next]_vars => AInv'
    BY RequestInv, CrashInv, AssetStutterInv DEF Next, vars, AssetNext, MarketplacePublishes
  <1>3. QED
    BY <1>1, <1>2, PTL DEF Spec

\* An asset has one token, with an issuance of its own, and stays tokenized from then on.
THEOREM OneToken == Spec => []TokenizedOnce
  <1>1. AInv => TokenizedOnce
    BY DEF AInv, TokenInv, TokenizedOnce
  <1>2. QED
    BY <1>1, AssetsInv, PTL

\* One evaluation of an asset runs at a time, until a completion is taken for a failure.
THEOREM OneEvaluation == Spec => []OneEvaluationAtATime
  <1>1. AInv => OneEvaluationAtATime
    BY DEF AInv, LockInv, Evaluating, OneEvaluationAtATime, AssetRequests
  <1>2. QED
    BY <1>1, AssetsInv, PTL

\* A submission that is no worse in any respect does not score less.
THEOREM BetterScoreHigher == Spec => []BetterSubmissionsScoreHigher
  <1>1. ASSUME AInv, NEW a \in Assets, NEW b \in Assets, result[a] # NoResult, result[b] # NoResult,
               NoWorse(submitted[a], submitted[b])
        PROVE  result[a].score >= result[b].score
    <2>1. submitted[a] \in SubmissionType /\ submitted[b] \in SubmissionType
      BY <1>1, AssetAssumption DEF AInv, AssetTypes
    <2>2. /\ result[a] = EvaluateAssetSubmission(submitted[a])
          /\ result[b] = EvaluateAssetSubmission(submitted[b])
      BY <1>1 DEF AInv, ResultInv
    <2>3. \A s : EvaluateAssetSubmission(s).score = Score(s)
      BY DEF EvaluateAssetSubmission
    <2>4. QED
      BY <1>1, <2>1, <2>2, <2>3, ScoreIsMonotone
  <1>2. AInv => BetterSubmissionsScoreHigher
    BY <1>1 DEF BetterSubmissionsScoreHigher
  <1>3. QED
    BY <1>2, AssetsInv, PTL

-----------------------------------------------------------------------------
(* The answer of XREAD.                                                    *)

\* A set of numbers has a least one.
LEMMA LeastNumber ==
    ASSUME NEW T \in SUBSET Nat, T # {}
    PROVE  \E n \in T : \A m \in T : n <= m
  <1>1. \E x \in T : \A y \in T : ~(<<y, x>> \in OpToRel(<, Nat))
    BY WFMin, NatLessThanWellFounded
  <1>2. \E x \in T : \A y \in T : ~(y < x)
    BY <1>1 DEF OpToRel
  <1>3. QED
    BY <1>2

\* f is what FlattenSeq has made of the first n sequences.
Flattens(f, seqs, n) ==
    f = [i \in 1..n |-> IF i = 1 THEN seqs[i] ELSE f[i-1] \o seqs[i]]

\* Every list of sequences can be joined one after the other.
LEMMA FlattensExist ==
    ASSUME NEW seqs, NEW n \in Nat
    PROVE  \E f : Flattens(f, seqs, n)
  <1> DEFINE Bad == {k \in Nat : ~\E f : Flattens(f, seqs, k)}
  <1>1. SUFFICES ASSUME Bad # {} PROVE FALSE
    OBVIOUS
  <1>2. PICK k \in Bad : \A m \in Bad : k <= m
    BY <1>1, LeastNumber
  <1>3. k # 0
    <2>1. Flattens(<<>>, seqs, 0)
      BY DEF Flattens
    <2>2. QED
      BY <1>2, <2>1
  <1>4. PICK f : Flattens(f, seqs, k - 1)
    <2>1. k - 1 \in Nat /\ ~(k <= k - 1)
      BY <1>2, <1>3
    <2>2. QED
      BY <1>2, <2>1
  <1> DEFINE g == [i \in 1..k |-> IF i = k THEN IF k = 1 THEN seqs[k] ELSE f[k-1] \o seqs[k] ELSE f[i]]
  <1>5. k \in Nat /\ k > 0
    BY <1>2, <1>3
  <1>6. \A i \in 1..(k-1) : f[i] = IF i = 1 THEN seqs[i] ELSE f[i-1] \o seqs[i]
    BY <1>4, <1>5 DEF Flattens
  <1>7. ASSUME NEW i \in 1..k
        PROVE  g[i] = IF i = 1 THEN seqs[i] ELSE g[i-1] \o seqs[i]
    <2>1. CASE i = k
      <3>1. i # 1 => i - 1 \in 1..k /\ i - 1 # k
        BY <1>5
      <3>2. i # 1 => g[i-1] = f[i-1]
        BY <3>1
      <3>3. QED
        BY <2>1, <3>2
    <2>2. CASE i # k
      <3>1. i \in 1..(k-1) /\ (i # 1 => i - 1 \in 1..k /\ i - 1 # k)
        BY <1>5, <2>2
      <3>2. g[i] = f[i] /\ (i # 1 => g[i-1] = f[i-1])
        BY <2>2, <3>1
      <3>3. QED
        BY <1>6, <3>1, <3>2
    <2>3. QED
      BY <2>1, <2>2
  <1> DEFINE h == [i \in 1..k |-> IF i = 1 THEN seqs[i] ELSE g[i-1] \o seqs[i]]
  <1>8. g = h
    BY <1>7
  <1>9. Flattens(g, seqs, k)
    <2> HIDE DEF g
    <2>1. QED
      BY <1>8 DEF Flattens
  <1>10. QED
    BY <1>2, <1>9

\* FlattenSeq answers the last of the sequences so joined.
LEMMA FlattenIsLast ==
    ASSUME NEW seqs, Len(seqs) \in Nat \ {0}
    PROVE  \E f : Flattens(f, seqs, Len(seqs)) /\ FlattenSeq(seqs) = f[Len(seqs)]
  <1> DEFINE f == CHOOSE f : Flattens(f, seqs, Len(seqs))
  <1>1. Flattens(f, seqs, Len(seqs))
    BY FlattensExist
  <1>2. FlattenSeq(seqs) = f[Len(seqs)]
    BY DEF FlattenSeq, Flattens
  <1>3. QED
    BY <1>1, <1>2

\* The events of topic t after lo[t], up to hi[t].
Run(t, lo, hi) == [i \in 1..(hi[t] - lo[t]) |-> <<t, lo[t] + i>>]

\* q holds the events of the topics, each topic in order.
Holds(q, topics, lo, hi) ==
    /\ q \in Seq(Topics \X Nat)
    /\ \A i \in DOMAIN q :
          q[i][1] \in topics /\ lo[q[i][1]] < q[i][2] /\ q[i][2] <= hi[q[i][1]]
    /\ \A t \in topics, n \in Nat :
          lo[t] < n /\ n <= hi[t] => \E i \in DOMAIN q : q[i] = <<t, n>>
    /\ InOrder(q)

\* The messages of one topic between two ids, in the order XREAD answers them.
LEMMA RunHolds ==
    ASSUME NEW lo \in [Topics -> Nat], NEW hi \in [Topics -> Nat], NEW t \in Topics, lo[t] <= hi[t]
    PROVE  Holds(Run(t, lo, hi), {t}, lo, hi)
  <1> DEFINE q == Run(t, lo, hi)
             k == hi[t] - lo[t]
  <1>1. k \in Nat /\ lo[t] \in Nat /\ hi[t] = lo[t] + k
    OBVIOUS
  <1>2. DOMAIN q = 1..k /\ \A i \in 1..k : q[i] = <<t, lo[t] + i>>
    BY DEF Run
  <1>3. q \in Seq(Topics \X Nat)
    BY <1>1 DEF Run
  <1> HIDE DEF q, k
  <1>4. \A i \in 1..k : q[i][1] = t /\ q[i][2] = lo[t] + i
    BY <1>2
  <1>5. \A i \in DOMAIN q : q[i][1] \in {t} /\ lo[q[i][1]] < q[i][2] /\ q[i][2] <= hi[q[i][1]]
    BY <1>1, <1>2, <1>4
  <1>6. ASSUME NEW n \in Nat, lo[t] < n, n <= hi[t]
        PROVE  \E i \in DOMAIN q : q[i] = <<t, n>>
    <2>1. n - lo[t] \in 1..k /\ lo[t] + (n - lo[t]) = n
      BY <1>1, <1>6
    <2>2. q[n - lo[t]] = <<t, n>>
      BY <1>2, <2>1
    <2>3. QED
      BY <1>2, <2>1, <2>2
  <1>7. InOrder(q)
    BY <1>1, <1>2, <1>4 DEF InOrder
  <1>8. QED
    BY <1>3, <1>5, <1>6, <1>7 DEF Holds, q

\* The answers for two disjoint sets of topics, one after the other, are one for both.
LEMMA ConcatHolds ==
    ASSUME NEW lo \in [Topics -> Nat], NEW hi \in [Topics -> Nat],
           NEW S \in SUBSET Topics, NEW T \in SUBSET Topics, S \cap T = {},
           NEW p, Holds(p, S, lo, hi), NEW q, Holds(q, T, lo, hi)
    PROVE  Holds(p \o q, S \cup T, lo, hi)
  <1> DEFINE r == p \o q
             m == Len(p)
             n == Len(q)
  <1>1. p \in Seq(Topics \X Nat) /\ q \in Seq(Topics \X Nat)
    BY DEF Holds
  <1>2. m \in Nat /\ n \in Nat /\ DOMAIN p = 1..m /\ DOMAIN q = 1..n
    BY <1>1
  <1>3. /\ r \in Seq(Topics \X Nat) /\ DOMAIN r = 1..(m + n)
        /\ \A i \in 1..m : r[i] = p[i]
        /\ \A i \in 1..n : r[m + i] = q[i]
        /\ \A i \in 1..(m + n) : i \in 1..m \/ (i - m \in 1..n /\ m + (i - m) = i)
    BY <1>1, <1>2
  <1> HIDE DEF r, m, n
  <1>4. \A i \in 1..(m + n) : \/ i \in 1..m /\ r[i] = p[i]
                              \/ i > m /\ i - m \in 1..n /\ r[i] = q[i - m]
    <2> SUFFICES ASSUME NEW i \in 1..(m + n), i \notin 1..m
                 PROVE  i > m /\ i - m \in 1..n /\ r[i] = q[i - m]
      BY <1>3
    <2>1. i > m /\ i - m \in 1..n /\ m + (i - m) = i
      BY <1>2, <1>3
    <2>2. r[m + (i - m)] = q[i - m]
      BY <1>3, <2>1
    <2>3. QED
      BY <2>1, <2>2
  <1>5. \A i \in 1..m : p[i][1] \in S /\ lo[p[i][1]] < p[i][2] /\ p[i][2] <= hi[p[i][1]]
    BY <1>2 DEF Holds
  <1>6. \A i \in 1..n : q[i][1] \in T /\ lo[q[i][1]] < q[i][2] /\ q[i][2] <= hi[q[i][1]]
    BY <1>2 DEF Holds
  <1>7. \A i \in DOMAIN r :
           r[i][1] \in S \cup T /\ lo[r[i][1]] < r[i][2] /\ r[i][2] <= hi[r[i][1]]
    <2> SUFFICES ASSUME NEW i \in 1..(m + n)
                 PROVE  r[i][1] \in S \cup T /\ lo[r[i][1]] < r[i][2] /\ r[i][2] <= hi[r[i][1]]
      BY <1>3
    <2>1. CASE i \in 1..m /\ r[i] = p[i]
      BY ONLY <1>5, <2>1
    <2>2. CASE i - m \in 1..n /\ r[i] = q[i - m]
      BY ONLY <1>6, <2>2
    <2>3. QED
      BY <1>4, <2>1, <2>2
  <1>8. ASSUME NEW t \in S \cup T, NEW x \in Nat, lo[t] < x, x <= hi[t]
        PROVE  \E i \in DOMAIN r : r[i] = <<t, x>>
    <2>1. CASE t \in S
      <3>1. PICK i \in 1..m : p[i] = <<t, x>>
        BY <1>2, <1>8, <2>1 DEF Holds
      <3>2. i \in 1..(m + n)
        BY <1>2, <3>1
      <3>3. QED
        BY <1>3, <3>1, <3>2
    <2>2. CASE t \in T
      <3>1. PICK i \in 1..n : q[i] = <<t, x>>
        BY <1>2, <1>8, <2>2 DEF Holds
      <3>2. m + i \in 1..(m + n)
        BY <1>2, <3>1
      <3>3. QED
        BY <1>3, <3>1, <3>2
    <2>3. QED
      BY <2>1, <2>2
  <1>9. InOrder(r)
    <2> SUFFICES ASSUME NEW i \in 1..(m + n), NEW j \in 1..(m + n), i < j, r[i][1] = r[j][1]
                 PROVE  r[i][2] < r[j][2]
      BY <1>3 DEF InOrder
    <2>1. InOrder(p) /\ InOrder(q)
      BY DEF Holds
    <2>2. CASE i \in 1..m /\ j \in 1..m
      BY <1>2, <1>3, <2>1, <2>2 DEF InOrder
    <2>3. CASE i > m /\ j > m
      <3>1. i - m \in 1..n /\ j - m \in 1..n /\ i - m < j - m
            /\ r[i] = q[i - m] /\ r[j] = q[j - m]
        BY <1>2, <1>4, <2>3
      <3>2. QED
        BY <1>2, <2>1, <3>1 DEF InOrder
    <2>4. CASE i \in 1..m /\ j > m
      <3>1. r[i] = p[i] /\ j - m \in 1..n /\ r[j] = q[j - m]
        BY <1>2, <1>4, <2>4
      <3>2. r[i][1] \in S /\ r[j][1] \in T
        BY <1>5, <1>6, <2>4, <3>1
      <3>3. QED
        BY <3>2
    <2>5. QED
      BY <1>2, <1>4, <2>2, <2>3, <2>4
  <1>10. QED
    BY <1>3, <1>7, <1>8, <1>9 DEF Holds, r

\* SetToSeqs lists every member of a set once.
LEMMA ListsAll ==
    ASSUME NEW S, IsFiniteSet(S), NEW order \in SetToSeqs(S)
    PROVE  /\ Cardinality(S) \in Nat /\ order \in [1..Cardinality(S) -> S]
           /\ \A i, j \in 1..Cardinality(S) : i # j => order[i] # order[j]
           /\ \A x \in S : \E i \in 1..Cardinality(S) : order[i] = x
  <1> DEFINE D == 1..Cardinality(S)
  <1>1. Cardinality(S) \in Nat
    BY FS_CardinalityType
  <1>2. order \in [D -> S] /\ \A i, j \in D : i # j => order[i] # order[j]
    BY DEF SetToSeqs
  <1>3. order \in Injection(D, S)
    BY <1>2 DEF Injection, IsInjective
  <1>4. Cardinality(D) = Cardinality(S)
    BY <1>1, FS_Interval
  <1>5. order \in Surjection(D, S)
    BY <1>3, <1>4, FS_Injection
  <1>6. QED
    BY <1>1, <1>2, <1>5 DEF Surjection

\* The answers for the topics, in whichever order XREAD lists them, hold all of their messages
\* between the ids, each topic in its order.
LEMMA FlattenHolds ==
    ASSUME NEW lo \in [Topics -> Nat], NEW hi \in [Topics -> Nat],
           NEW S \in SUBSET Topics, IsFiniteSet(S), S # {}, \A t \in S : lo[t] <= hi[t],
           NEW order \in SetToSeqs(S)
    PROVE  Holds(FlattenSeq([i \in DOMAIN order |-> Run(order[i], lo, hi)]), S, lo, hi)
  <1> DEFINE k == Cardinality(S)
             seqs == [i \in DOMAIN order |-> Run(order[i], lo, hi)]
             First(m) == {order[i] : i \in 1..m}
  <1>1. /\ k \in Nat /\ order \in [1..k -> S]
        /\ \A i, j \in 1..k : i # j => order[i] # order[j]
        /\ \A x \in S : \E i \in 1..k : order[i] = x
    BY ListsAll
  <1> HIDE DEF k
  <1>2. k # 0
    BY <1>1
  <1>3. Len(seqs) = k /\ \A i \in 1..k : seqs[i] = Run(order[i], lo, hi)
    BY <1>1
  <1> HIDE DEF seqs
  <1>4. PICK f : Flattens(f, seqs, k) /\ FlattenSeq(seqs) = f[k]
    BY <1>1, <1>2, <1>3, FlattenIsLast
  <1>5. \A i \in 1..k : f[i] = IF i = 1 THEN seqs[i] ELSE f[i-1] \o seqs[i]
    BY <1>4 DEF Flattens
  <1> DEFINE Bad == {m \in 1..k : ~Holds(f[m], First(m), lo, hi)}
  <1>6. Bad = {}
    <2> SUFFICES ASSUME Bad # {} PROVE FALSE
      OBVIOUS
    <2>1. PICK m \in Bad : \A x \in Bad : m <= x
      <3>1. Bad \in SUBSET Nat
        OBVIOUS
      <3> HIDE DEF Bad
      <3>2. QED
        BY <3>1, LeastNumber
    <2>2. m \in 1..k /\ m \in Nat /\ order[m] \in Topics /\ lo[order[m]] <= hi[order[m]]
      BY <1>1, <2>1
    <2>3. Holds(seqs[m], {order[m]}, lo, hi)
      BY <1>3, <2>2, RunHolds
    <2>4. CASE m = 1
      <3>1. First(m) = {order[m]}
        BY <2>4
      <3>2. QED
        BY <1>5, <2>1, <2>2, <2>3, <2>4, <3>1
    <2>5. CASE m # 1
      <3>1. m - 1 \in 1..k /\ m - 1 < m
        BY <1>1, <2>2, <2>5
      <3>2. Holds(f[m-1], First(m-1), lo, hi)
        <4>1. m - 1 \notin Bad
          <5> HIDE DEF Bad
          <5>1. ~(m <= m - 1)
            BY <2>2
          <5>2. QED
            BY <2>1, <5>1
        <4>2. QED
          BY <3>1, <4>1
      <3>3. First(m-1) \in SUBSET Topics /\ First(m-1) \cap {order[m]} = {}
        BY <1>1, <2>2, <3>1
      <3>4. First(m) = First(m-1) \cup {order[m]}
        BY <2>2, <3>1
      <3>5. f[m] = f[m-1] \o seqs[m]
        BY <1>5, <2>2, <2>5
      <3>6. Holds(f[m], First(m), lo, hi)
        <4> HIDE DEF First
        <4>1. Holds(f[m-1] \o seqs[m], First(m-1) \cup {order[m]}, lo, hi)
          BY <2>2, <2>3, <3>2, <3>3, ConcatHolds
        <4>2. QED
          BY <3>4, <3>5, <4>1
      <3>7. QED
        BY <2>1, <3>6
    <2>6. QED
      BY <2>4, <2>5
  <1>7. First(k) = S /\ k \in 1..k
    BY <1>1, <1>2
  <1>8. Holds(f[k], S, lo, hi)
    BY <1>6, <1>7
  <1>9. QED
    BY <1>4, <1>8 DEF seqs

-----------------------------------------------------------------------------
(* What a reader has not handled yet.                                      *)

\* The events of the answer come after the positions (pos); none between them is missing.
Answer(q, pos) ==
    /\ q \in Seq(Topics \X Nat) /\ InOrder(q)
    /\ \A i \in DOMAIN q : pos[q[i][1]] < q[i][2]
    /\ \A j \in DOMAIN q, n \in Nat :
          /\ n < q[j][2]
          /\ \/ pos[q[j][1]] # End /\ pos[q[j][1]] < n
             \/ \E i \in DOMAIN q : q[i][1] = q[j][1] /\ q[i][2] < n
          => \E k \in DOMAIN q : q[k] = <<q[j][1], n>>

\* A queue that holds what follows the positions continues them without a gap.
LEMMA HoldsIsAnswer ==
    ASSUME NEW lo \in [Topics -> Nat], NEW hi \in [Topics -> Nat], NEW S \in SUBSET Topics,
           NEW q, Holds(q, S, lo, hi),
           NEW pos \in [Topics -> Int], \A t \in Topics : pos[t] = End \/ pos[t] = lo[t]
    PROVE  Answer(q, pos)
  <1>1. q \in Seq(Topics \X Nat) /\ InOrder(q)
    BY DEF Holds
  <1>2. \A i \in DOMAIN q : q[i][1] \in S /\ q[i][1] \in Topics /\ q[i][2] \in Nat
          /\ lo[q[i][1]] < q[i][2] /\ q[i][2] <= hi[q[i][1]]
    BY <1>1 DEF Holds
  <1>3. \A i \in DOMAIN q : pos[q[i][1]] < q[i][2]
    BY <1>2 DEF End
  <1>4. ASSUME NEW j \in DOMAIN q, NEW n \in Nat, n < q[j][2],
               \/ pos[q[j][1]] # End /\ pos[q[j][1]] < n
               \/ \E i \in DOMAIN q : q[i][1] = q[j][1] /\ q[i][2] < n
        PROVE  \E k \in DOMAIN q : q[k] = <<q[j][1], n>>
    <2>1. lo[q[j][1]] < n
      <3>1. CASE pos[q[j][1]] # End /\ pos[q[j][1]] < n
        BY <1>2, <3>1
      <3>2. CASE \E i \in DOMAIN q : q[i][1] = q[j][1] /\ q[i][2] < n
        <4>1. PICK i \in DOMAIN q : q[i][1] = q[j][1] /\ q[i][2] < n
          BY <3>2
        <4>2. lo[q[j][1]] \in Nat /\ lo[q[j][1]] < q[i][2] /\ q[i][2] \in Nat
          BY <1>2, <4>1
        <4>3. QED
          BY <4>1, <4>2
      <3>3. QED
        BY <1>4, <3>1, <3>2
    <2>2. n <= hi[q[j][1]] /\ q[j][1] \in S
      <3>1. hi[q[j][1]] \in Nat /\ q[j][2] \in Nat /\ q[j][2] <= hi[q[j][1]]
        BY <1>2
      <3>2. QED
        BY <1>2, <1>4, <3>1
    <2>3. QED
      BY <2>1, <2>2 DEF Holds
  <1>5. QED
    BY <1>1, <1>3, <1>4 DEF Answer

\* The first event is taken off what is left.
Pops(q, r, t, n) ==
    /\ q \in Seq(Topics \X Nat) /\ r \in Seq(Topics \X Nat)
    /\ Len(q) = Len(r) + 1 /\ q[1] = <<t, n>>
    /\ \A i \in 1..Len(r) : r[i] = q[i + 1]

\* n is the event of t after the position.
Follows(pos, t, n) == pos[t] < n /\ (pos[t] # End => n = pos[t] + 1)

\* The next event is the one after the position, and the rest is an answer as of that event.
LEMMA RestIsAnswer ==
    ASSUME NEW pos \in [Topics -> Int], \A u \in Topics : End <= pos[u],
           NEW q, NEW r, NEW t, NEW n, Answer(q, pos), Pops(q, r, t, n),
           NEW new, new = [pos EXCEPT ![t] = n]
    PROVE  /\ t \in Topics /\ n \in Nat /\ Follows(pos, t, n)
           /\ Answer(r, new)
           /\ \A j \in DOMAIN r : r[j][1] = t => n < r[j][2]
  <1> DEFINE m == Len(r)
  <1>1. /\ m \in Nat /\ DOMAIN r = 1..m /\ DOMAIN q = 1..(m + 1) /\ q[1] = <<t, n>>
        /\ \A i \in 1..m : r[i] = q[i + 1]
        /\ q \in Seq(Topics \X Nat) /\ r \in Seq(Topics \X Nat)
    <2>1. q \in Seq(Topics \X Nat) /\ r \in Seq(Topics \X Nat)
      BY DEF Pops
    <2>2. Len(r) \in Nat /\ DOMAIN r = 1..Len(r) /\ DOMAIN q = 1..Len(q)
      BY <2>1
    <2>3. QED
      BY <2>1, <2>2 DEF Pops
  <1>2. \A i \in 1..(m + 1) : q[i] \in Topics \X Nat
    BY <1>1
  <1>3. \A i \in 1..(m + 1) : pos[q[i][1]] < q[i][2]
    BY <1>1 DEF Answer
  <1>4. \A i, j \in 1..(m + 1) : i < j /\ q[i][1] = q[j][1] => q[i][2] < q[j][2]
    BY <1>1 DEF Answer, InOrder
  <1>5. \A j \in 1..(m + 1), x \in Nat :
          /\ x < q[j][2]
          /\ \/ pos[q[j][1]] # End /\ pos[q[j][1]] < x
             \/ \E i \in 1..(m + 1) : q[i][1] = q[j][1] /\ q[i][2] < x
          => \E k \in 1..(m + 1) : q[k] = <<q[j][1], x>>
    BY <1>1 DEF Answer
  <1> HIDE DEF m
  <1>6. 1 \in 1..(m + 1) /\ \A i \in 1..m : i + 1 \in 1..(m + 1) /\ i + 1 # 1 /\ 1 < i + 1
    <2>1. m \in Nat
      BY <1>1
    <2>2. QED
      BY <2>1
  <1>7. t \in Topics /\ n \in Nat /\ pos[t] < n
    <2>1. q[1] \in Topics \X Nat /\ pos[q[1][1]] < q[1][2] /\ q[1][1] = t /\ q[1][2] = n
      BY <1>1, <1>2, <1>3, <1>6
    <2>2. QED
      BY <1>1, <2>1
  <1>8. new \in [Topics -> Int] /\ new[t] = n /\ \A u \in Topics \ {t} : new[u] = pos[u]
    BY <1>7
  <1>9. \A i \in 1..(m + 1) : i # 1 /\ q[i][1] = t => n < q[i][2]
    <2> SUFFICES ASSUME NEW i \in 1..(m + 1), i # 1, q[i][1] = t PROVE n < q[i][2]
      OBVIOUS
    <2>1. 1 < i /\ q[1][1] = q[i][1] /\ q[1][2] = n
      BY <1>1
    <2>2. QED
      BY <1>4, <1>6, <2>1
  <1>10. pos[t] # End => n = pos[t] + 1
    <2> SUFFICES ASSUME pos[t] # End, n # pos[t] + 1 PROVE FALSE
      OBVIOUS
    <2> DEFINE x == pos[t] + 1
    <2>1. x \in Int /\ pos[t] < x /\ x < n
      BY <1>7
    <2>2. \A i \in 1..(m + 1) : i # 1 => ~(q[i][1] = t /\ q[i][2] = x)
      BY <1>2, <1>7, <1>9, <2>1
    <2>3. x \notin Nat
      <3> SUFFICES ASSUME x \in Nat PROVE FALSE
        OBVIOUS
      <3>1. q[1][1] = t /\ q[1][2] = n
        BY <1>1
      <3> HIDE DEF x
      <3>2. PICK k \in 1..(m + 1) : q[k] = <<t, x>>
        BY <1>5, <1>6, <2>1, <3>1
      <3>3. k # 1
        BY <1>1, <1>7, <2>1, <3>2
      <3>4. QED
        BY <2>2, <3>2, <3>3
    <2>4. QED
      <3>1. End <= pos[t] /\ pos[t] \in Int
        BY <1>7
      <3>2. QED
        BY <2>3, <3>1 DEF End
  <1>11. InOrder(r)
    <2> SUFFICES ASSUME NEW i \in 1..m, NEW j \in 1..m, i < j, r[i][1] = r[j][1]
                 PROVE  r[i][2] < r[j][2]
      BY <1>1 DEF InOrder
    <2>1. i + 1 < j + 1 /\ r[i] = q[i+1] /\ r[j] = q[j+1]
      BY <1>1
    <2>2. QED
      BY <1>4, <1>6, <2>1
  <1>12. \A i \in 1..m : new[r[i][1]] < r[i][2] /\ (r[i][1] = t => n < r[i][2])
    <2> SUFFICES ASSUME NEW i \in 1..m
                 PROVE  new[r[i][1]] < r[i][2] /\ (r[i][1] = t => n < r[i][2])
      OBVIOUS
    <2>1. r[i] = q[i+1] /\ r[i][1] \in Topics /\ pos[r[i][1]] < r[i][2]
      BY <1>1, <1>2, <1>3, <1>6
    <2>2. r[i][1] = t => n < r[i][2]
      BY <1>6, <1>9, <2>1
    <2>3. QED
      BY <1>8, <2>1, <2>2
  <1>13. ASSUME NEW j \in 1..m, NEW x \in Nat, x < r[j][2],
                \/ new[r[j][1]] # End /\ new[r[j][1]] < x
                \/ \E i \in 1..m : r[i][1] = r[j][1] /\ r[i][2] < x
         PROVE  \E k \in 1..m : r[k] = <<r[j][1], x>>
    <2> DEFINE u == r[j][1]
    <2>1. j + 1 \in 1..(m + 1) /\ q[j+1] = r[j] /\ q[j+1][1] = u /\ x < q[j+1][2] /\ u \in Topics
      BY <1>1, <1>2, <1>6, <1>13
    <2>2. /\ u = t => n < x
          /\ \/ pos[u] # End /\ pos[u] < x
             \/ \E i \in 1..(m + 1) : q[i][1] = u /\ q[i][2] < x
      <3>1. CASE new[u] # End /\ new[u] < x
        <4>1. CASE u = t
          <5>1. n < x
            BY <1>8, <3>1, <4>1
          <5>2. q[1][1] = u /\ q[1][2] = n
            BY <1>1, <4>1
          <5> HIDE DEF u
          <5>3. QED
            BY <1>6, <5>1, <5>2
        <4>2. CASE u # t
          BY <1>8, <2>1, <3>1, <4>2
        <4>3. QED
          BY <4>1, <4>2
      <3>2. CASE \E i \in 1..m : r[i][1] = u /\ r[i][2] < x
        <4>1. PICK i \in 1..m : r[i][1] = u /\ r[i][2] < x
          BY <3>2
        <4>2. i + 1 \in 1..(m + 1) /\ i + 1 # 1 /\ q[i+1] = r[i] /\ q[i+1][1] = u /\ q[i+1][2] < x
          BY <1>1, <1>6, <4>1
        <4>3. u = t => n < q[i+1][2] /\ q[i+1][2] \in Nat
          BY <1>2, <1>9, <4>2
        <4>4. QED
          BY <1>7, <4>2, <4>3
      <3>3. QED
        BY <1>13, <3>1, <3>2
    <2> HIDE DEF u
    <2>3. PICK k \in 1..(m + 1) : q[k] = <<u, x>>
      BY <1>5, <2>1, <2>2
    <2>4. k # 1
      BY <1>1, <1>7, <2>2, <2>3
    <2>5. k - 1 \in 1..m /\ (k - 1) + 1 = k
      <3>1. m \in Nat /\ k \in 1..(m + 1)
        BY <1>1, <2>3
      <3>2. QED
        BY <2>4, <3>1
    <2>6. r[k - 1] = <<u, x>>
      BY <1>1, <2>3, <2>5
    <2>7. QED
      BY <2>5, <2>6 DEF u
  <1>14. Answer(r, new)
    BY <1>1, <1>11, <1>12, <1>13 DEF Answer
  <1>15. QED
    BY <1>1, <1>7, <1>10, <1>12, <1>14 DEF Follows

-----------------------------------------------------------------------------
(* The readers of the streams.                                             *)

Events ==
    [asset : Assets \cup {CHOOSE a \in Assets : TRUE},
     audience : SUBSET (Clients \cup {OwnerOf[a] : a \in Assets})]

StreamTypes ==
    /\ stream \in [Topics -> Seq(Events)]
    /\ \A t \in Topics : LastId(t) <= MaxEvents

FeedTypes ==
    /\ mode \in [Readers -> {"off", "calling", "waiting", "sending", "dead"}]
    /\ position \in [Readers -> [Topics -> Int]] /\ from \in [Readers -> [Topics -> Int]]
    /\ queue \in [Readers -> Seq(Topics \X Nat)]
    /\ token \in [Clients -> [Topics -> Int]]
    /\ received \in [Clients -> Seq(Topics \X Nat)]
    /\ relayed \in [Relays -> Seq(Topics \X Nat)]

\* Items that are events of the streams.
Published(items) == \A i \in DOMAIN items : items[i][2] \in 1..LastId(items[i][1])

\* A call starts where the position is, and what is left of its answer comes after it.
ReaderInv(r) ==
    /\ \A t \in Topics : End <= position[r][t] /\ position[r][t] <= LastId(t)
    /\ mode[r] = "waiting" =>
          \A t \in Topics : /\ from[r][t] \in 0..LastId(t)
                            /\ position[r][t] = End \/ position[r][t] = from[r][t]
    /\ mode[r] = "sending" =>
          Len(queue[r]) # 0 /\ Answer(queue[r], position[r]) /\ Published(queue[r])

\* What c has got ends at its token, and is all that is addressed to it.
TokenCovers(c) ==
    \A t \in Topics :
        /\ End <= token[c][t] /\ token[c][t] <= LastId(t)
        /\ \A i \in DOMAIN received[c] : received[c][i][1] = t =>
              /\ received[c][i][2] <= token[c][t]
              /\ \A n \in received[c][i][2]..token[c][t] : Addressed(c, <<t, n>>) => Notified(c, t, n)

\* Between the token and the position there is nothing for c.
TokenFollows(c) ==
    \A t \in Topics :
        /\ token[c][t] <= position[c][t]
        /\ token[c][t] # End =>
              \A n \in (token[c][t] + 1)..position[c][t] : ~Addressed(c, <<t, n>>)

ClientInv(c) ==
    /\ InOrder(received[c]) /\ Published(received[c])
    /\ TokenCovers(c)
    /\ Running(c) => TokenFollows(c)

\* A relay has got nothing that w is still to send it.
RelayInv(w, r) ==
    \A i \in DOMAIN relayed[r] :
        LET t == relayed[r][i][1]
            n == relayed[r][i][2]
        IN  /\ Running(w) => position[w][t] = End \/ n <= position[w][t]
            /\ mode[w] = "waiting" => n <= from[w][t]
            /\ mode[w] = "sending" => \A j \in DOMAIN queue[w] : queue[w][j][1] = t => n < queue[w][j][2]

FInv ==
    /\ StreamTypes /\ FeedTypes
    /\ \A r \in Readers : ReaderInv(r)
    /\ \A c \in Clients : ClientInv(c)
    /\ \A r \in Relays : InOrder(relayed[r]) /\ Published(relayed[r])
    /\ \A w \in Workers, r \in Relays : RelayInv(w, r)

-----------------------------------------------------------------------------
(* What a step leaves alone.                                               *)

\* Events are appended, and nothing published is changed.
Grows ==
    /\ StreamTypes'
    /\ \A t \in Topics : /\ LastId(t) \in Nat /\ LastId(t)' \in Nat /\ LastId(t) <= LastId(t)'
                         /\ \A n \in 1..LastId(t) : stream'[t][n] = stream[t][n]

\* What both the tokenization service and the marketplace do to the streams.
LEMMA PublishGrows ==
    ASSUME StreamTypes, NEW topic \in Topics, NEW event \in Events, Publish(topic, event)
    PROVE  Grows
  <1>1. \A t \in Topics : LastId(t) \in Nat
    BY DEF StreamTypes, LastId
  <1>2. CASE UNCHANGED stream
    BY <1>1, <1>2 DEF Grows, StreamTypes, LastId
  <1>3. CASE LastId(topic) < MaxEvents /\ stream' = [stream EXCEPT ![topic] = Append(@, event)]
    <2>1. /\ stream' \in [Topics -> Seq(Events)]
          /\ stream'[topic] = Append(stream[topic], event)
          /\ \A t \in Topics \ {topic} : stream'[t] = stream[t]
      BY <1>3 DEF StreamTypes
    <2>2. /\ LastId(topic)' = LastId(topic) + 1
          /\ \A n \in 1..LastId(topic) : stream'[topic][n] = stream[topic][n]
      BY <2>1 DEF StreamTypes, LastId
    <2>3. \A t \in Topics \ {topic} : LastId(t)' = LastId(t)
      BY <2>1 DEF LastId
    <2>4. \A t \in Topics : LastId(t)' \in Nat /\ LastId(t)' <= MaxEvents
      BY <1>1, <1>3, <2>2, <2>3, StreamAssumption DEF StreamTypes
    <2>5. StreamTypes'
      BY <2>1, <2>4 DEF StreamTypes
    <2>6. ASSUME NEW t \in Topics
          PROVE  LastId(t) <= LastId(t)' /\ \A n \in 1..LastId(t) : stream'[t][n] = stream[t][n]
      <3>1. CASE t = topic
        <4>1. LastId(topic) <= LastId(topic)'
          BY <1>1, <2>2
        <4>2. QED
          BY <2>2, <3>1, <4>1
      <3>2. CASE t # topic
        <4>1. LastId(t) \in Nat /\ LastId(t)' = LastId(t) /\ stream'[t] = stream[t]
          BY <1>1, <2>1, <2>3, <3>2
        <4>2. QED
          BY <4>1
      <3>3. QED
        BY <3>1, <3>2
    <2>7. QED
      BY <1>1, <2>4, <2>5, <2>6 DEF Grows
  <1>4. QED
    BY <1>2, <1>3 DEF Publish

\* Where nothing is published the streams are what they were.
LEMMA StreamStutter == StreamTypes /\ UNCHANGED stream => Grows
  BY DEF Grows, StreamTypes, LastId

\* What was published is still there, for the same audience.
LEMMA PublishedStays ==
    ASSUME Grows, NEW items \in Seq(Topics \X Nat), Published(items)
    PROVE  Published(items)'
  <1>1. \A i \in DOMAIN items : items[i][1] \in Topics /\ items[i][2] \in Nat
    OBVIOUS
  <1>2. ASSUME NEW i \in DOMAIN items
        PROVE  items[i][2] \in 1..LastId(items[i][1])'
    <2>1. items[i][1] \in Topics /\ items[i][2] \in 1..LastId(items[i][1])
      BY <1>1 DEF Published
    <2>2. QED
      BY <2>1 DEF Grows
  <1>3. QED
    BY <1>2 DEF Published

\* A message that was published keeps the clients it is addressed to.
LEMMA AudienceStays ==
    ASSUME Grows, NEW t \in Topics, NEW n \in 1..LastId(t), NEW c
    PROVE  Addressed(c, <<t, n>>)' <=> Addressed(c, <<t, n>>)
  BY DEF Grows, Addressed

\* A reader that does nothing stays where it was in streams that may have grown.
LEMMA ReaderFrame ==
    ASSUME FeedTypes, Grows, NEW r \in Readers, ReaderInv(r),
           mode'[r] = mode[r], position'[r] = position[r], from'[r] = from[r], queue'[r] = queue[r]
    PROVE  ReaderInv(r)'
  <1>1. /\ \A t \in Topics : position[r][t] \in Int /\ from[r][t] \in Int
        /\ queue[r] \in Seq(Topics \X Nat)
    BY DEF FeedTypes
  <1>2. ASSUME NEW t \in Topics
        PROVE  End <= position'[r][t] /\ position'[r][t] <= LastId(t)'
    BY <1>1 DEF ReaderInv, Grows
  <1>3. ASSUME mode'[r] = "waiting", NEW t \in Topics
        PROVE  /\ from'[r][t] \in 0..LastId(t)'
               /\ position'[r][t] = End \/ position'[r][t] = from'[r][t]
    <2>1. from[r][t] \in 0..LastId(t) /\ (position[r][t] = End \/ position[r][t] = from[r][t])
      BY <1>3 DEF ReaderInv
    <2>2. QED
      BY <2>1 DEF Grows
  <1>4. ASSUME mode'[r] = "sending"
        PROVE  Len(queue'[r]) # 0 /\ Answer(queue'[r], position'[r]) /\ Published(queue[r])'
    <2>1. Len(queue[r]) # 0 /\ Answer(queue[r], position[r]) /\ Published(queue[r])
      BY <1>4 DEF ReaderInv
    <2>2. Published(queue[r])'
      BY <1>1, <2>1, PublishedStays DEF Published
    <2>3. QED
      BY <2>1, <2>2
  <1>5. QED
    BY <1>2, <1>3, <1>4 DEF ReaderInv, Published

\* A client that neither gets a message nor moves on.
LEMMA ClientFrame ==
    ASSUME StreamTypes, FeedTypes, Grows, NEW c \in Clients, ReaderInv(c), ClientInv(c),
           token'[c] = token[c], received'[c] = received[c],
           Running(c)' => Running(c) /\ position'[c] = position[c]
    PROVE  ClientInv(c)'
  <1>1. /\ \A t \in Topics : token[c][t] \in Int /\ position[c][t] \in Int /\ LastId(t) \in Nat
        /\ received[c] \in Seq(Topics \X Nat) /\ c \in Readers
    BY DEF FeedTypes, StreamTypes, LastId, Readers
  <1>2. \A i \in DOMAIN received[c] : /\ received[c][i][1] \in Topics /\ received[c][i][2] \in Nat
                                      /\ received[c][i][2] >= 1
    BY <1>1 DEF ClientInv, Published
  <1>3. \A t \in Topics : \A n \in 1..LastId(t) : Addressed(c, <<t, n>>)' <=> Addressed(c, <<t, n>>)
    BY AudienceStays
  <1>4. \A t, n : Notified(c, t, n)' <=> Notified(c, t, n)
    BY DEF Notified
  <1>5. InOrder(received[c])' /\ Published(received[c])'
    BY <1>1, PublishedStays DEF ClientInv, InOrder, Published
  <1>6. ASSUME NEW t \in Topics
        PROVE  End <= token'[c][t] /\ token'[c][t] <= LastId(t)'
    BY <1>1 DEF ClientInv, TokenCovers, Grows
  <1>7. ASSUME NEW t \in Topics, NEW i \in DOMAIN received[c], received[c][i][1] = t
        PROVE  /\ received[c][i][2] <= token[c][t]
               /\ \A n \in received[c][i][2]..token[c][t] :
                     Addressed(c, <<t, n>>)' => Notified(c, t, n)'
    <2>1. /\ received[c][i][2] <= token[c][t] /\ token[c][t] <= LastId(t)
          /\ \A n \in received[c][i][2]..token[c][t] : Addressed(c, <<t, n>>) => Notified(c, t, n)
      BY <1>7 DEF ClientInv, TokenCovers
    <2>2. \A n \in received[c][i][2]..token[c][t] : n \in 1..LastId(t)
      BY <1>1, <1>2, <2>1
    <2>3. QED
      BY <1>3, <1>4, <2>1, <2>2
  <1>8. TokenCovers(c)'
    BY <1>6, <1>7 DEF TokenCovers
  <1>9. ASSUME Running(c)' PROVE TokenFollows(c)'
    <2>1. TokenFollows(c) /\ position'[c] = position[c]
      BY <1>9 DEF ClientInv
    <2>2. ASSUME NEW t \in Topics, token[c][t] # End, NEW n \in (token[c][t] + 1)..position[c][t]
          PROVE  ~Addressed(c, <<t, n>>)'
      <3>1. ~Addressed(c, <<t, n>>)
        BY <2>1, <2>2 DEF TokenFollows
      <3>2. End <= token[c][t] /\ position[c][t] <= LastId(t)
        BY DEF ClientInv, TokenCovers, ReaderInv
      <3>3. n \in 1..LastId(t)
        BY <1>1, <2>2, <3>2 DEF End
      <3>4. QED
        BY <1>3, <3>1, <3>3
    <2>3. QED
      BY <2>1, <2>2 DEF TokenFollows
  <1>10. QED
    BY <1>5, <1>8, <1>9 DEF ClientInv

\* A relay that gets nothing, of a worker that does not move on.
LEMMA RelayFrame ==
    ASSUME NEW w \in Workers, NEW r \in Relays, RelayInv(w, r), relayed'[r] = relayed[r],
           mode'[w] = mode[w], position'[w] = position[w], from'[w] = from[w], queue'[w] = queue[w]
    PROVE  RelayInv(w, r)'
  BY DEF RelayInv, Running

\* Reader r makes a step, and the others do not.
Alone(r) ==
    /\ \A x \in Readers \ {r} : /\ mode'[x] = mode[x] /\ position'[x] = position[x]
                                /\ from'[x] = from[x] /\ queue'[x] = queue[x]
    /\ \A c \in Clients \ {r} : token'[c] = token[c] /\ received'[c] = received[c]
    /\ r \notin Workers => UNCHANGED relayed

\* What is to be shown of a step of a reader.
LEMMA AloneInv ==
    ASSUME FInv, NEW r \in Readers, Alone(r), UNCHANGED stream, FeedTypes', ReaderInv(r)',
           r \in Clients => ClientInv(r)',
           \A x \in Relays : InOrder(relayed'[x]) /\ Published(relayed[x])',
           \A x \in Relays : r \in Workers => RelayInv(r, x)'
    PROVE  FInv'
  <1> USE DEF FInv
  <1>1. Grows /\ StreamTypes'
    BY StreamStutter DEF Grows
  <1>2. ASSUME NEW x \in Readers PROVE ReaderInv(x)'
    BY <1>1, ReaderFrame DEF Alone
  <1>3. ASSUME NEW c \in Clients PROVE ClientInv(c)'
    <2>1. c \in Readers
      BY DEF Readers
    <2>2. CASE c # r
      <3>1. Running(c)' => Running(c)
        BY <2>1, <2>2 DEF Alone, Running
      <3>2. QED
        BY <1>1, <2>1, <2>2, <3>1, ClientFrame DEF Alone
    <2>3. QED
      BY <2>2
  <1>4. ASSUME NEW w \in Workers, NEW x \in Relays PROVE RelayInv(w, x)'
    <2>1. w \in Readers
      BY DEF Readers
    <2>2. CASE w # r
      <3>1. r \notin Workers
        BY <2>2, FeedAssumption
      <3>2. QED
        BY <2>1, <2>2, <3>1, RelayFrame DEF Alone
    <2>3. QED
      BY <2>2
  <1>5. QED
    BY <1>1, <1>2, <1>3, <1>4

\* The producers append to the streams; the readers do not notice before they look.
LEMMA ProducersInv == ASSUME FInv, Grows, UNCHANGED feedVars PROVE FInv'
  <1> USE DEF FInv, feedVars
  <1>1. FeedTypes' /\ StreamTypes'
    BY DEF FeedTypes, Grows
  <1>2. ASSUME NEW r \in Readers PROVE ReaderInv(r)'
    BY ReaderFrame
  <1>3. ASSUME NEW c \in Clients PROVE ClientInv(c)'
    <2>1. c \in Readers /\ (Running(c)' => Running(c))
      BY DEF Readers, Running
    <2>2. QED
      BY <2>1, ClientFrame
  <1>4. ASSUME NEW r \in Relays PROVE InOrder(relayed'[r]) /\ Published(relayed[r])'
    <2>1. relayed[r] \in Seq(Topics \X Nat) /\ Published(relayed[r]) /\ relayed'[r] = relayed[r]
      BY DEF FeedTypes
    <2>2. QED
      BY <2>1, PublishedStays DEF Published
  <1>5. ASSUME NEW w \in Workers, NEW r \in Relays PROVE RelayInv(w, r)'
    BY RelayFrame
  <1>6. QED
    BY <1>1, <1>2, <1>3, <1>4, <1>5

-----------------------------------------------------------------------------
(* XREAD, its answer and its timeout.                                      *)

\* Positions and queues of a reader have their types and are within the streams.
LEMMA ReaderTypes ==
    ASSUME FInv, NEW r \in Readers
    PROVE  /\ position[r] \in [Topics -> Int] /\ from[r] \in [Topics -> Int]
           /\ queue[r] \in Seq(Topics \X Nat)
           /\ \A t \in Topics : LastId(t) \in Nat /\ position[r][t] \in Int /\ End <= position[r][t]
                                /\ position[r][t] <= LastId(t)
  BY DEF FInv, StreamTypes, FeedTypes, LastId, ReaderInv

\* What the relays have got is unchanged.
LEMMA RelayedStays ==
    ASSUME FInv, UNCHANGED <<stream, relayed>>, NEW x \in Relays
    PROVE  InOrder(relayed'[x]) /\ Published(relayed[x])'
  BY DEF FInv, Published, LastId

\* A call of XREAD notes the ids it starts from; $ is the last id there is when it is called.
LEMMA CallInv == ASSUME FInv, NEW r \in Readers, Call(r) PROVE FInv'
  <1> DEFINE start == [t \in Topics |-> IF position[r][t] = End THEN LastId(t) ELSE position[r][t]]
  <1>1. /\ mode[r] = "calling" /\ mode' = [mode EXCEPT ![r] = "waiting"]
        /\ from' = [from EXCEPT ![r] = start]
        /\ UNCHANGED <<stream, position, queue, token, received, relayed>>
    BY DEF Call, SetMode
  <1>2. \A t \in Topics : /\ start[t] \in 0..LastId(t)
                          /\ position[r][t] = End \/ position[r][t] = start[t]
    BY ReaderTypes DEF End
  <1>3. start \in [Topics -> Int]
    BY ReaderTypes
  <1> HIDE DEF start
  <1>4. FeedTypes'
    BY <1>1, <1>3 DEF FInv, FeedTypes
  <1>5. mode'[r] = "waiting" /\ from'[r] = start
    BY <1>1 DEF FInv, FeedTypes
  <1>6. Alone(r)
    BY <1>1 DEF FInv, FeedTypes, Alone
  <1>7. ReaderInv(r)'
    BY <1>1, <1>2, <1>5 DEF FInv, ReaderInv, LastId
  <1>8. r \in Clients => ClientInv(r)'
    BY <1>1, <1>5, StreamStutter, ClientFrame DEF FInv, Running
  <1>9. ASSUME r \in Workers, NEW x \in Relays PROVE RelayInv(r, x)'
    <2> SUFFICES ASSUME NEW i \in DOMAIN relayed[x] PROVE
                     LET t == relayed[x][i][1]
                         n == relayed[x][i][2]
                     IN  (position[r][t] = End \/ n <= position[r][t]) /\ n <= start[t]
      BY <1>1, <1>5 DEF RelayInv
    <2> DEFINE t == relayed[x][i][1]
               n == relayed[x][i][2]
    <2>1. position[r][t] = End \/ n <= position[r][t]
      BY <1>1, <1>9 DEF FInv, RelayInv, Running
    <2>2. n <= LastId(t)
      BY DEF FInv, Published
    <2>3. t \in Topics
      BY DEF FInv, FeedTypes
    <2>4. n <= start[t]
      <3>1. CASE position[r][t] = End
        BY <2>2, <2>3, <3>1 DEF start
      <3>2. CASE position[r][t] # End
        BY <2>1, <2>3, <3>2 DEF start
      <3>3. QED
        BY <3>1, <3>2
    <2>5. QED
      BY <2>1, <2>4
  <1>10. QED
    BY <1>1, <1>4, <1>6, <1>7, <1>8, <1>9, RelayedStays, AloneInv

\* An answer holds the next events of every topic that has some.
LEMMA ReturnedIsNext ==
    ASSUME FInv, NEW r \in Readers, mode[r] = "waiting", NEW t \in New(r)
    PROVE  t \in Topics /\ from[r][t] \in Nat /\ Returned(r, t) \in Nat \ {0}
           /\ from[r][t] + Returned(r, t) <= LastId(t)
  <1>1. t \in Topics
    BY FeedAssumption DEF New, TopicsOf
  <1>2. from[r][t] \in Nat /\ LastId(t) \in Nat /\ LastId(t) > from[r][t]
    BY <1>1, ReaderTypes DEF New, FInv, ReaderInv
  <1> DEFINE more == LastId(t) - from[r][t]
             some == CountOf[r]
  <1>3. more \in Nat \ {0} /\ some \in Nat \ {0}
    BY <1>2, FeedAssumption
  <1> HIDE DEF more, some
  <1>4. Min({more, some}) = IF more <= some THEN more ELSE some
    BY <1>3 DEF Min
  <1>5. Returned(r, t) = IF more <= some THEN more ELSE some
    BY <1>4 DEF Returned, more, some
  <1>6. Returned(r, t) \in Nat \ {0} /\ Returned(r, t) <= more
    BY <1>3, <1>5
  <1>7. QED
    BY <1>1, <1>2, <1>6 DEF more

\* XREAD answers what came after the ids it was called with, all topics that have something new.
LEMMA ReturnInv == ASSUME FInv, NEW r \in Readers, Return(r) PROVE FInv'
  <1>1. /\ mode[r] = "waiting" /\ New(r) # {} /\ mode' = [mode EXCEPT ![r] = "sending"]
        /\ from' = [from EXCEPT ![r] = AtEnd]
        /\ UNCHANGED <<stream, position, token, received, relayed>>
    BY DEF Return, SetMode
  <1>2. PICK topics \in SetToSeqs(New(r)) :
           queue' = [queue EXCEPT ![r] = FlattenSeq([i \in DOMAIN topics |-> Batch(r, topics[i])])]
    BY DEF Return
  <1> DEFINE lo == from[r]
             hi == [t \in Topics |-> IF t \in New(r) THEN from[r][t] + Returned(r, t) ELSE from[r][t]]
             pos == position[r]
             q == queue'[r]
  <1>3. lo \in [Topics -> Nat]
    BY <1>1, ReaderTypes DEF FInv, ReaderInv
  <1>4. hi \in [Topics -> Nat] /\ \A t \in New(r) : t \in Topics /\ lo[t] <= hi[t] /\ lo[t] < hi[t]
    BY <1>1, <1>3, ReturnedIsNext
  <1>5. \A t \in Topics : hi[t] <= LastId(t)
    <2>1. ASSUME NEW t \in Topics PROVE hi[t] <= LastId(t)
      <3>1. CASE t \in New(r)
        BY <1>1, <3>1, ReturnedIsNext
      <3>2. CASE t \notin New(r)
        BY <1>1, <3>2 DEF FInv, ReaderInv
      <3>3. QED
        BY <3>1, <3>2
    <2>2. QED
      BY <2>1
  <1>6. New(r) \in SUBSET Topics /\ IsFiniteSet(New(r))
    BY <1>4, StreamAssumption, FS_Subset
  <1>7. \A t \in New(r) : Batch(r, t) = Run(t, lo, hi)
    <2>1. ASSUME NEW t \in New(r) PROVE Batch(r, t) = Run(t, lo, hi)
      <3>1. Returned(r, t) \in Nat /\ from[r][t] \in Nat /\ t \in Topics
        BY <1>1, ReturnedIsNext
      <3>2. hi[t] - lo[t] = Returned(r, t)
        BY <2>1, <3>1
      <3> HIDE DEF hi, lo
      <3>3. QED
        BY <3>2 DEF Batch, Run, lo
    <2>2. QED
      BY <2>1
  <1>8. \A i \in DOMAIN topics : topics[i] \in New(r)
    BY <1>6, ListsAll
  <1>9. q = FlattenSeq([i \in DOMAIN topics |-> Run(topics[i], lo, hi)])
    <2>1. [i \in DOMAIN topics |-> Batch(r, topics[i])] = [i \in DOMAIN topics |-> Run(topics[i], lo, hi)]
      BY <1>7, <1>8
    <2>2. q = FlattenSeq([i \in DOMAIN topics |-> Batch(r, topics[i])])
      BY <1>2 DEF FInv, FeedTypes
    <2>3. QED
      BY <2>1, <2>2
  <1> HIDE DEF lo, hi, q, pos
  <1>10. Holds(q, New(r), lo, hi)
    BY <1>1, <1>3, <1>4, <1>6, <1>9, FlattenHolds
  <1>11. pos \in [Topics -> Int] /\ \A t \in Topics : pos[t] = End \/ pos[t] = lo[t]
    BY <1>1, ReaderTypes DEF FInv, ReaderInv, pos, lo
  <1>12. Answer(q, pos)
    BY <1>3, <1>4, <1>6, <1>10, <1>11, HoldsIsAnswer
  <1>13. Len(q) # 0
    <2>1. PICK t \in New(r) : TRUE
      BY <1>1
    <2>2. lo[t] < hi[t] /\ lo[t] \in Nat /\ hi[t] \in Nat
      BY <1>3, <1>4
    <2>3. \E i \in DOMAIN q : q[i] = <<t, hi[t]>>
      BY <1>10, <2>2 DEF Holds
    <2>4. q \in Seq(Topics \X Nat)
      BY <1>10 DEF Holds
    <2>5. QED
      BY <2>3, <2>4
  <1>14. \A i \in DOMAIN q : q[i][2] \in 1..LastId(q[i][1]) /\ lo[q[i][1]] < q[i][2] /\ q[i][1] \in Topics
    <2> SUFFICES ASSUME NEW i \in DOMAIN q
                 PROVE  /\ q[i][2] \in 1..LastId(q[i][1]) /\ lo[q[i][1]] < q[i][2]
                        /\ q[i][1] \in Topics
      OBVIOUS
    <2>1. /\ q[i][1] \in Topics /\ q[i][2] \in Nat /\ lo[q[i][1]] < q[i][2] /\ q[i][2] <= hi[q[i][1]]
      BY <1>6, <1>10 DEF Holds
    <2>2. lo[q[i][1]] \in Nat /\ hi[q[i][1]] \in Nat /\ hi[q[i][1]] <= LastId(q[i][1])
          /\ LastId(q[i][1]) \in Nat
      BY <1>3, <1>4, <1>5, <2>1, ReaderTypes
    <2>3. QED
      BY <2>1, <2>2
  <1>15. FeedTypes'
    <2>1. q \in Seq(Topics \X Nat) /\ AtEnd \in [Topics -> Int]
      BY <1>10 DEF Holds, AtEnd, End
    <2>2. queue' \in [Readers -> Seq(Topics \X Nat)]
      BY <1>2, <2>1 DEF FInv, FeedTypes, q
    <2>3. QED
      BY <1>1, <2>1, <2>2 DEF FInv, FeedTypes
  <1>16. mode'[r] = "sending" /\ queue'[r] = q /\ position'[r] = pos
    BY <1>1 DEF FInv, FeedTypes, q, pos
  <1>17. Alone(r)
    BY <1>1, <1>2 DEF FInv, FeedTypes, Alone
  <1>18. ReaderInv(r)'
    <2>1. Published(queue[r])'
      BY <1>1, <1>14, <1>16 DEF Published, LastId
    <2>2. QED
      BY <1>1, <1>12, <1>13, <1>16, <2>1 DEF FInv, ReaderInv, LastId
  <1>19. r \in Clients => ClientInv(r)'
    BY <1>1, <1>16, StreamStutter, ClientFrame DEF FInv, Running
  <1>20. ASSUME r \in Workers, NEW x \in Relays PROVE RelayInv(r, x)'
    <2> SUFFICES ASSUME NEW i \in DOMAIN relayed[x]
                 PROVE  LET t == relayed[x][i][1]
                            n == relayed[x][i][2]
                        IN  /\ position[r][t] = End \/ n <= position[r][t]
                            /\ \A j \in DOMAIN q : q[j][1] = t => n < q[j][2]
      BY <1>1, <1>16 DEF RelayInv
    <2> DEFINE t == relayed[x][i][1]
               n == relayed[x][i][2]
    <2>1. (position[r][t] = End \/ n <= position[r][t]) /\ n <= lo[t]
      BY <1>1, <1>20 DEF FInv, RelayInv, Running, lo
    <2>2. t \in Topics /\ n \in Nat
      BY DEF FInv, FeedTypes
    <2>3. lo[t] \in Nat
      BY <1>3, <2>2
    <2> HIDE DEF t, n
    <2>4. ASSUME NEW j \in DOMAIN q, q[j][1] = t PROVE n < q[j][2]
      <3>1. q[j][2] \in Nat /\ lo[t] < q[j][2]
        BY <1>10, <1>14, <2>4 DEF Holds
      <3>2. QED
        BY <2>1, <2>2, <2>3, <3>1
    <2>5. QED
      BY <2>1, <2>4 DEF t, n
  <1>21. QED
    BY <1>1, <1>15, <1>17, <1>18, <1>19, <1>20, RelayedStays, AloneInv

\* XREAD times out without a message, and is called again from the same positions.
LEMMA TimeoutInv == ASSUME FInv, NEW r \in Readers, Timeout(r) PROVE FInv'
  <1>1. /\ mode[r] = "waiting" /\ mode' = [mode EXCEPT ![r] = "calling"]
        /\ from' = [from EXCEPT ![r] = AtEnd]
        /\ UNCHANGED <<stream, position, queue, token, received, relayed>>
    BY DEF Timeout, SetMode
  <1>2. FeedTypes' /\ mode'[r] = "calling" /\ Alone(r)
    BY <1>1 DEF FInv, FeedTypes, AtEnd, End, Alone
  <1>3. ReaderInv(r)'
    BY <1>1, <1>2 DEF FInv, ReaderInv, LastId
  <1>4. r \in Clients => ClientInv(r)'
    BY <1>1, <1>2, StreamStutter, ClientFrame DEF FInv, Running
  <1>5. ASSUME r \in Workers, NEW x \in Relays PROVE RelayInv(r, x)'
    BY <1>1, <1>2, <1>5 DEF FInv, RelayInv, Running
  <1>6. QED
    BY <1>1, <1>2, <1>3, <1>4, <1>5, RelayedStays, AloneInv

-----------------------------------------------------------------------------
(* The next event of an answer.                                            *)

\* The first message of a queue leaves the others in their order.
LEMMA HeadPops ==
    ASSUME NEW q \in Seq(Topics \X Nat), Len(q) # 0
    PROVE  /\ Pops(q, Tail(q), Head(q)[1], Head(q)[2])
           /\ Head(q) = <<Head(q)[1], Head(q)[2]>> /\ Head(q)[1] \in Topics /\ Head(q)[2] \in Nat
  <1>1. Head(q) = q[1] /\ 1 \in DOMAIN q /\ q[1] \in Topics \X Nat
    OBVIOUS
  <1>2. Tail(q) \in Seq(Topics \X Nat) /\ Len(q) = Len(Tail(q)) + 1
    OBVIOUS
  <1>3. \A i \in 1..Len(Tail(q)) : Tail(q)[i] = q[i + 1]
    OBVIOUS
  <1>4. QED
    BY <1>1, <1>2, <1>3 DEF Pops

\* The position goes to the event that is taken off the answer.
Moves(r, t, n) ==
    /\ position'[r] = [position[r] EXCEPT ![t] = n]
    /\ mode'[r] \in {"calling", "sending"}
    /\ queue'[r] \in Seq(Topics \X Nat)
    /\ \A j \in DOMAIN queue'[r] : \E i \in DOMAIN queue[r] : queue'[r][j] = queue[r][i]
    /\ \A j \in DOMAIN queue'[r] : queue'[r][j][1] = t => n < queue'[r][j][2]

\* Taking the next message moves the reader's position in its topic to it, and to no other.
LEMMA AdvanceMoves ==
    ASSUME FInv, NEW r \in Readers, Advance(r), UNCHANGED <<stream, from>>
    PROVE  \E t \in Topics, n \in Nat :
              /\ Head(queue[r]) = <<t, n>> /\ n \in 1..LastId(t)
              /\ \E i \in DOMAIN queue[r] : queue[r][i] = <<t, n>>
              /\ Follows(position[r], t, n)
              /\ Moves(r, t, n) /\ ReaderInv(r)'
  <1> DEFINE q == queue[r]
             pos == position[r]
             t == Head(queue[r])[1]
             n == Head(queue[r])[2]
             rest == Tail(queue[r])
             new == [position[r] EXCEPT ![Head(queue[r])[1]] = Head(queue[r])[2]]
  <1>1. /\ mode[r] = "sending" /\ position' = [position EXCEPT ![r][t] = n]
        /\ queue' = [queue EXCEPT ![r] = rest]
        /\ mode' = [mode EXCEPT ![r] = IF Len(q) = 1 THEN "calling" ELSE "sending"]
    BY DEF Advance, SetMode
  <1>2. q \in Seq(Topics \X Nat) /\ Len(q) # 0 /\ Answer(q, pos) /\ Published(q)
    BY <1>1 DEF FInv, FeedTypes, ReaderInv
  <1>3. Pops(q, rest, t, n) /\ Head(q) = <<t, n>> /\ t \in Topics /\ n \in Nat
    BY <1>2, HeadPops
  <1>4. pos \in [Topics -> Int] /\ \A u \in Topics : End <= pos[u]
    BY ReaderTypes
  <1>5. /\ position'[r] = new /\ new = [pos EXCEPT ![t] = n] /\ queue'[r] = rest
        /\ mode'[r] = IF Len(q) = 1 THEN "calling" ELSE "sending"
    BY <1>1, <1>3 DEF FInv, FeedTypes
  <1> HIDE DEF q, pos, t, n, rest, new
  <1>6. /\ Follows(pos, t, n) /\ Answer(rest, new)
        /\ \A j \in DOMAIN rest : rest[j][1] = t => n < rest[j][2]
    <2>1. Answer(q, pos) /\ Pops(q, rest, t, n) /\ new = [pos EXCEPT ![t] = n]
      BY <1>2, <1>3, <1>5
    <2>2. QED
      BY ONLY <1>4, <2>1, RestIsAnswer
  <1>7. rest \in Seq(Topics \X Nat) /\ Len(q) = Len(rest) + 1 /\ q[1] = <<t, n>>
    BY <1>3 DEF Pops
  <1>8. DOMAIN rest = 1..Len(rest) /\ DOMAIN q = 1..Len(q) /\ Len(rest) \in Nat /\ Len(q) \in Nat
    BY <1>2, <1>7
  <1>9. 1 \in DOMAIN q /\ \A j \in DOMAIN rest : j + 1 \in DOMAIN q
    BY <1>7, <1>8
  <1>10. \A j \in DOMAIN rest : rest[j] = q[j + 1] /\ rest[j][1] \in Topics
    BY <1>3, <1>7, <1>8 DEF Pops
  <1>11. n \in 1..LastId(t) /\ \A j \in DOMAIN rest : rest[j][2] \in 1..LastId(rest[j][1])
    BY <1>2, <1>7, <1>9, <1>10 DEF Published
  <1>12. Moves(r, t, n)
    BY <1>5, <1>6, <1>7, <1>9, <1>10 DEF Moves, q, pos
  <1>13. ReaderInv(r)'
    <2>1. ASSUME NEW u \in Topics
          PROVE  End <= position'[r][u] /\ position'[r][u] <= LastId(u)'
      <3>1. CASE u = t
        BY <1>3, <1>4, <1>5, <1>11, <3>1 DEF LastId, End
      <3>2. CASE u # t
        BY <1>4, <1>5, <3>2, ReaderTypes DEF LastId, pos
      <3>3. QED
        BY <3>1, <3>2
    <2>2. mode'[r] # "waiting"
      BY <1>5
    <2>3. mode'[r] = "sending" => Len(queue'[r]) # 0
      BY <1>2, <1>5, <1>7, <1>8
    <2>4. Published(queue[r])'
      BY <1>5, <1>11 DEF Published, LastId
    <2>5. QED
      BY <1>5, <1>6, <2>1, <2>2, <2>3, <2>4 DEF ReaderInv
  <1>14. QED
    BY <1>3, <1>6, <1>7, <1>9, <1>11, <1>12, <1>13 DEF q, pos

\* The types of what a step of one reader sets.
LEMMA AdvanceTypes ==
    ASSUME FInv, NEW r \in Readers, Advance(r), UNCHANGED from
    PROVE  /\ mode' \in [Readers -> {"off", "calling", "waiting", "sending", "dead"}]
           /\ position' \in [Readers -> [Topics -> Int]] /\ from' \in [Readers -> [Topics -> Int]]
           /\ queue' \in [Readers -> Seq(Topics \X Nat)]
           /\ \A x \in Readers \ {r} : /\ mode'[x] = mode[x] /\ position'[x] = position[x]
                                       /\ from'[x] = from[x] /\ queue'[x] = queue[x]
  <1>1. mode[r] = "sending"
    BY DEF Advance
  <1>2. queue[r] \in Seq(Topics \X Nat) /\ Len(queue[r]) # 0
    BY <1>1 DEF FInv, FeedTypes, ReaderInv
  <1>3. /\ Head(queue[r])[1] \in Topics /\ Head(queue[r])[2] \in Int
        /\ Tail(queue[r]) \in Seq(Topics \X Nat)
    BY <1>2, HeadPops DEF Pops
  <1>4. /\ mode' = [mode EXCEPT ![r] = IF Len(queue[r]) = 1 THEN "calling" ELSE "sending"]
        /\ position' = [position EXCEPT ![r][Head(queue[r])[1]] = Head(queue[r])[2]]
        /\ queue' = [queue EXCEPT ![r] = Tail(queue[r])]
    BY DEF Advance, SetMode
  <1>5. mode' \in [Readers -> {"off", "calling", "waiting", "sending", "dead"}]
        /\ \A x \in Readers \ {r} : mode'[x] = mode[x]
    BY <1>4 DEF FInv, FeedTypes
  <1>6. position' \in [Readers -> [Topics -> Int]]
        /\ \A x \in Readers \ {r} : position'[x] = position[x]
    BY <1>3, <1>4 DEF FInv, FeedTypes
  <1>7. queue' \in [Readers -> Seq(Topics \X Nat)]
        /\ \A x \in Readers \ {r} : queue'[x] = queue[x]
    BY <1>3, <1>4 DEF FInv, FeedTypes
  <1>8. QED
    BY <1>5, <1>6, <1>7 DEF FInv, FeedTypes

-----------------------------------------------------------------------------
(* notification_stream                                                     *)

\* A client that connects goes on from the token it was sent last.
LEMMA ConnectInv == ASSUME FInv, NEW c \in Clients, Connect(c) PROVE FInv'
  <1>1. /\ mode[c] = "off" /\ mode' = [mode EXCEPT ![c] = "calling"]
        /\ position' = [position EXCEPT ![c] = token[c]]
        /\ UNCHANGED <<stream, from, queue, token, received, relayed>>
    BY DEF Connect, ResumeFrom, SetMode
  <1>2. c \in Readers /\ c \notin Workers
    BY FeedAssumption DEF Readers
  <1>3. FeedTypes' /\ Alone(c) /\ mode'[c] = "calling" /\ position'[c] = token[c]
    BY <1>1, <1>2 DEF FInv, FeedTypes, Alone
  <1>4. ReaderInv(c)'
    BY <1>1, <1>3 DEF FInv, ReaderInv, ClientInv, TokenCovers, LastId
  <1>5. ClientInv(c)'
    <2>1. ClientInv(c) /\ \A t \in Topics : token[c][t] \in Int
      BY DEF FInv, FeedTypes
    <2>2. TokenCovers(c)' /\ InOrder(received[c])' /\ Published(received[c])'
      BY <1>1, <2>1 DEF ClientInv, TokenCovers, Published, InOrder, LastId, Addressed, Notified
    <2>3. TokenFollows(c)'
      BY <1>1, <1>3, <2>1 DEF TokenFollows
    <2>4. QED
      BY <2>2, <2>3 DEF ClientInv
  <1>6. QED
    BY <1>1, <1>2, <1>3, <1>4, <1>5, RelayedStays, AloneInv

\* A connection that breaks loses the queue and the position, not the token.
LEMMA DisconnectInv == ASSUME FInv, NEW c \in Clients, Disconnect(c) PROVE FInv'
  <1>1. /\ mode' = [mode EXCEPT ![c] = "off"] /\ queue' = [queue EXCEPT ![c] = <<>>]
        /\ position' = [position EXCEPT ![c] = AtEnd] /\ from' = [from EXCEPT ![c] = AtEnd]
        /\ UNCHANGED <<stream, token, received, relayed>>
    BY DEF Disconnect, SetMode
  <1>2. c \in Readers /\ c \notin Workers
    BY FeedAssumption DEF Readers
  <1>3. AtEnd \in [Topics -> Int] /\ <<>> \in Seq(Topics \X Nat)
    BY DEF AtEnd, End
  <1>4. FeedTypes' /\ Alone(c) /\ mode'[c] = "off" /\ position'[c] = AtEnd
    BY <1>1, <1>2, <1>3 DEF FInv, FeedTypes, Alone
  <1>5. ReaderInv(c)'
    <2>1. \A t \in Topics : End <= AtEnd[t] /\ AtEnd[t] <= LastId(t)'
      BY <1>1, <1>2, ReaderTypes DEF AtEnd, End, LastId
    <2>2. QED
      BY <1>4, <2>1 DEF ReaderInv
  <1>6. ClientInv(c)'
    BY <1>1, <1>2, <1>4, StreamStutter, ClientFrame DEF FInv, Running
  <1>7. QED
    BY <1>1, <1>2, <1>4, <1>5, <1>6, RelayedStays, AloneInv

\* A message and the token that comes with it.
LEMMA MessageInv ==
    ASSUME FInv, NEW c \in Clients, NEW t \in Topics, NEW n \in 1..LastId(t),
           Follows(position[c], t, n), Moves(c, t, n), Running(c), UNCHANGED stream,
           received'[c] = Append(received[c], <<t, n>>), token'[c] = position'[c]
    PROVE  ClientInv(c)'
  <1> DEFINE old == received[c]
             pos == position[c]
             tok == token[c]
             m == Len(received[c])
  <1>1. /\ \A u \in Topics : /\ tok[u] \in Int /\ pos[u] \in Int /\ LastId(u) \in Nat
                             /\ End <= pos[u] /\ pos[u] <= LastId(u)
        /\ old \in Seq(Topics \X Nat) /\ n \in Nat /\ c \in Readers
    BY DEF FInv, FeedTypes, StreamTypes, LastId, Readers, ReaderInv
  <1>2. ClientInv(c) /\ TokenCovers(c) /\ TokenFollows(c)
    BY DEF FInv, ClientInv
  <1>3. /\ m \in Nat /\ DOMAIN old = 1..m /\ received'[c] \in Seq(Topics \X Nat)
        /\ DOMAIN received'[c] = 1..(m + 1) /\ received'[c][m + 1] = <<t, n>>
        /\ \A i \in 1..m : received'[c][i] = old[i]
    BY <1>1
  <1>4. \A i \in 1..m : /\ old[i][1] \in Topics /\ old[i][2] \in 1..LastId(old[i][1])
                        /\ old[i][2] \in Nat /\ old[i][2] <= tok[old[i][1]]
    <2> SUFFICES ASSUME NEW i \in 1..m
                 PROVE  /\ old[i][1] \in Topics /\ old[i][2] \in 1..LastId(old[i][1])
                        /\ old[i][2] \in Nat /\ old[i][2] <= tok[old[i][1]]
      OBVIOUS
    <2> HIDE DEF m, old
    <2>1. i \in DOMAIN old /\ old[i][1] \in Topics /\ old[i][2] \in Nat
      <3>1. i \in DOMAIN old
        BY ONLY <1>3, i \in 1..m
      <3>2. old[i] \in Topics \X Nat
        BY ONLY <1>1, <3>1
      <3>3. QED
        BY ONLY <3>1, <3>2
    <2>2. old[i][2] \in 1..LastId(old[i][1])
      BY <1>2, <2>1 DEF ClientInv, Published, old
    <2>3. old[i][2] <= tok[old[i][1]]
      BY <1>2, <2>1 DEF TokenCovers, old
    <2>4. QED
      BY <2>1, <2>2, <2>3
  <1>5. \A u \in Topics : /\ tok[u] <= pos[u] /\ End <= tok[u]
                          /\ tok[u] # End => \A k \in (tok[u] + 1)..pos[u] : ~Addressed(c, <<u, k>>)
    BY <1>2 DEF TokenFollows, TokenCovers
  <1>6. pos[t] < n /\ (pos[t] # End => n = pos[t] + 1)
    BY DEF Follows
  <1>7. /\ position'[c][t] = n /\ token'[c] = position'[c]
        /\ \A u \in Topics \ {t} : position'[c][u] = pos[u]
    BY DEF Moves, FInv, FeedTypes, Readers
  <1>8. \A i \in 1..m, u \in Topics, k \in Nat :
           old[i][1] = u /\ old[i][2] <= k /\ k <= tok[u] /\ Addressed(c, <<u, k>>) =>
              Notified(c, u, k)
    <2> SUFFICES ASSUME NEW i \in 1..m, NEW u \in Topics, NEW k \in Nat, old[i][1] = u,
                        old[i][2] <= k, k <= tok[u], Addressed(c, <<u, k>>)
                 PROVE  Notified(c, u, k)
      OBVIOUS
    <2>1. i \in DOMAIN old /\ old[i][2] \in Nat /\ tok[u] \in Int
      BY <1>1, <1>3, <1>4
    <2>2. k \in old[i][2]..tok[u]
      BY <2>1
    <2>3. QED
      BY <1>2, <2>1, <2>2 DEF TokenCovers
  <1>9. Notified(c, t, n)' /\ \A u, k : Notified(c, u, k) => Notified(c, u, k)'
    <2>1. Notified(c, t, n)'
      <3>1. m + 1 \in DOMAIN received'[c]
        BY <1>3
      <3>2. QED
        BY <1>3, <3>1 DEF Notified, ToSet
    <2>2. ASSUME NEW u, NEW k, Notified(c, u, k) PROVE Notified(c, u, k)'
      <3>1. PICK i \in 1..m : old[i] = <<u, k>>
        BY <1>3, <2>2 DEF Notified, ToSet
      <3>2. i \in DOMAIN received'[c] /\ received'[c][i] = <<u, k>>
        BY <1>3, <3>1
      <3>3. QED
        BY <3>2 DEF Notified, ToSet
    <2>3. QED
      BY <2>1, <2>2
  <1>10. \A u, k : Addressed(c, <<u, k>>)' <=> Addressed(c, <<u, k>>)
    BY DEF Addressed
  <1> HIDE DEF old, pos, tok, m
  <1>11. \A i \in 1..(m + 1) : i \in 1..m \/ i = m + 1
    BY <1>3
  <1>12. InOrder(received[c])'
    <2> SUFFICES ASSUME NEW i \in 1..(m + 1), NEW j \in 1..(m + 1), i < j,
                        received'[c][i][1] = received'[c][j][1]
                 PROVE  received'[c][i][2] < received'[c][j][2]
      BY <1>3 DEF InOrder
    <2>1. i \in 1..m
      BY <1>3
    <2>2. CASE j = m + 1
      <3>1. received'[c][j][1] = t /\ received'[c][j][2] = n /\ old[i][1] = t
        BY <1>3, <2>1, <2>2
      <3>2. old[i][2] \in Nat /\ old[i][2] <= tok[t] /\ tok[t] \in Int /\ pos[t] \in Int
            /\ tok[t] <= pos[t] /\ pos[t] < n /\ n \in Nat
        <4>1. old[i][2] \in Nat /\ old[i][2] <= tok[t]
          BY ONLY <1>4, <2>1, <3>1
        <4>2. tok[t] \in Int /\ pos[t] \in Int /\ tok[t] <= pos[t] /\ n \in Nat
          BY <1>1, <1>5
        <4>3. QED
          BY ONLY <1>6, <4>1, <4>2
      <3>3. old[i][2] < n
        BY ONLY <3>2
      <3>4. QED
        BY <1>3, <2>1, <3>1, <3>3
    <2>3. CASE j \in 1..m
      <3>1. InOrder(old)
        BY <1>2 DEF ClientInv, old
      <3>2. QED
        BY <1>3, <2>1, <2>3, <3>1 DEF InOrder
    <2>4. QED
      BY <1>11, <2>2, <2>3
  <1>13. Published(received[c])'
    <2>1. \A u \in Topics : LastId(u)' = LastId(u)
      BY DEF LastId
    <2>2. ASSUME NEW i \in 1..(m + 1)
          PROVE  (received[c][i][2] \in 1..LastId(received[c][i][1]))'
      <3> USE DEF LastId
      <3>1. CASE i \in 1..m
        BY <1>3, <1>4, <2>1, <3>1
      <3>2. CASE i = m + 1
        BY <1>3, <2>1, <3>2
      <3>3. QED
        BY <1>11, <3>1, <3>2
    <2>3. QED
      BY <1>3, <2>2 DEF Published
  <1>14. ASSUME NEW u \in Topics
         PROVE  End <= token'[c][u] /\ token'[c][u] <= LastId(u)'
    <2>1. CASE u = t
      BY <1>1, <1>7, <2>1 DEF LastId, End
    <2>2. CASE u # t
      BY <1>1, <1>7, <2>2 DEF LastId
    <2>3. QED
      BY <2>1, <2>2
  <1>15. ASSUME NEW i \in 1..m, NEW u \in Topics, old[i][1] = u
         PROVE  /\ old[i][2] <= token'[c][u]
                /\ \A k \in old[i][2]..token'[c][u] : Addressed(c, <<u, k>>) => Notified(c, u, k)'
    <2>1. /\ old[i][2] \in Nat /\ 1 <= old[i][2] /\ old[i][2] <= tok[u] /\ tok[u] \in Int
          /\ tok[u] <= pos[u] /\ pos[u] \in Int
      BY <1>1, <1>4, <1>5, <1>15
    <2>2. tok[u] # End /\ pos[u] # End
      BY <2>1 DEF End
    <2>3. ASSUME NEW k \in Nat, old[i][2] <= k, k <= pos[u], Addressed(c, <<u, k>>)
          PROVE  Notified(c, u, k)'
      <3>1. CASE k <= tok[u]
        BY <1>8, <1>9, <1>15, <2>3, <3>1
      <3>2. CASE ~(k <= tok[u])
        <4>1. k \in (tok[u] + 1)..pos[u]
          BY <2>1, <2>3, <3>2
        <4>2. QED
          BY <1>5, <2>2, <2>3, <4>1
      <3>3. QED
        BY <3>1, <3>2
    <2>4. CASE u = t
      <3>1. n = pos[t] + 1 /\ token'[c][u] = n
        BY <1>6, <1>7, <2>2, <2>4
      <3>2. \A k \in old[i][2]..n : k \in Nat /\ old[i][2] <= k /\ (k <= pos[u] \/ k = n)
        BY <2>1, <2>4, <3>1
      <3>3. old[i][2] <= n
        BY <2>1, <2>4, <3>1
      <3>4. QED
        BY <1>9, <2>3, <2>4, <3>1, <3>2, <3>3
    <2>5. CASE u # t
      <3>1. token'[c][u] = pos[u]
        BY <1>7, <2>5
      <3>2. old[i][2] <= pos[u] /\ \A k \in old[i][2]..pos[u] : k \in Nat /\ old[i][2] <= k /\ k <= pos[u]
        BY <2>1
      <3>3. QED
        BY <2>3, <3>1, <3>2
    <2>6. QED
      BY <2>4, <2>5
  <1>16. TokenCovers(c)'
    <2> SUFFICES ASSUME NEW u \in Topics, NEW i \in 1..(m + 1), received'[c][i][1] = u
                 PROVE  /\ received'[c][i][2] <= token'[c][u]
                        /\ \A k \in received'[c][i][2]..token'[c][u] :
                              Addressed(c, <<u, k>>) => Notified(c, u, k)'
      BY <1>3, <1>10, <1>14 DEF TokenCovers
    <2>1. CASE i \in 1..m
      BY <1>3, <1>15, <2>1
    <2>2. CASE i = m + 1
      <3>1. u = t /\ received'[c][i][2] = n /\ token'[c][u] = n
        BY <1>3, <1>7, <2>2
      <3>2. \A k \in n..n : k = n
        BY <1>1
      <3>3. n <= n
        BY <1>1
      <3>4. QED
        BY <1>9, <3>1, <3>2, <3>3
    <2>3. QED
      BY <1>11, <2>1, <2>2
  <1>17. TokenFollows(c)'
    <2>1. ASSUME NEW u \in Topics
          PROVE  token'[c][u] = position'[c][u] /\ token'[c][u] \in Int
      <3>1. CASE u = t
        BY <1>1, <1>7, <3>1
      <3>2. CASE u # t
        BY <1>1, <1>7, <3>2
      <3>3. QED
        BY <3>1, <3>2
    <2>2. QED
      BY <2>1 DEF TokenFollows
  <1>18. QED
    BY <1>12, <1>13, <1>16, <1>17 DEF ClientInv

\* An event for others: the position moves on, the token stays.
LEMMA SkipInv ==
    ASSUME FInv, NEW c \in Clients, NEW t \in Topics, NEW n \in 1..LastId(t),
           Follows(position[c], t, n), Moves(c, t, n), Running(c), UNCHANGED stream,
           ~Addressed(c, <<t, n>>), UNCHANGED <<received, token>>
    PROVE  ClientInv(c)'
  <1> DEFINE pos == position[c]
             tok == token[c]
  <1>1. /\ \A u \in Topics : tok[u] \in Int /\ pos[u] \in Int /\ End <= tok[u] /\ tok[u] <= pos[u]
        /\ n \in Nat
    <2>1. TokenCovers(c) /\ TokenFollows(c) /\ \A u \in Topics : LastId(u) \in Nat
      BY DEF FInv, ClientInv, StreamTypes, LastId
    <2>2. QED
      BY <2>1 DEF FInv, FeedTypes, Readers, TokenCovers, TokenFollows
  <1>2. /\ position'[c][t] = n /\ \A u \in Topics \ {t} : position'[c][u] = pos[u]
    BY DEF Moves, FInv, FeedTypes, Readers
  <1>3. pos[t] < n /\ (pos[t] # End => n = pos[t] + 1)
    BY DEF Follows
  <1>4. ASSUME NEW u \in Topics, tok[u] # End, NEW k \in (tok[u] + 1)..pos[u]
        PROVE  ~Addressed(c, <<u, k>>)
    BY <1>4 DEF FInv, ClientInv, TokenFollows
  <1> HIDE DEF pos, tok
  <1>5. ASSUME NEW u \in Topics
        PROVE  /\ tok[u] <= position'[c][u]
               /\ tok[u] # End => \A k \in (tok[u] + 1)..position'[c][u] : ~Addressed(c, <<u, k>>)
    <2>1. CASE u = t
      <3>1. tok[t] < n
        BY <1>1, <1>3
      <3>2. ASSUME tok[t] # End, NEW k \in (tok[t] + 1)..n PROVE ~Addressed(c, <<t, k>>)
        <4>1. pos[t] # End
          BY <1>1, <3>2 DEF End
        <4>2. k = n \/ k \in (tok[t] + 1)..pos[t]
          BY <1>1, <1>3, <4>1
        <4>3. QED
          BY <1>4, <3>2, <4>2
      <3>3. QED
        BY <1>1, <1>2, <2>1, <3>1, <3>2
    <2>2. CASE u # t
      BY <1>1, <1>2, <1>4, <2>2
    <2>3. QED
      BY <2>1, <2>2
  <1>6. TokenFollows(c)'
    BY <1>5 DEF TokenFollows, Addressed, tok
  <1>7. TokenCovers(c)' /\ InOrder(received[c])' /\ Published(received[c])'
    BY DEF FInv, ClientInv, TokenCovers, Published, InOrder, LastId, Addressed, Notified
  <1>8. QED
    BY <1>6, <1>7 DEF ClientInv

\* A message that is sent takes its token along; one for others only moves the position.
LEMMA SendInv == ASSUME FInv, NEW c \in Clients, Send(c) PROVE FInv'
  <1>1. Advance(c) /\ UNCHANGED <<stream, from, relayed>>
    BY DEF Send
  <1>2. c \in Readers /\ c \notin Workers /\ Running(c)
    BY FeedAssumption DEF Readers, Send, Advance, Running
  <1>3. PICK t \in Topics, n \in Nat :
           /\ Head(queue[c]) = <<t, n>> /\ n \in 1..LastId(t)
           /\ Follows(position[c], t, n) /\ Moves(c, t, n) /\ ReaderInv(c)'
    BY <1>1, <1>2, AdvanceMoves
  <1>4. /\ mode' \in [Readers -> {"off", "calling", "waiting", "sending", "dead"}]
        /\ position' \in [Readers -> [Topics -> Int]] /\ from' \in [Readers -> [Topics -> Int]]
        /\ queue' \in [Readers -> Seq(Topics \X Nat)]
        /\ \A x \in Readers \ {c} : /\ mode'[x] = mode[x] /\ position'[x] = position[x]
                                    /\ from'[x] = from[x] /\ queue'[x] = queue[x]
    BY <1>1, <1>2, AdvanceTypes
  <1>5. position'[c] \in [Topics -> Int] /\ <<t, n>> \in Topics \X Nat
    BY <1>2, <1>4
  <1>6. CASE Addressed(c, <<t, n>>)
    <2>1. /\ received' = [received EXCEPT ![c] = Append(@, <<t, n>>)]
          /\ token' = [token EXCEPT ![c] = position'[c]]
      BY <1>3, <1>6 DEF Send
    <2>2. /\ received' \in [Clients -> Seq(Topics \X Nat)]
          /\ token' \in [Clients -> [Topics -> Int]]
          /\ received'[c] = Append(received[c], <<t, n>>) /\ token'[c] = position'[c]
          /\ \A x \in Clients \ {c} : received'[x] = received[x] /\ token'[x] = token[x]
      BY <1>5, <2>1 DEF FInv, FeedTypes
    <2>3. ClientInv(c)'
      BY <1>1, <1>2, <1>3, <2>2, MessageInv
    <2>4. FeedTypes' /\ Alone(c)
      BY <1>1, <1>2, <1>4, <2>2 DEF FInv, FeedTypes, Alone
    <2>5. QED
      BY <1>1, <1>2, <1>3, <2>3, <2>4, RelayedStays, AloneInv
  <1>7. CASE ~Addressed(c, <<t, n>>)
    <2>1. UNCHANGED <<received, token>>
      BY <1>3, <1>7 DEF Send
    <2>2. ClientInv(c)'
      BY <1>1, <1>2, <1>3, <1>7, <2>1, SkipInv
    <2>3. FeedTypes' /\ Alone(c)
      BY <1>1, <1>2, <1>4, <2>1 DEF FInv, FeedTypes, Alone
    <2>4. QED
      BY <1>1, <1>2, <1>3, <2>2, <2>3, RelayedStays, AloneInv
  <1>8. QED
    BY <1>6, <1>7

-----------------------------------------------------------------------------
(* _pump_events_to_relays                                                  *)

\* The worker is at the end of every stream, whatever it left behind.
LEMMA AtEndInv ==
    ASSUME FInv, NEW w \in Workers, NEW m \in {"calling", "dead"}, SetMode(w, m),
           position' = [position EXCEPT ![w] = AtEnd],
           UNCHANGED <<stream, token, received, relayed>>, FeedTypes',
           \A x \in Readers \ {w} : from'[x] = from[x] /\ queue'[x] = queue[x]
    PROVE  FInv'
  <1>1. w \in Readers /\ w \notin Clients
    BY FeedAssumption DEF Readers
  <1>2. mode'[w] = m /\ position'[w] = AtEnd /\ Alone(w)
    BY <1>1 DEF FInv, FeedTypes, SetMode, Alone
  <1>3. ReaderInv(w)'
    <2>1. \A t \in Topics : End <= AtEnd[t] /\ AtEnd[t] <= LastId(t)'
      BY <1>1, ReaderTypes DEF AtEnd, End, LastId
    <2>2. QED
      BY <1>2, <2>1 DEF ReaderInv
  <1>4. ASSUME NEW x \in Relays PROVE RelayInv(w, x)'
    <2>1. \A i \in DOMAIN relayed[x] : relayed[x][i][1] \in Topics
      BY DEF FInv, FeedTypes
    <2>2. \A i \in DOMAIN relayed[x] : AtEnd[relayed[x][i][1]] = End
      BY <2>1 DEF AtEnd
    <2>3. QED
      BY <1>2, <2>2 DEF RelayInv
  <1>5. QED
    BY <1>1, <1>2, <1>3, <1>4, RelayedStays, AloneInv

\* A pump that starts begins at the ends of the streams.
LEMMA StartWorkerInv == ASSUME FInv, NEW w \in Workers, StartWorker(w) PROVE FInv'
  <1>1. w \in Readers /\ AtEnd \in [Topics -> Int]
    BY DEF Readers, AtEnd, End
  <1>2. FeedTypes'
    BY <1>1 DEF StartWorker, SetMode, FInv, FeedTypes
  <1>3. QED
    BY <1>2, AtEndInv DEF StartWorker

\* A pump that dies forgets where it was.
LEMMA WorkerDiesInv == ASSUME FInv, NEW w \in Workers, WorkerDies(w) PROVE FInv'
  <1>1. w \in Readers /\ AtEnd \in [Topics -> Int] /\ <<>> \in Seq(Topics \X Nat)
    BY DEF Readers, AtEnd, End
  <1>2. FeedTypes' /\ \A x \in Readers \ {w} : from'[x] = from[x] /\ queue'[x] = queue[x]
    BY <1>1 DEF WorkerDies, SetMode, FInv, FeedTypes
  <1>3. QED
    BY <1>2, AtEndInv DEF WorkerDies

\* The pump moves on and publishes: a relay gets an event it has not had, or none.
LEMMA RelayStepInv == ASSUME FInv, NEW w \in Workers, Relay(w) PROVE FInv'
  <1>1. Advance(w) /\ UNCHANGED <<stream, from, token, received>> /\ mode[w] = "sending"
    BY DEF Relay, Advance
  <1>2. w \in Readers /\ w \notin Clients
    BY FeedAssumption DEF Readers
  <1>3. PICK t \in Topics, n \in Nat :
           /\ Head(queue[w]) = <<t, n>> /\ n \in 1..LastId(t)
           /\ \E i \in DOMAIN queue[w] : queue[w][i] = <<t, n>>
           /\ Follows(position[w], t, n) /\ Moves(w, t, n) /\ ReaderInv(w)'
    BY <1>1, <1>2, AdvanceMoves
  <1>4. /\ mode' \in [Readers -> {"off", "calling", "waiting", "sending", "dead"}]
        /\ position' \in [Readers -> [Topics -> Int]] /\ from' \in [Readers -> [Topics -> Int]]
        /\ queue' \in [Readers -> Seq(Topics \X Nat)]
        /\ \A x \in Readers \ {w} : /\ mode'[x] = mode[x] /\ position'[x] = position[x]
                                    /\ from'[x] = from[x] /\ queue'[x] = queue[x]
    BY <1>1, <1>2, AdvanceTypes
  <1>5. \A x \in Relays : relayed'[x] = relayed[x] \/ relayed'[x] = Append(relayed[x], <<t, n>>)
    BY <1>3 DEF Relay
  <1>6. ASSUME NEW x \in Relays
        PROVE  /\ relayed'[x] \in Seq(Topics \X Nat)
               /\ \A i \in DOMAIN relayed'[x] :
                     \/ relayed'[x][i] = <<t, n>> /\ \A j \in DOMAIN relayed'[x] : j <= i
                     \/ i \in DOMAIN relayed[x] /\ relayed'[x][i] = relayed[x][i]
    <2>1. relayed[x] \in Seq(Topics \X Nat) /\ <<t, n>> \in Topics \X Nat
      BY DEF FInv, FeedTypes
    <2>2. Len(relayed[x]) \in Nat /\ DOMAIN relayed[x] = 1..Len(relayed[x])
      BY <2>1
    <2>3. CASE relayed'[x] = relayed[x]
      BY <2>1, <2>3
    <2>4. CASE relayed'[x] = Append(relayed[x], <<t, n>>)
      <3>1. /\ relayed'[x] \in Seq(Topics \X Nat) /\ DOMAIN relayed'[x] = 1..(Len(relayed[x]) + 1)
            /\ relayed'[x][Len(relayed[x]) + 1] = <<t, n>>
            /\ \A i \in 1..Len(relayed[x]) : relayed'[x][i] = relayed[x][i]
        BY <2>1, <2>4
      <3>2. \A i \in 1..(Len(relayed[x]) + 1) : i = Len(relayed[x]) + 1 \/ i \in 1..Len(relayed[x])
        BY <2>2
      <3>3. \A j \in 1..(Len(relayed[x]) + 1) : j <= Len(relayed[x]) + 1
        BY <2>2
      <3>4. QED
        BY <2>2, <3>1, <3>2, <3>3
    <2>5. QED
      BY <1>5, <2>3, <2>4
  <1>7. ASSUME NEW x \in Relays, NEW i \in DOMAIN relayed[x]
        PROVE  /\ relayed[x][i][1] \in Topics /\ relayed[x][i][2] \in Nat
               /\ relayed[x][i][2] \in 1..LastId(relayed[x][i][1])
               /\ \A j \in DOMAIN queue[w] : queue[w][j][1] = relayed[x][i][1] =>
                     relayed[x][i][2] < queue[w][j][2]
               /\ relayed[x][i][1] = t => relayed[x][i][2] < n
               /\ \/ position[w][relayed[x][i][1]] = End
                  \/ relayed[x][i][2] <= position[w][relayed[x][i][1]]
    <2>1. /\ relayed[x][i][1] \in Topics /\ relayed[x][i][2] \in Nat
          /\ relayed[x][i][2] \in 1..LastId(relayed[x][i][1])
      BY DEF FInv, FeedTypes, Published
    <2>2. RelayInv(w, x)
      BY DEF FInv
    <2>3. \A j \in DOMAIN queue[w] : queue[w][j][1] = relayed[x][i][1] =>
             relayed[x][i][2] < queue[w][j][2]
      BY <1>1, <2>2 DEF RelayInv
    <2>4. \/ position[w][relayed[x][i][1]] = End
          \/ relayed[x][i][2] <= position[w][relayed[x][i][1]]
      BY <1>1, <2>2 DEF RelayInv, Running
    <2>5. relayed[x][i][1] = t => relayed[x][i][2] < n
      <3>1. PICK j \in DOMAIN queue[w] : queue[w][j] = <<t, n>>
        BY <1>3
      <3>2. queue[w][j][1] = t /\ queue[w][j][2] = n
        BY <3>1
      <3>3. QED
        BY <2>3, <3>2
    <2>6. QED
      BY <2>1, <2>3, <2>4, <2>5
  <1>8. ASSUME NEW x \in Relays PROVE InOrder(relayed'[x]) /\ Published(relayed[x])'
    <2>1. ASSUME NEW i \in DOMAIN relayed'[x], NEW j \in DOMAIN relayed'[x], i < j,
                 relayed'[x][i][1] = relayed'[x][j][1]
          PROVE  relayed'[x][i][2] < relayed'[x][j][2]
      <3>1. i \in Nat /\ j \in Nat /\ ~(j <= i)
        BY <1>6, <2>1
      <3>2. i \in DOMAIN relayed[x] /\ relayed'[x][i] = relayed[x][i]
        BY <1>6, <3>1
      <3>3. CASE relayed'[x][j] = <<t, n>>
        BY <1>7, <2>1, <3>2, <3>3
      <3>4. CASE j \in DOMAIN relayed[x] /\ relayed'[x][j] = relayed[x][j]
        <4>1. InOrder(relayed[x])
          BY DEF FInv
        <4>2. QED
          BY <2>1, <3>2, <3>4, <4>1 DEF InOrder
      <3>5. QED
        BY <1>6, <3>3, <3>4
    <2>2. \A u \in Topics : LastId(u)' = LastId(u)
      BY <1>1 DEF LastId
    <2>3. ASSUME NEW i \in DOMAIN relayed'[x]
          PROVE  (relayed[x][i][2] \in 1..LastId(relayed[x][i][1]))'
      <3> USE DEF LastId
      <3>1. CASE relayed'[x][i] = <<t, n>>
        BY <1>1, <1>3, <3>1
      <3>2. CASE i \in DOMAIN relayed[x] /\ relayed'[x][i] = relayed[x][i]
        BY <1>1, <1>7, <3>2
      <3>3. QED
        BY <1>6, <3>1, <3>2
    <2>4. QED
      BY <2>1, <2>3 DEF InOrder, Published
  <1>9. /\ position'[w][t] = n /\ \A u \in Topics \ {t} : position'[w][u] = position[w][u]
    BY <1>2, <1>3 DEF Moves, FInv, FeedTypes
  <1>10. ASSUME NEW x \in Relays PROVE RelayInv(w, x)'
    <2> SUFFICES ASSUME NEW i \in DOMAIN relayed'[x]
                 PROVE  LET u == relayed'[x][i][1]
                            k == relayed'[x][i][2]
                        IN  /\ position'[w][u] = End \/ k <= position'[w][u]
                            /\ \A j \in DOMAIN queue'[w] : queue'[w][j][1] = u => k < queue'[w][j][2]
      BY <1>3 DEF RelayInv, Moves
    <2>1. CASE relayed'[x][i] = <<t, n>>
      BY <1>3, <1>9, <2>1 DEF Moves
    <2>2. CASE i \in DOMAIN relayed[x] /\ relayed'[x][i] = relayed[x][i]
      <3> DEFINE u == relayed[x][i][1]
                 k == relayed[x][i][2]
      <3>1. position'[w][u] = End \/ k <= position'[w][u]
        <4>1. CASE u = t
          BY <1>7, <1>9, <2>2, <4>1
        <4>2. CASE u # t
          BY <1>7, <1>9, <2>2, <4>2
        <4>3. QED
          BY <4>1, <4>2
      <3>2. \A j \in DOMAIN queue'[w] : queue'[w][j][1] = u => k < queue'[w][j][2]
        <4>1. ASSUME NEW j \in DOMAIN queue'[w], queue'[w][j][1] = u PROVE k < queue'[w][j][2]
          <5>1. PICK l \in DOMAIN queue[w] : queue'[w][j] = queue[w][l]
            BY <1>3 DEF Moves
          <5>2. QED
            BY <1>7, <2>2, <4>1, <5>1
        <4>2. QED
          BY <4>1
      <3>3. QED
        BY <2>2, <3>1, <3>2
    <2>3. QED
      BY <1>6, <2>1, <2>2
  <1>11. FeedTypes' /\ Alone(w)
    <2>1. relayed' \in [Relays -> Seq(Topics \X Nat)]
      <3>1. DOMAIN relayed' = Relays /\ relayed' = [x \in Relays |-> relayed'[x]]
        BY DEF Relay
      <3>2. QED
        BY <1>6, <3>1
    <2>2. QED
      BY <1>1, <1>2, <1>4, <2>1 DEF FInv, FeedTypes, Alone
  <1>12. QED
    BY <1>1, <1>2, <1>3, <1>8, <1>10, <1>11, AloneInv

-----------------------------------------------------------------------------
(* The streams and their readers together.                                 *)

\* At the start the streams are empty and nobody reads them.
LEMMA FeedInitInv == StreamInit /\ FeedInit => FInv
  <1> SUFFICES ASSUME StreamInit, FeedInit PROVE FInv
    OBVIOUS
  <1>1. AtEnd \in [Topics -> Int] /\ <<>> \in Seq(Topics \X Nat) /\ <<>> \in Seq(Events)
        /\ Len(<<>>) = 0 /\ \A t \in Topics : AtEnd[t] = End
    BY DEF AtEnd, End
  <1>2. \A t \in Topics : LastId(t) = 0
    BY DEF StreamInit, LastId
  <1>3. StreamTypes
    BY <1>1, <1>2, StreamAssumption DEF StreamInit, StreamTypes
  <1>4. FeedTypes
    BY <1>1 DEF FeedInit, FeedTypes
  <1>5. \A r \in Readers : ReaderInv(r)
    BY <1>1, <1>2 DEF FeedInit, ReaderInv, End
  <1>6. \A c \in Clients : ClientInv(c)
    <2>1. ASSUME NEW c \in Clients PROVE ClientInv(c)
      <3>1. received[c] = <<>> /\ token[c] = AtEnd /\ ~Running(c)
        BY FeedAssumption DEF FeedInit, Running, Readers
      <3>2. InOrder(received[c]) /\ Published(received[c])
        BY <3>1 DEF InOrder, Published
      <3>3. TokenCovers(c)
        BY <1>1, <1>2, <3>1 DEF TokenCovers, End
      <3>4. QED
        BY <3>1, <3>2, <3>3 DEF ClientInv
    <2>2. QED
      BY <2>1
  <1>7. \A r \in Relays : InOrder(relayed[r]) /\ Published(relayed[r])
    BY DEF FeedInit, InOrder, Published
  <1>8. \A w \in Workers, r \in Relays : RelayInv(w, r)
    BY DEF FeedInit, RelayInv
  <1>9. QED
    BY <1>3, <1>4, <1>5, <1>6, <1>7, <1>8 DEF FInv

\* Every step of a reader, a client or the pump keeps the invariant of the feeds.
LEMMA FeedNextInv == FInv /\ FeedNext => FInv'
  BY CallInv, ReturnInv, TimeoutInv, ConnectInv, SendInv, DisconnectInv, StartWorkerInv,
     RelayStepInv, WorkerDiesInv DEF FeedNext, Listen, NotificationStream, PumpEventsToRelays

\* What the tokenization service does to the streams.
LEMMA AssetStepGrows ==
    ASSUME StreamTypes, AssetNext
    PROVE  Grows
  <1>1. ASSUME NEW p \in AssetRequests, NEW topic \in Topics, NEW s, Announce(p, topic, s)
        PROVE  Grows
    <2> DEFINE event == [asset |-> Asset(p), audience |-> {OwnerOf[Asset(p)]}]
    <2>1. Asset(p) \in Assets
      BY AssetAssumption DEF Asset
    <2>2. event \in Events
      BY <2>1 DEF Events
    <2>3. Publish(topic, event)
      BY <1>1 DEF Announce
    <2> HIDE DEF event
    <2>4. QED
      BY <2>2, <2>3, PublishGrows
  <1>2. ASSUME NEW p \in AssetRequests,
               SubmitAsset(p) \/ RequestAssetEvaluation(p) \/ RunAssetEvaluation(p) \/ TokenizeAsset(p)
        PROVE  Grows
    <2>1. UNCHANGED stream \/ \E topic \in Topics : \E s : Announce(p, topic, s)
      BY <1>2, AssetAssumption
         DEF SubmitAsset, CreateAsset, PublishAssetCreated, RequestAssetEvaluation, EvaluateRead,
             BeginAssetEvaluation, DispatchAssetEvaluation, RunAssetEvaluation, Evaluate,
             CompleteAssetEvaluation, PublishEvaluationComplete, TaskFails, ResetAssetEvaluation,
             ResetFails, TokenizeAsset, TokenizeRead, Issue, CreateAssetToken, PublishTokenMinted
    <2>2. QED
      BY <1>1, <2>1, StreamStutter
  <1>3. Crash => Grows
    BY StreamStutter DEF Crash
  <1>4. QED
    BY <1>2, <1>3 DEF AssetNext

\* What the marketplace publishes goes to the end of its stream.
LEMMA MarketplaceGrows ==
    ASSUME StreamTypes, NEW topic \in MarketTopics, MarketplacePublishes(topic)
    PROVE  Grows
  <1>1. PICK who \in SUBSET Clients :
           Publish(topic, [asset |-> CHOOSE a \in Assets : TRUE, audience |-> who])
    BY DEF MarketplacePublishes
  <1> DEFINE event == [asset |-> CHOOSE a \in Assets : TRUE, audience |-> who]
  <1>2. event \in Events /\ topic \in Topics
    BY WorkloadAssumption DEF Events
  <1>3. Publish(topic, event)
    BY <1>1
  <1> HIDE DEF event
  <1>4. QED
    BY <1>2, <1>3, PublishGrows

\* Every reader is where its position, its answer and its messages say, whatever is lost.
THEOREM FeedsInv == Spec => []FInv
  <1>1. Init => FInv
    BY FeedInitInv DEF Init
  <1>2. FInv /\ [Next]_vars => FInv'
    <2> SUFFICES ASSUME FInv, [Next]_vars PROVE FInv'
      OBVIOUS
    <2>1. StreamTypes
      BY DEF FInv
    <2>2. CASE AssetNext /\ UNCHANGED feedVars
      BY <2>1, <2>2, AssetStepGrows, ProducersInv
    <2>3. CASE FeedNext
      BY <2>3, FeedNextInv
    <2>4. CASE \E topic \in MarketTopics : MarketplacePublishes(topic)
      BY <2>1, <2>4, MarketplaceGrows, ProducersInv DEF MarketplacePublishes
    <2>5. CASE UNCHANGED vars
      BY <2>1, <2>5, StreamStutter, ProducersInv DEF vars
    <2>6. QED
      BY <2>2, <2>3, <2>4, <2>5 DEF Next
  <1>3. QED
    BY <1>1, <1>2, PTL DEF Spec

\* A client gets the events of a topic once, in order and, from the first one on, all of them.
THEOREM CompleteNotifications == Spec => []NotificationsAreComplete
  <1>1. FInv => NotificationsAreComplete
    BY FeedAssumption DEF FInv, ClientInv, TokenCovers, NotificationsAreComplete
  <1>2. QED
    BY <1>1, FeedsInv, PTL

\* A relay gets no event twice and none late, over restarts and failed sends.
THEOREM RelayedOnce == Spec => []RelaysGetEventsOnce
  <1>1. FInv => RelaysGetEventsOnce
    BY DEF FInv, RelaysGetEventsOnce
  <1>2. QED
    BY <1>1, FeedsInv, PTL

\* Rows, results, issuances, streams and positions keep their ranges.
THEOREM AssetFeedsTypes == Spec => []TypeOK
  <1>1. ASSUME AInv, NEW a \in Assets
        PROVE  result[a].score \in 0..MaxScore /\ result[a].roi \in 0..MaxRoi
    <2>1. CASE result[a] = NoResult
      BY <2>1 DEF NoResult, MaxScore, MaxRoi
    <2>2. CASE result[a] # NoResult
      <3>1. submitted[a] \in SubmissionType
        BY <1>1, AssetAssumption DEF AInv, AssetTypes
      <3>2. result[a] = EvaluateAssetSubmission(submitted[a])
        BY <1>1, <2>2 DEF AInv, ResultInv
      <3>3. \A s : /\ EvaluateAssetSubmission(s).score = Score(s)
                   /\ EvaluateAssetSubmission(s).roi = ProjectedRoi(s)
        BY DEF EvaluateAssetSubmission
      <3>4. QED
        BY <3>1, <3>2, <3>3, ResultIsBounded
    <2>3. QED
      BY <2>1, <2>2
  <1>2. ASSUME FInv, NEW r \in Readers, NEW t \in Topics
        PROVE  position[r][t] \in {End} \cup 0..LastId(t)
    BY <1>2, ReaderTypes DEF End
  <1>3. AInv /\ FInv => TypeOK
    BY <1>1, <1>2 DEF AInv, AssetTypes, FInv, StreamTypes, TypeOK
  <1>4. QED
    BY <1>3, AssetsInv, FeedsInv, PTL
=============================================================================
