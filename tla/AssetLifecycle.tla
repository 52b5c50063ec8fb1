---------------------------- MODULE AssetLifecycle ----------------------------
(***************************************************************************)
(* The tokenization service: assets are submitted, evaluated by a task in  *)
(* the process that took the request, and tokenized on Liquid.             *)
(*                                                                         *)
(* The status column is the lock: each UPDATE is guarded by the status it  *)
(* starts from.  Requests and tasks lose control at every statement, every *)
(* RPC call and every alert.                                               *)
(***************************************************************************)
EXTENDS EventStreams, AssetScoring

CONSTANTS
    Assets,
    Submits, Evaluates, Tokenizes,   \* HTTP requests, each used once
    AssetOf,         \* the asset of each; others than its owner are refused
    OwnerOf,         \* assets.owner_id
    Submissions      \* what owners submit

AssetRequests == Submits \cup Evaluates \cup Tokenizes

ASSUME AssetAssumption ==
    /\ AssetOf \in [AssetRequests -> Assets]
    /\ Submissions # {} /\ Submissions \subseteq SubmissionType
    /\ "asset.created" \in Topics /\ "ai.evaluation.complete" \in Topics
    /\ "token.minted" \in Topics

VARIABLES
    status,     \* assets.status, "none" without a row
    submitted,  \* the other columns of the row
    result,     \* ai_score, ai_analysis, projected_roi
    tokens,     \* tokens and token_balances rows: [asset, liquid]
    issued,     \* asset ids Liquid has issued, named after the request
    stage,      \* where each request, and then its task, is
    fallback,   \* the status an evaluation goes back to
    abandoned,  \* history: assets whose evaluation nobody works on any more
    misjudged   \* history: assets with a completion taken for a failure

table == <<status, submitted, result, tokens>>
assetVars == <<table, issued, stage, fallback, abandoned, misjudged>>

Statuses == {"none", "pending", "evaluating", "approved", "rejected", "tokenized"}
EvaluableStatuses == {"pending", "approved", "rejected"}
NoResult == [score |-> 0, roi |-> 0, status |-> "none", risk |-> "none", timing |-> "none"]
Ended == {"idle", "answered", "refused", "failed", "crashed", "orphaned", "dropped"}
TaskStages == {"task", "persist", "announce", "reset"}

AssetInit ==
    /\ status = [a \in Assets |-> "none"]
    /\ submitted = [a \in Assets |-> CHOOSE s \in Submissions : TRUE]
    /\ result = [a \in Assets |-> NoResult]
    /\ tokens = {} /\ issued = {} /\ abandoned = {} /\ misjudged = {}
    /\ stage = [p \in AssetRequests |-> "idle"]
    /\ fallback = [p \in AssetRequests |-> "none"]

Goto(p, s) == stage' = [stage EXCEPT ![p] = s]
Begins(p) == p \in active /\ stage[p] = "idle"
Asset(p) == AssetOf[p]
SetStatus(a, s) == status' = [status EXCEPT ![a] = s]

-----------------------------------------------------------------------------
(* submit_asset                                                            *)

CreateAsset(p) ==
    /\ p \in Submits /\ Begins(p) /\ status[Asset(p)] = "none"
    /\ SetStatus(Asset(p), "pending")
    /\ \E s \in Submissions : submitted' = [submitted EXCEPT ![Asset(p)] = s]
    /\ Goto(p, "announce")
    /\ UNCHANGED <<active, stream, result, tokens, issued, fallback, abandoned, misjudged>>

\* The owner is the audience.
Announce(p, topic, s) ==
    /\ stage[p] = s
    /\ Publish(topic, [asset |-> Asset(p), audience |-> {OwnerOf[Asset(p)]}])
    /\ Goto(p, "answered")
    /\ UNCHANGED <<active, table, issued, fallback, abandoned, misjudged>>

PublishAssetCreated(p) == p \in Submits /\ Announce(p, "asset.created", "announce")

-----------------------------------------------------------------------------
(* request_asset_evaluation                                                *)

EvaluateRead(p) ==
    /\ p \in Evaluates /\ Begins(p) /\ status[Asset(p)] # "none"
    /\ \/ status[Asset(p)] \in {"evaluating", "tokenized"} /\ Goto(p, "refused") /\ UNCHANGED fallback
       \/ /\ status[Asset(p)] \in EvaluableStatuses
          /\ fallback' = [fallback EXCEPT ![p] = status[Asset(p)]]
          /\ Goto(p, "begin")
    /\ UNCHANGED <<active, stream, table, issued, abandoned, misjudged>>

\* Mutant: the UPDATE trusts what the request has read.
BeginAnyStatus(p) ==
    /\ p \in Evaluates /\ stage[p] = "begin"
    /\ SetStatus(Asset(p), "evaluating")
    /\ Goto(p, "dispatch")
    /\ UNCHANGED <<active, stream, submitted, result, tokens, issued, fallback, abandoned, misjudged>>

\* begin_asset_evaluation; the answer of its commit may be lost, or the process die after it.
BeginAssetEvaluation(p) ==
    /\ p \in Evaluates /\ stage[p] = "begin"
    /\ \/ /\ status[Asset(p)] \in EvaluableStatuses
          /\ SetStatus(Asset(p), "evaluating")
          /\ \/ Goto(p, "dispatch") /\ UNCHANGED abandoned
             \/ Goto(p, "failed") /\ abandoned' = abandoned \cup {Asset(p)}
       \/ /\ status[Asset(p)] \notin EvaluableStatuses
          /\ Goto(p, "refused") /\ UNCHANGED <<status, abandoned>>
    /\ UNCHANGED <<active, stream, submitted, result, tokens, issued, fallback, misjudged>>

\* create_task, or a RuntimeError.
DispatchAssetEvaluation(p) ==
    /\ p \in Evaluates /\ stage[p] = "dispatch"
    /\ (Goto(p, "task") \/ Goto(p, "reset"))
    /\ UNCHANGED <<active, stream, table, issued, fallback, abandoned, misjudged>>

-----------------------------------------------------------------------------
(* _run_asset_evaluation                                                   *)

\* The row is read and scored.
Evaluate(p) ==
    /\ p \in Evaluates /\ stage[p] = "task" /\ Goto(p, "persist")
    /\ UNCHANGED <<active, stream, table, issued, fallback, abandoned, misjudged>>

\* complete_asset_evaluation; its commit may be lost on the way back.
CompleteAssetEvaluation(p) ==
    /\ p \in Evaluates /\ stage[p] = "persist"
    /\ \/ /\ status[Asset(p)] = "evaluating"
          /\ LET r == EvaluateAssetSubmission(submitted[Asset(p)])
             IN  result' = [result EXCEPT ![Asset(p)] = r] /\ SetStatus(Asset(p), r.status)
          /\ \/ Goto(p, "announce") /\ UNCHANGED misjudged
             \/ Goto(p, "reset") /\ misjudged' = misjudged \cup {Asset(p)}
       \/ /\ status[Asset(p)] # "evaluating"
          /\ Goto(p, "dropped") /\ UNCHANGED <<status, result, misjudged>>
    /\ UNCHANGED <<active, stream, submitted, tokens, issued, fallback, abandoned>>

PublishEvaluationComplete(p) ==
    p \in Evaluates /\ Announce(p, "ai.evaluation.complete", "announce")

\* Any exception before the commit: the alert is sent, then the status set back.
TaskFails(p) ==
    /\ p \in Evaluates /\ stage[p] \in {"task", "persist"}
    /\ Goto(p, "reset")
    /\ UNCHANGED <<active, stream, table, issued, fallback, abandoned, misjudged>>

\* Mutant: the alert is all that happens.
AlertOnly(p) ==
    /\ p \in Evaluates /\ stage[p] = "reset" /\ Goto(p, "failed")
    /\ UNCHANGED <<active, stream, table, issued, fallback, abandoned, misjudged>>

\* reset_asset_evaluation: the asset may be in another evaluation by now, or in none.
ResetAssetEvaluation(p) ==
    /\ p \in Evaluates /\ stage[p] = "reset"
    /\ \/ status[Asset(p)] = "evaluating" /\ SetStatus(Asset(p), fallback[p])
       \/ status[Asset(p)] # "evaluating" /\ UNCHANGED status
    /\ Goto(p, "failed")
    /\ UNCHANGED <<active, stream, submitted, result, tokens, issued, fallback, abandoned, misjudged>>

\* The reset raises, too.
ResetFails(p) ==
    /\ p \in Evaluates /\ stage[p] = "reset" /\ Goto(p, "failed")
    /\ abandoned' = abandoned \cup {Asset(p)}
    /\ UNCHANGED <<active, stream, table, issued, fallback, misjudged>>

-----------------------------------------------------------------------------
(* tokenize_asset                                                          *)

TokenizeRead(p) ==
    /\ p \in Tokenizes /\ Begins(p) /\ status[Asset(p)] # "none"
    /\ Goto(p, IF status[Asset(p)] = "approved" /\ ~\E row \in tokens : row.asset = Asset(p)
               THEN "issue" ELSE "refused")
    /\ UNCHANGED <<active, stream, table, issued, fallback, abandoned, misjudged>>

\* issueasset, its lookup, and the check of the asset id; any of them may fail.
Issue(p) ==
    /\ p \in Tokenizes /\ stage[p] = "issue"
    /\ \/ issued' = issued \cup {p} /\ (Goto(p, "record") \/ Goto(p, "failed"))
       \/ UNCHANGED issued /\ Goto(p, "failed")
    /\ UNCHANGED <<active, stream, table, fallback, abandoned, misjudged>>

\* Mutant: the UPDATE does not look at the status.
CreateTokenAnyStatus(p) ==
    /\ p \in Tokenizes /\ stage[p] = "record"
    /\ SetStatus(Asset(p), "tokenized")
    /\ tokens' = tokens \cup {[asset |-> Asset(p), liquid |-> p]}
    /\ Goto(p, "announce")
    /\ UNCHANGED <<active, stream, submitted, result, issued, fallback, abandoned, misjudged>>

\* create_asset_token; an asset that changed meanwhile leaves an issuance nobody holds, and an alert.
CreateAssetToken(p) ==
    /\ p \in Tokenizes /\ stage[p] = "record"
    /\ \/ /\ status[Asset(p)] = "approved"
          /\ SetStatus(Asset(p), "tokenized")
          /\ tokens' = tokens \cup {[asset |-> Asset(p), liquid |-> p]}
          /\ Goto(p, "announce")
       \/ /\ status[Asset(p)] # "approved"
          /\ Goto(p, "orphaned") /\ UNCHANGED <<status, tokens>>
    /\ UNCHANGED <<active, stream, submitted, result, issued, fallback, abandoned, misjudged>>

PublishTokenMinted(p) == p \in Tokenizes /\ Announce(p, "token.minted", "announce")

\* The process restarts: its requests and background tasks are gone.
Crash ==
    /\ \E p \in AssetRequests : stage[p] \notin Ended
    /\ stage' = [p \in AssetRequests |-> IF stage[p] \in Ended THEN stage[p] ELSE "crashed"]
    /\ abandoned' = abandoned \cup
          {Asset(p) : p \in {q \in Evaluates : stage[q] \notin Ended /\ status[Asset(q)] = "evaluating"}}
    /\ UNCHANGED <<active, stream, table, issued, fallback, misjudged>>

SubmitAsset(p) == CreateAsset(p) \/ PublishAssetCreated(p)

RunAssetEvaluation(p) ==
    \/ Evaluate(p) \/ CompleteAssetEvaluation(p) \/ PublishEvaluationComplete(p)
    \/ TaskFails(p) \/ ResetAssetEvaluation(p) \/ ResetFails(p)

RequestAssetEvaluation(p) ==
    EvaluateRead(p) \/ BeginAssetEvaluation(p) \/ DispatchAssetEvaluation(p)

TokenizeAsset(p) ==
    TokenizeRead(p) \/ Issue(p) \/ CreateAssetToken(p) \/ PublishTokenMinted(p)

AssetNext ==
    \/ \E p \in AssetRequests :
          SubmitAsset(p) \/ RequestAssetEvaluation(p) \/ RunAssetEvaluation(p) \/ TokenizeAsset(p)
    \/ Crash
=============================================================================
