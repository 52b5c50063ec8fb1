----------------------------- MODULE MCAssetFeeds -----------------------------
(* Small instances of AssetFeeds.                                              *)
EXTENDS AssetFeeds, TLC

SubmitOf == "s1" :> "villa" @@ "s2" :> "mine"
EvaluateOf == [p \in {"e1", "e2", "e3"} |-> "villa"] @@ "e4" :> "mine"
TokenizeOf == [p \in {"t1", "t2"} |-> "villa"]
RequestedAsset == SubmitOf @@ EvaluateOf @@ TokenizeOf
Owners == [a \in {"villa", "mine"} |-> "ana"]

\* The socket gets all there is, the Nostr service one event of a topic at a time.
Counts == "ana" :> 2 @@ "nostr" :> 1

Submission(c, d, w, p, n, v) ==
    [category |-> c, documented |-> d, words |-> w, title |-> 18, positive |-> p, negative |-> n,
     valuation |-> v]

\* Approved in two brackets of valuation, and rejected for its keywords.
SomeSubmissions ==
    {Submission("invoice", TRUE, 8, 0, 0, 200), Submission("invoice", TRUE, 8, 0, 0, 600),
     Submission("other", TRUE, 30, 0, 4, 25)}

SomeWorkloads ==
    {{"s1", "e1", "e2", "e3"}, {"s1", "e1", "e2", "t1"}, {"s1", "e1", "t1", "t2"},
     {"s1", "s2", "e1", "e4"}, {"ana", "trade.matched", "escrow.released"},
     {"nostr", "s1", "trade.matched", "asset.created"}, 
     {"s1", "e1", "t1", "ana", "asset.created", "ai.evaluation.complete", "token.minted"}}
=============================================================================
