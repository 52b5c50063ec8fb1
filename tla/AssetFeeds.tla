------------------------------ MODULE AssetFeeds ------------------------------
(***************************************************************************)
(* The tokenization service and the readers of its events, over the same   *)
(* streams, with the marketplace as the other producer.                    *)
(***************************************************************************)
EXTENDS AssetLifecycle, StreamFeed

CONSTANTS
    MarketTopics,   \* those the marketplace publishes
    Workloads       \* the sets of requests, readers and topics that may come together

ASSUME WorkloadAssumption == 
    /\ Workloads \subseteq SUBSET (AssetRequests \cup Readers \cup Topics)
    /\ MarketTopics \subseteq Topics

vars == <<active, stream, assetVars, feedVars>>

Init == active \in Workloads /\ StreamInit /\ AssetInit /\ FeedInit

\* trade.matched and escrow.*, for any participants.
MarketplacePublishes(topic) ==
    /\ topic \in active \cap MarketTopics
    /\ \E who \in SUBSET Clients :
          Publish(topic, [asset |-> CHOOSE a \in Assets : TRUE, audience |-> who])
    /\ UNCHANGED <<active, assetVars, feedVars>>

Next ==
    \/ AssetNext /\ UNCHANGED feedVars
    \/ FeedNext /\ UNCHANGED assetVars
    \/ \E topic \in MarketTopics : MarketplacePublishes(topic)

Spec == Init /\ [][Next]_vars

(* Requests and tasks of a live process go on; readers' loops go round, and   *)
(* clients reconnect and in the end stay connected.  Nothing is assumed of   *)
(* what starts requests.                                                     *)
RequestWork(p) ==
    \/ DispatchAssetEvaluation(p) \/ Evaluate(p) \/ CompleteAssetEvaluation(p)
    \/ PublishEvaluationComplete(p) \/ ResetAssetEvaluation(p)

FairSpec ==
    /\ Spec
    /\ \A p \in Evaluates : WF_vars(RequestWork(p) /\ UNCHANGED feedVars)
    /\ \A c \in Clients : WF_vars((Listen(c) \/ Send(c) \/ Connect(c)) /\ UNCHANGED assetVars)
    /\ <>[][~\E c \in Clients : Disconnect(c)]_vars

-----------------------------------------------------------------------------
(* Properties of assets.                                                   *)

TypeOK ==
    /\ status \in [Assets -> Statuses]
    /\ submitted \in [Assets -> Submissions]
    /\ \A a \in Assets : result[a].score \in 0..MaxScore /\ result[a].roi \in 0..MaxRoi
    /\ tokens \subseteq [asset : Assets, liquid : issued] /\ issued \subseteq Tokenizes
    /\ fallback \in [AssetRequests -> EvaluableStatuses \cup {"none"}]
    /\ \A t \in Topics : LastId(t) <= MaxEvents
    /\ \A r \in Readers, t \in Topics : position[r][t] \in {End} \cup 0..LastId(t)

\* tokenize_asset: whatever requests race, an asset has one token, backed by an issuance on
\* Liquid of its own, and from then on stays tokenized.
TokenizedOnce ==
    /\ \A a \in Assets : status[a] = "tokenized" <=> \E row \in tokens : row.asset = a
    /\ \A r, s \in tokens : r.asset = s.asset \/ r.liquid = s.liquid => r = s

\* specs/abuse-controls.md:142 (duplicate-evaluation guard): at most one task of an asset is
\* between its start and its commit, until a task resets what it had completed.
OneEvaluationAtATime ==
    \A p, q \in Evaluates :
        p # q /\ Asset(p) = Asset(q) /\ Asset(p) \notin misjudged =>
            ~(stage[p] \in {"dispatch", "task", "persist"} /\ stage[q] \in {"dispatch", "task", "persist"})

NoWorse(s, t) ==
    /\ CategoryScore(s.category) >= CategoryScore(t.category)
    /\ (t.documented => s.documented)
    /\ s.words >= t.words /\ s.title >= t.title
    /\ s.positive >= t.positive /\ s.negative <= t.negative /\ s.valuation <= t.valuation

\* evaluate_asset_submission: over its brackets and caps, a submission that is no worse than
\* another in any respect does not score less.
BetterSubmissionsScoreHigher ==
    \A a, b \in Assets :
        result[a] # NoResult /\ result[b] # NoResult /\ NoWorse(submitted[a], submitted[b]) =>
            result[a].score >= result[b].score

\* An evaluation ends, unless its process dies, the answer of its start is lost, or the reset fails.
EvaluationsEnd ==
    \A a \in Assets :
        (status[a] = "evaluating") ~> (status[a] # "evaluating" \/ a \in abandoned)

-----------------------------------------------------------------------------
(* Properties of the feeds.                                                *)

\* Events of one topic come with increasing ids.
InOrder(items) ==
    \A i, j \in DOMAIN items : i < j /\ items[i][1] = items[j][1] => items[i][2] < items[j][2]

Notified(c, t, n) == <<t, n>> \in ToSet(received[c])

\* A client that reconnects with its token gets the events of a topic once and in order, and
\* from the first one on misses none, over any disconnection.
NotificationsAreComplete ==
    \A c \in Clients :
        /\ InOrder(received[c])
        /\ \A t \in ClientTopics : \A i \in DOMAIN received[c] :
              received[c][i][1] = t => \A n \in received[c][i][2]..token[c][t] :
                  Addressed(c, <<t, n>>) => Notified(c, t, n)

Pending(c, t) ==
    /\ c \in active /\ token[c][t] # End
    /\ \E n \in token[c][t] + 1..LastId(t) : Addressed(c, <<t, n>>) /\ ~Notified(c, t, n)

\* What is addressed to a client after its position is delivered in the end.
EventsAreDelivered ==
    \A c \in Clients : \A t \in ClientTopics : Pending(c, t) ~> ~Pending(c, t)

\* _pump_events_to_relays: no relay sees an event twice or out of order, over restarts and
\* relays that fail.
RelaysGetEventsOnce == \A r \in Relays : InOrder(relayed[r])
=============================================================================
