------------------------------ MODULE StreamFeed ------------------------------
(***************************************************************************)
(* The readers of the streams: the marketplace's /ws/notifications socket  *)
(* with its clients, and the Nostr worker that passes events on to relays. *)
(*                                                                         *)
(* Both call XREAD in a loop with a position per topic.  "$" stands for    *)
(* the end of the stream at the time of the call, and stays in place until *)
(* an event of the topic is seen.                                          *)
(***************************************************************************)
EXTENDS EventStreams

CONSTANTS
    Clients,       \* principals with a notification socket
    ClientTopics,  \* topics of notification_stream
    Workers,       \* Nostr service processes
    WorkerTopics,  \* TOPICS
    Relays,
    CountOf        \* count: how many events of a topic one answer of XREAD holds

Readers == Clients \cup Workers
End == -1          \* "$"
TopicsOf(r) == IF r \in Workers THEN WorkerTopics ELSE ClientTopics

\* infra/docker-compose.local.yml:158: there is one Nostr service.
ASSUME FeedAssumption ==
    /\ ClientTopics \cup WorkerTopics \subseteq Topics /\ Clients \cap Workers = {}
    /\ \A v, w \in Workers : v = w
    /\ CountOf \in [Readers -> Nat \ {0}]

VARIABLES
    mode,      \* "off", "calling", "waiting", "sending" or, of a worker, "dead"
    position,  \* positions, stream_ids: per topic
    from,      \* what the call under way has made of them
    queue,     \* what the call returned and the reader has not handled
    token,     \* the resume token the client has saved
    received,  \* messages the client has got
    relayed    \* what each relay has got

feedVars == <<mode, position, from, queue, token, received, relayed>>

AtEnd == [t \in Topics |-> End]

FeedInit ==
    /\ mode = [r \in Readers |-> "off"]
    /\ position = [r \in Readers |-> AtEnd] /\ from = [r \in Readers |-> AtEnd]
    /\ queue = [r \in Readers |-> <<>>]
    /\ token = [c \in Clients |-> AtEnd] /\ received = [c \in Clients |-> <<>>]
    /\ relayed = [r \in Relays |-> <<>>]

SetMode(r, m) == mode' = [mode EXCEPT ![r] = m]
Running(r) == mode[r] \in {"calling", "waiting", "sending"}

-----------------------------------------------------------------------------
(* XREAD                                                                   *)

Call(r) ==
    /\ mode[r] = "calling" /\ SetMode(r, "waiting")
    /\ from' = [from EXCEPT ![r] =
          [t \in Topics |-> IF position[r][t] = End THEN LastId(t) ELSE position[r][t]]]
    /\ UNCHANGED <<active, stream, position, queue, token, received, relayed>>

New(r) == {t \in TopicsOf(r) : LastId(t) > from[r][t]}
Returned(r, t) == Min({LastId(t) - from[r][t], CountOf[r]})
Batch(r, t) == [i \in 1..Returned(r, t) |-> <<t, from[r][t] + i>>]

\* Topic by topic, each in order.
Return(r) ==
    /\ mode[r] = "waiting" /\ New(r) # {} /\ SetMode(r, "sending")
    /\ \E topics \in SetToSeqs(New(r)) :
          queue' = [queue EXCEPT ![r] = FlattenSeq([i \in DOMAIN topics |-> Batch(r, topics[i])])]
    /\ from' = [from EXCEPT ![r] = AtEnd]
    /\ UNCHANGED <<active, stream, position, token, received, relayed>>

\* Mutant: the loop ends with an empty answer.
TimeoutEnds(r) ==
    /\ mode[r] = "waiting" /\ New(r) = {} /\ SetMode(r, "dead")
    /\ UNCHANGED <<active, stream, position, from, queue, token, received, relayed>>

\* block_ms passes.
Timeout(r) ==
    /\ mode[r] = "waiting" /\ New(r) = {} /\ SetMode(r, "calling")
    /\ from' = [from EXCEPT ![r] = AtEnd]
    /\ UNCHANGED <<active, stream, position, queue, token, received, relayed>>

\* Mutant: the position is the one after the event.
AdvancePast(r) ==
    LET item == Head(queue[r])
    IN  /\ mode[r] = "sending"
        /\ position' = [position EXCEPT ![r][item[1]] = item[2] + 1]
        /\ queue' = [queue EXCEPT ![r] = Tail(@)]
        /\ SetMode(r, IF Len(queue[r]) = 1 THEN "calling" ELSE "sending")

\* The next event of the answer: its position is kept before it is handled.
Advance(r) ==
    LET item == Head(queue[r])
    IN  /\ mode[r] = "sending"
        /\ position' = [position EXCEPT ![r][item[1]] = item[2]]
        /\ queue' = [queue EXCEPT ![r] = Tail(@)]
        /\ SetMode(r, IF Len(queue[r]) = 1 THEN "calling" ELSE "sending")

-----------------------------------------------------------------------------
(* notification_stream                                                     *)

\* _notification_message returns None for everybody else.
Addressed(c, item) == c \in stream[item[1]][item[2]].audience

\* The resume token of the last message received, "$" for topics without an event by then.
ResumeFrom(c) == token[c]

Connect(c) ==
    /\ c \in Clients \cap active /\ mode[c] = "off" /\ SetMode(c, "calling")
    /\ position' = [position EXCEPT ![c] = ResumeFrom(c)]
    /\ UNCHANGED <<active, stream, from, queue, token, received, relayed>>

\* Mutant: the token is where the whole batch ends.
SendBatchToken(c) ==
    /\ c \in Clients /\ Advance(c)
    /\ IF Addressed(c, Head(queue[c]))
       THEN /\ received' = [received EXCEPT ![c] = Append(@, Head(queue[c]))]
            /\ token' = [token EXCEPT ![c] = [t \in Topics |->
                  IF \E i \in DOMAIN queue[c] : queue[c][i][1] = t THEN LastId(t) ELSE position'[c][t]]]
       ELSE UNCHANGED <<received, token>>
    /\ UNCHANGED <<active, stream, from, relayed>>

\* A message carries the positions of all topics after its event.
Send(c) ==
    /\ c \in Clients /\ Advance(c)
    /\ IF Addressed(c, Head(queue[c]))
       THEN /\ received' = [received EXCEPT ![c] = Append(@, Head(queue[c]))]
            /\ token' = [token EXCEPT ![c] = position'[c]]
       ELSE UNCHANGED <<received, token>>
    /\ UNCHANGED <<active, stream, from, relayed>>

\* WebSocketDisconnect, with what was not sent.
Disconnect(c) ==
    /\ c \in Clients /\ Running(c) /\ SetMode(c, "off")
    /\ queue' = [queue EXCEPT ![c] = <<>>]
    /\ position' = [position EXCEPT ![c] = AtEnd] /\ from' = [from EXCEPT ![c] = AtEnd]
    /\ UNCHANGED <<active, stream, token, received, relayed>>

-----------------------------------------------------------------------------
(* _pump_events_to_relays                                                  *)

\* Mutant: a restarted service reads every stream from its first event.
StartFromFirst(w) ==
    /\ w \in Workers \cap active /\ mode[w] \in {"off", "dead"} /\ SetMode(w, "calling")
    /\ position' = [position EXCEPT ![w] = [t \in Topics |-> 0]]
    /\ UNCHANGED <<active, stream, from, queue, token, received, relayed>>

\* The service starts: at the end of every stream.
StartWorker(w) ==
    /\ w \in Workers \cap active /\ mode[w] \in {"off", "dead"} /\ SetMode(w, "calling")
    /\ position' = [position EXCEPT ![w] = AtEnd]
    /\ UNCHANGED <<active, stream, from, queue, token, received, relayed>>

\* Signed and sent to each relay; one that fails is logged, and the position moves on.
Relay(w) ==
    /\ w \in Workers /\ Advance(w)
    /\ \E some \in SUBSET Relays :
          relayed' = [r \in Relays |-> IF r \in some THEN Append(relayed[r], Head(queue[w]))
                                       ELSE relayed[r]]
    /\ UNCHANGED <<active, stream, from, token, received>>

\* XREAD or the signature raises: the loop ends, the service goes on without it.
WorkerDies(w) ==
    /\ w \in Workers /\ Running(w) /\ SetMode(w, "dead")
    /\ position' = [position EXCEPT ![w] = AtEnd] /\ from' = [from EXCEPT ![w] = AtEnd]
    /\ queue' = [queue EXCEPT ![w] = <<>>]
    /\ UNCHANGED <<active, stream, token, received, relayed>>

Listen(r) == Call(r) \/ Return(r) \/ Timeout(r)
NotificationStream(c) == Connect(c) \/ Send(c) \/ Disconnect(c)
PumpEventsToRelays(w) == StartWorker(w) \/ Relay(w) \/ WorkerDies(w)

FeedNext ==
    \/ \E r \in Readers : Listen(r)
    \/ \E c \in Clients : NotificationStream(c)
    \/ \E w \in Workers : PumpEventsToRelays(w)
=============================================================================
