------------------------------ MODULE EventStreams ------------------------------
(***************************************************************************)
(* The Redis streams the services mirror their internal events to.         *)
(*                                                                         *)
(* A service publishes after it has committed.  RedisStreamMirror swallows *)
(* what goes wrong with XADD, so an event may be missing from its stream.  *)
(***************************************************************************)
EXTENDS Integers, FiniteSets, FiniteSetsExt, SequencesExt

CONSTANTS
    Topics,
    MaxEvents   \* bound: events of a stream

ASSUME StreamAssumption == IsFiniteSet(Topics) /\ MaxEvents \in Nat

VARIABLES
    active,   \* the requests, readers and topics of this behaviour, chosen once
    stream    \* the events of each topic, in the order of their ids

StreamInit == stream = [t \in Topics |-> <<>>]

LastId(t) == Len(stream[t])

\* InternalEventBus.publish with the mirror as its handler.  A topic nobody reads stays empty.
Publish(topic, event) ==
    \/ /\ topic \in active /\ LastId(topic) < MaxEvents
       /\ stream' = [stream EXCEPT ![topic] = Append(@, event)]
    \/ UNCHANGED stream
=============================================================================
