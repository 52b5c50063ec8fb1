------------------------------ MODULE RateLimiter ------------------------------
(***************************************************************************)
(* RateLimitMiddleware: a sliding window of admitted writes per bucket,    *)
(* kept in the memory of one process of one service.  The clock is         *)
(* monotonic and finer than the seconds that Retry-After is told in.       *)
(***************************************************************************)
EXTENDS Integers, Sequences, SequencesExt, FiniteSetsExt

CONSTANTS
    Clients,          \* what _client_ip tells apart
    Paths, SensitivePaths,
    SensitiveLimit, WriteLimit,   \* rate_limit_sensitive_requests, rate_limit_write_requests
    WindowSeconds,    \* rate_limit_window_seconds
    TicksPerSecond,
    MaxTick           \* bound: how far the clock goes

ASSUME RateAssumption ==
    /\ SensitivePaths \subseteq Paths
    /\ SensitiveLimit \in Nat /\ WriteLimit \in Nat
    /\ WindowSeconds \in Nat \ {0} /\ TicksPerSecond \in Nat \ {0} /\ MaxTick \in Nat

VARIABLES
    tick,      \* time.monotonic()
    hits,      \* _hits
    admitted,  \* history: when the last requests of a bucket were let through
    promise,   \* history: from when on the client that was refused expects to be admitted
    refused    \* history: the last refusal of the bucket

rateVars == <<tick, hits, admitted, promise, refused>>

Limit(rule) == IF rule = "sensitive" THEN SensitiveLimit ELSE WriteLimit

\* build_write_rate_limit_rules: the sensitive rule comes first, if there are
\* sensitive paths; __init__ drops rules without a limit.
Rules ==
    (IF SensitivePaths # {} /\ SensitiveLimit > 0 THEN <<"sensitive">> ELSE <<>>)
        \o (IF WriteLimit > 0 THEN <<"writes">> ELSE <<>>)

Matches(rule, path) == rule = "sensitive" => path \in SensitivePaths

Matching(path) == {i \in DOMAIN Rules : Matches(Rules[i], path)}

\* The first rule that matches decides the bucket.
BucketOf(client, path) ==
    LET rule == Rules[Min(Matching(path))]
    IN <<rule, client, IF rule = "sensitive" THEN path ELSE "all">>

Buckets == {BucketOf(c, p) : c \in Clients, p \in {p \in Paths : Matching(p) # {}}}

Span == WindowSeconds * TicksPerSecond

RateInit ==
    /\ tick = 0
    /\ hits = [b \in Buckets |-> <<>>] /\ admitted = hits
    /\ promise = [b \in Buckets |-> 0] /\ refused = [b \in Buckets |-> 0]

Tick == tick < MaxTick /\ tick' = tick + 1 /\ UNCHANGED <<hits, admitted, promise, refused>>

\* Mutant: every hit but those of the last second has expired.
TrimLate(s) == SelectSeq(s, LAMBDA t : t > tick - TicksPerSecond)

\* _trim_expired: popleft while the first hit has expired.
Trim(s) ==
    LET expired == CHOOSE n \in 0..Len(s) :
                      /\ \A i \in 1..n : s[i] <= tick - Span
                      /\ n < Len(s) => s[n+1] > tick - Span
    IN  SubSeq(s, expired + 1, Len(s))

\* max(1, int(window_seconds - (now - hits[0])))
RetryAfter(s) == Max({1, (Span - (tick - Head(s))) \div TicksPerSecond})

Admit(b) ==
    LET kept == Trim(hits[b]) IN
    /\ Len(kept) < Limit(b[1])
    /\ hits' = [hits EXCEPT ![b] = Append(kept, tick)]
    /\ admitted' = [admitted EXCEPT ![b] =
          LET all == Append(@, tick) IN
              IF Len(all) > Limit(b[1]) + 1 THEN Tail(all) ELSE all]
    /\ promise' = [promise EXCEPT ![b] = 0]
    /\ UNCHANGED <<tick, refused>>

\* 429 rate_limit_exceeded
Refuse(b) ==
    LET kept == Trim(hits[b]) IN
    /\ Len(kept) >= Limit(b[1])
    /\ hits' = [hits EXCEPT ![b] = kept]
    /\ promise' = [promise EXCEPT ![b] =
          IF @ = 0 THEN tick + (RetryAfter(kept) + 1) * TicksPerSecond ELSE @]
    /\ refused' = [refused EXCEPT ![b] = tick]
    /\ UNCHANGED <<tick, admitted>>

\* dispatch: reads match no rule and pass.
Dispatch(client, path) ==
    /\ Matching(path) # {}
    /\ \/ Admit(BucketOf(client, path))
       \/ Refuse(BucketOf(client, path))

\* The window does not survive the process.
Restart ==
    /\ \E b \in Buckets : hits[b] # <<>>
    /\ hits' = [b \in Buckets |-> <<>>] /\ admitted' = hits'
    /\ promise' = [b \in Buckets |-> 0] /\ refused' = [b \in Buckets |-> 0]
    /\ UNCHANGED tick

RateNext ==
    \/ Tick
    \/ \E c \in Clients, p \in Paths : Dispatch(c, p)
    \/ Restart
=============================================================================
