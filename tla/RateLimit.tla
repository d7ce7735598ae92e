----------------------------- MODULE RateLimit ------------------------------
(***************************************************************************)
(* RateLimitMiddleware (backend/app/middleware/rate_limit.py) in each of   *)
(* the worker processes that serve the API.  dispatch() runs on the event  *)
(* loop of its worker and awaits nothing before it has decided, so the     *)
(* decision is one step; the response headers are written after the await  *)
(* of call_next, when other requests have come in between.                 *)
(*                                                                         *)
(* A list of hits is the set of the hits in it: dispatch() uses its        *)
(* length, its oldest element and the filter by time, and time never runs  *)
(* backwards.  Time is counted in ticks, several to the second, because    *)
(* Retry-After is in whole seconds.                                        *)
(***************************************************************************)
EXTENDS Integers, FiniteSets, Sequences

CONSTANTS Workers,         \* worker processes, each with its own middleware
          Clients,         \* what _client_ip returns
          Paths,           \* request paths
          DefaultLimit,    \* settings.rate_limit_per_minute
          Overrides,       \* what set_override() left: <<prefix, limit>>, in order
          StartsWith,      \* the pairs <<path, prefix>> with path.startswith(prefix)
          Window,          \* window_seconds, in ticks
          Second,          \* ticks in a second
          MaxTime,         \* bound: the clock stops here
          MaxRequests      \* bound on the requests accepted, and on those refused

ASSUME LimitsAssumption ==
    /\ DefaultLimit \in Nat
    /\ Overrides \in Seq(STRING \X Nat)
ASSUME TimesAssumption ==
    /\ Window \in Nat \ {0} /\ Second \in Nat \ {0}
    /\ MaxTime \in Nat /\ MaxRequests \in Nat

VARIABLES now,       \* time.time()
          hits,      \* _hits of each worker: key -> the hits in the list
          flight,    \* accepted requests between call_next and their response
          accepted,  \* history: every hit accepted since the worker started
          refused,   \* history: the last refusal of each key: when, and Retry-After
          remaining  \* history: the last X-RateLimit-Remaining of each key

vars == <<now, hits, flight, accepted, refused, remaining>>

-----------------------------------------------------------------------------
\* f"{client}:{path}", in the _hits of one worker.
Keys == Workers \X Clients \X Paths

\* The first override whose prefix fits, in the order they were set.
GetLimit(path) ==
    LET fits == {i \in DOMAIN Overrides : <<path, Overrides[i][1]>> \in StartsWith}
    IN  IF fits = {} THEN DefaultLimit
        ELSE Overrides[CHOOSE i \in fits : \A j \in fits : i <= j][2]

Overridden(path) ==
    \E i \in DOMAIN Overrides : <<path, Overrides[i][1]>> \in StartsWith

\* [t for t in hits if t > window_start]
Live(list) == {h \in list : h.at > now - Window}

\* list[0].at
Oldest(list) == CHOOSE t \in {h.at : h \in list} : \A h \in list : t <= h.at

NoRefusal == [at |-> 0, retry |-> 0, count |-> 0]

Init ==
    /\ now = 0
    /\ hits = [k \in Keys |-> {}]
    /\ flight = {}
    /\ accepted = [k \in Keys |-> {}]
    /\ refused = [k \in Keys |-> NoRefusal]
    /\ remaining = [k \in Keys |-> GetLimit(k[3])]

\* Faulty variant of Accept: one request too many.
AcceptOneMore(k) ==
    LET live == Live(hits[k])
        hit  == [at |-> now, n |-> Cardinality(accepted[k]) + 1]
    IN  /\ Cardinality(accepted[k]) < MaxRequests
        /\ Cardinality(live) <= GetLimit(k[3])
        /\ hits' = [hits EXCEPT ![k] = live \cup {hit}]
        /\ accepted' = [accepted EXCEPT ![k] = @ \cup {hit}]
        /\ flight' = flight \cup {<<k, hit.n>>}
        /\ UNCHANGED <<now, refused, remaining>>

-----------------------------------------------------------------------------
Accept(k) ==
    LET live == Live(hits[k])
        hit  == [at |-> now, n |-> Cardinality(accepted[k]) + 1]
    IN  /\ Cardinality(accepted[k]) < MaxRequests
        /\ Cardinality(live) < GetLimit(k[3])
        /\ hits' = [hits EXCEPT ![k] = live \cup {hit}]
        /\ accepted' = [accepted EXCEPT ![k] = @ \cup {hit}]
        /\ flight' = flight \cup {<<k, hit.n>>}
        /\ UNCHANGED <<now, refused, remaining>>

\* Faulty variant of RetryAfter: rounded down.
RetryAfterFloor(live) == (Oldest(live) + Window - now) \div Second

\* int(oldest + window - now) + 1, in seconds.
RetryAfter(live) == (Oldest(live) + Window - now) \div Second + 1

Refuse(k) ==
    LET live == Live(hits[k])
    IN  /\ live # {}
        /\ Cardinality(live) >= GetLimit(k[3])
        /\ hits' = [hits EXCEPT ![k] = live]
        /\ refused' = [refused EXCEPT ![k] =
              [at |-> now, retry |-> RetryAfter(live), count |-> Cardinality(accepted[k])]]
        /\ UNCHANGED <<now, flight, accepted, remaining>>

\* With a limit of 0 there is no oldest hit: IndexError, answered with a 500.
RefuseFails(k) ==
    /\ GetLimit(k[3]) = 0
    /\ Live(hits[k]) = {}
    /\ hits' = [hits EXCEPT ![k] = {}]
    /\ UNCHANGED <<now, flight, accepted, refused, remaining>>

\* Faulty variant of Respond: the request's own hit is left out.
RespondWithoutOwn(k, n) ==
    /\ <<k, n>> \in flight
    /\ flight' = flight \ {<<k, n>>}
    /\ LET left == GetLimit(k[3]) - Cardinality(hits[k]) + 1
       IN  remaining' = [remaining EXCEPT ![k] = IF left > 0 THEN left ELSE 0]
    /\ UNCHANGED <<now, hits, accepted, refused>>

\* After the await: the header counts whatever the list holds by now.
Respond(k, n) ==
    /\ <<k, n>> \in flight
    /\ flight' = flight \ {<<k, n>>}
    /\ LET left == GetLimit(k[3]) - Cardinality(hits[k])
       IN  remaining' = [remaining EXCEPT ![k] = IF left > 0 THEN left ELSE 0]
    /\ UNCHANGED <<now, hits, accepted, refused>>

\* The worker is replaced: its windows are forgotten with it.
Restart(w) ==
    LET mine == {k \in Keys : k[1] = w}
    IN  /\ hits' = [k \in Keys |-> IF k \in mine THEN {} ELSE hits[k]]
        /\ accepted' = [k \in Keys |-> IF k \in mine THEN {} ELSE accepted[k]]
        /\ refused' = [k \in Keys |-> IF k \in mine THEN NoRefusal ELSE refused[k]]
        /\ flight' = {f \in flight : f[1] \notin mine}
        /\ UNCHANGED <<now, remaining>>

Tick ==
    /\ now < MaxTime
    /\ now' = now + 1
    /\ UNCHANGED <<hits, flight, accepted, refused, remaining>>

Next ==
    \/ \E k \in Keys :
          \/ Accept(k)
          \/ Refuse(k)
          \/ RefuseFails(k)
          \/ \E n \in 1..MaxRequests : Respond(k, n)
    \/ \E w \in Workers : Restart(w)
    \/ Tick

Spec == Init /\ [][Next]_vars

-----------------------------------------------------------------------------
(* Properties                                                              *)

\* The type invariant: a list holds nothing but accepted hits, among them all
\* those of the window.
TypeOK ==
    /\ now \in 0..MaxTime
    /\ \A k \in Keys :
          /\ hits[k] \subseteq accepted[k]
          /\ Live(accepted[k]) \subseteq hits[k]
          /\ \A h \in accepted[k] : h.at \in 0..now /\ h.n \in 1..MaxRequests
          /\ refused[k].at \in 0..now /\ refused[k].retry \in Nat
          /\ remaining[k] \in 0..GetLimit(k[3])
    /\ flight \subseteq Keys \X (1..MaxRequests)

InWindow(k, t) == {h \in accepted[k] : t - Window < h.at /\ h.at <= t}

\* In each worker by itself, and for each path by itself, no window, wherever it
\* ends, holds more accepted requests of a client than the limit of the path
\* allows: _hits is in the memory of the worker, and its keys name the path
\* (rate_limit.py:28, 50-65).
WindowHeld ==
    \A k \in Keys : \A t \in 0..now : Cardinality(InWindow(k, t)) <= GetLimit(k[3])

\* A client that waits as long as Retry-After says finds room, if nobody with
\* its key was let in meanwhile (rate_limit.py:57-63).
RetryAfterSuffices ==
    \A k \in Keys :
        (/\ refused[k].retry > 0
         /\ refused[k].count = Cardinality(accepted[k])
         /\ now >= refused[k].at + refused[k].retry * Second)
            => Cardinality(Live(hits[k])) < GetLimit(k[3])

\* X-RateLimit-Remaining never promises more than the window has room for at
\* the moment it is written, requests that came in during the await included
\* (rate_limit.py:65-68).
RemainingHonest ==
    [][\A k \in Keys :
          remaining'[k] # remaining[k] =>
              remaining'[k] + Cardinality(Live(hits[k])) <= GetLimit(k[3])]_vars

\* rate_limit.py:1 speaks of a "Redis-backed sliding window" and
\* rate_limit.py:14-16 of a "Sliding-window rate limiter per client IP" with "120
\* requests/minute for all endpoints, with per-path overrides": over all the
\* workers, and all the paths without an override, a client is let in no more
\* often than the default limit in any window.
ClientWindowHeld ==
    \A c \in Clients : \A t \in 0..now :
        LET mine == {k \in Keys : k[2] = c /\ ~Overridden(k[3])}
        IN  Cardinality(UNION {{k} \X InWindow(k, t) : k \in mine}) <= DefaultLimit
=============================================================================
