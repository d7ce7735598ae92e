------------------------------ MODULE Metrics -------------------------------
(***************************************************************************)
(* MetricsMiddleware and get_metrics (backend/app/middleware/metrics.py)   *)
(* in one worker process.  The middleware counts a response on the event   *)
(* loop, one dictionary after the other; /metrics reads the dictionaries   *)
(* in a thread of the pool, which runs between any two of those steps, and *)
(* Python raises in a loop over a dictionary that has got a new key.       *)
(*                                                                         *)
(* A duration is represented by the number of its response on its route.   *)
(* An endpoint that raises is not counted: the exception passes dispatch() *)
(* before any of its counters.                                             *)
(***************************************************************************)
EXTENDS Integers, FiniteSets, Sequences

CONSTANTS Routes,        \* "method path" of the responses
          Scrapers,      \* pool threads that serve /metrics
          Cap,           \* 1000: more durations than these are cut
          Keep,          \* 500: as many stay
          MaxResponses   \* bound on the responses of a worker

ASSUME CutAssumption == Cap \in Nat /\ Keep \in 1..Cap /\ MaxResponses \in Nat

VARIABLES total,       \* requests_total: route -> count
          durations,   \* request_duration_seconds: route -> list
          errors,      \* the sum of errors_total
          counting,    \* the response the event loop is at
          scrape       \* the locals of get_metrics in each thread

metricsVars == <<total, durations, errors, counting, scrape>>

-----------------------------------------------------------------------------
NoResponse == [at |-> "idle"]
NoScrape   == [at |-> "idle"]
NoRoutes   == [r \in {} |-> 0]

MetricsInit ==
    /\ total = NoRoutes
    /\ durations = NoRoutes
    /\ errors = 0
    /\ counting = NoResponse
    /\ scrape = [s \in Scrapers |-> NoScrape]

\* d[r], where d is a defaultdict
Get(d, r, default) == IF r \in DOMAIN d THEN d[r] ELSE default
Put(d, r, value) == [x \in DOMAIN d \cup {r} |-> IF x = r THEN value ELSE d[x]]

Responses(d) == UNION {{r} \X (1..d[r]) : r \in DOMAIN d}

-----------------------------------------------------------------------------
(* dispatch(), after call_next has returned a response                     *)

CountTotal(r, failed) ==
    /\ counting = NoResponse
    /\ Cardinality(Responses(total)) < MaxResponses
    /\ total' = Put(total, r, Get(total, r, 0) + 1)
    /\ counting' = [at |-> "append", route |-> r, failed |-> failed]
    /\ UNCHANGED <<durations, errors, scrape>>

\* Faulty variant of AppendDuration: responses with a 5xx status are not timed.
AppendUnlessFailed ==
    /\ counting.at = "append"
    /\ durations' = IF counting.failed THEN durations
                    ELSE Put(durations, counting.route,
                             Append(Get(durations, counting.route, <<>>), total[counting.route]))
    /\ counting' = [counting EXCEPT !.at = IF counting.failed THEN "error" ELSE "cut"]
    /\ UNCHANGED <<total, errors, scrape>>

AppendDuration ==
    /\ counting.at = "append"
    /\ LET r == counting.route
       IN  durations' = Put(durations, r, Append(Get(durations, r, <<>>), total[r]))
    /\ counting' = [counting EXCEPT !.at = "cut"]
    /\ UNCHANGED <<total, errors, scrape>>

\* Faulty variant of Newest: [:500].
FirstOnes(list) == SubSeq(list, 1, Keep)

\* [-500:]
Newest(list) == SubSeq(list, Len(list) - Keep + 1, Len(list))

CutDurations ==
    /\ counting.at = "cut"
    /\ LET list == durations[counting.route]
       IN  durations' = [durations EXCEPT ![counting.route] =
                            IF Len(list) > Cap THEN Newest(list) ELSE list]
    /\ counting' = [counting EXCEPT !.at = "error"]
    /\ UNCHANGED <<total, errors, scrape>>

CountError ==
    /\ counting.at = "error"
    /\ errors' = IF counting.failed THEN errors + 1 ELSE errors
    /\ counting' = NoResponse
    /\ UNCHANGED <<total, durations, scrape>>

-----------------------------------------------------------------------------
(* get_metrics(); "before" and "told" remember what the totals held when   *)
(* it began, for the properties.                                           *)

Step(s, fields) == scrape' = [scrape EXCEPT ![s] = fields]

BeginScrape(s) ==
    /\ scrape[s].at \in {"idle", "returned", "raised"}
    /\ Step(s, [at |-> "totals", size |-> Cardinality(DOMAIN total), left |-> DOMAIN total,
                totals |-> NoRoutes, timed |-> {}, before |-> total,
                timedBefore |-> DOMAIN durations])
    /\ UNCHANGED <<total, durations, errors, counting>>

ReadTotal(s, r) ==
    LET mine == scrape[s]
    IN  /\ mine.at = "totals"
        /\ r \in mine.left
        /\ mine.size = Cardinality(DOMAIN total)
        /\ Step(s, [mine EXCEPT !.left = @ \ {r}, !.totals = Put(@, r, total[r])])
        /\ UNCHANGED <<total, durations, errors, counting>>

BeginDurations(s) ==
    LET mine == scrape[s]
    IN  /\ mine.at = "totals"
        /\ mine.left = {}
        /\ mine.size = Cardinality(DOMAIN total)
        /\ Step(s, [mine EXCEPT !.at = "durations", !.left = DOMAIN durations,
                                !.size = Cardinality(DOMAIN durations)])
        /\ UNCHANGED <<total, durations, errors, counting>>

ReadDurations(s, r) ==
    LET mine == scrape[s]
    IN  /\ mine.at = "durations"
        /\ r \in mine.left
        /\ mine.size = Cardinality(DOMAIN durations)
        /\ Step(s, [mine EXCEPT !.left = @ \ {r}, !.timed = @ \cup {r}])
        /\ UNCHANGED <<total, durations, errors, counting>>

\* The sum of the errors is read last.
EndScrape(s) ==
    LET mine == scrape[s]
    IN  /\ mine.at = "durations"
        /\ mine.left = {}
        /\ mine.size = Cardinality(DOMAIN durations)
        /\ Step(s, [at |-> "returned", totals |-> mine.totals, timed |-> mine.timed,
                    before |-> mine.before, errors |-> errors])
        /\ UNCHANGED <<total, durations, errors, counting>>

\* RuntimeError: dictionary changed size during iteration.
ScrapeRaises(s) ==
    LET mine == scrape[s]
    IN  /\ \/ mine.at = "totals" /\ mine.size # Cardinality(DOMAIN total)
           \/ mine.at = "durations" /\ mine.size # Cardinality(DOMAIN durations)
        /\ Step(s, [at |-> "raised", before |-> mine.before, timedBefore |-> mine.timedBefore])
        /\ UNCHANGED <<total, durations, errors, counting>>

\* The worker is replaced: its counters start again.
ReplaceWorker ==
    /\ total' = NoRoutes
    /\ durations' = NoRoutes
    /\ errors' = 0
    /\ counting' = NoResponse
    /\ scrape' = [s \in Scrapers |-> NoScrape]

MetricsNext ==
    \/ \E r \in Routes : \E failed \in BOOLEAN : CountTotal(r, failed)
    \/ AppendDuration
    \/ CutDurations
    \/ CountError
    \/ \E s \in Scrapers :
          \/ BeginScrape(s) \/ BeginDurations(s) \/ EndScrape(s) \/ ScrapeRaises(s)
          \/ \E r \in Routes : ReadTotal(s, r) \/ ReadDurations(s, r)
    \/ ReplaceWorker

MetricsSpec == MetricsInit /\ [][MetricsNext]_metricsVars

-----------------------------------------------------------------------------
(* Properties                                                              *)

\* The response that is counted but not yet timed.
Untimed(r) == counting.at = "append" /\ counting.route = r
Uncut(r)   == counting.at = "cut" /\ counting.route = r

\* The percentiles of a route are those of its newest responses without a gap:
\* of all of them up to the cap, and beyond it of at least as many as a cut
\* leaves, whatever the order of counting, cuts and replacements of the worker
\* (metrics.py:42-46).
DurationsAreNewest ==
    \A r \in DOMAIN total :
        LET list  == Get(durations, r, <<>>)
            timed == total[r] - (IF Untimed(r) THEN 1 ELSE 0)
        IN  /\ \A i \in 1..Len(list) : list[i] = timed - Len(list) + i
            /\ timed <= Cap => Len(list) = timed
            /\ timed > Cap => Len(list) \in Keep..(IF Uncut(r) THEN Cap + 1 ELSE Cap)

\* A scrape that returns tells of every route that had answered before it began
\* no less than was counted then, and leaves out the percentiles of one route
\* at most, that of a first response in the middle of being counted; one that
\* raises met the first response of some route (metrics.py:20-29).
ScrapesExplained ==
    \A s \in Scrapers :
        LET mine == scrape[s]
        IN  /\ mine.at = "returned" =>
                  /\ \A r \in DOMAIN mine.before :
                        r \in DOMAIN mine.totals /\ mine.totals[r] >= mine.before[r]
                  /\ Cardinality(DOMAIN mine.totals \ mine.timed) <= 1
            /\ mine.at = "raised" =>
                  \/ \E r \in DOMAIN total : r \notin DOMAIN mine.before
                  \/ \E r \in DOMAIN durations : r \notin mine.timedBefore
=============================================================================
