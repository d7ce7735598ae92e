--------------------------- MODULE ResponseCache ----------------------------
(***************************************************************************)
(* The cached endpoints of backend/app/api/routes.py over utils/cache.py:  *)
(* _cached() looks a key up, computes the response from the database on a  *)
(* miss, and stores it.  Endpoints run in threads of the pool, in several  *)
(* worker processes.  A process makes its Cache when a first request needs *)
(* it, and two if two threads find none.  A Cache uses Redis until a call  *)
(* of it fails, and from then on the dictionary _mem_cache of its process, *)
(* for good; the caches of a process share that dictionary.                *)
(*                                                                         *)
(* Keys do not interact, so the module follows one of them.  The endpoint  *)
(* behind it may have a query parameter, like the limit of /market/fx.     *)
(***************************************************************************)
EXTENDS Integers

CONSTANTS Procs,         \* worker processes
          Threads,       \* threads that serve requests
          ProcOf,        \* the process of each thread
          Queries,       \* the values of the query parameter
          NoParam,       \* "no request"
          NoCache,       \* None
          UseRedis,      \* settings.redis_url is set
          Ttl,           \* time to live of the key
          MaxCompute,    \* a response is stored so long after it was read, at most
          MaxClock       \* bound: the clock stops here

ASSUME ThreadsAssumption == 
    /\ ProcOf \in [Threads -> Procs]
    /\ NoParam \notin Queries
    /\ NoCache \notin Threads
ASSUME BoundsAssumption ==
    Ttl \in Nat \ {0} /\ MaxCompute \in Nat /\ MaxClock \in Nat /\ UseRedis \in BOOLEAN

VARIABLES clock,      \* time.time()
          redis,      \* the entry in Redis
          mem,        \* the entry in the _mem_cache of each process
          cache,      \* _cache_instance of each process: the thread that made it
          degraded,   \* _degraded of the Cache each thread made, if it made one
          req,        \* the locals of each thread in _cached
          answer      \* history: the last answer given by any thread

cacheVars == <<clock, redis, mem, cache, degraded, req, answer>>

-----------------------------------------------------------------------------
PCs == {"idle", "make", "lookup", "memory", "expired", "compute", "set", "setex", "keep", "failed"}

\* A response: the parameter it was computed for, and when that was.
CachedResponses == [param : Queries, read : 0..MaxClock]
NoEntry == [expires |-> -1]
CacheEntries == [value : CachedResponses, expires : 0..(MaxClock + Ttl)]
NoRequest == [pc |-> "idle", param |-> NoParam]

\* self._client and not self._degraded
Connected(c) == UseRedis /\ ~degraded[c]

\* The ping of Cache.__init__ decides; without a URL there is no client.
Pinged(flag) == flag \in BOOLEAN /\ (flag => UseRedis)

CacheInit ==
    /\ clock = 0
    /\ redis = NoEntry
    /\ mem = [p \in Procs |-> NoEntry]
    /\ cache = [p \in Procs |-> NoCache]
    /\ degraded = [t \in Threads |-> FALSE]
    /\ req = [t \in Threads |-> NoRequest]
    /\ answer = NoRequest

Goto(t, pc) == req' = [req EXCEPT ![t].pc = pc]

Answer(t, value) ==
    /\ answer' = [pc |-> "answered", param |-> req[t].param,
                  of |-> value.param, age |-> clock - value.read]
    /\ req' = [req EXCEPT ![t] = NoRequest]

-----------------------------------------------------------------------------
(* get_cache                                                               *)

\* cache.get(key) begins: with Redis, or with the dictionary.
Lookup(c, param, connected) ==
    [pc |-> IF connected THEN "lookup" ELSE "memory", param |-> param, cache |-> c]

\* The cache there is, or the thread finds that it has to make one.
Request(t, param) ==
    LET c == cache[ProcOf[t]]
    IN  /\ req[t].pc = "idle"
        /\ req' = [req EXCEPT ![t] = IF c = NoCache THEN [pc |-> "make", param |-> param]
                                    ELSE Lookup(c, param, Connected(c))]
        /\ UNCHANGED <<clock, redis, mem, cache, degraded, answer>>

\* The thread makes a Cache, assigns it, whoever did so meanwhile, and goes on
\* with it.  (A thread that returns the cache another one assigned in between
\* does what one does that comes later.)
MakeCache(t) ==
    /\ req[t].pc = "make"
    /\ \E flag \in BOOLEAN :
          /\ Pinged(flag)
          /\ degraded' = [degraded EXCEPT ![t] = flag]
          /\ req' = [req EXCEPT ![t] = Lookup(t, req[t].param, UseRedis /\ ~flag)]
    /\ cache' = [cache EXCEPT ![ProcOf[t]] = t]
    /\ UNCHANGED <<clock, redis, mem, answer>>

-----------------------------------------------------------------------------
(* Cache.get                                                               *)

\* Redis forgets an entry when its time is over.
RedisHit(t) ==
    /\ req[t].pc = "lookup"
    /\ redis.expires > clock
    /\ Answer(t, redis.value)
    /\ UNCHANGED <<clock, redis, mem, cache, degraded>>

RedisMiss(t) ==
    /\ req[t].pc = "lookup"
    /\ redis.expires <= clock
    /\ Goto(t, "memory")
    /\ UNCHANGED <<clock, redis, mem, cache, degraded, answer>>

\* Redis is gone, or slower than the timeout of the client.
RedisRaises(t) ==
    /\ req[t].pc = "lookup"
    /\ degraded' = [degraded EXCEPT ![req[t].cache] = TRUE]
    /\ Goto(t, "memory")
    /\ UNCHANGED <<clock, redis, mem, cache, answer>>

\* Faulty variant of MemoryHit: the time of the entry is not looked at.
MemoryHitAnyAge(t) ==
    /\ req[t].pc = "memory"
    /\ mem[ProcOf[t]] # NoEntry
    /\ Answer(t, mem[ProcOf[t]].value)
    /\ UNCHANGED <<clock, redis, mem, cache, degraded>>

MemoryHit(t) ==
    /\ req[t].pc = "memory"
    /\ mem[ProcOf[t]].expires > clock
    /\ Answer(t, mem[ProcOf[t]].value)
    /\ UNCHANGED <<clock, redis, mem, cache, degraded>>

\* No entry, or one whose time is over and which get() is about to delete.
MemoryMiss(t) ==
    /\ req[t].pc = "memory"
    /\ mem[ProcOf[t]].expires <= clock
    /\ Goto(t, IF mem[ProcOf[t]] = NoEntry THEN "compute" ELSE "expired")
    /\ UNCHANGED <<clock, redis, mem, cache, degraded, answer>>

\* del _mem_cache[full_key] deletes whatever is there by now.
DeleteExpired(t) ==
    /\ req[t].pc = "expired"
    /\ mem[ProcOf[t]] # NoEntry
    /\ mem' = [mem EXCEPT ![ProcOf[t]] = NoEntry]
    /\ Goto(t, "compute")
    /\ UNCHANGED <<clock, redis, cache, degraded, answer>>

\* Another thread of the process deleted it first: KeyError, a 500.
DeleteRaises(t) ==
    /\ req[t].pc = "expired"
    /\ mem[ProcOf[t]] = NoEntry
    /\ Goto(t, "failed")
    /\ UNCHANGED <<clock, redis, mem, cache, degraded, answer>>

\* The request ends with an error: a failed lookup, or fn() raised.
GiveUp(t) ==
    /\ req[t].pc \in {"failed", "compute"}
    /\ req' = [req EXCEPT ![t] = NoRequest]
    /\ UNCHANGED <<clock, redis, mem, cache, degraded, answer>>

-----------------------------------------------------------------------------
(* The computation, and Cache.set                                          *)

Compute(t) ==
    /\ req[t].pc = "compute"
    /\ req' = [req EXCEPT ![t] =
          [pc |-> "set", param |-> req[t].param, cache |-> req[t].cache,
           value |-> [param |-> req[t].param, read |-> clock]]]
    /\ UNCHANGED <<clock, redis, mem, cache, degraded, answer>>

Set(t) ==
    /\ req[t].pc = "set"
    /\ Goto(t, IF Connected(req[t].cache) THEN "setex" ELSE "keep")
    /\ UNCHANGED <<clock, redis, mem, cache, degraded, answer>>

NewEntry(t) == [value |-> req[t].value, expires |-> clock + Ttl]

StoreInRedis(t) ==
    /\ req[t].pc = "setex"
    /\ redis' = NewEntry(t)
    /\ Answer(t, req[t].value)
    /\ UNCHANGED <<clock, mem, cache, degraded>>

\* Faulty variant of SetRaises: the process goes on using Redis.
SetRaisesUnnoticed(t) ==
    /\ req[t].pc = "setex"
    /\ redis' \in {redis, NewEntry(t)}
    /\ Goto(t, "keep")
    /\ UNCHANGED <<clock, mem, cache, degraded, answer>>

\* setex fails; if only its answer was lost, it has been carried out.
SetRaises(t) ==
    /\ req[t].pc = "setex"
    /\ redis' \in {redis, NewEntry(t)}
    /\ degraded' = [degraded EXCEPT ![req[t].cache] = TRUE]
    /\ Goto(t, "keep")
    /\ UNCHANGED <<clock, mem, cache, answer>>

StoreInMemory(t) ==
    /\ req[t].pc = "keep"
    /\ mem' = [mem EXCEPT ![ProcOf[t]] = NewEntry(t)]
    /\ Answer(t, req[t].value)
    /\ UNCHANGED <<clock, redis, cache, degraded>>

-----------------------------------------------------------------------------
(* Everything else                                                         *)

\* Redis restarts without its data, or evicts the key.
RedisForgets ==
    /\ redis # NoEntry
    /\ redis' = NoEntry
    /\ UNCHANGED <<clock, mem, cache, degraded, req, answer>>

\* A worker is replaced.
RestartProc(p) ==
    /\ mem' = [mem EXCEPT ![p] = NoEntry]
    /\ cache' = [cache EXCEPT ![p] = NoCache]
    /\ degraded' = [t \in Threads |-> IF ProcOf[t] = p THEN FALSE ELSE degraded[t]]
    /\ req' = [t \in Threads |-> IF ProcOf[t] = p THEN NoRequest ELSE req[t]]
    /\ UNCHANGED <<clock, redis, answer>>

\* Time passes; nobody keeps a response longer than MaxCompute before storing it.
ClockTicks ==
    /\ clock < MaxClock
    /\ \A t \in Threads : req[t].pc \in {"set", "setex", "keep"}
                              => clock < req[t].value.read + MaxCompute
    /\ clock' = clock + 1
    /\ UNCHANGED <<redis, mem, cache, degraded, req, answer>>

CacheNext ==
    \/ \E t \in Threads :
          \/ \E param \in Queries : Request(t, param)
          \/ MakeCache(t)
          \/ RedisHit(t) \/ RedisMiss(t) \/ RedisRaises(t)
          \/ MemoryHit(t) \/ MemoryMiss(t) \/ DeleteExpired(t) \/ DeleteRaises(t)
          \/ GiveUp(t) \/ Compute(t) \/ Set(t)
          \/ StoreInRedis(t) \/ SetRaises(t) \/ StoreInMemory(t)
    \/ RedisForgets \/ ClockTicks
    \/ \E p \in Procs : RestartProc(p)

CacheSpec == CacheInit /\ [][CacheNext]_cacheVars

-----------------------------------------------------------------------------
(* Properties                                                              *)

\* The type invariant: entries are responses that expire a time to live after
\* some moment of the past, and threads hold a response when they store it.
CacheTypeOK ==
    /\ clock \in 0..MaxClock
    /\ \A entry \in {redis} \cup {mem[p] : p \in Procs} :
          entry = NoEntry \/ (entry \in CacheEntries /\ entry.expires <= clock + Ttl)
    /\ cache \in [Procs -> Threads \cup {NoCache}]
    /\ degraded \in [Threads -> BOOLEAN]
    /\ \A t \in Threads :
          /\ req[t].pc \in PCs
          /\ req[t].pc \in {"set", "setex", "keep"} => req[t].value \in CachedResponses

\* An entry of the process's dictionary never shadows Redis: there is one only
\* in a process whose cache has turned away from Redis for good, so that get()
\* cannot fall through a miss in Redis to an older response.  The one exception
\* is a process that made two caches, when the one that was replaced has turned
\* away from Redis (cache.py:38-51, 56-62, 92-99).
MemoryOnlyWithoutRedis ==
    \A p \in Procs :
        (mem[p] # NoEntry /\ Connected(cache[p])) =>
            \E t \in Threads : ProcOf[t] = p /\ t # cache[p] /\ degraded[t]

\* No answer shows the database as it was longer ago than the time to live
\* plus the time it may take to compute and store a response, whichever store
\* it comes from and whatever failed between (cache.py:36-62, routes.py:34-41).
AnswersNotStale ==
    answer # NoRequest => answer.age < MaxCompute + Ttl

\* routes.py:227 and frontend/src/services/api.ts:19: a request of
\* /market/fx?limit=n is answered for its own limit.
AnswersItsQuery ==
    answer # NoRequest => answer.of = answer.param
=============================================================================
