------------------------ MODULE ResponseCacheProofs -------------------------
(***************************************************************************)
(* Theorems about the cached endpoints: for any number of processes and    *)
(* threads, with and without Redis, whatever fails and however two caches  *)
(* of a process come about, no answer is older than its time to live       *)
(* allows, and the dictionary of a process never shadows Redis.            *)
(***************************************************************************)
EXTENDS ResponseCache, TLAPS

Looking == {"lookup", "memory", "expired", "compute", "failed"}
Holding == {"set", "setex", "keep"}

\* The locals of a thread at each point of a request.
Reqs ==
    {NoRequest}
        \cup [pc : {"make"}, param : Queries]
        \cup [pc : Looking, param : Queries, cache : Threads]
        \cup [pc : Holding, param : Queries, cache : Threads, value : CachedResponses]

Using(t) == req[t].pc \in Looking \cup Holding

Typed ==
    /\ clock \in 0..MaxClock
    /\ mem \in [Procs -> CacheEntries \cup {NoEntry}] /\ redis \in CacheEntries \cup {NoEntry}
    /\ cache \in [Procs -> Threads \cup {NoCache}]
    /\ degraded \in [Threads -> BOOLEAN]
    /\ req \in [Threads -> Reqs]

\* An entry was stored soon after its value was read.
Timely(entry) == entry # NoEntry => entry.expires <= entry.value.read + MaxCompute + Ttl

Ages ==
    /\ Timely(redis)
    /\ \A p \in Procs : Timely(mem[p])
    /\ \A t \in Threads : req[t].pc \in Holding => clock <= req[t].value.read + MaxCompute
    /\ AnswersNotStale

\* A process without a cache has none in use, nothing in its dictionary, and no
\* thread whose cache turned away from Redis.
NoCacheYet ==
    \A p \in Procs : cache[p] = NoCache =>
        /\ mem[p] = NoEntry
        /\ \A t \in Threads : ProcOf[t] = p => ~Using(t) /\ ~degraded[t]

\* A thread makes a cache once in the life of its process: one that is about to
\* has none in use anywhere.
MadeOnce ==
    /\ \A p \in Procs : cache[p] # NoCache =>
          ProcOf[cache[p]] = p /\ req[cache[p]].pc # "make"
    /\ \A t \in Threads : Using(t) =>
          ProcOf[req[t].cache] = ProcOf[t] /\ req[req[t].cache].pc # "make"
    /\ \A t \in Threads : req[t].pc = "make" => ~degraded[t]

\* The dictionary is written by way of caches that have turned away from Redis.
Turned ==
    /\ \A t \in Threads : req[t].pc = "keep" => ~Connected(req[t].cache)
    /\ \A p \in Procs : mem[p] # NoEntry =>
          ~UseRedis \/ \E t \in Threads : ProcOf[t] = p /\ degraded[t]

\* The inductive invariant.
IInv == Typed /\ Ages /\ NoCacheYet /\ MadeOnce /\ Turned

USE ThreadsAssumption, BoundsAssumption

-----------------------------------------------------------------------------
(* Facts about the locals                                                  *)

\* Each point of a request has its fields.
LEMMA ReqFields ==
    ASSUME NEW r \in Reqs
    PROVE  /\ r.pc \in {"idle", "make"} \cup Looking \cup Holding
           /\ r.pc = "idle" => r = NoRequest
           /\ r.pc # "idle" => r.param \in Queries
           /\ r.pc \in Looking => r \in [pc : Looking, param : Queries, cache : Threads]
           /\ r.pc \in Holding =>
                 r \in [pc : Holding, param : Queries, cache : Threads, value : CachedResponses]
BY DEF Reqs, NoRequest, Looking, Holding

\* A thread that goes on keeps its other locals.
LEMMA GotoFacts ==
    ASSUME Typed, NEW t \in Threads, NEW pc, Goto(t, pc),
           \/ req[t].pc \in Looking /\ pc \in Looking
           \/ req[t].pc \in Holding /\ pc \in Holding
    PROVE  \E r \in Reqs :
              /\ req' = [req EXCEPT ![t] = r]
              /\ r.pc = pc /\ r.cache = req[t].cache /\ r.cache \in Threads
              /\ pc \in Holding => r.value = req[t].value
<1> DEFINE r == [req[t] EXCEPT !.pc = pc]
<1>1. req' = [req EXCEPT ![t] = r]
  BY DEF Goto
<1>2. r \in Reqs /\ r.pc = pc /\ r.cache = req[t].cache /\ r.cache \in Threads
      /\ (pc \in Holding => r.value = req[t].value)
  <2>1. CASE req[t].pc \in Looking /\ pc \in Looking
    <3>1. req[t] \in [pc : Looking, param : Queries, cache : Threads]
      BY <2>1, ReqFields DEF Typed
    <3> QED BY <2>1, <3>1 DEF Reqs, Looking, Holding
  <2>2. CASE req[t].pc \in Holding /\ pc \in Holding
    <3>1. req[t] \in [pc : Holding, param : Queries, cache : Threads, value : CachedResponses]
      BY <2>2, ReqFields DEF Typed
    <3> QED BY <2>2, <3>1 DEF Reqs, Looking, Holding
  <2> QED BY <2>1, <2>2
<1> QED BY <1>1, <1>2

LEMMA InitIInv == CacheInit => IInv
<1> SUFFICES ASSUME CacheInit PROVE IInv
  OBVIOUS
<1>1. Typed
  BY DEF CacheInit, Typed, Reqs, CacheEntries
<1>2. Ages /\ NoCacheYet /\ MadeOnce /\ Turned
  BY DEF CacheInit, Ages, Timely, NoCacheYet, MadeOnce, Turned, Using, NoRequest, Looking, Holding,
         AnswersNotStale
<1> QED BY <1>1, <1>2 DEF IInv

-----------------------------------------------------------------------------
(* A step of one thread                                                    *)

\* A cache that is in use was made, by a thread of the same process.
LEMMA InUse ==
    ASSUME IInv, NEW t \in Threads, Using(t)
    PROVE  /\ req[t].cache \in Threads /\ ProcOf[req[t].cache] = ProcOf[t]
           /\ req[req[t].cache].pc # "make"
           /\ cache[ProcOf[t]] # NoCache
<1>1. req[t] \in Reqs /\ ProcOf[t] \in Procs
  BY DEF IInv, Typed
<1>2. req[t].cache \in Threads
  BY <1>1, ReqFields DEF Using
<1> QED BY <1>1, <1>2 DEF IInv, MadeOnce, NoCacheYet

\* What the locals of one thread may become, and what it may do to the stores
\* and to the flags of the caches on the way, for the invariant to stay.
LEMMA OwnStep ==
    ASSUME IInv, NEW t \in Threads, NEW r \in Reqs, req' = [req EXCEPT ![t] = r],
           UNCHANGED <<clock, cache>>,
           r.pc \in Looking \cup Holding =>
               /\ ProcOf[r.cache] = ProcOf[t] /\ r.cache \in Threads
               /\ req[r.cache].pc # "make" /\ cache[ProcOf[t]] # NoCache,
           r.pc = "make" => cache[ProcOf[t]] = NoCache,
           r.pc = "keep" /\ UseRedis => degraded'[r.cache],
           r.pc \in Holding => clock <= r.value.read + MaxCompute,
           redis' \in CacheEntries \cup {NoEntry}, Timely(redis'),
           mem' \in [Procs -> CacheEntries \cup {NoEntry}],
           \A p \in Procs : mem'[p] # mem[p] =>
               /\ Timely(mem'[p])
               /\ mem'[p] # NoEntry => p = ProcOf[t] /\ Using(t) /\ ~Connected(req[t].cache),
           degraded' \in [Threads -> BOOLEAN],
           \A u \in Threads : degraded[u] => degraded'[u],
           \A u \in Threads : degraded'[u] # degraded[u] => Using(t) /\ u = req[t].cache,
           AnswersNotStale'
    PROVE  IInv'
<1>1. req \in [Threads -> Reqs] /\ req'[t] = r /\ \A u \in Threads \ {t} : req'[u] = req[u]
  BY DEF IInv, Typed
<1>2. Typed'
  BY <1>1 DEF IInv, Typed
<1>3. Ages'
  BY <1>1 DEF IInv, Ages, Timely
<1>4. NoCacheYet'
  <2> SUFFICES ASSUME NEW p \in Procs, cache[p] = NoCache
               PROVE  /\ mem'[p] = NoEntry
                      /\ \A u \in Threads : ProcOf[u] = p => ~Using(u)' /\ ~degraded'[u]
    BY DEF NoCacheYet
  <2>1. mem[p] = NoEntry /\ \A u \in Threads : ProcOf[u] = p => ~Using(u) /\ ~degraded[u]
    BY DEF IInv, NoCacheYet
  <2>2. mem'[p] = NoEntry
    BY <2>1
  <2>3. ASSUME NEW u \in Threads, ProcOf[u] = p PROVE ~Using(u)' /\ ~degraded'[u]
    <3>1. ~Using(u)'
      BY <1>1, <2>1, <2>3 DEF Using
    <3>2. ~degraded'[u]
      BY <2>1, <2>3, InUse
    <3> QED BY <3>1, <3>2
  <2> QED BY <2>2, <2>3
<1>5. MadeOnce'
  <2>1. ASSUME r.pc = "make"
        PROVE  /\ \A u \in Threads : Using(u) => req[u].cache # t
               /\ \A p \in Procs : cache[p] # t
               /\ ~degraded'[t]
    <3>1. \A u \in Threads : ProcOf[u] = ProcOf[t] => ~Using(u) /\ ~degraded[u]
      BY <2>1 DEF IInv, NoCacheYet
    <3>2. \A p \in Procs : cache[p] # t
      BY <2>1 DEF IInv, MadeOnce
    <3>3. \A u \in Threads : Using(u) => req[u].cache # t
      BY <3>1, InUse
    <3> QED BY <3>1, <3>2, <3>3
  <2>2. \A p \in Procs : cache[p] # NoCache =>
            ProcOf[cache[p]] = p /\ cache[p] \in Threads /\ req'[cache[p]].pc # "make"
    BY <1>1, <2>1 DEF IInv, MadeOnce, Typed
  <2>3. ASSUME NEW u \in Threads, Using(u)'
        PROVE  ProcOf[req'[u].cache] = ProcOf[u] /\ req'[req'[u].cache].pc # "make"
    <3>1. CASE u = t
      BY <1>1, <2>3, <3>1 DEF Using, Looking, Holding
    <3>2. CASE u # t
      <4>1. Using(u) /\ req'[u].cache = req[u].cache
        BY <1>1, <2>3, <3>2 DEF Using
      <4> QED BY <1>1, <2>1, <4>1, InUse
    <3> QED BY <3>1, <3>2
  <2>4. ASSUME NEW u \in Threads, req'[u].pc = "make" PROVE ~degraded'[u]
    <3>1. CASE u = t
      BY <1>1, <2>1, <2>4, <3>1
    <3>2. CASE u # t
      <4>1. req[u].pc = "make" /\ ~degraded[u]
        BY <1>1, <2>4, <3>2 DEF IInv, MadeOnce
      <4> QED BY <4>1, InUse
    <3> QED BY <3>1, <3>2
  <2> QED BY <2>2, <2>3, <2>4 DEF MadeOnce
<1>6. Turned'
  <2>1. ASSUME NEW u \in Threads, req'[u].pc = "keep", UseRedis PROVE degraded'[req'[u].cache]
    <3>1. CASE u = t
      BY <1>1, <2>1, <3>1
    <3>2. CASE u # t
      <4>1. req[u].pc = "keep" /\ req'[u] = req[u] /\ Using(u)
        BY <1>1, <2>1, <3>2 DEF Using, Holding
      <4>2. degraded[req[u].cache] /\ req[u].cache \in Threads
        BY <2>1, <4>1, InUse DEF IInv, Turned, Connected
      <4> QED BY <4>1, <4>2
    <3> QED BY <3>1, <3>2
  <2>2. ASSUME NEW p \in Procs, mem'[p] # NoEntry
        PROVE  ~UseRedis \/ \E u \in Threads : ProcOf[u] = p /\ degraded'[u]
    <3>1. CASE mem'[p] = mem[p]
      BY <2>2, <3>1 DEF IInv, Turned
    <3>2. CASE mem'[p] # mem[p]
      BY <2>2, <3>2, InUse DEF Connected
    <3> QED BY <3>1, <3>2
  <2> QED BY <2>1, <2>2 DEF Turned, Connected
<1> QED BY <1>2, <1>3, <1>4, <1>5, <1>6 DEF IInv

-----------------------------------------------------------------------------
(* The actions                                                             *)

\* An answer ends the request; it is not too old if its value is not.
LEMMA AnswerFacts ==
    ASSUME NEW t \in Threads, NEW value, Answer(t, value),
           clock < value.read + MaxCompute + Ttl, value.read \in Int, clock \in Int
    PROVE  /\ req' = [req EXCEPT ![t] = NoRequest]
           /\ answer'.age < MaxCompute + Ttl
BY DEF Answer

LEMMA NoRequestFacts ==
    /\ NoRequest \in Reqs /\ NoRequest.pc = "idle"
    /\ "idle" \notin Looking \cup Holding
BY DEF NoRequest, Reqs, Looking, Holding

\* What an entry that is not over holds.
LEMMA EntryFacts ==
    ASSUME NEW entry \in CacheEntries \cup {NoEntry}, Timely(entry), clock \in 0..MaxClock,
           entry.expires > clock
    PROVE  /\ entry # NoEntry /\ entry.value.read \in Int
           /\ clock < entry.value.read + MaxCompute + Ttl
BY DEF CacheEntries, NoEntry, Timely, CachedResponses

\* An entry that is stored now.
LEMMA NewEntryFacts ==
    ASSUME IInv, NEW t \in Threads, req[t].pc \in Holding
    PROVE  /\ NewEntry(t) \in CacheEntries /\ Timely(NewEntry(t)) /\ NewEntry(t) # NoEntry
           /\ req[t].value.read \in Int /\ clock < req[t].value.read + MaxCompute + Ttl
<1>1. req[t].value \in CachedResponses
  BY ReqFields DEF IInv, Typed
<1>2. clock \in 0..MaxClock /\ clock <= req[t].value.read + MaxCompute /\ req[t].value.read \in 0..MaxClock
  BY <1>1 DEF IInv, Typed, Ages, CachedResponses
<1>3. NewEntry(t) \in CacheEntries
  BY <1>1, <1>2 DEF NewEntry, CacheEntries
<1>4. Timely(NewEntry(t))
  BY <1>2 DEF NewEntry, Timely
<1>5. NewEntry(t) # NoEntry
  BY <1>2 DEF NewEntry, NoEntry
<1> QED BY <1>2, <1>3, <1>4, <1>5

LEMMA RequestInv ==
    ASSUME IInv, NEW t \in Threads, NEW param \in Queries, Request(t, param)
    PROVE  IInv'
<1> DEFINE c == cache[ProcOf[t]]
           r == IF c = NoCache THEN [pc |-> "make", param |-> param]
                ELSE Lookup(c, param, Connected(c))
<1>1. c \in Threads \cup {NoCache}
  BY DEF IInv, Typed
<1>2. r \in Reqs /\ r.pc \in {"make", "lookup", "memory"}
      /\ (r.pc = "make" => c = NoCache)
      /\ (r.pc # "make" => c # NoCache /\ r.cache = c)
  BY <1>1 DEF Reqs, Lookup, Looking
<1>3. req' = [req EXCEPT ![t] = r] /\ UNCHANGED <<clock, redis, mem, cache, degraded, answer>>
  BY DEF Request
<1> HIDE DEF r
<1>4. c # NoCache => ProcOf[c] = ProcOf[t] /\ c \in Threads /\ req[c].pc # "make"
  BY <1>1 DEF IInv, MadeOnce
<1> QED
  BY <1>2, <1>3, <1>4, OwnStep DEF IInv, Typed, Ages, AnswersNotStale, Looking, Holding

\* Steps of Cache.get and Cache.set that leave all but the locals alone.
LEMMA GotoInv ==
    ASSUME IInv, NEW t \in Threads, NEW pc, Goto(t, pc),
           \/ req[t].pc \in Looking /\ pc \in Looking
           \/ req[t].pc \in Holding /\ pc \in Holding,
           UNCHANGED <<clock, cache, answer, mem>>,
           redis' \in CacheEntries \cup {NoEntry}, Timely(redis'),
           \/ degraded' = degraded
           \/ degraded' = [degraded EXCEPT ![req[t].cache] = TRUE],
           pc = "keep" /\ UseRedis => degraded'[req[t].cache]
    PROVE  IInv'
<1>1. PICK r \in Reqs :
          /\ req' = [req EXCEPT ![t] = r]
          /\ r.pc = pc /\ r.cache = req[t].cache /\ r.cache \in Threads
          /\ pc \in Holding => r.value = req[t].value
  BY GotoFacts DEF IInv
<1>2. Using(t) /\ r.pc \in Looking \cup Holding /\ r.pc # "make"
      /\ (r.pc \in Holding => req[t].pc \in Holding)
  BY <1>1 DEF Using, Looking, Holding
<1>3. ProcOf[r.cache] = ProcOf[t] /\ req[r.cache].pc # "make" /\ cache[ProcOf[t]] # NoCache
  BY <1>1, <1>2, InUse
<1>4. r.pc \in Holding => clock <= r.value.read + MaxCompute
  BY <1>1, <1>2 DEF IInv, Ages
<1>5. /\ degraded' \in [Threads -> BOOLEAN]
      /\ \A u \in Threads : degraded[u] => degraded'[u]
      /\ \A u \in Threads : degraded'[u] # degraded[u] => u = req[t].cache
  BY DEF IInv, Typed
<1>6. AnswersNotStale' /\ mem' \in [Procs -> CacheEntries \cup {NoEntry}]
  BY DEF IInv, Typed, Ages, AnswersNotStale
<1> QED
  BY <1>1, <1>2, <1>3, <1>4, <1>5, <1>6, OwnStep

LEMMA LookupInv ==
    ASSUME IInv, NEW t \in Threads,
           \/ RedisMiss(t) \/ RedisRaises(t) \/ MemoryMiss(t) \/ DeleteRaises(t)
           \/ Set(t) \/ SetRaises(t)
    PROVE  IInv'
<1>1. redis \in CacheEntries \cup {NoEntry} /\ Timely(redis)
  BY DEF IInv, Typed, Ages
<1>2. degraded \in [Threads -> BOOLEAN]
  BY DEF IInv, Typed
<1>3. CASE RedisMiss(t)
  BY <1>1, <1>3, GotoInv DEF RedisMiss, Looking
<1>4. CASE RedisRaises(t)
  BY <1>1, <1>4, GotoInv DEF RedisRaises, Looking
<1>5. CASE MemoryMiss(t)
  BY <1>1, <1>5, GotoInv DEF MemoryMiss, Looking
<1>6. CASE DeleteRaises(t)
  BY <1>1, <1>6, GotoInv DEF DeleteRaises, Looking
<1>7. CASE Set(t)
  <2>1. Using(t) /\ req[t].cache \in Threads
    BY <1>7, InUse DEF Set, Using, Holding
  <2> QED BY <1>1, <1>7, <2>1, GotoInv DEF Set, Connected, Holding
<1>8. CASE SetRaises(t)
  <2>1. req[t].pc \in Holding /\ req[t].cache \in Threads
    BY <1>8, InUse DEF SetRaises, Using, Holding
  <2>2. redis' \in CacheEntries \cup {NoEntry} /\ Timely(redis')
    BY <1>1, <1>8, <2>1, NewEntryFacts DEF SetRaises
  <2>3. degraded'[req[t].cache]
    BY <1>2, <1>8, <2>1 DEF SetRaises
  <2> QED BY <1>8, <2>1, <2>2, <2>3, GotoInv DEF SetRaises, Holding
<1> QED BY <1>3, <1>4, <1>5, <1>6, <1>7, <1>8

\* Steps that end a request, with an answer or with an error.
LEMMA EndInv ==
    ASSUME IInv, NEW t \in Threads,
           \/ RedisHit(t) \/ MemoryHit(t) \/ GiveUp(t) \/ StoreInRedis(t) \/ StoreInMemory(t)
    PROVE  IInv'
<1>1. /\ redis \in CacheEntries \cup {NoEntry} /\ Timely(redis)
      /\ mem \in [Procs -> CacheEntries \cup {NoEntry}] /\ \A p \in Procs : Timely(mem[p])
      /\ clock \in 0..MaxClock /\ degraded \in [Threads -> BOOLEAN] /\ AnswersNotStale
      /\ ProcOf[t] \in Procs
  BY DEF IInv, Typed, Ages
<1>2. CASE RedisHit(t)
  <2>1. req' = [req EXCEPT ![t] = NoRequest] /\ answer'.age < MaxCompute + Ttl
    BY <1>1, <1>2, EntryFacts, AnswerFacts DEF RedisHit
  <2> QED BY <1>1, <1>2, <2>1, NoRequestFacts, OwnStep DEF RedisHit, AnswersNotStale, Holding
<1>3. CASE MemoryHit(t)
  <2>1. req' = [req EXCEPT ![t] = NoRequest] /\ answer'.age < MaxCompute + Ttl
    BY <1>1, <1>3, EntryFacts, AnswerFacts DEF MemoryHit
  <2> QED BY <1>1, <1>3, <2>1, NoRequestFacts, OwnStep DEF MemoryHit, AnswersNotStale, Holding
<1>4. CASE GiveUp(t)
  BY <1>1, <1>4, NoRequestFacts, OwnStep DEF GiveUp, AnswersNotStale, Holding
<1>5. CASE StoreInRedis(t)
  <2>1. req[t].pc \in Holding
    BY <1>5 DEF StoreInRedis, Holding
  <2>2. req' = [req EXCEPT ![t] = NoRequest] /\ answer'.age < MaxCompute + Ttl
    BY <1>1, <1>5, <2>1, NewEntryFacts, AnswerFacts DEF StoreInRedis
  <2> QED BY <1>1, <1>5, <2>1, <2>2, NewEntryFacts, NoRequestFacts, OwnStep
          DEF StoreInRedis, AnswersNotStale, Holding
<1>6. CASE StoreInMemory(t)
  <2>1. req[t].pc \in Holding /\ Using(t) /\ req[t].pc = "keep"
    BY <1>6 DEF StoreInMemory, Holding, Using
  <2>2. req' = [req EXCEPT ![t] = NoRequest] /\ answer'.age < MaxCompute + Ttl
    BY <1>1, <1>6, <2>1, NewEntryFacts, AnswerFacts DEF StoreInMemory
  <2>3. ~Connected(req[t].cache)
    BY <2>1 DEF IInv, Turned
  <2>4. /\ mem' \in [Procs -> CacheEntries \cup {NoEntry}]
        /\ \A p \in Procs : mem'[p] # mem[p] => p = ProcOf[t] /\ Timely(mem'[p])
    BY <1>1, <1>6, <2>1, NewEntryFacts DEF StoreInMemory
  <2>5. UNCHANGED <<clock, redis, cache, degraded>>
    BY <1>6 DEF StoreInMemory
  <2>6. AnswersNotStale'
    BY <2>2 DEF AnswersNotStale
  <2>7. NoRequest.pc = "idle" /\ NoRequest.pc \notin Looking \cup Holding
    BY NoRequestFacts
  <2>8. NoRequest.pc # "make" /\ NoRequest.pc # "keep" /\ NoRequest.pc \notin Holding
    BY <2>7
  <2> QED BY <1>1, <2>1, <2>2, <2>3, <2>4, <2>5, <2>6, <2>7, <2>8, NoRequestFacts, OwnStep
<1> QED BY <1>2, <1>3, <1>4, <1>5, <1>6

LEMMA DeleteExpiredInv ==
    ASSUME IInv, NEW t \in Threads, DeleteExpired(t)
    PROVE  IInv'
<1>1. PICK r \in Reqs :
          req' = [req EXCEPT ![t] = r] /\ r.pc = "compute" /\ r.cache = req[t].cache
  BY GotoFacts DEF IInv, DeleteExpired, Looking
<1>2. Using(t)
  BY DEF DeleteExpired, Using, Looking
<1>3. /\ mem' \in [Procs -> CacheEntries \cup {NoEntry}]
      /\ \A p \in Procs : mem'[p] # mem[p] => mem'[p] = NoEntry
  BY DEF DeleteExpired, IInv, Typed
<1>4. /\ UNCHANGED <<clock, redis, cache, degraded, answer>>
      /\ redis \in CacheEntries \cup {NoEntry} /\ Timely(redis)
      /\ degraded \in [Threads -> BOOLEAN] /\ AnswersNotStale
  BY DEF DeleteExpired, IInv, Typed, Ages
<1>5. \A p \in Procs : mem'[p] # mem[p] => Timely(mem'[p]) /\ mem'[p] = NoEntry
  BY <1>3 DEF Timely
<1>6. AnswersNotStale' /\ "compute" \notin Holding
  BY <1>4 DEF AnswersNotStale, Holding
<1>7. /\ r.cache \in Threads /\ ProcOf[r.cache] = ProcOf[t] /\ req[r.cache].pc # "make"
      /\ cache[ProcOf[t]] # NoCache
  BY <1>1, <1>2, InUse
<1> QED BY <1>1, <1>2, <1>3, <1>4, <1>5, <1>6, <1>7, OwnStep

LEMMA ComputeInv ==
    ASSUME IInv, NEW t \in Threads, Compute(t)
    PROVE  IInv'
<1> DEFINE r == [pc |-> "set", param |-> req[t].param, cache |-> req[t].cache,
                 value |-> [param |-> req[t].param, read |-> clock]]
<1>1. req' = [req EXCEPT ![t] = r] /\ UNCHANGED <<clock, redis, mem, cache, degraded, answer>>
  BY DEF Compute
<1>2. Using(t) /\ req[t] \in [pc : Looking, param : Queries, cache : Threads] /\ clock \in 0..MaxClock
  BY ReqFields DEF Compute, Using, Looking, IInv, Typed
<1>3. r \in Reqs /\ r.pc = "set" /\ r.cache = req[t].cache /\ r.value.read = clock
  BY <1>2 DEF Reqs, Holding, CachedResponses
<1> HIDE DEF r
<1>4. clock <= r.value.read + MaxCompute
  BY <1>2, <1>3
<1>5. /\ redis \in CacheEntries \cup {NoEntry} /\ Timely(redis)
      /\ mem \in [Procs -> CacheEntries \cup {NoEntry}]
      /\ degraded \in [Threads -> BOOLEAN] /\ AnswersNotStale
  BY DEF IInv, Typed, Ages
<1> QED BY <1>1, <1>2, <1>3, <1>4, <1>5, InUse, OwnStep DEF AnswersNotStale

\* A thread that makes a cache had made none: its flag was not set, and no
\* thread was using a cache of its.
LEMMA MakeCacheInv ==
    ASSUME IInv, NEW t \in Threads, MakeCache(t)
    PROVE  IInv'
<1>1. PICK flag \in BOOLEAN :
          /\ Pinged(flag)
          /\ degraded' = [degraded EXCEPT ![t] = flag]
          /\ req' = [req EXCEPT ![t] = Lookup(t, req[t].param, UseRedis /\ ~flag)]
  BY DEF MakeCache
<1> DEFINE r == Lookup(t, req[t].param, UseRedis /\ ~flag)
<1>2. /\ req[t].pc = "make" /\ req[t].param \in Queries /\ ~degraded[t]
      /\ req \in [Threads -> Reqs] /\ degraded \in [Threads -> BOOLEAN]
      /\ cache \in [Procs -> Threads \cup {NoCache}] /\ ProcOf[t] \in Procs
      /\ cache' = [cache EXCEPT ![ProcOf[t]] = t]
      /\ UNCHANGED <<clock, redis, mem, answer>>
  BY ReqFields DEF MakeCache, IInv, Typed, MadeOnce
<1>3. r \in Reqs /\ r.pc \in {"lookup", "memory"} /\ r.cache = t
  BY <1>2 DEF Lookup, Reqs, Looking
<1>4. req' = [req EXCEPT ![t] = r]
  BY <1>1
<1> HIDE DEF r
<1>5. req'[t] = r /\ \A u \in Threads \ {t} : req'[u] = req[u]
  BY <1>2, <1>4
<1>6. Typed'
  BY <1>1, <1>2, <1>3, <1>4 DEF IInv, Typed
<1>7. Ages'
  BY <1>2, <1>3, <1>5 DEF IInv, Ages, Timely, AnswersNotStale, Holding
<1>8. NoCacheYet'
  <2> SUFFICES ASSUME NEW p \in Procs, cache'[p] = NoCache
               PROVE  /\ mem'[p] = NoEntry
                      /\ \A u \in Threads : ProcOf[u] = p => ~Using(u)' /\ ~degraded'[u]
    BY DEF NoCacheYet
  <2>1. p # ProcOf[t] /\ cache[p] = NoCache
    BY <1>2
  <2> QED BY <1>1, <1>2, <1>5, <2>1 DEF IInv, NoCacheYet, Using
<1>9. MadeOnce'
  <2>1. \A p \in Procs : cache'[p] # NoCache =>
            ProcOf[cache'[p]] = p /\ req'[cache'[p]].pc # "make"
    <3> SUFFICES ASSUME NEW p \in Procs, cache'[p] # NoCache
                 PROVE  ProcOf[cache'[p]] = p /\ req'[cache'[p]].pc # "make"
      OBVIOUS
    <3>1. CASE p = ProcOf[t]
      BY <1>2, <1>3, <1>5, <3>1
    <3>2. CASE p # ProcOf[t]
      <4>1. cache'[p] = cache[p] /\ cache[p] \in Threads
        BY <1>2, <3>2
      <4>2. ProcOf[cache[p]] = p /\ req[cache[p]].pc # "make"
        BY <4>1 DEF IInv, MadeOnce
      <4> QED BY <1>5, <4>1, <4>2, <1>3
    <3> QED BY <3>1, <3>2
  <2>2. ASSUME NEW u \in Threads, Using(u)'
        PROVE  ProcOf[req'[u].cache] = ProcOf[u] /\ req'[req'[u].cache].pc # "make"
    <3>1. CASE u = t
      BY <1>3, <1>5, <3>1
    <3>2. CASE u # t
      <4>1. Using(u) /\ req'[u] = req[u]
        BY <1>5, <2>2, <3>2 DEF Using
      <4> QED BY <1>3, <1>5, <4>1, InUse
    <3> QED BY <3>1, <3>2
  <2>3. \A u \in Threads : req'[u].pc = "make" => ~degraded'[u]
    BY <1>1, <1>2, <1>3, <1>5 DEF IInv, MadeOnce
  <2> QED BY <2>1, <2>2, <2>3 DEF MadeOnce
<1>10. \A u \in Threads : degraded[u] => degraded'[u]
  BY <1>1, <1>2
<1>11. Turned'
  <2>1. ASSUME NEW u \in Threads, req'[u].pc = "keep", UseRedis PROVE degraded'[req'[u].cache]
    <3>1. u # t /\ req'[u] = req[u] /\ Using(u)
      BY <1>3, <1>5, <2>1 DEF Using, Holding
    <3> QED BY <1>10, <2>1, <3>1, InUse DEF IInv, Turned, Connected
  <2>2. ASSUME NEW p \in Procs, mem'[p] # NoEntry
        PROVE  ~UseRedis \/ \E u \in Threads : ProcOf[u] = p /\ degraded'[u]
    BY <1>2, <1>10, <2>2 DEF IInv, Turned
  <2> QED BY <2>1, <2>2 DEF Turned, Connected
<1> QED BY <1>6, <1>7, <1>8, <1>9, <1>11 DEF IInv

LEMMA TickInv ==
    ASSUME IInv, ClockTicks
    PROVE  IInv'
<1>1. Typed'
  BY DEF ClockTicks, IInv, Typed
<1>2. Ages'
  <2> SUFFICES ASSUME NEW t \in Threads, req[t].pc \in Holding
               PROVE  clock + 1 <= req[t].value.read + MaxCompute
    BY DEF ClockTicks, IInv, Ages, Timely, AnswersNotStale
  <2>1. req[t].value \in CachedResponses /\ clock \in Int
    BY ReqFields DEF IInv, Typed
  <2> QED BY <2>1 DEF ClockTicks, Holding, CachedResponses
<1>3. NoCacheYet' /\ MadeOnce' /\ Turned'
  BY DEF ClockTicks, IInv, NoCacheYet, MadeOnce, Turned, Using, Connected
<1> QED BY <1>1, <1>2, <1>3 DEF IInv

LEMMA RedisForgetsInv ==
    ASSUME IInv, RedisForgets
    PROVE  IInv'
<1>1. Typed' /\ Ages'
  BY DEF RedisForgets, IInv, Typed, Ages, Timely, AnswersNotStale
<1>2. NoCacheYet' /\ MadeOnce' /\ Turned'
  BY DEF RedisForgets, IInv, NoCacheYet, MadeOnce, Turned, Using, Connected
<1> QED BY <1>1, <1>2 DEF IInv

\* What a process held is gone with it, what others hold stays.
LEMMA RestartInv ==
    ASSUME IInv, NEW p \in Procs, RestartProc(p)
    PROVE  IInv'
<1>1. /\ \A t \in Threads : ProcOf[t] = p => req'[t] = NoRequest /\ ~degraded'[t]
      /\ \A t \in Threads : ProcOf[t] # p => req'[t] = req[t] /\ degraded'[t] = degraded[t]
      /\ mem'[p] = NoEntry /\ cache'[p] = NoCache
      /\ \A q \in Procs \ {p} : mem'[q] = mem[q] /\ cache'[q] = cache[q]
      /\ UNCHANGED <<clock, redis, answer>>
  BY DEF RestartProc, IInv, Typed
<1>2. Typed'
  BY NoRequestFacts DEF RestartProc, IInv, Typed
<1>3. Ages'
  BY <1>1, NoRequestFacts DEF IInv, Ages, Timely, AnswersNotStale, Holding
<1>4. NoCacheYet'
  BY <1>1, NoRequestFacts DEF IInv, NoCacheYet, Using
<1>5. MadeOnce'
  <2>1. ASSUME NEW q \in Procs, cache'[q] # NoCache
        PROVE  ProcOf[cache'[q]] = q /\ req'[cache'[q]].pc # "make"
    <3>1. q # p /\ cache'[q] = cache[q] /\ cache[q] \in Threads
      BY <1>1, <2>1 DEF IInv, Typed
    <3> QED BY <1>1, <2>1, <3>1 DEF IInv, MadeOnce
  <2>2. ASSUME NEW u \in Threads, Using(u)'
        PROVE  ProcOf[req'[u].cache] = ProcOf[u] /\ req'[req'[u].cache].pc # "make"
    <3>1. ProcOf[u] # p /\ req'[u] = req[u] /\ Using(u)
      BY <1>1, <2>2, NoRequestFacts DEF Using
    <3> QED BY <1>1, <3>1, InUse
  <2>3. \A u \in Threads : req'[u].pc = "make" => ~degraded'[u]
    BY <1>1 DEF IInv, MadeOnce
  <2> QED BY <2>1, <2>2, <2>3 DEF MadeOnce
<1>6. Turned'
  <2>1. ASSUME NEW u \in Threads, req'[u].pc = "keep", UseRedis PROVE degraded'[req'[u].cache]
    <3>1. ProcOf[u] # p /\ req'[u] = req[u] /\ Using(u)
      BY <1>1, <2>1, NoRequestFacts DEF Using, Holding
    <3> QED BY <1>1, <2>1, <3>1, InUse DEF IInv, Turned, Connected
  <2>2. ASSUME NEW q \in Procs, mem'[q] # NoEntry
        PROVE  ~UseRedis \/ \E u \in Threads : ProcOf[u] = q /\ degraded'[u]
    BY <1>1, <2>2 DEF IInv, Turned
  <2> QED BY <2>1, <2>2 DEF Turned, Connected
<1> QED BY <1>2, <1>3, <1>4, <1>5, <1>6 DEF IInv

LEMMA NextIInv == IInv /\ [CacheNext]_cacheVars => IInv'
<1> SUFFICES ASSUME IInv, [CacheNext]_cacheVars PROVE IInv'
  OBVIOUS
<1>1. ASSUME NEW t \in Threads, NEW param \in Queries, Request(t, param) PROVE IInv'
  BY <1>1, RequestInv
<1>2. ASSUME NEW t \in Threads,
             \/ MakeCache(t)
             \/ RedisHit(t) \/ RedisMiss(t) \/ RedisRaises(t)
             \/ MemoryHit(t) \/ MemoryMiss(t) \/ DeleteExpired(t) \/ DeleteRaises(t)
             \/ GiveUp(t) \/ Compute(t) \/ Set(t)
             \/ StoreInRedis(t) \/ SetRaises(t) \/ StoreInMemory(t)
      PROVE  IInv'
  BY <1>2, MakeCacheInv, LookupInv, EndInv, DeleteExpiredInv, ComputeInv
<1>3. CASE RedisForgets \/ ClockTicks
  BY <1>3, RedisForgetsInv, TickInv
<1>4. ASSUME NEW p \in Procs, RestartProc(p) PROVE IInv'
  BY <1>4, RestartInv
<1>5. CASE UNCHANGED cacheVars
  BY <1>5 DEF cacheVars, IInv, Typed, Ages, Timely, AnswersNotStale, NoCacheYet, MadeOnce, Turned,
       Using, Connected
<1> QED BY <1>1, <1>2, <1>3, <1>4, <1>5 DEF CacheNext

-----------------------------------------------------------------------------
(* The theorems                                                            *)

\* The inductive invariant holds in every behaviour.
THEOREM InductiveInvariant == CacheSpec => []IInv
BY InitIInv, NextIInv, PTL DEF CacheSpec

\* No answer is older than the time to live and the time a response takes,
\* whichever store it comes from and whatever failed (cache.py:36-62,
\* routes.py:34-41).
THEOREM AnswersAreFresh == CacheSpec => []AnswersNotStale
<1>1. IInv => AnswersNotStale
  BY DEF IInv, Ages
<1> QED BY <1>1, InductiveInvariant, PTL

\* The dictionary of a process never shadows Redis, but for a process that made
\* two caches of which the replaced one has turned away from Redis
\* (cache.py:38-51, 56-62, 92-99).
THEOREM MemoryNeverShadows == CacheSpec => []MemoryOnlyWithoutRedis
<1>1. IInv => MemoryOnlyWithoutRedis
  <2> SUFFICES ASSUME IInv, NEW p \in Procs, mem[p] # NoEntry, Connected(cache[p])
               PROVE  \E t \in Threads : ProcOf[t] = p /\ t # cache[p] /\ degraded[t]
    BY DEF MemoryOnlyWithoutRedis
  <2> QED BY DEF IInv, Turned, Connected
<1> QED BY <1>1, InductiveInvariant, PTL
=============================================================================
