--------------------------- MODULE PlatformProofs ---------------------------
(***************************************************************************)
(* Theorems about the parts of the platform that share no state with one   *)
(* another (MCPlatform is their instance for TLC), one after the other:    *)
(*   RateLimit   for any number of workers, clients and paths, any limits, *)
(*               windows and clock rates, no window holds more requests    *)
(*               than its limit, and the two headers keep what they        *)
(*               promise;                                                  *)
(*   Metrics     for any number of routes, responses and scrapes and any   *)
(*               lengths of the lists, a list of durations holds the       *)
(*               newest ones of its route, and a scrape leaves out no more *)
(*               than what came during it;                                 *)
(*   Policy      for any number of trainings, in any order and with any    *)
(*               failures, at most one policy is active and infer()        *)
(*               answers with it; and for any number of days and any draws *)
(*               of the generator, the search cannot tell the actions      *)
(*               apart;                                                    *)
(*   Startup     for any number of processes and tables, with any          *)
(*               references between them, processes that start together    *)
(*               leave all the tables and an admin, unless one died at it, *)
(*               the database failed it, or two sorted the tables          *)
(*               differently;                                              *)
(*   Scenarios   for any number of scenarios and attempts and any answers, *)
(*               generate() stores what it was asked for, or the part that *)
(*               its error lets through.                                   *)
(***************************************************************************)
EXTENDS RateLimit, Metrics, Policy, Startup, Scenarios,
        FiniteSetTheorems, SequenceTheorems, WellFoundedInduction, TLAPS

-----------------------------------------------------------------------------
(* RateLimit: the rate limiter                                             *)

\* The list of a key holds accepted hits, among them all those of the window;
\* hits are numbered as they are accepted.
ListOK(k) ==
    /\ IsFiniteSet(accepted[k])
    /\ hits[k] \subseteq accepted[k]
    /\ Live(accepted[k]) \subseteq hits[k]
    /\ \A h \in accepted[k] : h.at \in 0..now /\ h.n \in 1..Cardinality(accepted[k])

\* As long as nobody was let in after a refusal, all hits are from before it,
\* and one that was in the window then has left it when the client may return.
RefusalOK(k) ==
    /\ refused[k].at \in 0..now /\ refused[k].retry \in Nat
    /\ refused[k].count \in 0..Cardinality(accepted[k])
    /\ (refused[k].retry > 0 /\ refused[k].count = Cardinality(accepted[k])) =>
          /\ \A h \in accepted[k] : h.at <= refused[k].at
          /\ \E o \in InWindow(k, refused[k].at) :
                o.at + Window <= refused[k].at + refused[k].retry * Second

\* No window of a key is overfilled.
HeldAt(k) == \A t \in 0..now : Cardinality(InWindow(k, t)) <= GetLimit(k[3])

\* The inductive invariant.
RateInv ==
    /\ now \in Nat
    /\ DOMAIN hits = Keys /\ DOMAIN accepted = Keys /\ DOMAIN refused = Keys
    /\ DOMAIN remaining = Keys
    /\ \A k \in Keys : ListOK(k) /\ RefusalOK(k) /\ HeldAt(k)

-----------------------------------------------------------------------------
(* Numbers                                                                 *)

\* A set of natural numbers that is not empty has a least element.
LEMMA Least ==
    ASSUME NEW T, T \subseteq Nat, T # {}
    PROVE  \E x \in T : \A y \in T : x <= y
<1> DEFINE R == OpToRel(<, Nat)
<1>1. IsWellFoundedOn(R, Nat)
  BY NatLessThanWellFounded DEF OpToRel
<1>2. \E x \in T : \A y \in T : ~(<<y, x>> \in R)
  <2> HIDE DEF R
  <2> QED BY <1>1, WFMin
<1>3. \A x, y \in Nat : ~(<<y, x>> \in R) => x <= y
  BY DEF OpToRel
<1> QED BY <1>2, <1>3

\* Rounded down and one added is more than enough.
LEMMA RoundedUp ==
    ASSUME NEW x \in Nat, NEW s \in Nat \ {0}
    PROVE  x \div s \in Nat /\ x <= (x \div s + 1) * s
OBVIOUS

\* A set that gains an element is larger by one at most.
LEMMA OneMore ==
    ASSUME NEW S, IsFiniteSet(S), NEW x
    PROVE  Cardinality(S \cup {x}) \in Nat /\ Cardinality(S \cup {x}) <= Cardinality(S) + 1
<1>1. Cardinality(S) \in Nat
  BY FS_CardinalityType
<1>2. CASE x \in S
  BY <1>1, <1>2, FS_AddElement
<1>3. CASE x \notin S
  BY <1>1, <1>3, FS_AddElement
<1> QED BY <1>2, <1>3

\* A limit is a natural number, whichever override fits.
LEMMA LimitType == ASSUME NEW path PROVE GetLimit(path) \in Nat
<1> DEFINE fits == {i \in DOMAIN Overrides : <<path, Overrides[i][1]>> \in StartsWith}
           first == CHOOSE i \in fits : \A j \in fits : i <= j
<1>1. CASE fits = {}
  BY <1>1, LimitsAssumption DEF GetLimit
<1>2. CASE fits # {}
  <2>1. \E i \in fits : \A j \in fits : i <= j
    <3>1. fits \subseteq Nat
      BY LimitsAssumption
    <3> HIDE DEF fits
    <3> QED BY <1>2, <3>1, Least
  <2>2. first \in DOMAIN Overrides
    BY <2>1
  <2>3. Overrides[first][2] \in Nat
    <3> HIDE DEF first
    <3>1. Overrides[first] \in STRING \X Nat
      BY <2>2, LimitsAssumption
    <3> QED BY <3>1
  <2>4. GetLimit(path) = Overrides[first][2]
    BY <1>2 DEF GetLimit
  <2> QED BY <2>3, <2>4
<1> QED BY <1>1, <1>2

\* The hits of a window are finitely many.
LEMMA WindowFinite ==
    ASSUME NEW k \in Keys, IsFiniteSet(accepted[k]), NEW t
    PROVE  /\ IsFiniteSet(InWindow(k, t))
           /\ Cardinality(InWindow(k, t)) \in Nat
BY FS_Subset, FS_CardinalityType DEF InWindow

\* Those of the window that ends now are the live ones.
LEMMA LiveIsWindow ==
    ASSUME NEW k \in Keys, RateInv
    PROVE  Live(hits[k]) = InWindow(k, now) /\ Live(accepted[k]) = InWindow(k, now)
BY TimesAssumption DEF RateInv, ListOK, Live, InWindow

-----------------------------------------------------------------------------
(* The steps                                                               *)

KeyOK(k) == ListOK(k) /\ RefusalOK(k) /\ HeldAt(k)

\* A key whose list, history and refusal stay as they are is still in order.
LEMMA OtherKey ==
    ASSUME NEW k \in Keys, KeyOK(k), now' = now,
           hits'[k] = hits[k], accepted'[k] = accepted[k], refused'[k] = refused[k]
    PROVE  KeyOK(k)'
<1>1. \A t : InWindow(k, t)' = InWindow(k, t)
  BY DEF InWindow
<1>2. ListOK(k)'
  BY DEF KeyOK, ListOK, Live
<1>3. RefusalOK(k)'
  BY <1>1 DEF KeyOK, RefusalOK
<1>4. HeldAt(k)'
  BY <1>1 DEF KeyOK, HeldAt
<1> QED BY <1>2, <1>3, <1>4 DEF KeyOK

\* A step that keeps the domains and every key in order keeps the invariant.
LEMMA KeyWise ==
    ASSUME now' \in Nat, DOMAIN hits' = Keys, DOMAIN accepted' = Keys,
           DOMAIN refused' = Keys, DOMAIN remaining' = Keys,
           \A k \in Keys : KeyOK(k)'
    PROVE  RateInv'
BY DEF RateInv, KeyOK

LEMMA InitRateInv == Init => RateInv
<1> SUFFICES ASSUME Init PROVE RateInv
  OBVIOUS
<1>1. \A k \in Keys : accepted[k] = {} /\ hits[k] = {} /\ refused[k] = NoRefusal
  BY DEF Init
<1>2. ASSUME NEW k \in Keys PROVE ListOK(k)
  BY <1>1, FS_EmptySet DEF ListOK, Live
<1>3. ASSUME NEW k \in Keys PROVE RefusalOK(k)
  BY <1>1, FS_EmptySet DEF RefusalOK, NoRefusal, Init
<1>4. ASSUME NEW k \in Keys PROVE HeldAt(k)
  <2> SUFFICES ASSUME NEW t \in 0..now PROVE Cardinality(InWindow(k, t)) <= GetLimit(k[3])
    BY DEF HeldAt
  <2>1. InWindow(k, t) = {}
    BY <1>1 DEF InWindow
  <2> QED BY <2>1, FS_EmptySet, LimitType
<1> QED BY <1>2, <1>3, <1>4 DEF RateInv, Init

\* The list has room, so that the window that ends now has room for one more;
\* windows that ended before are not affected.
LEMMA AcceptRateInv ==
    ASSUME RateInv, NEW k \in Keys, Accept(k)
    PROVE  RateInv'
<1> DEFINE live == Live(hits[k])
           hit == [at |-> now, n |-> Cardinality(accepted[k]) + 1]
<1>1. /\ Cardinality(live) < GetLimit(k[3])
      /\ hits' = [hits EXCEPT ![k] = live \cup {hit}]
      /\ accepted' = [accepted EXCEPT ![k] = @ \cup {hit}]
      /\ now' = now /\ refused' = refused /\ remaining' = remaining
  BY DEF Accept
<1>2. KeyOK(k)
  BY DEF RateInv, KeyOK
<1>3. hits'[k] = live \cup {hit} /\ accepted'[k] = accepted[k] \cup {hit}
  BY <1>1 DEF RateInv
<1>4. Cardinality(accepted[k]) \in Nat /\ IsFiniteSet(accepted[k])
  BY <1>2, FS_CardinalityType DEF KeyOK, ListOK
<1>5. hit \notin accepted[k] /\ hit.at = now /\ hit.n = Cardinality(accepted[k]) + 1
  BY <1>2, <1>4 DEF KeyOK, ListOK
<1> HIDE DEF hit
<1>6. IsFiniteSet(accepted'[k]) /\ Cardinality(accepted'[k]) = Cardinality(accepted[k]) + 1
  BY <1>3, <1>4, <1>5, FS_AddElement
<1>7. ListOK(k)'
  <2>1. now \in Nat /\ Window \in Nat \ {0}
    BY TimesAssumption DEF RateInv
  <2>2. hits'[k] \subseteq accepted'[k]
    BY <1>2, <1>3 DEF KeyOK, ListOK, Live
  <2>3. Live(accepted[k])' \subseteq hits'[k]
    BY <1>1, <1>2, <1>3 DEF KeyOK, ListOK, Live
  <2>4. \A h \in accepted'[k] : h.at \in 0..now' /\ h.n \in 1..Cardinality(accepted'[k])
    BY <1>1, <1>2, <1>3, <1>4, <1>5, <1>6, <2>1 DEF KeyOK, ListOK
  <2> QED BY <1>6, <2>2, <2>3, <2>4 DEF ListOK
<1>8. RefusalOK(k)'
  <2>1. refused'[k] = refused[k] /\ refused[k].count # Cardinality(accepted'[k])
    BY <1>1, <1>2, <1>4, <1>6 DEF KeyOK, RefusalOK
  <2> QED BY <1>1, <1>2, <1>4, <1>6, <2>1 DEF KeyOK, RefusalOK
<1>9. HeldAt(k)'
  <2> SUFFICES ASSUME NEW t \in 0..now
               PROVE  Cardinality(InWindow(k, t)') <= GetLimit(k[3])
    BY <1>1 DEF HeldAt
  <2>1. CASE t < now
    <3>1. InWindow(k, t)' = InWindow(k, t)
      BY <1>3, <1>5, <2>1 DEF InWindow, RateInv
    <3> QED BY <1>2, <3>1 DEF KeyOK, HeldAt
  <2>2. CASE t = now
    <3>1. InWindow(k, t)' = live \cup {hit}
      <4>1. InWindow(k, t)' = InWindow(k, now) \cup {hit}
        BY <1>3, <1>5, <2>2, TimesAssumption DEF InWindow, RateInv
      <4> QED BY <4>1, LiveIsWindow
    <3>2. IsFiniteSet(live) /\ Cardinality(live) \in Nat
      BY <1>4, LiveIsWindow, WindowFinite
    <3>3. /\ Cardinality(live \cup {hit}) <= Cardinality(live) + 1
          /\ Cardinality(live \cup {hit}) \in Nat
      <4> HIDE DEF live
      <4> QED BY <3>2, OneMore
    <3> QED
      <4> HIDE DEF live
      <4> QED BY <1>1, <3>1, <3>2, <3>3, LimitType
  <2> QED BY <2>1, <2>2 DEF RateInv
<1>10. ASSUME NEW j \in Keys, j # k PROVE KeyOK(j)'
  <2>1. KeyOK(j)
    BY DEF RateInv, KeyOK
  <2> QED BY <1>1, <1>10, <2>1, OtherKey DEF RateInv
<1> QED
  <2>1. \A j \in Keys : KeyOK(j)'
    BY <1>7, <1>8, <1>9, <1>10 DEF KeyOK
  <2>2. now' \in Nat /\ DOMAIN hits' = Keys /\ DOMAIN accepted' = Keys
        /\ DOMAIN refused' = Keys /\ DOMAIN remaining' = Keys
    BY <1>1 DEF RateInv
  <2> QED BY <2>1, <2>2, KeyWise

\* The list is filtered.  The oldest of its hits leaves the window no later
\* than the client is told to come back.
LEMMA RefuseRateInv ==
    ASSUME RateInv, NEW k \in Keys, Refuse(k)
    PROVE  RateInv'
<1> DEFINE live == Live(hits[k])
           now2 == refused'[k].at
<1>1. /\ live # {}
      /\ hits' = [hits EXCEPT ![k] = live]
      /\ refused' = [refused EXCEPT ![k] =
            [at |-> now, retry |-> RetryAfter(live), count |-> Cardinality(accepted[k])]]
      /\ now' = now /\ accepted' = accepted /\ remaining' = remaining
  BY DEF Refuse
<1>2. KeyOK(k) /\ now \in Nat
  BY DEF RateInv, KeyOK
<1>3. hits'[k] = live
  BY <1>1 DEF RateInv
<1>4. /\ refused'[k].at = now /\ refused'[k].retry = RetryAfter(live)
      /\ refused'[k].count = Cardinality(accepted[k])
  BY <1>1 DEF RateInv
<1>5. Cardinality(accepted[k]) \in Nat
  BY <1>2, FS_CardinalityType DEF KeyOK, ListOK
<1>6. ListOK(k)'
  <2>1. Live(accepted[k])' = Live(accepted[k]) /\ live = Live(accepted[k])
    BY <1>1, LiveIsWindow DEF Live
  <2> QED BY <1>1, <1>2, <1>3, <2>1 DEF KeyOK, ListOK, Live
<1>7. PICK o \in live : o.at = Oldest(live)
  <2> DEFINE times == {h.at : h \in live}
  <2>1. times \subseteq Nat /\ times # {}
    BY <1>1, <1>2 DEF KeyOK, ListOK, Live
  <2>2. \E t \in times : \A u \in times : t <= u
    <3> HIDE DEF times
    <3> QED BY <2>1, Least
  <2>3. \E t \in times : \A h \in live : t <= h.at
    BY <2>2
  <2>4. Oldest(live) \in times
    <3> HIDE DEF live
    <3> QED BY <2>3 DEF Oldest
  <2> QED BY <2>4
<1>8. /\ o \in accepted[k] /\ o.at \in Nat /\ o.at <= now /\ now < o.at + Window
      /\ o \in InWindow(k, now)
  BY <1>2, <1>7, LiveIsWindow, TimesAssumption DEF KeyOK, ListOK, Live
<1>9. /\ RetryAfter(live) \in Nat
      /\ o.at + Window <= now + RetryAfter(live) * Second
  <2> DEFINE x == o.at + Window - now
  <2>1. x \in Nat
    BY <1>2, <1>8, TimesAssumption
  <2>2. RetryAfter(live) = x \div Second + 1
    BY <1>7 DEF RetryAfter
  <2>3. x \div Second \in Nat /\ x <= (x \div Second + 1) * Second
    <3> HIDE DEF x
    <3> QED BY <2>1, RoundedUp, TimesAssumption
  <2>4. RetryAfter(live) \in Nat /\ x <= RetryAfter(live) * Second
    <3> HIDE DEF x, live
    <3> QED BY <2>2, <2>3
  <2>5. RetryAfter(live) * Second \in Nat
    <3> HIDE DEF x, live
    <3> QED BY <2>4, TimesAssumption
  <2> QED
    <3> HIDE DEF live
    <3> QED BY <1>2, <1>8, <2>4, <2>5, TimesAssumption
<1>10. RefusalOK(k)'
  <2>1. InWindow(k, refused[k].at)' = InWindow(k, now)
    BY <1>1, <1>4 DEF InWindow
  <2>2. \A h \in accepted'[k] : h.at <= refused'[k].at
    BY <1>1, <1>2, <1>4 DEF KeyOK, ListOK
  <2>3. o \in InWindow(k, refused[k].at)'
        /\ o.at + Window <= refused'[k].at + refused'[k].retry * Second
    BY <1>4, <1>8, <1>9, <2>1
  <2>4. /\ refused'[k].at \in 0..now' /\ refused'[k].retry \in Nat
        /\ refused'[k].count \in 0..Cardinality(accepted'[k])
    BY <1>1, <1>2, <1>4, <1>5, <1>9
  <2> QED BY <2>2, <2>3, <2>4 DEF RefusalOK
<1>11. HeldAt(k)'
  BY <1>1, <1>2 DEF KeyOK, HeldAt, InWindow
<1>12. ASSUME NEW j \in Keys, j # k PROVE KeyOK(j)'
  <2>1. KeyOK(j)
    BY DEF RateInv, KeyOK
  <2> QED BY <1>1, <1>12, <2>1, OtherKey DEF RateInv
<1> QED
  <2>1. \A j \in Keys : KeyOK(j)'
    BY <1>6, <1>10, <1>11, <1>12 DEF KeyOK
  <2>2. now' \in Nat /\ DOMAIN hits' = Keys /\ DOMAIN accepted' = Keys
        /\ DOMAIN refused' = Keys /\ DOMAIN remaining' = Keys
    BY <1>1 DEF RateInv
  <2> QED BY <2>1, <2>2, KeyWise

\* There is nothing to filter.
LEMMA RefuseFailsRateInv ==
    ASSUME RateInv, NEW k \in Keys, RefuseFails(k)
    PROVE  RateInv'
<1>1. /\ Live(hits[k]) = {} /\ hits' = [hits EXCEPT ![k] = {}]
      /\ now' = now /\ accepted' = accepted /\ refused' = refused /\ remaining' = remaining
  BY DEF RefuseFails
<1>2. KeyOK(k) /\ hits'[k] = {}
  BY <1>1 DEF RateInv, KeyOK
<1>3. ListOK(k)'
  <2>1. Live(accepted[k])' = {}
    BY <1>1, LiveIsWindow DEF Live
  <2> QED BY <1>1, <1>2, <2>1 DEF KeyOK, ListOK
<1>4. RefusalOK(k)' /\ HeldAt(k)'
  BY <1>1, <1>2 DEF KeyOK, RefusalOK, HeldAt, InWindow
<1>5. ASSUME NEW j \in Keys, j # k PROVE KeyOK(j)'
  <2>1. KeyOK(j)
    BY DEF RateInv, KeyOK
  <2> QED BY <1>1, <1>5, <2>1, OtherKey DEF RateInv
<1> QED
  <2>1. \A j \in Keys : KeyOK(j)'
    BY <1>3, <1>4, <1>5 DEF KeyOK
  <2>2. now' \in Nat /\ DOMAIN hits' = Keys /\ DOMAIN accepted' = Keys
        /\ DOMAIN refused' = Keys /\ DOMAIN remaining' = Keys
    BY <1>1 DEF RateInv
  <2> QED BY <2>1, <2>2, KeyWise

\* Only a header is written.
LEMMA RespondRateInv ==
    ASSUME RateInv, NEW k \in Keys, NEW n, Respond(k, n)
    PROVE  RateInv'
<1>1. /\ now' = now /\ hits' = hits /\ accepted' = accepted /\ refused' = refused
      /\ DOMAIN remaining' = DOMAIN remaining
  BY DEF Respond
<1>2. \A j \in Keys : KeyOK(j)'
  BY <1>1, OtherKey DEF RateInv, KeyOK
<1> QED BY <1>1, <1>2, KeyWise DEF RateInv

\* A new worker has seen nothing.
LEMMA RestartRateInv ==
    ASSUME RateInv, NEW w \in Workers, Restart(w)
    PROVE  RateInv'
<1> DEFINE mine == {k \in Keys : k[1] = w}
<1>1. /\ now' = now /\ remaining' = remaining
      /\ hits' = [k \in Keys |-> IF k \in mine THEN {} ELSE hits[k]]
      /\ accepted' = [k \in Keys |-> IF k \in mine THEN {} ELSE accepted[k]]
      /\ refused' = [k \in Keys |-> IF k \in mine THEN NoRefusal ELSE refused[k]]
  BY DEF Restart
<1>2. ASSUME NEW k \in Keys, k \in mine PROVE KeyOK(k)'
  <2>1. hits'[k] = {} /\ accepted'[k] = {} /\ refused'[k] = NoRefusal
    BY <1>1, <1>2
  <2>2. IsFiniteSet({}) /\ Cardinality({}) = 0
    BY FS_EmptySet
  <2>3. ListOK(k)'
    BY <2>1, <2>2 DEF ListOK, Live
  <2>4. RefusalOK(k)'
    BY <1>1, <2>1, <2>2 DEF RefusalOK, NoRefusal, RateInv
  <2>5. HeldAt(k)'
    <3> SUFFICES ASSUME NEW t \in 0..now'
                 PROVE  Cardinality(InWindow(k, t)') <= GetLimit(k[3])
      BY DEF HeldAt
    <3>1. InWindow(k, t)' = {}
      BY <2>1 DEF InWindow
    <3> QED BY <2>2, <3>1, LimitType
  <2> QED BY <2>3, <2>4, <2>5 DEF KeyOK
<1>3. ASSUME NEW k \in Keys, k \notin mine PROVE KeyOK(k)'
  <2>1. KeyOK(k) /\ hits'[k] = hits[k] /\ accepted'[k] = accepted[k] /\ refused'[k] = refused[k]
    BY <1>1, <1>3 DEF RateInv, KeyOK
  <2> QED BY <1>1, <2>1, OtherKey
<1> QED
  <2>1. \A k \in Keys : KeyOK(k)'
    BY <1>2, <1>3
  <2>2. now' \in Nat /\ DOMAIN hits' = Keys /\ DOMAIN accepted' = Keys
        /\ DOMAIN refused' = Keys /\ DOMAIN remaining' = Keys
    BY <1>1 DEF RateInv
  <2> QED BY <2>1, <2>2, KeyWise

\* The window that ends now is part of the one that ended a tick ago.
LEMMA TickRateInv ==
    ASSUME RateInv, Tick
    PROVE  RateInv'
<1>1. /\ now' = now + 1 /\ hits' = hits /\ accepted' = accepted
      /\ refused' = refused /\ remaining' = remaining
  BY DEF Tick
<1>2. now \in Nat
  BY DEF RateInv
<1>3. ASSUME NEW k \in Keys PROVE KeyOK(k)'
  <2>1. KeyOK(k) /\ IsFiniteSet(accepted[k])
    BY DEF RateInv, KeyOK, ListOK
  <2>2. ListOK(k)'
    BY <1>1, <1>2, <2>1, TimesAssumption DEF KeyOK, ListOK, Live
  <2>3. \A t : InWindow(k, t)' = InWindow(k, t)
    BY <1>1 DEF InWindow
  <2>4. RefusalOK(k)'
    BY <1>1, <1>2, <2>1, <2>3 DEF KeyOK, RefusalOK
  <2>5. HeldAt(k)'
    <3> SUFFICES ASSUME NEW t \in 0..(now + 1)
                 PROVE  Cardinality(InWindow(k, t)) <= GetLimit(k[3])
      BY <1>1, <2>3 DEF HeldAt
    <3>1. CASE t <= now
      BY <1>2, <2>1, <3>1 DEF KeyOK, HeldAt
    <3>2. CASE t = now + 1
      <4>1. InWindow(k, t) \subseteq InWindow(k, now)
        BY <1>2, <2>1, <3>2, TimesAssumption DEF KeyOK, ListOK, InWindow
      <4>2. Cardinality(InWindow(k, t)) <= Cardinality(InWindow(k, now))
        BY <2>1, <4>1, WindowFinite, FS_Subset
      <4>3. Cardinality(InWindow(k, now)) <= GetLimit(k[3])
        BY <1>2, <2>1 DEF KeyOK, HeldAt
      <4> QED BY <2>1, <4>2, <4>3, WindowFinite, LimitType
    <3> QED BY <1>2, <3>1, <3>2
  <2> QED BY <2>2, <2>4, <2>5 DEF KeyOK
<1> QED BY <1>1, <1>2, <1>3, KeyWise DEF RateInv

LEMMA NextRateInv == RateInv /\ [Next]_vars => RateInv'
<1> SUFFICES ASSUME RateInv, [Next]_vars PROVE RateInv'
  OBVIOUS
<1>1. ASSUME NEW k \in Keys, Accept(k) PROVE RateInv'
  BY <1>1, AcceptRateInv
<1>2. ASSUME NEW k \in Keys, Refuse(k) PROVE RateInv'
  BY <1>2, RefuseRateInv
<1>3. ASSUME NEW k \in Keys, RefuseFails(k) PROVE RateInv'
  BY <1>3, RefuseFailsRateInv
<1>4. ASSUME NEW k \in Keys, NEW n \in 1..MaxRequests, Respond(k, n) PROVE RateInv'
  BY <1>4, RespondRateInv
<1>5. ASSUME NEW w \in Workers, Restart(w) PROVE RateInv'
  BY <1>5, RestartRateInv
<1>6. CASE Tick
  BY <1>6, TickRateInv
<1>7. CASE UNCHANGED vars
  BY <1>7, OtherKey, KeyWise DEF vars, RateInv, KeyOK
<1> QED BY <1>1, <1>2, <1>3, <1>4, <1>5, <1>6, <1>7 DEF Next

LEMMA SpecRateInv == Spec => []RateInv
BY InitRateInv, NextRateInv, PTL DEF Spec

-----------------------------------------------------------------------------
(* The theorems                                                            *)

\* In each worker by itself, and for each path by itself, no window, wherever it
\* ends, holds more accepted requests of a client than the limit of the path
\* allows (rate_limit.py:28, 50-65).  A client gets as much from each worker, and
\* for each path: RateLimit!ClientWindowHeld is not a theorem.
THEOREM WindowIsHeld == Spec => []WindowHeld
<1>1. RateInv => WindowHeld
  BY DEF RateInv, HeldAt, WindowHeld
<1> QED BY <1>1, SpecRateInv, PTL

\* A client that comes back when Retry-After says finds room: the window held
\* its limit when it was turned down, and has lost a hit since
\* (rate_limit.py:57-63).
THEOREM RetryAfterIsEnough == Spec => []RetryAfterSuffices
<1>1. RateInv => RetryAfterSuffices
  <2> SUFFICES ASSUME RateInv, NEW k \in Keys,
                      refused[k].retry > 0,
                      refused[k].count = Cardinality(accepted[k]),
                      now >= refused[k].at + refused[k].retry * Second
               PROVE  Cardinality(Live(hits[k])) < GetLimit(k[3])
    BY DEF RetryAfterSuffices
  <2> DEFINE then == InWindow(k, refused[k].at)
  <2>1. ListOK(k) /\ RefusalOK(k) /\ HeldAt(k) /\ now \in Nat
    BY DEF RateInv
  <2>2. /\ refused[k].at \in 0..now /\ refused[k].retry \in Nat
        /\ \A h \in accepted[k] : h.at <= refused[k].at
    BY <2>1 DEF RefusalOK
  <2>3. PICK o \in then : o.at + Window <= refused[k].at + refused[k].retry * Second
    BY <2>1 DEF RefusalOK
  <2>4. refused[k].retry * Second \in Nat
    BY <2>2, TimesAssumption
  <2>5. o \in accepted[k] /\ o.at \in Nat /\ o.at + Window <= now
    BY <2>1, <2>2, <2>3, <2>4, TimesAssumption DEF InWindow, ListOK
  <2>6. Live(hits[k]) \subseteq then \ {o}
    BY <2>1, <2>2, <2>5, TimesAssumption DEF Live, InWindow, ListOK
  <2>7. IsFiniteSet(then) /\ Cardinality(then) \in Nat
    BY <2>1, WindowFinite DEF ListOK
  <2>8. Cardinality(then) <= GetLimit(k[3])
    BY <2>1, <2>2 DEF HeldAt
  <2>9. /\ IsFiniteSet(then \ {o}) /\ Cardinality(then \ {o}) = Cardinality(then) - 1
    <3> HIDE DEF then
    <3> QED BY <2>3, <2>7, FS_RemoveElement
  <2>10. /\ Cardinality(Live(hits[k])) <= Cardinality(then \ {o})
         /\ Cardinality(Live(hits[k])) \in Nat
    <3> HIDE DEF then
    <3> QED BY <2>6, <2>9, FS_Subset, FS_CardinalityType
  <2> QED
    <3> HIDE DEF then
    <3> QED BY <2>7, <2>8, <2>9, <2>10, LimitType
<1> QED BY <1>1, SpecRateInv, PTL

\* X-RateLimit-Remaining never promises more than the window has room for when
\* it is written (rate_limit.py:65-68).
THEOREM RemainingIsHonest == Spec => RemainingHonest
<1> DEFINE Honest == \A k \in Keys :
        remaining'[k] # remaining[k] =>
            remaining'[k] + Cardinality(Live(hits[k])) <= GetLimit(k[3])
<1>1. RateInv /\ [Next]_vars => [Honest]_vars
  <2> SUFFICES ASSUME RateInv, Next, NEW k \in Keys, remaining'[k] # remaining[k]
               PROVE  remaining'[k] + Cardinality(Live(hits[k])) <= GetLimit(k[3])
    OBVIOUS
  <2>1. PICK j \in Keys, n \in 1..MaxRequests : Respond(j, n)
    BY DEF Next, Accept, Refuse, RefuseFails, Restart, Tick
  <2> DEFINE left == GetLimit(k[3]) - Cardinality(hits[k])
  <2>2. j = k /\ remaining'[k] = IF left > 0 THEN left ELSE 0
    BY <2>1 DEF Respond, RateInv
  <2>3. ListOK(k) /\ HeldAt(k) /\ now \in Nat
    BY DEF RateInv
  <2>4. IsFiniteSet(hits[k]) /\ Cardinality(hits[k]) \in Nat
    BY <2>3, FS_Subset, FS_CardinalityType DEF ListOK
  <2>5. /\ Cardinality(Live(hits[k])) \in Nat
        /\ Cardinality(Live(hits[k])) <= Cardinality(hits[k])
    <3>1. Live(hits[k]) \subseteq hits[k]
      BY DEF Live
    <3> QED BY <2>4, <3>1, FS_Subset, FS_CardinalityType
  <2>6. Cardinality(Live(hits[k])) <= GetLimit(k[3])
    BY <2>3, LiveIsWindow DEF HeldAt
  <2>7. GetLimit(k[3]) \in Nat
    BY LimitType
  <2>8. CASE left > 0
    BY <2>2, <2>4, <2>5, <2>7, <2>8
  <2>9. CASE ~(left > 0)
    BY <2>2, <2>5, <2>6, <2>7, <2>9
  <2> QED BY <2>8, <2>9
<1> QED BY <1>1, SpecRateInv, PTL DEF Spec, RemainingHonest

-----------------------------------------------------------------------------
(* Metrics: the metrics                                                    *)

\* What the event loop is at.
CountingOK ==
    \/ counting = NoResponse
    \/ /\ counting \in [at : {"append", "cut", "error"}, route : DOMAIN total, failed : BOOLEAN]
       /\ counting.at = "cut" => counting.route \in DOMAIN durations

\* A route that is counted is timed as well, but for the one in between.
CountersOK ==
    /\ IsFiniteSet(DOMAIN total)
    /\ \A r \in DOMAIN total : total[r] \in Nat \ {0}
    /\ DOMAIN durations \subseteq DOMAIN total
    /\ \A r \in DOMAIN durations : durations[r] \in Seq(Nat)
    /\ \A r \in DOMAIN total \ DOMAIN durations : Untimed(r)

\* The list holds the newest of the first n durations, of which there are all up
\* to the cap, and beyond it so many at least as a cut leaves.
NewestAmong(list, n, most) ==
    /\ \A i \in 1..Len(list) : list[i] = n - Len(list) + i
    /\ n <= Cap => Len(list) = n
    /\ n > Cap => Len(list) \in Keep..most

\* The inductive invariant behind DurationsAreNewest.
MetricsInv == CountingOK /\ CountersOK /\ DurationsAreNewest

-----------------------------------------------------------------------------
LEMMA Bounds == Cap \in Nat /\ Keep \in Nat /\ 1 <= Keep /\ Keep <= Cap
BY CutAssumption

LEMMA AppendIs ==
    ASSUME NEW s \in Seq(Nat), NEW x \in Nat
    PROVE  /\ Append(s, x) \in Seq(Nat) /\ Len(Append(s, x)) = Len(s) + 1
           /\ Append(s, x)[Len(s) + 1] = x
           /\ \A i \in 1..Len(s) : Append(s, x)[i] = s[i]
OBVIOUS

\* A duration that follows the newest ones.
LEMMA Longer ==
    ASSUME NEW list \in Seq(Nat), NEW n \in Nat, NewestAmong(list, n, Cap)
    PROVE  /\ NewestAmong(Append(list, n + 1), n + 1, Cap + 1)
           /\ Append(list, n + 1) \in Seq(Nat)
<1> DEFINE longer == Append(list, n + 1)
<1>1. /\ longer \in Seq(Nat) /\ Len(longer) = Len(list) + 1
      /\ longer[Len(list) + 1] = n + 1
      /\ \A i \in 1..Len(list) : longer[i] = list[i]
  BY AppendIs
<1>2. Len(list) \in Nat
  OBVIOUS
<1> HIDE DEF longer
<1>3. \A i \in 1..Len(longer) : longer[i] = (n + 1) - Len(longer) + i
  <2> SUFFICES ASSUME NEW i \in 1..(Len(list) + 1)
               PROVE  longer[i] = (n + 1) - (Len(list) + 1) + i
    BY <1>1
  <2>1. CASE i = Len(list) + 1
    BY <1>1, <1>2, <2>1
  <2>2. CASE i # Len(list) + 1
    <3>1. i \in 1..Len(list)
      BY <1>2, <2>2
    <3>2. longer[i] = n - Len(list) + i
      BY <1>1, <3>1 DEF NewestAmong
    <3> QED BY <1>2, <3>2
  <2> QED BY <2>1, <2>2
<1>4. n + 1 <= Cap => Len(longer) = n + 1
  BY <1>1, <1>2, Bounds DEF NewestAmong
<1>5. n + 1 > Cap => Len(longer) \in Keep..(Cap + 1)
  <2>1. CASE n <= Cap
    BY <1>1, <1>2, <2>1, Bounds DEF NewestAmong
  <2>2. CASE n > Cap
    BY <1>1, <1>2, <2>2, Bounds DEF NewestAmong
  <2> QED BY <2>1, <2>2, Bounds
<1> QED BY <1>1, <1>3, <1>4, <1>5 DEF NewestAmong, longer

\* What a cut leaves of the newest ones are the newest of them.
LEMMA Shorter ==
    ASSUME NEW list \in Seq(Nat), NEW n \in Nat, NewestAmong(list, n, Cap + 1), Len(list) > Cap
    PROVE  NewestAmong(Newest(list), n, Cap) /\ Newest(list) \in Seq(Nat)
<1> DEFINE cut == Newest(list)
<1>1. Len(list) \in Nat
  OBVIOUS
<1>2. /\ cut \in Seq(Nat) /\ Len(cut) = Keep
      /\ \A i \in 1..Keep : cut[i] = list[Len(list) - Keep + i]
  BY Bounds DEF Newest
<1> HIDE DEF cut
<1>3. \A i \in 1..Len(cut) : cut[i] = n - Len(cut) + i
  <2> SUFFICES ASSUME NEW i \in 1..Keep PROVE cut[i] = n - Keep + i
    BY <1>2
  <2> DEFINE place == Len(list) - Keep + i
  <2>1. place \in 1..Len(list) /\ cut[i] = list[place]
    BY <1>1, <1>2, Bounds
  <2>2. list[place] = n - Len(list) + place
    <3> HIDE DEF place
    <3> QED BY <2>1 DEF NewestAmong
  <2> QED BY <1>1, <2>1, <2>2, Bounds
<1>4. n > Cap
  BY <1>1, Bounds DEF NewestAmong
<1> QED BY <1>2, <1>3, <1>4, Bounds DEF NewestAmong, cut

\* DurationsAreNewest for one route.
NewestOf(r) ==
    NewestAmong(Get(durations, r, <<>>), IF Untimed(r) THEN total[r] - 1 ELSE total[r],
                IF Uncut(r) THEN Cap + 1 ELSE Cap)

LEMMA RouteWise ==
    ASSUME CountersOK
    PROVE  DurationsAreNewest <=> \A r \in DOMAIN total : NewestOf(r)
<1>1. ASSUME NEW r \in DOMAIN total
      PROVE  total[r] - (IF Untimed(r) THEN 1 ELSE 0)
                = (IF Untimed(r) THEN total[r] - 1 ELSE total[r])
  BY DEF CountersOK
<1> QED BY <1>1 DEF DurationsAreNewest, NewestOf, NewestAmong

\* A step that touches neither the counters of a route nor what is at it.
LEMMA SameRoute ==
    ASSUME NEW r, NewestOf(r), total'[r] = total[r],
           Get(durations, r, <<>>)' = Get(durations, r, <<>>),
           Untimed(r)' <=> Untimed(r), Uncut(r)' <=> Uncut(r)
    PROVE  NewestOf(r)'
BY DEF NewestOf

\* A step after which every list holds the newest durations.
LEMMA AllRoutes ==
    ASSUME CountingOK', CountersOK', \A r \in DOMAIN total' : NewestOf(r)'
    PROVE  MetricsInv'
<1>1. ASSUME NEW r \in DOMAIN total'
      PROVE  total'[r] - (IF Untimed(r)' THEN 1 ELSE 0)
                = (IF Untimed(r)' THEN total'[r] - 1 ELSE total'[r])
  BY DEF CountersOK
<1>2. DurationsAreNewest'
  BY <1>1 DEF DurationsAreNewest, NewestOf, NewestAmong
<1> QED BY <1>2 DEF MetricsInv

LEMMA InitMetricsInv == MetricsInit => MetricsInv
<1> SUFFICES ASSUME MetricsInit PROVE MetricsInv
  OBVIOUS
<1>1. DOMAIN total = {} /\ DOMAIN durations = {} /\ counting = NoResponse
  BY DEF MetricsInit, NoRoutes
<1>2. IsFiniteSet({})
  BY FS_EmptySet
<1> QED BY <1>1, <1>2 DEF MetricsInv, CountingOK, CountersOK, DurationsAreNewest

\* The counter is ahead of the list by the response that is not timed yet.
LEMMA CountTotalMetricsInv ==
    ASSUME MetricsInv, NEW r \in Routes, NEW failed \in BOOLEAN, CountTotal(r, failed)
    PROVE  MetricsInv'
<1> DEFINE n == Get(total, r, 0) + 1
<1>1. /\ counting = NoResponse /\ counting.at = "idle" /\ durations' = durations
      /\ total' = Put(total, r, n)
      /\ counting' = [at |-> "append", route |-> r, failed |-> failed]
  BY DEF CountTotal, NoResponse
<1>2. /\ DOMAIN total' = DOMAIN total \cup {r}
      /\ total'[r] = n
      /\ \A x \in DOMAIN total : x # r => total'[x] = total[x]
  <2> HIDE DEF n
  <2> QED BY <1>1 DEF Put
<1>3. \A x : /\ ~Untimed(x) /\ ~Uncut(x) /\ ~Uncut(x)'
             /\ Untimed(x)' <=> x = r
  BY <1>1 DEF Untimed, Uncut
<1>4. Get(total, r, 0) \in Nat
  BY DEF Get, MetricsInv, CountersOK
<1>5. DOMAIN durations = DOMAIN total
  BY <1>3 DEF MetricsInv, CountersOK
<1>6. CountingOK'
  BY <1>1, <1>2 DEF CountingOK
<1>7. CountersOK'
  <2>1. IsFiniteSet(DOMAIN total')
    BY <1>2, FS_AddElement DEF MetricsInv, CountersOK
  <2>2. \A x \in DOMAIN total' : total'[x] \in Nat \ {0}
    BY <1>2, <1>4 DEF MetricsInv, CountersOK
  <2>3. /\ DOMAIN durations' \subseteq DOMAIN total'
        /\ \A x \in DOMAIN durations' : durations'[x] \in Seq(Nat)
    BY <1>1, <1>2 DEF MetricsInv, CountersOK
  <2>4. \A x \in DOMAIN total' \ DOMAIN durations' : Untimed(x)'
    BY <1>1, <1>2, <1>3, <1>5
  <2> QED BY <2>1, <2>2, <2>3, <2>4 DEF CountersOK
<1>8. ASSUME NEW x \in DOMAIN total' PROVE NewestOf(x)'
  <2>1. CASE x # r
    <3>1. x \in DOMAIN total /\ NewestOf(x)
      BY <1>2, <2>1, RouteWise DEF MetricsInv
    <3>2. total'[x] = total[x] /\ Get(durations, x, <<>>)' = Get(durations, x, <<>>)
      BY <1>1, <1>2, <2>1, <3>1 DEF Get
    <3>3. (Untimed(x)' <=> Untimed(x)) /\ (Uncut(x)' <=> Uncut(x))
      BY <1>3, <2>1
    <3> QED BY <3>1, <3>2, <3>3, SameRoute
  <2>2. CASE x = r /\ r \in DOMAIN total
    <3>1. NewestOf(r) /\ total'[r] = total[r] + 1 /\ total[r] \in Nat
      BY <1>2, <2>2, RouteWise DEF MetricsInv, CountersOK, Get
    <3>2. NewestAmong(Get(durations, r, <<>>), total[r], Cap)
      BY <1>3, <3>1 DEF NewestOf
    <3>3. Get(durations, r, <<>>)' = Get(durations, r, <<>>) /\ total'[r] - 1 = total[r]
      BY <1>1, <3>1 DEF Get
    <3> QED BY <1>3, <2>2, <3>2, <3>3 DEF NewestOf
  <2>3. CASE x = r /\ r \notin DOMAIN total
    <3>1. total'[r] - 1 = 0 /\ Get(durations, r, <<>>)' = <<>> /\ Untimed(r)'
      BY <1>1, <1>2, <1>3, <1>5, <2>3 DEF Get
    <3>2. NewestAmong(<<>>, 0, Cap)
      BY Bounds DEF NewestAmong
    <3> QED BY <1>3, <2>3, <3>1, <3>2 DEF NewestOf
  <2> QED BY <1>2, <2>1, <2>2, <2>3
<1> QED BY <1>6, <1>7, <1>8, AllRoutes

\* A step that replaces the list of a route keeps the invariant, if the new one
\* holds the newest durations.
LEMMA NewList ==
    ASSUME MetricsInv, CountingOK', NEW r \in DOMAIN total, NEW list \in Seq(Nat), total' = total,
           DOMAIN durations' = DOMAIN durations \cup {r}, durations'[r] = list,
           \A x \in DOMAIN durations : x # r => durations'[x] = durations[x],
           NewestAmong(list, total[r], IF Uncut(r)' THEN Cap + 1 ELSE Cap),
           \A x : ~Untimed(x)',
           \A x : x # r => ~Untimed(x) /\ (Uncut(x)' <=> Uncut(x))
    PROVE  MetricsInv'
<1>1. CountersOK'
  <2>1. \A x \in DOMAIN durations' : durations'[x] \in Seq(Nat)
    BY DEF MetricsInv, CountersOK
  <2>2. \A x \in DOMAIN total' \ DOMAIN durations' : FALSE
    BY DEF MetricsInv, CountersOK
  <2>3. DOMAIN durations' \subseteq DOMAIN total'
    BY DEF MetricsInv, CountersOK
  <2> QED BY <2>1, <2>2, <2>3 DEF MetricsInv, CountersOK
<1>2. ASSUME NEW x \in DOMAIN total' PROVE NewestOf(x)'
  <2>1. CASE x # r
    <3>1. NewestOf(x) /\ total'[x] = total[x]
      BY RouteWise DEF MetricsInv
    <3>2. Get(durations, x, <<>>)' = Get(durations, x, <<>>)
      BY <2>1 DEF Get
    <3> QED BY <2>1, <3>1, <3>2, SameRoute
  <2>2. CASE x = r
    <3>1. Get(durations, r, <<>>)' = list /\ ~Untimed(r)' /\ total'[r] = total[r]
      BY DEF Get
    <3>2. NewestOf(r)'
      BY <3>1 DEF NewestOf
    <3> QED BY <2>2, <3>2
  <2> QED BY <2>1, <2>2
<1> QED BY <1>1, <1>2, AllRoutes

\* The list catches up with the counter.
LEMMA AppendDurationMetricsInv ==
    ASSUME MetricsInv, AppendDuration
    PROVE  MetricsInv'
<1>1. /\ counting.at = "append"
      /\ counting \in [at : {"append", "cut", "error"}, route : DOMAIN total, failed : BOOLEAN]
  BY DEF AppendDuration, MetricsInv, CountingOK, NoResponse
<1>2. PICK r \in DOMAIN total : r = counting.route
  BY <1>1
<1>3. PICK list \in Seq(Nat), n \in Nat :
          list = Get(durations, r, <<>>) /\ total[r] = n + 1
  <2>1. Get(durations, r, <<>>) \in Seq(Nat)
    BY DEF MetricsInv, CountersOK, Get
  <2>2. total[r] - 1 \in Nat /\ total[r] = (total[r] - 1) + 1
    BY DEF MetricsInv, CountersOK
  <2> QED BY <2>1, <2>2
<1> DEFINE longer == Append(list, n + 1)
<1>4. /\ total' = total /\ durations' = Put(durations, r, longer)
      /\ counting' = [counting EXCEPT !.at = "cut"]
  BY <1>2, <1>3 DEF AppendDuration
<1>5. counting'.at = "cut" /\ counting'.route = r
  BY <1>1, <1>2, <1>4
<1>6. /\ \A x : (Untimed(x) <=> x = r) /\ ~Uncut(x)
      /\ \A x : ~Untimed(x)' /\ (Uncut(x)' <=> x = r)
  BY <1>1, <1>2, <1>5 DEF Untimed, Uncut
<1>7. NewestAmong(longer, total[r], Cap + 1) /\ longer \in Seq(Nat)
  <2>1. NewestOf(r)
    BY RouteWise DEF MetricsInv
  <2>2. total[r] - 1 = n
    BY <1>3
  <2>3. NewestAmong(list, n, Cap)
    BY <1>3, <1>6, <2>1, <2>2 DEF NewestOf
  <2> QED BY <1>3, <2>3, Longer
<1> HIDE DEF longer
<1>8. /\ DOMAIN durations' = DOMAIN durations \cup {r} /\ durations'[r] = longer
      /\ \A x \in DOMAIN durations : x # r => durations'[x] = durations[x]
  BY <1>4 DEF Put
<1>9. CountingOK'
  BY <1>1, <1>4, <1>5, <1>8 DEF CountingOK
<1> QED BY <1>4, <1>6, <1>7, <1>8, <1>9, NewList

\* The cut leaves the newest of the list, and only a list that is too long is cut.
LEMMA CutDurationsMetricsInv ==
    ASSUME MetricsInv, CutDurations
    PROVE  MetricsInv'
<1>1. /\ counting.at = "cut" /\ counting.route \in DOMAIN durations
      /\ counting \in [at : {"append", "cut", "error"}, route : DOMAIN total, failed : BOOLEAN]
  BY DEF CutDurations, MetricsInv, CountingOK, NoResponse
<1>2. PICK r \in DOMAIN total : r = counting.route /\ r \in DOMAIN durations
  BY <1>1
<1>3. PICK list \in Seq(Nat) : list = durations[r]
  BY <1>2 DEF MetricsInv, CountersOK
<1> DEFINE cut == IF Len(list) > Cap THEN Newest(list) ELSE list
<1>4. /\ total' = total /\ durations' = [durations EXCEPT ![r] = cut]
      /\ counting' = [counting EXCEPT !.at = "error"]
  BY <1>2, <1>3 DEF CutDurations
<1>5. counting'.at = "error"
  BY <1>1, <1>4
<1>6. /\ \A x : ~Untimed(x) /\ (Uncut(x) <=> x = r)
      /\ \A x : ~Untimed(x)' /\ ~Uncut(x)'
  BY <1>1, <1>2, <1>5 DEF Untimed, Uncut
<1>7. NewestAmong(cut, total[r], Cap) /\ cut \in Seq(Nat)
  <2>1. NewestOf(r) /\ Get(durations, r, <<>>) = list
    BY <1>2, <1>3, RouteWise DEF MetricsInv, Get
  <2>2. NewestAmong(list, total[r], Cap + 1) /\ total[r] \in Nat
    BY <1>6, <2>1 DEF NewestOf, MetricsInv, CountersOK
  <2>3. CASE Len(list) > Cap
    BY <2>2, <2>3, Shorter
  <2>4. CASE ~(Len(list) > Cap)
    <3>1. Len(list) \in Nat
      OBVIOUS
    <3> QED BY <2>2, <2>4, <3>1, Bounds DEF NewestAmong
  <2> QED BY <2>3, <2>4
<1> HIDE DEF cut
<1>8. /\ DOMAIN durations' = DOMAIN durations \cup {r} /\ durations'[r] = cut
      /\ \A x \in DOMAIN durations : x # r => durations'[x] = durations[x]
  BY <1>2, <1>4
<1>9. CountingOK'
  BY <1>1, <1>4, <1>5, <1>8 DEF CountingOK
<1> QED BY <1>4, <1>6, <1>7, <1>8, <1>9, NewList

LEMMA CountErrorMetricsInv ==
    ASSUME MetricsInv, CountError
    PROVE  MetricsInv'
<1>1. /\ total' = total /\ durations' = durations /\ counting' = NoResponse
      /\ counting.at = "error"
  BY DEF CountError
<1>2. \A x : ~Untimed(x) /\ ~Uncut(x) /\ ~Untimed(x)' /\ ~Uncut(x)'
  BY <1>1 DEF Untimed, Uncut, NoResponse
<1>3. CountingOK' /\ CountersOK'
  BY <1>1, <1>2 DEF MetricsInv, CountingOK, CountersOK
<1>4. ASSUME NEW x \in DOMAIN total' PROVE NewestOf(x)'
  <2>1. NewestOf(x) /\ total'[x] = total[x] /\ Get(durations, x, <<>>)' = Get(durations, x, <<>>)
    BY <1>1, RouteWise DEF MetricsInv, Get
  <2> QED BY <1>2, <2>1, SameRoute
<1> QED BY <1>3, <1>4, AllRoutes

\* A new worker counts from the start; a scrape, and a stutter, counts nothing.
LEMMA OtherMetricsInv ==
    ASSUME MetricsInv,
           \/ ReplaceWorker
           \/ UNCHANGED <<total, durations, counting>>
    PROVE  MetricsInv'
<1>1. CASE ReplaceWorker
  <2>1. DOMAIN total' = {} /\ DOMAIN durations' = {} /\ counting' = NoResponse
    BY <1>1 DEF ReplaceWorker, NoRoutes
  <2>2. IsFiniteSet({})
    BY FS_EmptySet
  <2> QED BY <2>1, <2>2 DEF MetricsInv, CountingOK, CountersOK, DurationsAreNewest
<1>2. CASE UNCHANGED <<total, durations, counting>>
  BY <1>2 DEF MetricsInv, CountingOK, CountersOK, DurationsAreNewest, Untimed, Uncut, Get
<1> QED BY <1>1, <1>2

\* What /metrics does in a thread.
ScrapeStep(s) ==
    \/ BeginScrape(s) \/ BeginDurations(s) \/ EndScrape(s) \/ ScrapeRaises(s)
    \/ \E r \in Routes : ReadTotal(s, r) \/ ReadDurations(s, r)

LEMMA NextMetricsInv == MetricsInv /\ [MetricsNext]_metricsVars => MetricsInv'
<1> SUFFICES ASSUME MetricsInv, [MetricsNext]_metricsVars PROVE MetricsInv'
  OBVIOUS
<1>1. ASSUME NEW r \in Routes, NEW failed \in BOOLEAN, CountTotal(r, failed) PROVE MetricsInv'
  BY <1>1, CountTotalMetricsInv
<1>2. CASE AppendDuration
  BY <1>2, AppendDurationMetricsInv
<1>3. CASE CutDurations
  BY <1>3, CutDurationsMetricsInv
<1>4. CASE CountError
  BY <1>4, CountErrorMetricsInv
<1>5. ASSUME NEW s \in Scrapers, ScrapeStep(s) PROVE MetricsInv'
  <2>1. UNCHANGED <<total, durations, counting>>
    BY <1>5 DEF ScrapeStep, BeginScrape, BeginDurations, EndScrape, ScrapeRaises,
                ReadTotal, ReadDurations
  <2> QED BY <2>1, OtherMetricsInv
<1>6. CASE ReplaceWorker
  BY <1>6, OtherMetricsInv
<1>7. CASE UNCHANGED metricsVars
  BY <1>7, OtherMetricsInv DEF metricsVars
<1> QED BY <1>1, <1>2, <1>3, <1>4, <1>5, <1>6, <1>7 DEF MetricsNext, ScrapeStep

LEMMA SpecMetricsInv == MetricsSpec => []MetricsInv
BY InitMetricsInv, NextMetricsInv, PTL DEF MetricsSpec

\* The percentiles of a route are those of its newest responses without a gap,
\* for any cap and any number that a cut leaves (metrics.py:42-46).
THEOREM PercentilesAreOfTheNewest == MetricsSpec => []DurationsAreNewest
<1>1. MetricsInv => DurationsAreNewest
  BY DEF MetricsInv
<1> QED BY <1>1, SpecMetricsInv, PTL

-----------------------------------------------------------------------------
(* Scrapes                                                                 *)

IsScrape(m) ==
    m = [at |-> m.at, size |-> m.size, left |-> m.left, totals |-> m.totals,
         timed |-> m.timed, before |-> m.before, timedBefore |-> m.timedBefore]

\* The totals read so far are no smaller than those at the beginning.
TotalsOK(m, left) ==
    /\ DOMAIN m.totals \subseteq DOMAIN m.before
    /\ \A r \in DOMAIN m.before :
          r \in left \/ (r \in DOMAIN m.totals /\ m.totals[r] >= m.before[r])

\* Nothing is forgotten of what there was at the beginning.
SinceOK(m) ==
    /\ \A r \in DOMAIN m.before :
          r \in DOMAIN total /\ m.before[r] \in Nat /\ m.before[r] <= total[r]
    /\ m.timedBefore \subseteq DOMAIN durations

\* What the locals of a scrape say of the counters: the routes a loop goes over
\* are those there were when it began.
ScrapeOK(m) ==
    /\ m.at \in {"idle", "totals", "durations", "returned", "raised"}
    /\ m.at \in {"totals", "durations"} => IsScrape(m) /\ SinceOK(m)
    /\ m.at = "totals" =>
          /\ TotalsOK(m, m.left) /\ m.left \subseteq DOMAIN m.before
          /\ m.size = Cardinality(DOMAIN m.before)
          /\ m.timed = {}
    /\ m.at = "durations" =>
          /\ TotalsOK(m, {})
          /\ m.timed \cup m.left \subseteq DOMAIN durations
          /\ m.timedBefore \subseteq m.timed \cup m.left
          /\ m.size = Cardinality(m.timed \cup m.left)
          /\ \E x : DOMAIN m.totals \ (m.timed \cup m.left) \subseteq {x}
    /\ m.at = "returned" =>
          /\ \A r \in DOMAIN m.before : r \in DOMAIN m.totals /\ m.totals[r] >= m.before[r]
          /\ Cardinality(DOMAIN m.totals \ m.timed) <= 1
    /\ m.at = "raised" =>
          \/ \E r \in DOMAIN total : r \notin DOMAIN m.before
          \/ \E r \in DOMAIN durations : r \notin m.timedBefore

\* The inductive invariant behind ScrapesExplained.
ScrapesInv == MetricsInv /\ DOMAIN scrape = Scrapers /\ \A s \in Scrapers : ScrapeOK(scrape[s])

\* Counters only grow.
Grows ==
    /\ DOMAIN total \subseteq DOMAIN total' /\ DOMAIN durations \subseteq DOMAIN durations'
    /\ \A r \in DOMAIN total : total[r] \in Nat /\ total'[r] \in Nat /\ total[r] <= total'[r]

\* Responses that are counted meanwhile do no harm.
LEMMA StillOK ==
    ASSUME NEW m, ScrapeOK(m), Grows
    PROVE  ScrapeOK(m)'
<1>1. SinceOK(m) => SinceOK(m)'
  BY DEF SinceOK, Grows
<1>2. TotalsOK(m, m.left)' = TotalsOK(m, m.left) /\ TotalsOK(m, {})' = TotalsOK(m, {})
      /\ IsScrape(m)' = IsScrape(m)
  BY DEF TotalsOK, IsScrape
<1>3. DOMAIN total \subseteq DOMAIN total' /\ DOMAIN durations \subseteq DOMAIN durations'
  BY DEF Grows
<1> HIDE DEF Grows
<1> QED BY <1>1, <1>2, <1>3 DEF ScrapeOK

\* A step of the event loop.
LEMMA LoopGrows ==
    ASSUME MetricsInv, MetricsInv',
           \/ \E r \in Routes, failed \in BOOLEAN : CountTotal(r, failed)
           \/ AppendDuration \/ CutDurations \/ CountError
    PROVE  Grows /\ scrape' = scrape
<1>1. /\ \A r \in DOMAIN total : total[r] \in Nat
      /\ \A r \in DOMAIN total' : total'[r] \in Nat
  BY DEF MetricsInv, CountersOK
<1>2. ASSUME NEW r \in Routes, NEW failed \in BOOLEAN, CountTotal(r, failed)
      PROVE  Grows /\ scrape' = scrape
  BY <1>1, <1>2 DEF CountTotal, Grows, Put, Get
<1>3. CASE AppendDuration
  BY <1>1, <1>3 DEF AppendDuration, Grows, Put
<1>4. CASE CutDurations
  BY <1>1, <1>4 DEF CutDurations, Grows
<1>5. CASE CountError
  BY <1>1, <1>5 DEF CountError, Grows
<1> QED BY <1>2, <1>3, <1>4, <1>5

\* A step of a scrape concerns its own thread.
LEMMA ScrapeWise ==
    ASSUME ScrapesInv, MetricsInv', NEW s \in Scrapers, NEW m, Step(s, m),
           UNCHANGED <<total, durations, errors, counting>>,
           ScrapeOK(m)
    PROVE  ScrapesInv'
<1>1. /\ scrape' = [scrape EXCEPT ![s] = m] /\ total' = total /\ durations' = durations
  BY DEF Step
<1>2. DOMAIN scrape' = Scrapers /\ scrape'[s] = m
      /\ \A u \in Scrapers : u # s => scrape'[u] = scrape[u]
  BY <1>1 DEF ScrapesInv
<1>3. \A x : ScrapeOK(x)' <=> ScrapeOK(x)
  BY <1>1 DEF ScrapeOK, SinceOK, TotalsOK, IsScrape
<1>4. ASSUME NEW u \in Scrapers PROVE ScrapeOK(scrape[u])'
  <2>1. PICK x : x = scrape'[u]
    OBVIOUS
  <2>2. ScrapeOK(x)
    BY <1>2, <2>1 DEF ScrapesInv
  <2>3. ScrapeOK(x)'
    BY <1>3, <2>2
  <2> QED BY <2>1, <2>3
<1> QED BY <1>2, <1>4 DEF ScrapesInv

LEMMA BeginScrapeScrapesInv ==
    ASSUME ScrapesInv, MetricsInv', NEW s \in Scrapers, BeginScrape(s)
    PROVE  ScrapesInv'
<1>1. PICK m : m = [at |-> "totals", size |-> Cardinality(DOMAIN total), left |-> DOMAIN total,
                    totals |-> NoRoutes, timed |-> {}, before |-> total,
                    timedBefore |-> DOMAIN durations]
  OBVIOUS
<1>2. Step(s, m) /\ UNCHANGED <<total, durations, errors, counting>>
  BY <1>1 DEF BeginScrape
<1>3. /\ m.at = "totals" /\ m.size = Cardinality(DOMAIN m.before) /\ m.left = DOMAIN total
      /\ m.timed = {} /\ m.before = total /\ m.timedBefore = DOMAIN durations
      /\ DOMAIN m.totals = {} /\ IsScrape(m)
  BY <1>1 DEF NoRoutes, IsScrape
<1>4. SinceOK(m)
  BY <1>3 DEF SinceOK, ScrapesInv, MetricsInv, CountersOK
<1>5. TotalsOK(m, m.left)
  BY <1>3 DEF TotalsOK
<1>6. ScrapeOK(m)
  BY <1>3, <1>4, <1>5 DEF ScrapeOK
<1> QED BY <1>2, <1>6, ScrapeWise

LEMMA ReadTotalScrapesInv ==
    ASSUME ScrapesInv, MetricsInv', NEW s \in Scrapers, NEW r \in Routes, ReadTotal(s, r)
    PROVE  ScrapesInv'
<1>1. PICK mine : mine = scrape[s]
  OBVIOUS
<1>2. PICK m : m = [mine EXCEPT !.left = @ \ {r}, !.totals = Put(@, r, total[r])]
  OBVIOUS
<1>3. /\ mine.at = "totals" /\ r \in mine.left
      /\ Step(s, m) /\ UNCHANGED <<total, durations, errors, counting>>
  BY <1>1, <1>2 DEF ReadTotal
<1>4. ScrapeOK(mine) /\ IsScrape(mine) /\ SinceOK(mine) /\ TotalsOK(mine, mine.left)
  BY <1>1, <1>3 DEF ScrapesInv, ScrapeOK
<1>5. /\ m.at = "totals" /\ m.size = mine.size /\ m.left = mine.left \ {r}
      /\ m.totals = Put(mine.totals, r, total[r])
      /\ m.timed = mine.timed /\ m.before = mine.before /\ m.timedBefore = mine.timedBefore
      /\ IsScrape(m)
  <2> HIDE DEF Put
  <2> QED BY <1>2, <1>3, <1>4 DEF IsScrape
<1>6. SinceOK(m)
  BY <1>4, <1>5 DEF SinceOK
<1>7. TotalsOK(m, m.left)
  <2>1. /\ DOMAIN m.totals = DOMAIN mine.totals \cup {r} /\ m.totals[r] = total[r]
        /\ \A x \in DOMAIN mine.totals : x # r => m.totals[x] = mine.totals[x]
    BY <1>5 DEF Put
  <2>2. ASSUME NEW x \in DOMAIN m.before
        PROVE  x \in m.left \/ (x \in DOMAIN m.totals /\ m.totals[x] >= m.before[x])
    <3>1. CASE x = r
      BY <1>4, <1>5, <2>1, <3>1 DEF SinceOK, ScrapesInv, MetricsInv, CountersOK
    <3>2. CASE x # r
      BY <1>4, <1>5, <2>1, <3>2 DEF TotalsOK
    <3> QED BY <3>1, <3>2
  <2>3. DOMAIN m.totals \subseteq DOMAIN m.before
    <3>1. r \in DOMAIN mine.before
      BY <1>3, <1>4 DEF ScrapeOK
    <3> QED BY <1>4, <1>5, <2>1, <3>1 DEF TotalsOK
  <2> QED BY <2>2, <2>3 DEF TotalsOK
<1>8. ScrapeOK(m)
  BY <1>3, <1>4, <1>5, <1>6, <1>7 DEF ScrapeOK
<1> QED BY <1>3, <1>8, ScrapeWise

\* The durations there are by now: of all routes but the one in between.
LEMMA BeginDurationsScrapesInv ==
    ASSUME ScrapesInv, MetricsInv', NEW s \in Scrapers, BeginDurations(s)
    PROVE  ScrapesInv'
<1>1. PICK mine : mine = scrape[s]
  OBVIOUS
<1>2. PICK m : m = [mine EXCEPT !.at = "durations", !.left = DOMAIN durations,
                                !.size = Cardinality(DOMAIN durations)]
  OBVIOUS
<1>3. /\ mine.at = "totals" /\ mine.left = {}
      /\ Step(s, m) /\ UNCHANGED <<total, durations, errors, counting>>
  BY <1>1, <1>2 DEF BeginDurations
<1>4. /\ ScrapeOK(mine) /\ IsScrape(mine) /\ SinceOK(mine) /\ TotalsOK(mine, {})
      /\ mine.timed = {}
  BY <1>1, <1>3 DEF ScrapesInv, ScrapeOK
<1>5. /\ m.at = "durations" /\ m.size = Cardinality(DOMAIN durations)
      /\ m.left = DOMAIN durations /\ m.totals = mine.totals /\ m.timed = {}
      /\ m.before = mine.before /\ m.timedBefore = mine.timedBefore /\ IsScrape(m)
  BY <1>2, <1>4 DEF IsScrape
<1>6. SinceOK(m) /\ TotalsOK(m, {})
  BY <1>4, <1>5 DEF SinceOK, TotalsOK
<1>7. \E x : DOMAIN m.totals \ (m.timed \cup m.left) \subseteq {x}
  <2>1. DOMAIN m.totals \subseteq DOMAIN total
    BY <1>6 DEF SinceOK, TotalsOK
  <2>2. \A r \in DOMAIN total \ DOMAIN durations : r = counting.route
    BY DEF ScrapesInv, MetricsInv, CountersOK, Untimed
  <2>3. DOMAIN m.totals \ (m.timed \cup m.left) \subseteq {counting.route}
    BY <1>5, <2>1, <2>2
  <2> QED BY <2>3
<1>8. ScrapeOK(m)
  <2>1. m.timed \cup m.left = DOMAIN durations /\ m.timedBefore \subseteq DOMAIN durations
    BY <1>5, <1>6 DEF SinceOK
  <2> QED BY <1>5, <1>6, <1>7, <2>1 DEF ScrapeOK
<1> QED BY <1>3, <1>8, ScrapeWise

LEMMA ReadDurationsScrapesInv ==
    ASSUME ScrapesInv, MetricsInv', NEW s \in Scrapers, NEW r \in Routes, ReadDurations(s, r)
    PROVE  ScrapesInv'
<1>1. PICK mine : mine = scrape[s]
  OBVIOUS
<1>2. PICK m : m = [mine EXCEPT !.left = @ \ {r}, !.timed = @ \cup {r}]
  OBVIOUS
<1>3. /\ mine.at = "durations" /\ r \in mine.left
      /\ Step(s, m) /\ UNCHANGED <<total, durations, errors, counting>>
  BY <1>1, <1>2 DEF ReadDurations
<1>4. ScrapeOK(mine) /\ IsScrape(mine) /\ SinceOK(mine) /\ TotalsOK(mine, {})
  BY <1>1, <1>3 DEF ScrapesInv, ScrapeOK
<1>5. /\ m.at = "durations" /\ m.size = mine.size /\ m.left = mine.left \ {r}
      /\ m.timed = mine.timed \cup {r} /\ m.totals = mine.totals
      /\ m.before = mine.before /\ m.timedBefore = mine.timedBefore /\ IsScrape(m)
  BY <1>2, <1>3, <1>4 DEF IsScrape
<1>6. SinceOK(m) /\ TotalsOK(m, {})
  BY <1>4, <1>5 DEF SinceOK, TotalsOK
<1>7. m.timed \cup m.left = mine.timed \cup mine.left
  BY <1>3, <1>5
<1>8. ScrapeOK(m)
  BY <1>3, <1>4, <1>5, <1>6, <1>7 DEF ScrapeOK
<1> QED BY <1>3, <1>8, ScrapeWise

LEMMA EndScrapeScrapesInv ==
    ASSUME ScrapesInv, MetricsInv', NEW s \in Scrapers, EndScrape(s)
    PROVE  ScrapesInv'
<1>1. PICK mine : mine = scrape[s]
  OBVIOUS
<1>2. PICK m : m = [at |-> "returned", totals |-> mine.totals, timed |-> mine.timed,
                    before |-> mine.before, errors |-> errors]
  OBVIOUS
<1>3. /\ mine.at = "durations" /\ mine.left = {}
      /\ Step(s, m) /\ UNCHANGED <<total, durations, errors, counting>>
  BY <1>1, <1>2 DEF EndScrape
<1>4. ScrapeOK(mine) /\ TotalsOK(mine, {})
  BY <1>1, <1>3 DEF ScrapesInv, ScrapeOK
<1>5. /\ m.at = "returned" /\ m.totals = mine.totals /\ m.timed = mine.timed
      /\ m.before = mine.before
  BY <1>2
<1>6. PICK x : DOMAIN m.totals \ m.timed \subseteq {x}
  <2>1. mine.timed \cup mine.left = mine.timed
    BY <1>3
  <2> QED BY <1>3, <1>4, <1>5, <2>1 DEF ScrapeOK
<1>7. Cardinality(DOMAIN m.totals \ m.timed) <= 1
  <2>1. IsFiniteSet({x}) /\ Cardinality({x}) = 1
    BY FS_Singleton
  <2> QED BY <1>6, <2>1, FS_Subset
<1>8. ScrapeOK(m)
  BY <1>4, <1>5, <1>7 DEF ScrapeOK, TotalsOK
<1> QED BY <1>3, <1>8, ScrapeWise

\* The dictionary is larger than it was: there is a route it did not have.
LEMMA ScrapeRaisesScrapesInv ==
    ASSUME ScrapesInv, MetricsInv', NEW s \in Scrapers, ScrapeRaises(s)
    PROVE  ScrapesInv'
<1>1. PICK mine : mine = scrape[s]
  OBVIOUS
<1>2. PICK m : m = [at |-> "raised", before |-> mine.before, timedBefore |-> mine.timedBefore]
  OBVIOUS
<1>3. /\ \/ mine.at = "totals" /\ mine.size # Cardinality(DOMAIN total)
         \/ mine.at = "durations" /\ mine.size # Cardinality(DOMAIN durations)
      /\ Step(s, m) /\ UNCHANGED <<total, durations, errors, counting>>
  BY <1>1, <1>2 DEF ScrapeRaises
<1>4. ScrapeOK(mine) /\ SinceOK(mine)
  BY <1>1, <1>3 DEF ScrapesInv, ScrapeOK
<1>5. m.at = "raised" /\ m.before = mine.before /\ m.timedBefore = mine.timedBefore
  BY <1>2
<1>6. \/ \E r \in DOMAIN total : r \notin DOMAIN m.before
      \/ \E r \in DOMAIN durations : r \notin m.timedBefore
  <2>1. CASE mine.at = "totals"
    <3>1. DOMAIN mine.before # DOMAIN total
      BY <1>3, <1>4, <2>1 DEF ScrapeOK
    <3>2. DOMAIN mine.before \subseteq DOMAIN total
      BY <1>4 DEF SinceOK
    <3> QED BY <1>5, <3>1, <3>2
  <2>2. CASE mine.at = "durations"
    <3>1. /\ mine.timed \cup mine.left # DOMAIN durations
          /\ mine.timed \cup mine.left \subseteq DOMAIN durations
          /\ mine.timedBefore \subseteq mine.timed \cup mine.left
      BY <1>3, <1>4, <2>2 DEF ScrapeOK
    <3> QED BY <1>5, <3>1
  <2> QED BY <1>3, <2>1, <2>2
<1>7. ScrapeOK(m)
  BY <1>5, <1>6 DEF ScrapeOK
<1> QED BY <1>3, <1>7, ScrapeWise

LEMMA InitScrapesInv == MetricsInit => ScrapesInv
<1> SUFFICES ASSUME MetricsInit PROVE ScrapesInv
  OBVIOUS
<1>1. DOMAIN scrape = Scrapers /\ \A s \in Scrapers : scrape[s].at = "idle"
  BY DEF MetricsInit, NoScrape
<1> QED BY <1>1, InitMetricsInv DEF ScrapesInv, ScrapeOK

LEMMA NextScrapesInv == ScrapesInv /\ [MetricsNext]_metricsVars => ScrapesInv'
<1> SUFFICES ASSUME ScrapesInv, [MetricsNext]_metricsVars PROVE ScrapesInv'
  OBVIOUS
<1>1. MetricsInv /\ MetricsInv'
  BY NextMetricsInv DEF ScrapesInv
<1>2. ASSUME \/ \E r \in Routes, failed \in BOOLEAN : CountTotal(r, failed)
             \/ AppendDuration \/ CutDurations \/ CountError
      PROVE  ScrapesInv'
  <2>1. Grows /\ scrape' = scrape
    BY <1>1, <1>2, LoopGrows
  <2>2. ASSUME NEW s \in Scrapers PROVE ScrapeOK(scrape[s])'
    <3>1. PICK m : m = scrape[s]
      OBVIOUS
    <3>2. ScrapeOK(m)'
      BY <2>1, <3>1, StillOK DEF ScrapesInv
    <3>3. scrape'[s] = m
      BY <2>1, <3>1
    <3> QED BY <3>2, <3>3
  <2> QED BY <1>1, <2>1, <2>2 DEF ScrapesInv
<1>3. ASSUME NEW s \in Scrapers, BeginScrape(s) PROVE ScrapesInv'
  BY <1>1, <1>3, BeginScrapeScrapesInv
<1>4. ASSUME NEW s \in Scrapers, BeginDurations(s) PROVE ScrapesInv'
  BY <1>1, <1>4, BeginDurationsScrapesInv
<1>5. ASSUME NEW s \in Scrapers, EndScrape(s) PROVE ScrapesInv'
  BY <1>1, <1>5, EndScrapeScrapesInv
<1>6. ASSUME NEW s \in Scrapers, ScrapeRaises(s) PROVE ScrapesInv'
  BY <1>1, <1>6, ScrapeRaisesScrapesInv
<1>7. ASSUME NEW s \in Scrapers, NEW r \in Routes, ReadTotal(s, r) PROVE ScrapesInv'
  BY <1>1, <1>7, ReadTotalScrapesInv
<1>8. ASSUME NEW s \in Scrapers, NEW r \in Routes, ReadDurations(s, r) PROVE ScrapesInv'
  BY <1>1, <1>8, ReadDurationsScrapesInv
<1>9. CASE ReplaceWorker
  <2>1. DOMAIN scrape' = Scrapers /\ \A s \in Scrapers : scrape'[s].at = "idle"
    BY <1>9 DEF ReplaceWorker, NoScrape
  <2> QED BY <1>1, <2>1 DEF ScrapesInv, ScrapeOK
<1>10. CASE UNCHANGED metricsVars
  <2>1. UNCHANGED <<total, durations, scrape>>
    BY <1>10 DEF metricsVars
  <2>2. ASSUME NEW s \in Scrapers PROVE ScrapeOK(scrape[s])'
    <3>1. PICK m : m = scrape[s]
      OBVIOUS
    <3>2. ScrapeOK(m)
      BY <3>1 DEF ScrapesInv
    <3>3. SinceOK(m) => SinceOK(m)'
      BY <2>1 DEF SinceOK
    <3>4. ScrapeOK(m)'
      BY <2>1, <3>2, <3>3 DEF ScrapeOK
    <3> QED BY <2>1, <3>1, <3>4
  <2> QED BY <1>1, <2>1, <2>2 DEF ScrapesInv
<1> QED BY <1>2, <1>3, <1>4, <1>5, <1>6, <1>7, <1>8, <1>9, <1>10 DEF MetricsNext

\* A scrape that returns tells of every route that had answered before it began
\* no less than was counted then, and leaves out the percentiles of one route at
\* most; one that raises met the first response of some route (metrics.py:20-29).
THEOREM ScrapesAreExplained == MetricsSpec => []ScrapesExplained
<1>1. ScrapesInv => ScrapesExplained
  BY DEF ScrapesInv, ScrapeOK, ScrapesExplained
<1> QED BY <1>1, InitScrapesInv, NextScrapesInv, PTL DEF MetricsSpec

-----------------------------------------------------------------------------
(* Policy: training                                                        *)

(* Sums over the days                                                      *)

\* g holds the sums of the first n values of f.
Sums(f, n, g) == g = [i \in 0..n |-> IF i = 0 THEN 0 ELSE g[i - 1] + f[i]]

\* There are such sums, and they are integers: the least n without them would
\* be the successor of one that has them.
LEMMA SumsExist ==
    ASSUME NEW f, \A d \in 1..Days : f[d] \in Int
    PROVE  \A n \in 0..Days : \E g \in [0..n -> Int] : Sums(f, n, g)
<1> DEFINE Has(n) == \E g \in [0..n -> Int] : Sums(f, n, g)
           without == {n \in 0..Days : ~Has(n)}
<1> SUFFICES ASSUME without # {} PROVE FALSE
  OBVIOUS
<1>1. PICK n \in without : \A k \in without : n <= k
  <2>1. without \subseteq Nat
    OBVIOUS
  <2> HIDE DEF without
  <2> QED BY <2>1, Least
<1>2. n # 0
  <2>1. [i \in 0..0 |-> 0] \in [0..0 -> Int] /\ Sums(f, 0, [i \in 0..0 |-> 0])
    BY DEF Sums
  <2> QED BY <1>1, <2>1
<1>3. n \in 1..Days /\ n - 1 \in 0..Days
  BY <1>1, <1>2, DaysAssumption
<1>4. PICK g \in [0..(n - 1) -> Int] : Sums(f, n - 1, g)
  BY <1>1, <1>3
<1> DEFINE h == [i \in 0..n |-> IF i = n THEN g[n - 1] + f[n] ELSE g[i]]
<1>5. h \in [0..n -> Int]
  BY <1>3, <1>4
<1>6. Sums(f, n, h)
  <2>1. ASSUME NEW i \in 0..n PROVE h[i] = IF i = 0 THEN 0 ELSE h[i - 1] + f[i]
    <3>1. CASE i = n
      BY <1>3, <3>1
    <3>2. CASE i # n
      <4>1. i \in 0..(n - 1) /\ h[i] = g[i]
        BY <1>3, <3>2
      <4>2. g[i] = IF i = 0 THEN 0 ELSE g[i - 1] + f[i]
        BY <1>4, <4>1 DEF Sums
      <4>3. i # 0 => h[i - 1] = g[i - 1]
        BY <1>3, <4>1
      <4> QED BY <4>1, <4>2, <4>3
    <3> QED BY <3>1, <3>2
  <2>2. h = [i \in 0..n |-> h[i]]
    OBVIOUS
  <2> HIDE DEF h
  <2> QED BY <2>1, <2>2 DEF Sums
<1> QED BY <1>1, <1>5, <1>6

LEMMA TotalType ==
    ASSUME NEW f, \A d \in 1..Days : f[d] \in Int
    PROVE  Total(f) \in Int
<1>1. Days \in 0..Days
  BY DaysAssumption
<1>2. PICK g \in [0..Days -> Int] : Sums(f, Days, g)
  BY <1>1, SumsExist
<1> DEFINE sum == CHOOSE s : Sums(f, Days, s)
<1>3. Sums(f, Days, sum)
  BY <1>2
<1>4. Total(f) = sum[Days]
  BY DEF Total, Sums
<1> DEFINE differ == {n \in 0..Days : sum[n] # g[n]}
<1>5. differ = {}
  <2> HIDE DEF sum
  <2> SUFFICES ASSUME differ # {} PROVE FALSE
    OBVIOUS
  <2>1. PICK n \in differ : \A k \in differ : n <= k
    <3>1. differ \subseteq Nat
      OBVIOUS
    <3> HIDE DEF differ
    <3> QED BY <3>1, Least
  <2>2. \A i \in 0..Days :
            /\ sum[i] = IF i = 0 THEN 0 ELSE sum[i - 1] + f[i]
            /\ g[i] = IF i = 0 THEN 0 ELSE g[i - 1] + f[i]
    BY <1>2, <1>3 DEF Sums
  <2>3. n # 0
    BY <2>1, <2>2
  <2>4. n - 1 \in 0..Days /\ n - 1 \notin differ
    BY <2>1, <2>3, DaysAssumption
  <2> QED BY <2>1, <2>2, <2>3, <2>4
<1> QED
  <2> HIDE DEF sum
  <2> QED BY <1>1, <1>2, <1>4, <1>5

-----------------------------------------------------------------------------
(* The scores                                                              *)

\* No port is closed in the runs that are compared.
LEMMA PortOpen ==
    ASSUME NEW a \in Actions, NEW d \in 1..Days
    PROVE  ~PortClosed(ParamsOf(a), d)
BY DaysAssumption DEF PortClosed, ParamsOf, Lesser

LEMMA DemandOf ==
    /\ ParamsOf(0).demand = 16 /\ ParamsOf(1).demand = 20 /\ ParamsOf(2).demand = 25
    /\ \A a \in Actions : /\ ParamsOf(a).throughput = 64 /\ ParamsOf(a).closure = 0
                          /\ ParamsOf(a).probability = 8 /\ ParamsOf(a).base_waste = 6
BY DEF ParamsOf, Demands, Actions

\* A percentage of a demand, rounded in per mille, is the same for each demand.
LEMMA RatioCancels ==
    ASSUME NEW share \in Int
    PROVE  /\ (2 * (16 * share) + 25 * 16) \div (50 * 16) = (2 * share + 25) \div 50
           /\ (2 * (20 * share) + 25 * 20) \div (50 * 20) = (2 * share + 25) \div 50
           /\ (2 * (25 * share) + 25 * 25) \div (50 * 25) = (2 * share + 25) \div 50
OBVIOUS

\* The mill could serve every one of the demands: what it serves of them on a
\* day depends on the draw alone.
LEMMA SameService ==
    ASSUME NEW a \in Actions, NEW d \in 1..Days, NEW draw \in Draw
    PROVE  /\ Service(ParamsOf(a), d, draw) = Service(ParamsOf(0), d, draw)
           /\ Service(ParamsOf(a), d, draw) \in Int
<1> DEFINE share == 10 * (100 - draw.noise) * (IF draw.disrupt THEN 18 ELSE 25)
<1>1. draw.noise \in 0..2 /\ share \in Int
  BY DEF Draw
<1>2. ASSUME NEW b \in Actions
      PROVE  Service(ParamsOf(b), d, draw) = Lesser((2 * share + 25) \div 50, 1000)
  <2>1. ParamsOf(b).demand \in {16, 20, 25}
    BY DemandOf DEF Actions
  <2>2. Lesser(ParamsOf(b).demand * 10, 10 * 64) = ParamsOf(b).demand * 10
    BY <2>1 DEF Lesser
  <2>3. Produced(ParamsOf(b), d, draw) = ParamsOf(b).demand * 10 * (100 - draw.noise)
    BY <2>2, PortOpen, DemandOf DEF Produced
  <2>4. Produced(ParamsOf(b), d, draw) * (IF draw.disrupt THEN 18 ELSE 25)
            = ParamsOf(b).demand * share
    BY <1>1, <2>1, <2>3
  <2>5. Service(ParamsOf(b), d, draw)
            = Lesser((2 * (ParamsOf(b).demand * share) + 25 * ParamsOf(b).demand)
                        \div (50 * ParamsOf(b).demand), 1000)
    BY <2>4 DEF Service
  <2> HIDE DEF share
  <2> QED BY <1>1, <2>1, <2>5, RatioCancels
<1> HIDE DEF share
<1>3. 0 \in Actions
  BY DEF Actions
<1> QED BY <1>1, <1>2, <1>3 DEF Lesser

\* A score is an integer, and the same for each action.
LEMMA SameScore ==
    ASSUME NEW a \in Actions
    PROVE  Score(a) = Score(0) /\ Score(a) \in Int
<1>1. 0 \in Actions
  BY DEF Actions
<1>2. \A d \in 1..Days : Draws[d] \in Draw
  BY DrawsAssumption
<1>3. /\ TotalService(ParamsOf(a), Draws) = TotalService(ParamsOf(0), Draws)
      /\ TotalService(ParamsOf(a), Draws) \in Int
  <2> DEFINE serviceOf(b) == [d \in 1..Days |-> Service(ParamsOf(b), d, Draws[d])]
  <2>1. serviceOf(a) = serviceOf(0) /\ \A d \in 1..Days : serviceOf(a)[d] \in Int
    BY <1>2, SameService
  <2>2. \A b : TotalService(ParamsOf(b), Draws) = Total(serviceOf(b))
    BY DEF TotalService
  <2> HIDE DEF serviceOf
  <2> QED BY <2>1, <2>2, TotalType
<1>4. /\ TotalWaste(ParamsOf(a), Draws) = TotalWaste(ParamsOf(0), Draws)
      /\ TotalWaste(ParamsOf(a), Draws) \in Int
  <2> DEFINE wasteOf(b) == [d \in 1..Days |-> Waste(ParamsOf(b), d, Draws[d])]
  <2>1. \A b \in Actions, d \in 1..Days :
            Waste(ParamsOf(b), d, Draws[d]) = IF Draws[d].disrupt THEN 8 ELSE 6
    BY PortOpen, DemandOf DEF Waste
  <2>2. wasteOf(a) = wasteOf(0) /\ \A d \in 1..Days : wasteOf(a)[d] \in Int
    BY <1>1, <2>1
  <2>3. \A b : TotalWaste(ParamsOf(b), Draws) = Total(wasteOf(b))
    BY DEF TotalWaste
  <2> HIDE DEF wasteOf
  <2> QED BY <2>2, <2>3, TotalType
<1>5. Risk(ParamsOf(a), Draws) = Risk(ParamsOf(0), Draws) /\ Risk(ParamsOf(a), Draws) \in Int
  BY <1>1, <1>4, DemandOf, DaysAssumption DEF Risk, Lesser
<1> QED BY <1>3, <1>5 DEF Score

\* The first of the actions is the best.
LEMMA BestIsFirst == BestAction = 0
<1> DEFINE IsBest(a) == \A b \in Actions : Score(b) <= Score(a) /\ (b < a => Score(b) < Score(a))
<1>1. 0 \in Actions /\ \A b \in Actions : ~(b < 0)
  BY DEF Actions
<1>2. IsBest(0)
  BY <1>1, SameScore
<1>3. \A a \in Actions : IsBest(a) => a = 0
  BY <1>1, SameScore DEF Actions
<1>4. BestAction = CHOOSE a \in Actions : IsBest(a)
  BY DEF BestAction
<1> HIDE DEF IsBest
<1> QED BY <1>1, <1>2, <1>3, <1>4

-----------------------------------------------------------------------------
(* The invariant                                                           *)

TrainerPCs == {"idle", "write", "update", "commit"}

\* Of the rows the last one is active, and every one holds the best action.
RowsOK ==
    /\ policies \in Seq([action : {BestAction}, created_at : Nat, active : BOOLEAN])
    /\ Active = IF policies = <<>> THEN {} ELSE {Len(policies)}
    /\ stored = Len(policies)
    /\ inferred.row \in Nat /\ inferred.known = inferred.row

\* The write lock belongs to the training that is about to commit, and the rows
\* it has deactivated are those that are active.
LockOK ==
    \A t \in Trainers :
        /\ training[t].pc = "commit" <=> writer = t
        /\ training[t].pc = "commit" => training[t].old = Active

\* A training that has written its file finds it complete, or cut again by a
\* later one that is still writing or has never finished.
FileOK ==
    /\ artifact \in {Missing, Empty, File(BestAction)}
    /\ (policies # <<>> \/ \E t \in Trainers : training[t].pc \in {"update", "commit"})
          => artifact # Missing
    /\ artifact = Empty => torn \/ \E t \in Trainers : training[t].pc = "write"

PolicyInv ==
    /\ training \in [Trainers -> [pc : TrainerPCs, old : SUBSET Nat]]
    /\ RowsOK /\ LockOK /\ FileOK

LEMMA InitPolicyInv == PolicyInit => PolicyInv
<1> SUFFICES ASSUME PolicyInit PROVE PolicyInv
  OBVIOUS
<1> USE DEF PolicyInit
<1>1. training \in [Trainers -> [pc : TrainerPCs, old : SUBSET Nat]]
  BY DEF NotTraining, TrainerPCs
<1>2. RowsOK
  BY DEF RowsOK, Active
<1>3. LockOK
  BY TrainersAssumption DEF LockOK, NotTraining
<1>4. FileOK
  BY DEF FileOK, NotTraining, Missing, Empty
<1> QED BY <1>1, <1>2, <1>3, <1>4 DEF PolicyInv

\* What a step of a training does to the locals.
LEMMA TrainerGoes ==
    ASSUME PolicyInv, NEW t \in Trainers, NEW pc \in TrainerPCs, NEW old \in SUBSET Nat,
           TrainingGoes(t, pc, old)
    PROVE  /\ training' \in [Trainers -> [pc : TrainerPCs, old : SUBSET Nat]]
           /\ training'[t].pc = pc /\ training'[t].old = old
           /\ \A u \in Trainers : u # t => training'[u] = training[u]
BY DEF PolicyInv, TrainingGoes

\* The rows stay in order as long as nobody touches them.
LEMMA SameRows ==
    ASSUME RowsOK, policies' = policies, stored' = stored, inferred' = inferred
    PROVE  RowsOK' /\ Active' = Active
BY DEF RowsOK, Active

\* A step of a training that leaves the rows alone, and the lock as it should be.
LEMMA QuietStep ==
    ASSUME PolicyInv, NEW t \in Trainers, NEW pc \in TrainerPCs, NEW old \in SUBSET Nat,
           TrainingGoes(t, pc, old),
           policies' = policies, stored' = stored, inferred' = inferred,
           \/ training[t].pc # "commit" /\ pc # "commit" /\ writer' = writer
           \/ pc # "commit" /\ writer = t /\ writer' = NoTrainer
           \/ pc = "commit" /\ old = Active /\ writer = NoTrainer /\ writer' = t,
           FileOK'
    PROVE  PolicyInv'
<1>1. /\ training' \in [Trainers -> [pc : TrainerPCs, old : SUBSET Nat]]
      /\ training'[t].pc = pc /\ training'[t].old = old
      /\ \A u \in Trainers : u # t => training'[u] = training[u]
  BY TrainerGoes
<1>2. RowsOK' /\ Active' = Active
  BY SameRows DEF PolicyInv
<1>3. LockOK'
  BY <1>1, <1>2, TrainersAssumption DEF PolicyInv, LockOK
<1> QED BY <1>1, <1>2, <1>3 DEF PolicyInv

\* The rows that are active are numbered, and so deactivated, as sets of numbers.
LEMMA ActiveType == RowsOK => Active \in SUBSET Nat
BY DEF RowsOK, Active

LEMMA TrainPolicyInv ==
    ASSUME PolicyInv, NEW t \in Trainers, Train(t)
    PROVE  PolicyInv'
<1>1. TrainingGoes(t, "write", {}) /\ training'[t].pc = "write"
  BY TrainerGoes DEF Train, TrainerPCs
<1>2. FileOK'
  BY <1>1 DEF Train, FileOK, Empty, Missing
<1> QED BY <1>1, <1>2, QuietStep DEF Train, TrainerPCs

LEMMA DumpPolicyInv ==
    ASSUME PolicyInv, NEW t \in Trainers, Dump(t)
    PROVE  PolicyInv'
<1> DEFINE pc == IF t \in WithDatabase THEN "update" ELSE "idle"
<1>1. TrainingGoes(t, pc, {}) /\ pc \in TrainerPCs /\ pc # "commit"
  BY DEF Dump, TrainerPCs
<1>2. FileOK'
  BY DEF Dump, FileOK, Empty, Missing, File
<1> QED BY <1>1, <1>2, QuietStep DEF Dump

LEMMA DumpRaisesPolicyInv ==
    ASSUME PolicyInv, NEW t \in Trainers, DumpRaises(t)
    PROVE  PolicyInv'
<1>1. /\ TrainingGoes(t, "idle", {}) /\ training'[t].pc = "idle"
      /\ \A u \in Trainers : u # t => training'[u] = training[u]
  BY TrainerGoes DEF DumpRaises, TrainerPCs
<1>2. FileOK'
  BY <1>1 DEF PolicyInv, DumpRaises, FileOK, Empty, Missing, File
<1> QED BY <1>1, <1>2, QuietStep DEF DumpRaises, TrainerPCs

LEMMA DeactivatePolicyInv ==
    ASSUME PolicyInv, NEW t \in Trainers, Deactivate(t)
    PROVE  PolicyInv'
<1>1. Active \in SUBSET Nat
  BY ActiveType DEF PolicyInv
<1>2. /\ TrainingGoes(t, "commit", Active) /\ training'[t].pc = "commit"
      /\ \A u \in Trainers : u # t => training'[u] = training[u]
  BY <1>1, TrainerGoes DEF Deactivate, TrainerPCs
<1>3. FileOK'
  BY <1>2 DEF PolicyInv, Deactivate, FileOK
<1> QED BY <1>1, <1>2, <1>3, QuietStep DEF Deactivate, TrainerPCs

\* The ways a training ends without a policy.
LEMMA EndsPolicyInv ==
    ASSUME PolicyInv, NEW t \in Trainers, LockTimeout(t) \/ CommitRaises(t) \/ TrainerDies(t)
    PROVE  PolicyInv'
<1>1. /\ TrainingGoes(t, "idle", {}) /\ training'[t].pc = "idle"
      /\ \A u \in Trainers : u # t => training'[u] = training[u]
  BY TrainerGoes DEF LockTimeout, CommitRaises, TrainerDies, TrainerPCs
<1>2. FileOK'
  BY <1>1 DEF PolicyInv, LockTimeout, CommitRaises, TrainerDies, FileOK, Empty, Missing, File
<1>3. \/ training[t].pc # "commit" /\ writer' = writer
      \/ writer = t /\ writer' = NoTrainer
  BY DEF PolicyInv, LockOK, LockTimeout, CommitRaises, TrainerDies
<1>4. policies' = policies /\ stored' = stored /\ inferred' = inferred
  BY DEF LockTimeout, CommitRaises, TrainerDies
<1> QED BY <1>1, <1>2, <1>3, <1>4, QuietStep DEF TrainerPCs

\* What Append does.
LEMMA Appended ==
    ASSUME NEW S, NEW s \in Seq(S), NEW x \in S
    PROVE  /\ Append(s, x) \in Seq(S) /\ Len(Append(s, x)) = Len(s) + 1
           /\ Append(s, x)[Len(s) + 1] = x
           /\ \A i \in 1..Len(s) : Append(s, x)[i] = s[i]
OBVIOUS

\* The rows that were active are all that are, for nobody else could store any
\* since; they are no longer, and the new one is.
LEMMA CommitPolicyInv ==
    ASSUME PolicyInv, NEW t \in Trainers, Commit(t)
    PROVE  PolicyInv'
<1>1. /\ training'  \in [Trainers -> [pc : TrainerPCs, old : SUBSET Nat]]
      /\ training'[t].pc = "idle"
      /\ \A u \in Trainers : u # t => training'[u] = training[u]
  BY TrainerGoes DEF Commit, TrainerPCs
<1>2. training[t].pc = "commit" /\ training[t].old = Active /\ writer = t /\ writer' = NoTrainer
  BY DEF PolicyInv, LockOK, Commit
<1> DEFINE before == [i \in DOMAIN policies |->
                         IF i \in Active THEN [policies[i] EXCEPT !.active = FALSE]
                         ELSE policies[i]]
           Row == [action : {BestAction}, created_at : Nat, active : BOOLEAN]
<1>3. PICK stamp \in Stamps :
          policies' = Append(before, [action |-> BestAction, created_at |-> stamp, active |-> TRUE])
  BY <1>2 DEF Commit
<1> DEFINE new == [action |-> BestAction, created_at |-> stamp, active |-> TRUE]
<1>4. policies \in Seq(Row) /\ new \in Row /\ new.active
  BY StampsAssumption DEF PolicyInv, RowsOK
<1>5. ASSUME NEW i \in 1..Len(policies) PROVE before[i] \in Row /\ ~before[i].active
  <2>1. policies[i] \in Row /\ i \in DOMAIN policies
    <3> HIDE DEF Row, new
    <3> QED BY <1>4
  <2>2. CASE i \in Active
    <3>1. before[i] = [policies[i] EXCEPT !.active = FALSE]
      BY <2>1, <2>2
    <3> QED BY <2>1, <3>1
  <2>3. CASE i \notin Active
    BY <1>4, <2>1, <2>3 DEF Active
  <2> QED BY <2>2, <2>3
<1>6. before \in Seq(Row) /\ Len(before) = Len(policies)
  <2>1. before = [i \in 1..Len(policies) |-> before[i]]
    BY <1>4
  <2>2. Len(policies) \in Nat
    BY <1>4
  <2> HIDE DEF before, Row
  <2> QED BY <1>5, <2>1, <2>2
<1>7. /\ policies' \in Seq(Row) /\ Len(policies') = Len(policies) + 1
      /\ policies'[Len(policies) + 1].active
      /\ \A i \in 1..Len(policies) : ~policies'[i].active
  <2> HIDE DEF before, Row, new
  <2>1. policies' = Append(before, new)
    BY <1>3 DEF new
  <2> QED BY <1>4, <1>5, <1>6, <2>1, Appended
<1>8. Active' = {Len(policies')} /\ policies' # <<>>
  <2>1. DOMAIN policies' = 1..(Len(policies) + 1) /\ Len(policies) \in Nat
    BY <1>4, <1>7
  <2> QED BY <1>7, <2>1 DEF Active
<1>9. RowsOK'
  <2>1. stored' = Len(policies') /\ inferred' = inferred
    BY <1>7 DEF Commit
  <2>2. inferred.row \in Nat /\ inferred.known = inferred.row
    BY DEF PolicyInv, RowsOK
  <2> QED BY <1>7, <1>8, <2>1, <2>2 DEF RowsOK
<1>10. LockOK'
  BY <1>1, <1>2, TrainersAssumption DEF PolicyInv, LockOK
<1>11. FileOK'
  BY <1>1, <1>2 DEF PolicyInv, Commit, FileOK
<1> QED BY <1>1, <1>9, <1>10, <1>11 DEF PolicyInv

\* There is one active row to choose, or none and none was ever stored.
LEMMA InferPolicyInv == PolicyInv /\ Infer => PolicyInv'
<1> SUFFICES ASSUME PolicyInv, Infer PROVE PolicyInv'
  OBVIOUS
<1>1. /\ policies' = policies /\ stored' = stored /\ training' = training
      /\ writer' = writer /\ artifact' = artifact /\ torn' = torn
  BY DEF Infer
<1>2. Active' = Active /\ Len(policies) \in Nat
  BY <1>1 DEF Active, PolicyInv, RowsOK
<1>3. inferred'.row = Len(policies) /\ inferred'.known = Len(policies)
  BY DEF PolicyInv, RowsOK, Infer
<1>4. RowsOK'
  BY <1>1, <1>2, <1>3 DEF PolicyInv, RowsOK
<1> QED BY <1>1, <1>2, <1>4 DEF PolicyInv, LockOK, FileOK

LEMMA NextPolicyInv == PolicyInv /\ [PolicyNext]_policyVars => PolicyInv'
<1> SUFFICES ASSUME PolicyInv, [PolicyNext]_policyVars PROVE PolicyInv'
  OBVIOUS
<1>1. ASSUME NEW t \in Trainers, Train(t) PROVE PolicyInv'
  BY <1>1, TrainPolicyInv
<1>2. ASSUME NEW t \in Trainers, Dump(t) PROVE PolicyInv'
  BY <1>2, DumpPolicyInv
<1>3. ASSUME NEW t \in Trainers, DumpRaises(t) PROVE PolicyInv'
  BY <1>3, DumpRaisesPolicyInv
<1>4. ASSUME NEW t \in Trainers, Deactivate(t) PROVE PolicyInv'
  BY <1>4, DeactivatePolicyInv
<1>5. ASSUME NEW t \in Trainers, LockTimeout(t) \/ CommitRaises(t) \/ TrainerDies(t)
      PROVE PolicyInv'
  BY <1>5, EndsPolicyInv
<1>6. ASSUME NEW t \in Trainers, Commit(t) PROVE PolicyInv'
  BY <1>6, CommitPolicyInv
<1>7. CASE Infer
  BY <1>7, InferPolicyInv
<1>8. CASE UNCHANGED policyVars
  BY <1>8, SameRows DEF policyVars, PolicyInv, LockOK, FileOK
<1> QED BY <1>1, <1>2, <1>3, <1>4, <1>5, <1>6, <1>7, <1>8 DEF PolicyNext

\* Every row holds the best action.
LEMMA RowsHoldBest ==
    ASSUME PolicyInv, NEW i \in DOMAIN policies
    PROVE  policies[i].action = BestAction /\ policies # <<>>
<1> DEFINE Row == [action : {BestAction}, created_at : Nat, active : BOOLEAN]
<1>1. policies \in Seq(Row)
  BY DEF PolicyInv, RowsOK
<1>2. policies[i] \in Row
  <2> HIDE DEF Row
  <2> QED BY <1>1
<1>3. policies # <<>>
  OBVIOUS
<1> QED BY <1>2, <1>3

LEMMA SpecPolicyInv == PolicySpec => []PolicyInv
BY InitPolicyInv, NextPolicyInv, PTL DEF PolicySpec

-----------------------------------------------------------------------------
(* The theorems                                                            *)

\* However trainings overlap, fail and die, there is one active policy at most,
\* and none only as long as none was stored (marl_core.py:169-183).
THEOREM OneIsActive == PolicySpec => []OneActive
<1>1. PolicyInv => OneActive
  BY DEF PolicyInv, RowsOK, OneActive
<1> QED BY <1>1, SpecPolicyInv, PTL

\* Once train() has returned, infer() answers with its policy or a newer one,
\* even when the clock was set back in between (marl_core.py:187-202).
THEOREM TrainedPolicyIsInferred == PolicySpec => []TrainedIsInferred
<1>1. PolicyInv => TrainedIsInferred
  BY DEF PolicyInv, RowsOK, TrainedIsInferred
<1> QED BY <1>1, SpecPolicyInv, PTL

\* The file the active policy points to holds its action, unless a training is
\* writing it or the last one that did never finished (marl_core.py:160-163).
THEOREM ArtifactIsThePolicys == PolicySpec => []ArtifactFitsPolicy
<1>1. PolicyInv => ArtifactFitsPolicy
  <2> SUFFICES ASSUME PolicyInv, NEW i \in Active
               PROVE  \/ artifact = File(policies[i].action)
                      \/ artifact = Empty /\ (torn \/ \E t \in Trainers : training[t].pc = "write")
    BY DEF ArtifactFitsPolicy
  <2>1. policies[i].action = BestAction /\ policies # <<>>
    BY RowsHoldBest DEF Active
  <2> QED BY <2>1 DEF PolicyInv, FileOK
<1> QED BY <1>1, SpecPolicyInv, PTL

\* For any number of days and any draws the demand cancels out of the scores:
\* every training stores the conservative action (marl_core.py:56-64, 151-157).
THEOREM TrainingIsConservative == PolicySpec => []PolicyIsConservative
<1>1. PolicyInv => PolicyIsConservative
  BY BestIsFirst, RowsHoldBest DEF PolicyIsConservative
<1> QED BY <1>1, SpecPolicyInv, PTL

-----------------------------------------------------------------------------
(* Startup: the start of the processes                                     *)

StarterPCs == {"down", "create", "index", "seed", "serving"}
TableSets  == SUBSET (1..Tables)
Locals     == [pc : StarterPCs, missing : TableSets, late : TableSets]

\* The order in which a process that sorts these tables behind creates tables.
Before(late, x, y) ==
    \/ x \notin late /\ y \in late
    \/ (x \in late) = (y \in late) /\ x < y

\* Processes under way sort what both of them miss in the same order.
SortAlike ==
    \A p, q \in Starters : UnderWay(p) /\ UnderWay(q) =>
        \A x \in starting[p].missing \cap starting[q].missing :
            x \in starting[p].late <=> x \in starting[q].late

\* Of the tables that a process is still to create, the others have created
\* those that come first.
InStep(p) ==
    \A x \in starting[p].missing \cap schema, y \in starting[p].missing :
        Before(starting[p].late, y, x) => y \in schema

\* What a process no longer misses is there, before it looks for the admin.
MissesAll(p) ==
    /\ starting[p].pc \in {"create", "index"} => 1..Tables \ starting[p].missing \subseteq schema
    /\ starting[p].pc = "seed" => schema = 1..Tables /\ starting[p].missing = {}

Finished == schema = 1..Tables /\ admins > 0

\* A process that has met no other one: it misses exactly what there is not.
Ahead(p) ==
    \/ starting[p].pc \in {"create", "index"} /\ starting[p].missing = 1..Tables \ schema
    \/ starting[p].pc = "seed"

\* As long as nothing is spoilt, processes go through the tables in step, and
\* until all is done one of them has met no other.
NotSpoilt ==
    /\ SortAlike
    /\ \A p \in Starters : UnderWay(p) => InStep(p)
    /\ (\E p \in Starters : starting[p].pc # "down") => Finished \/ \E p \in Starters : Ahead(p)

StartInv ==
    /\ starting \in [Starters -> Locals]
    /\ schema \subseteq 1..Tables
    /\ admins \in Nat
    /\ admins > 0 => schema = 1..Tables
    /\ admins > 1 => ~indexed
    /\ \A p \in Starters : MissesAll(p)
    /\ ~spoilt => NotSpoilt

-----------------------------------------------------------------------------
\* A process creates a table that it misses, and that comes before the others.
LEMMA NextComesFirst ==
    ASSUME StartInv, NEW p \in Starters, starting[p].missing # {}
    PROVE  /\ NextTable(p) \in starting[p].missing
           /\ \A y \in starting[p].missing :
                 y # NextTable(p) => Before(starting[p].late, NextTable(p), y)
<1> DEFINE missing == starting[p].missing
           early == missing \ starting[p].late
           chosen == IF early # {} THEN early ELSE missing
<1>1. missing \subseteq Nat
  BY DEF StartInv, Locals, TableSets
<1>2. chosen \subseteq Nat /\ chosen # {} /\ chosen \subseteq missing
  BY <1>1
<1>3. \E x \in chosen : \A y \in chosen : x <= y
  <2> HIDE DEF chosen
  <2> QED BY <1>2, Least
<1>4. NextTable(p) \in chosen /\ \A y \in chosen : NextTable(p) <= y
  BY <1>3 DEF NextTable, First
<1>5. ASSUME NEW y \in missing, y # NextTable(p)
      PROVE  Before(starting[p].late, NextTable(p), y)
  <2>1. NextTable(p) \in Nat /\ y \in Nat
    BY <1>1, <1>2, <1>4
  <2>2. CASE y \in chosen
    <3>1. NextTable(p) < y
      BY <1>4, <1>5, <2>1, <2>2
    <3>2. NextTable(p) \in starting[p].late <=> y \in starting[p].late
      BY <1>4, <2>2
    <3> QED BY <3>1, <3>2 DEF Before
  <2>3. CASE y \notin chosen
    <3>1. NextTable(p) \notin starting[p].late /\ y \in starting[p].late
      BY <1>4, <2>3
    <3> QED BY <3>1 DEF Before
  <2> QED BY <2>2, <2>3
<1> QED BY <1>2, <1>4, <1>5

\* The order is one: of two tables one comes first.
LEMMA NotBoth ==
    ASSUME NEW late, NEW x \in Nat, NEW y \in Nat, Before(late, x, y)
    PROVE  ~Before(late, y, x)
BY DEF Before

\* What a step of a process does to its locals.
LEMMA StarterGoes ==
    ASSUME StartInv, NEW p \in Starters, NEW pc \in StarterPCs, NEW missing \in TableSets,
           StartGoes(p, pc, missing)
    PROVE  /\ starting' \in [Starters -> Locals]
           /\ starting'[p].pc = pc /\ starting'[p].missing = missing
           /\ starting'[p].late = starting[p].late
           /\ \A q \in Starters : q # p => starting'[q] = starting[q]
BY DEF StartInv, StartGoes, Locals

LEMMA StarterEnds ==
    ASSUME StartInv, NEW p \in Starters, NEW pc \in {"down", "serving"}, StartEnds(p, pc)
    PROVE  /\ starting' \in [Starters -> Locals]
           /\ starting'[p].pc = pc /\ starting'[p].missing = {}
           /\ \A q \in Starters : q # p => starting'[q] = starting[q]
<1>1. {} \in TableSets
  BY DEF TableSets
<1> QED BY <1>1 DEF StartInv, StartEnds, Locals, Down, StarterPCs

LEMMA InitStartInv == StartInit => StartInv
<1> SUFFICES ASSUME StartInit PROVE StartInv
  OBVIOUS
<1>1. /\ schema = {} /\ admins = 0
      /\ \A p \in Starters : starting[p] = Down
  BY DEF StartInit
<1>2. starting \in [Starters -> Locals]
  <2>1. Down \in Locals
    BY DEF Down, Locals, StarterPCs, TableSets
  <2> QED BY <2>1 DEF StartInit
<1>3. \A p \in Starters : starting[p].pc = "down"
  BY <1>1 DEF Down
<1>4. \A p \in Starters : ~UnderWay(p) /\ MissesAll(p)
  BY <1>3 DEF UnderWay, MissesAll
<1>5. NotSpoilt
  BY <1>3, <1>4 DEF NotSpoilt, SortAlike
<1> QED BY <1>1, <1>2, <1>4, <1>5 DEF StartInv

\* Nobody is under way, or all that are sort alike: who starts is ahead.
LEMMA StartProcessStartInv ==
    ASSUME StartInv, NEW p \in Starters, StartProcess(p)
    PROVE  StartInv'
<1> DEFINE missing == 1..Tables \ schema
<1>1. /\ starting[p].pc = "down"
      /\ starting' = [starting EXCEPT ![p] =
            [pc |-> "create", missing |-> missing, late |-> Late(missing)]]
      /\ spoilt' = ((\E q \in Starters : UnderWay(q)) /\ (spoilt \/ SortsOtherwise(missing)))
      /\ schema' = schema /\ indexed' = indexed /\ admins' = admins
  BY DEF StartProcess
<1>2. missing \in TableSets /\ Late(missing) \in TableSets
  BY DEF TableSets, Late
<1> HIDE DEF missing
<1>3. /\ starting' \in [Starters -> Locals]
      /\ starting'[p].pc = "create" /\ starting'[p].missing = missing
      /\ starting'[p].late = Late(missing)
      /\ \A q \in Starters : q # p => starting'[q] = starting[q]
  BY <1>1, <1>2 DEF StartInv, Locals, StarterPCs
<1>4. \A q \in Starters : MissesAll(q)'
  <2>1. 1..Tables \ missing \subseteq schema
    BY DEF missing
  <2> QED BY <1>1, <1>3, <2>1 DEF StartInv, MissesAll
<1>5. ASSUME ~spoilt' PROVE NotSpoilt'
  <2>1. Ahead(p)'
    BY <1>1, <1>3 DEF Ahead, missing
  <2>2. InStep(p)'
    BY <1>1, <1>3 DEF InStep, missing
  <2>3. CASE \A q \in Starters : ~UnderWay(q)
    <3>1. \A q \in Starters : UnderWay(q)' => q = p
      BY <1>3, <2>3 DEF UnderWay
    <3>2. SortAlike'
      BY <3>1 DEF SortAlike
    <3> QED BY <2>1, <2>2, <3>1, <3>2 DEF NotSpoilt
  <2>4. CASE \E q \in Starters : UnderWay(q)
    <3>1. NotSpoilt /\ ~SortsOtherwise(missing)
      BY <1>1, <1>5, <2>4 DEF StartInv
    <3>2. ASSUME NEW q \in Starters, UnderWay(q), q # p,
                 NEW x \in starting[q].missing \cap missing
          PROVE  x \in starting[q].late <=> x \in Late(missing)
      BY <3>1, <3>2 DEF SortsOtherwise
    <3>3. \A q \in Starters : q # p => (UnderWay(q)' <=> UnderWay(q)) /\ (InStep(q)' <=> InStep(q))
      BY <1>1, <1>3 DEF UnderWay, InStep
    <3>4. SortAlike'
      BY <1>3, <3>1, <3>2, <3>3 DEF SortAlike, NotSpoilt
    <3> QED BY <2>1, <2>2, <3>1, <3>3, <3>4 DEF NotSpoilt
  <2> QED BY <2>3, <2>4
<1> QED BY <1>1, <1>3, <1>4, <1>5 DEF StartInv

\* Who creates a table is ahead of the others, as long as nothing is spoilt.
LEMMA CreateTableStartInv ==
    ASSUME StartInv, NEW p \in Starters, CreateTable(p)
    PROVE  StartInv'
<1> DEFINE table == NextTable(p)
           rest == starting[p].missing \ {table}
           pc == IF table = Users THEN "index" ELSE "create"
<1>1. /\ starting[p].pc = "create" /\ starting[p].missing # {} /\ table \notin schema
      /\ schema' = schema \cup {table}
      /\ StartGoes(p, pc, rest)
      /\ indexed' = indexed /\ admins' = admins /\ spoilt' = spoilt
  BY DEF CreateTable
<1>2. /\ table \in starting[p].missing
      /\ \A y \in starting[p].missing : y # table => Before(starting[p].late, table, y)
  BY <1>1, NextComesFirst
<1>3. \A q \in Starters : starting[q].missing \subseteq 1..Tables
  BY DEF StartInv, Locals, TableSets
<1>4. table \in 1..Tables /\ rest \in TableSets /\ pc \in StarterPCs
  BY <1>2, <1>3 DEF TableSets, StarterPCs
<1>5. pc \in {"create", "index"}
  OBVIOUS
<1> HIDE DEF table, pc
<1>6. /\ starting' \in [Starters -> Locals]
      /\ starting'[p].pc = pc /\ starting'[p].missing = rest
      /\ starting'[p].late = starting[p].late
      /\ \A q \in Starters : q # p => starting'[q] = starting[q]
  <2> HIDE DEF rest
  <2> QED BY <1>1, <1>4, StarterGoes
<1>7. 1..Tables \ starting[p].missing \subseteq schema
  BY <1>1 DEF StartInv, MissesAll
<1>8. schema' \subseteq 1..Tables /\ (admins' > 0 => schema' = 1..Tables)
  BY <1>1, <1>4 DEF StartInv
<1>9. \A q \in Starters : MissesAll(q)'
  <2>1. MissesAll(p)'
    BY <1>1, <1>5, <1>6, <1>7 DEF MissesAll
  <2>2. ASSUME NEW q \in Starters, q # p PROVE MissesAll(q)'
    BY <1>1, <1>4, <1>6, <2>2 DEF MissesAll, StartInv
  <2> QED BY <2>1, <2>2
<1>10. ASSUME ~spoilt' PROVE NotSpoilt'
  <2>1. NotSpoilt
    BY <1>1, <1>10 DEF StartInv
  <2>2. \A q \in Starters : UnderWay(q)' <=> UnderWay(q)
    BY <1>1, <1>5, <1>6 DEF UnderWay
  <2>3. SortAlike'
    <3>1. \A q \in Starters : /\ starting'[q].missing \subseteq starting[q].missing
                              /\ starting'[q].late = starting[q].late
      BY <1>6
    <3> QED BY <2>1, <2>2, <3>1 DEF NotSpoilt, SortAlike
  <2>4. UnderWay(p)
    BY <1>1 DEF UnderWay
  <2>5. starting[p].missing = 1..Tables \ schema
    <3>1. ASSUME NEW x \in starting[p].missing \cap schema PROVE FALSE
      <4>1. x # table /\ Before(starting[p].late, table, x)
        BY <1>1, <1>2, <3>1
      <4>2. table \in schema
        BY <1>2, <2>1, <2>4, <4>1 DEF NotSpoilt, InStep
      <4> QED BY <1>1, <4>2
    <3> QED BY <1>3, <1>7, <3>1
  <2>6. Ahead(p)'
    BY <1>1, <1>5, <1>6, <2>5 DEF Ahead
  <2>7. InStep(p)'
    BY <1>1, <1>6, <2>5 DEF InStep
  <2>8. ASSUME NEW q \in Starters, UnderWay(q), q # p PROVE InStep(q)'
    <3> SUFFICES ASSUME NEW x \in starting[q].missing \cap schema',
                        NEW y \in starting[q].missing,
                        Before(starting[q].late, y, x), y \notin schema'
                 PROVE  FALSE
      BY <1>6, <2>8 DEF InStep
    <3>1. CASE x \in schema
      BY <1>1, <2>1, <2>8, <3>1 DEF NotSpoilt, InStep
    <3>2. CASE x = table
      <4>1. y \in starting[p].missing /\ y # table
        BY <1>1, <1>3, <2>5
      <4>2. Before(starting[p].late, table, y)
        BY <1>2, <4>1
      <4>3. /\ table \in starting[p].late <=> table \in starting[q].late
            /\ y \in starting[p].late <=> y \in starting[q].late
        BY <1>2, <2>1, <2>4, <2>8, <3>2, <4>1 DEF NotSpoilt, SortAlike
      <4>4. Before(starting[q].late, table, y)
        BY <4>2, <4>3 DEF Before
      <4> QED BY <1>3, <1>4, <3>2, <4>4, NotBoth
    <3> QED BY <1>1, <3>1, <3>2
  <2> QED BY <2>2, <2>3, <2>6, <2>7, <2>8 DEF NotSpoilt
<1> QED BY <1>1, <1>6, <1>8, <1>9, <1>10 DEF StartInv

\* A step that leaves init_db although all is not done: somebody else is ahead.
LEMMA EndsStartInv ==
    ASSUME StartInv, NEW p \in Starters, NEW pc \in {"down", "serving"},
           starting[p].pc # "down", StartEnds(p, pc),
           schema' = schema, admins' \in Nat, admins' >= admins,
           admins' > 0 => schema = 1..Tables, admins' > 1 => ~indexed',
           spoilt => spoilt',
           spoilt' \/ (~spoilt /\ ~Ahead(p)) \/ Finished'
    PROVE  StartInv'
<1>1. /\ starting' \in [Starters -> Locals]
      /\ starting'[p].pc = pc /\ starting'[p].missing = {}
      /\ \A q \in Starters : q # p => starting'[q] = starting[q]
  BY StarterEnds
<1>2. \A q \in Starters : MissesAll(q)'
  BY <1>1 DEF StartInv, MissesAll
<1>3. ASSUME ~spoilt' PROVE NotSpoilt'
  <2>1. NotSpoilt
    BY <1>3 DEF StartInv
  <2>2. ~UnderWay(p)'
    BY <1>1 DEF UnderWay
  <2>3. \A q \in Starters : q # p => (UnderWay(q)' <=> UnderWay(q)) /\ (InStep(q)' <=> InStep(q))
                                     /\ (Ahead(q)' <=> Ahead(q))
    BY <1>1 DEF UnderWay, InStep, Ahead
  <2>4. SortAlike'
    BY <1>1, <2>1, <2>2, <2>3 DEF NotSpoilt, SortAlike
  <2>5. Finished => Finished'
    BY DEF Finished, StartInv
  <2>6. Finished' \/ \E q \in Starters : Ahead(q)'
    <3>1. CASE Finished'
      BY <3>1
    <3>2. CASE ~Finished'
      <4>1. ~Ahead(p) /\ ~Finished
        BY <1>3, <2>5, <3>2
      <4>2. PICK q \in Starters : Ahead(q)
        BY <2>1, <4>1 DEF NotSpoilt
      <4>3. q # p
        BY <4>1, <4>2
      <4> QED BY <2>3, <4>2, <4>3
    <3> QED BY <3>1, <3>2
  <2> QED BY <2>1, <2>2, <2>3, <2>4, <2>6 DEF NotSpoilt
<1> QED BY <1>1, <1>2, <1>3 DEF StartInv

\* A step that goes on, and creates no table.
LEMMA GoesStartInv ==
    ASSUME StartInv, NEW p \in Starters, NEW pc \in {"create", "seed"},
           UnderWay(p), StartGoes(p, pc, starting[p].missing),
           pc = "seed" => schema = 1..Tables /\ starting[p].missing = {},
           pc = "create" => starting[p].pc \in {"create", "index"},
           schema' = schema, admins' = admins, admins > 1 => ~indexed',
           spoilt' = spoilt
    PROVE  StartInv'
<1>1. starting[p].missing \in TableSets /\ pc \in StarterPCs
  BY DEF StartInv, Locals, StarterPCs
<1>2. /\ starting' \in [Starters -> Locals]
      /\ starting'[p].pc = pc
      /\ \A q \in Starters : starting'[q].missing = starting[q].missing
                             /\ starting'[q].late = starting[q].late
      /\ \A q \in Starters : q # p => starting'[q] = starting[q]
  BY <1>1, StarterGoes
<1>3. \A q \in Starters : MissesAll(q)'
  BY <1>2 DEF StartInv, MissesAll
<1>4. \A q \in Starters : UnderWay(q)' <=> UnderWay(q)
  BY <1>2 DEF UnderWay
<1>5. ASSUME ~spoilt PROVE NotSpoilt'
  <2>1. NotSpoilt
    BY <1>5 DEF StartInv
  <2>2. SortAlike' /\ \A q \in Starters : UnderWay(q)' => InStep(q)'
    BY <1>2, <1>4, <2>1 DEF NotSpoilt, SortAlike, InStep
  <2>3. \A q \in Starters : Ahead(q) => Ahead(q)'
    BY <1>2 DEF Ahead
  <2>4. Finished => Finished'
    BY DEF Finished
  <2>5. Finished \/ \E q \in Starters : Ahead(q)
    BY <2>1 DEF NotSpoilt, UnderWay
  <2> QED BY <2>2, <2>3, <2>4, <2>5 DEF NotSpoilt
<1> QED BY <1>2, <1>3, <1>5 DEF StartInv

\* Its index is made by the process that created the table; it cannot be when
\* there are two rows of one name, and then all is done but for the index.
LEMMA CreateIndexStartInv ==
    ASSUME StartInv, NEW p \in Starters, CreateIndex(p)
    PROVE  StartInv'
<1>1. /\ starting[p].pc = "index" /\ indexed' = (admins <= 1)
      /\ schema' = schema /\ admins' = admins /\ spoilt' = spoilt
      /\ admins \in Nat
  BY DEF CreateIndex, StartInv
<1>2. CASE admins <= 1
  <2>1. StartGoes(p, "create", starting[p].missing) /\ UnderWay(p)
    BY <1>1, <1>2 DEF CreateIndex, UnderWay
  <2> QED BY <1>1, <1>2, <2>1, GoesStartInv
<1>3. CASE ~(admins <= 1)
  <2>1. StartEnds(p, "serving")
    BY <1>3 DEF CreateIndex
  <2>2. admins > 0 /\ schema = 1..Tables
    BY <1>1, <1>3 DEF StartInv
  <2>3. Finished'
    BY <1>1, <2>2 DEF Finished
  <2>4. ~indexed'
    BY <1>1, <1>3
  <2>5. admins' \in Nat /\ admins' >= admins /\ (spoilt => spoilt')
    BY <1>1
  <2> QED BY <1>1, <2>1, <2>2, <2>3, <2>4, <2>5, EndsStartInv
<1> QED BY <1>2, <1>3

\* The table that exists is one that the others have created since.
LEMMA TableExistsStartInv ==
    ASSUME StartInv, NEW p \in Starters, TableExists(p)
    PROVE  StartInv'
<1>1. /\ starting[p].pc = "create" /\ starting[p].missing # {}
      /\ NextTable(p) \in schema /\ StartEnds(p, "serving")
      /\ schema' = schema /\ indexed' = indexed /\ admins' = admins /\ spoilt' = spoilt
  BY DEF TableExists
<1>2. ~Ahead(p)
  BY <1>1, NextComesFirst DEF Ahead
<1>3. admins \in Nat /\ (admins > 0 => schema = 1..Tables) /\ (admins > 1 => ~indexed)
  BY DEF StartInv
<1> QED BY <1>1, <1>2, <1>3, EndsStartInv

\* Who looks for the admin has seen all the tables.
LEMMA LookForAdminStartInv ==
    ASSUME StartInv, NEW p \in Starters, LookForAdmin(p)
    PROVE  StartInv'
<1>1. /\ starting[p].pc = "create" /\ starting[p].missing = {}
      /\ schema' = schema /\ indexed' = indexed /\ admins' = admins /\ spoilt' = spoilt
  BY DEF LookForAdmin
<1>2. schema = 1..Tables /\ UnderWay(p)
  BY <1>1 DEF StartInv, MissesAll, UnderWay
<1>3. admins \in Nat /\ (admins > 1 => ~indexed)
  BY DEF StartInv
<1>4. CASE admins = 0
  <2>1. StartGoes(p, "seed", starting[p].missing)
    BY <1>1, <1>4 DEF LookForAdmin
  <2> QED BY <1>1, <1>2, <1>3, <2>1, GoesStartInv
<1>5. CASE admins # 0
  <2>1. StartEnds(p, "serving")
    BY <1>5 DEF LookForAdmin
  <2>2. Finished'
    BY <1>1, <1>2, <1>3, <1>5 DEF Finished
  <2> QED BY <1>1, <1>2, <1>3, <2>1, <2>2, EndsStartInv
<1> QED BY <1>4, <1>5

\* With its row, or with that of the process that was first, all is done.
LEMMA SeedStartInv ==
    ASSUME StartInv, NEW p \in Starters, Seed(p)
    PROVE  StartInv'
<1>1. /\ starting[p].pc = "seed" /\ StartEnds(p, "serving")
      /\ admins' = IF indexed /\ admins > 0 THEN admins ELSE admins + 1
      /\ schema' = schema /\ indexed' = indexed /\ spoilt' = spoilt
  BY DEF Seed
<1>2. schema = 1..Tables
  BY <1>1 DEF StartInv, MissesAll
<1>3. admins' \in Nat /\ admins' > 0 /\ admins' >= admins /\ (admins' > 1 => ~indexed)
  BY <1>1 DEF StartInv
<1>4. Finished'
  BY <1>1, <1>2, <1>3 DEF Finished
<1> QED BY <1>1, <1>2, <1>3, <1>4, EndsStartInv

\* A process that serves has left the race.
LEMMA StopStartInv ==
    ASSUME StartInv, NEW p \in Starters, StartFails(p) \/ Stop(p)
    PROVE  StartInv'
<1> DEFINE pc == IF StartFails(p) THEN "serving" ELSE "down"
<1>1. /\ pc \in {"down", "serving"} /\ starting[p].pc # "down" /\ StartEnds(p, pc)
      /\ schema' = schema /\ indexed' = indexed /\ admins' = admins
      /\ spoilt => spoilt'
      /\ spoilt' \/ ~UnderWay(p)
  BY DEF StartFails, Stop, UnderWay
<1> HIDE DEF pc
<1>2. spoilt' \/ (~spoilt /\ ~Ahead(p))
  <2>1. ~UnderWay(p) => ~Ahead(p)
    BY DEF Ahead, UnderWay
  <2> QED BY <1>1, <2>1
<1>3. admins \in Nat /\ (admins > 0 => schema = 1..Tables) /\ (admins > 1 => ~indexed)
  BY DEF StartInv
<1> QED BY <1>1, <1>2, <1>3, EndsStartInv

LEMMA NextStartInv == StartInv /\ [StartNext]_startVars => StartInv'
<1> SUFFICES ASSUME StartInv, [StartNext]_startVars PROVE StartInv'
  OBVIOUS
<1>1. ASSUME NEW p \in Starters, StartProcess(p) PROVE StartInv'
  BY <1>1, StartProcessStartInv
<1>2. ASSUME NEW p \in Starters, CreateTable(p) PROVE StartInv'
  BY <1>2, CreateTableStartInv
<1>3. ASSUME NEW p \in Starters, CreateIndex(p) PROVE StartInv'
  BY <1>3, CreateIndexStartInv
<1>4. ASSUME NEW p \in Starters, TableExists(p) PROVE StartInv'
  BY <1>4, TableExistsStartInv
<1>5. ASSUME NEW p \in Starters, LookForAdmin(p) PROVE StartInv'
  BY <1>5, LookForAdminStartInv
<1>6. ASSUME NEW p \in Starters, Seed(p) PROVE StartInv'
  BY <1>6, SeedStartInv
<1>7. ASSUME NEW p \in Starters, StartFails(p) \/ Stop(p) PROVE StartInv'
  BY <1>7, StopStartInv
<1>8. CASE UNCHANGED startVars
  BY <1>8 DEF startVars, StartInv, MissesAll, NotSpoilt, SortAlike, InStep, UnderWay, Ahead,
              Finished
<1> QED BY <1>1, <1>2, <1>3, <1>4, <1>5, <1>6, <1>7, <1>8 DEF StartNext

\* All the tables and an admin are there once nobody is under way any more,
\* unless a process died at it, the database failed it, or two had sorted the
\* tables differently, since one last started by itself; never an admin without
\* the tables, and two only without their index (main.py:33-37,
\* database.py:84, 329-350).
THEOREM AdminIsSeeded == StartSpec => []AdminSeeded
<1>1. StartInv => AdminSeeded
  <2> SUFFICES ASSUME StartInv PROVE AdminSeeded
    OBVIOUS
  <2>1. ASSUME ~spoilt, \A p \in Starters : ~UnderWay(p),
               \E p \in Starters : starting[p].pc = "serving"
        PROVE  schema = 1..Tables /\ admins > 0
    <3>1. \A p \in Starters : ~Ahead(p)
      BY <2>1 DEF Ahead, UnderWay
    <3> QED BY <2>1, <3>1 DEF StartInv, NotSpoilt, Finished
  <2> QED BY <2>1 DEF StartInv, AdminSeeded
<1> QED BY <1>1, InitStartInv, NextStartInv, PTL DEF StartSpec

-----------------------------------------------------------------------------
(* Scenarios: the scenario generator                                       *)

Fits   == Entries \ Misfits
Models == Entries \ {"template"}

\* What a call has for an answer, and a call that has begun.
AnswerType == {a \in [kind : {"none", "list", "text", "other"}, entries : Seq(Models)] :
                  a.kind # "list" => a.entries = <<>>}
CallType   == [pc : {"ask", "text", "fill", "store"}, count : Nat \ {0}, attempt : Nat,
               answer : AnswerType, entries : Seq(Entries)]

\* An answer cut to what was asked for, and filled up with templates.
Filled(answer, count) ==
    LET slice == Sliced(answer.entries, count)
    IN  slice \o [i \in 1..(count - Len(slice)) |-> "template"]

\* Where a call is: its entries are those of the answer until they are filled
\* up, and the rows are the first of them.
CallOK ==
    call # NotCalled =>
        /\ call \in CallType
        /\ call.pc # "store" =>
              rows = <<>> /\ call.entries = Sliced(call.answer.entries, call.count)
        /\ call.pc = "text" => call.answer.kind = "text"
        /\ call.pc = "store" =>
              /\ call.entries = Filled(call.answer, call.count)
              /\ Len(rows) <= Len(call.entries)
              /\ \A i \in 1..Len(rows) : rows[i] = call.entries[i]

\* The inductive invariant.
ScenarioInv ==
    /\ rows \in Seq(Fits) /\ CallOK /\ GeneratedAccounted
    /\ call # NotCalled => outcome.result = "none"

\* A slice holds the first entries, no more than were asked for; filled up, it
\* holds as many as were asked for.
LEMMA SliceIs ==
    ASSUME NEW s \in Seq(Models), NEW count \in Nat
    PROVE  /\ Sliced(s, count) \in Seq(Models)
           /\ Len(Sliced(s, count)) <= Len(s) /\ Len(Sliced(s, count)) <= count
           /\ \A i \in 1..Len(Sliced(s, count)) : Sliced(s, count)[i] = s[i]
<1> DEFINE n == IF Len(s) < count THEN Len(s) ELSE count
<1>1. n \in Nat /\ n <= Len(s) /\ n <= count
  OBVIOUS
<1>2. \A i \in 1..n : s[i] \in Models
  BY <1>1
<1> HIDE DEF n
<1>3. SubSeq(s, 1, n) \in Seq(Models) /\ Len(SubSeq(s, 1, n)) = n
      /\ \A i \in 1..n : SubSeq(s, 1, n)[i] = s[i]
  BY <1>1, <1>2
<1>4. Sliced(s, count) = SubSeq(s, 1, n)
  BY DEF Sliced, n
<1> QED BY <1>1, <1>3, <1>4

LEMMA FilledIs ==
    ASSUME NEW a \in AnswerType, NEW count \in Nat
    PROVE  /\ Sliced(a.entries, count) \in Seq(Models)
           /\ Len(Sliced(a.entries, count)) \in 0..count
           /\ Filled(a, count) \in Seq(Entries) /\ Len(Filled(a, count)) = count
           /\ \A i \in 1..count :
                 Filled(a, count)[i] = IF i <= Len(Sliced(a.entries, count))
                                       THEN Sliced(a.entries, count)[i] ELSE "template"
<1> DEFINE slice == Sliced(a.entries, count)
           rest == [i \in 1..(count - Len(slice)) |-> "template"]
<1>1. a.entries \in Seq(Models)
  BY DEF AnswerType
<1>2. slice \in Seq(Models) /\ Len(slice) \in 0..count
  BY <1>1, SliceIs
<1>3. slice \in Seq(Entries)
  BY <1>2 DEF Models
<1>4. rest \in Seq(Entries) /\ Len(rest) = count - Len(slice)
      /\ \A i \in 1..Len(rest) : rest[i] = "template"
  BY <1>2 DEF Entries
<1>5. Filled(a, count) = slice \o rest
  BY DEF Filled
<1> HIDE DEF slice, rest
<1>6. /\ slice \o rest \in Seq(Entries) /\ Len(slice \o rest) = count
      /\ \A i \in 1..count : (slice \o rest)[i] = IF i <= Len(slice) THEN slice[i] ELSE "template"
  BY <1>2, <1>3, <1>4
<1> QED BY <1>2, <1>5, <1>6 DEF slice

LEMMA AnswersTyped == \A answer \in Answers : answer \in AnswerType
<1>1. \A n \in Nat : [1..n -> Models] \subseteq Seq(Models)
  OBVIOUS
<1>2. BoundedSeq(Models, MaxCount) \subseteq Seq(Models)
  BY <1>1, ScenariosAssumption DEF BoundedSeq, SeqOf
<1>3. \A answer \in Answers :
          /\ answer \in [kind : {"none", "list", "text", "other"}, entries : Seq(Models)]
          /\ answer.kind # "list" => answer.entries = <<>>
  <2>1. Answers = [kind : {"list"}, entries : BoundedSeq(Models, MaxCount)]
                      \cup [kind : {"text", "other"}, entries : {<<>>}]
    BY DEF Answers, Models
  <2>2. <<>> \in Seq(Models)
    OBVIOUS
  <2> HIDE DEF Models
  <2> QED BY <1>2, <2>1, <2>2
<1> QED BY <1>3 DEF AnswerType

LEMMA InitScenarioInv == ScenarioInit => ScenarioInv
BY DEF ScenarioInit, ScenarioInv, CallOK, GeneratedAccounted, NoOutcome

LEMMA GenerateScenarioInv ==
    ASSUME ScenarioInv, NEW count \in 1..MaxCount, NEW llm \in BOOLEAN, Generate(count, llm)
    PROVE  ScenarioInv'
<1>1. count \in Nat \ {0}
  BY ScenariosAssumption
<1>2. NoAnswer \in AnswerType /\ NoAnswer.entries = <<>>
  BY DEF NoAnswer, AnswerType
<1>3. Sliced(<<>>, count) = <<>>
  BY <1>1 DEF Sliced
<1>4. call' \in CallType /\ call'.pc \in {"ask", "fill"} /\ call'.entries = <<>>
      /\ call'.answer = NoAnswer /\ call'.count = count
  BY <1>1, <1>2 DEF Generate, CallType
<1>5. CallOK'
  BY <1>2, <1>3, <1>4 DEF CallOK, Generate
<1> QED BY <1>5 DEF ScenarioInv, Generate, GeneratedAccounted, NoOutcome

\* A call that goes on, and leaves the rows and the last outcome alone.
LEMMA AskingScenarioInv ==
    ASSUME ScenarioInv, AskAgain \/ AskFails \/ (\E answer \in Answers : Answered(answer))
    PROVE  ScenarioInv'
<1>1. call \in CallType /\ call.pc = "ask" /\ rows = <<>>
      /\ call.entries = Sliced(call.answer.entries, call.count) /\ outcome.result = "none"
  <2>1. call.pc = "ask"
    BY DEF AskAgain, AskFails, Answered
  <2> QED BY <2>1 DEF ScenarioInv, CallOK, NotCalled
<1>2. UNCHANGED <<rows, outcome>>
  BY DEF AskAgain, AskFails, Answered
<1>3. CallOK'
  <2>1. CASE AskAgain \/ AskFails
    <3>1. call' \in CallType /\ call'.pc \in {"ask", "fill"} /\ call'.entries = call.entries
          /\ call'.answer = call.answer /\ call'.count = call.count
      BY <1>1, <2>1 DEF CallType, AskAgain, AskFails
    <3> QED BY <1>1, <1>2, <3>1 DEF CallOK
  <2>2. ASSUME NEW answer \in Answers, Answered(answer) PROVE CallOK'
    <3>1. answer \in AnswerType
      BY AnswersTyped
    <3>2. Sliced(answer.entries, call.count) \in Seq(Entries)
      <4>1. call.count \in Nat
        BY <1>1 DEF CallType
      <4>2. Sliced(answer.entries, call.count) \in Seq(Models)
        BY <3>1, <4>1, FilledIs
      <4> QED BY <4>2 DEF Models
    <3>3. call' = [call EXCEPT !.pc = IF answer.kind = "text" THEN "text" ELSE "fill",
                               !.answer = answer, !.entries = Sliced(answer.entries, call.count)]
      BY <2>2 DEF Answered
    <3>4. call' \in CallType /\ call'.pc = (IF answer.kind = "text" THEN "text" ELSE "fill")
          /\ call'.answer = answer /\ call'.count = call.count
          /\ call'.entries = Sliced(answer.entries, call.count)
      BY <1>1, <3>1, <3>2, <3>3 DEF CallType
    <3> QED BY <1>1, <1>2, <3>4 DEF CallOK
  <2> QED BY <2>1, <2>2
<1> QED BY <1>1, <1>2, <1>3 DEF ScenarioInv, GeneratedAccounted, Trusted

LEMMA FillScenarioInv ==
    ASSUME ScenarioInv, Fill
    PROVE  ScenarioInv'
<1>1. call \in CallType /\ call.pc = "fill" /\ rows = <<>>
      /\ call.entries = Sliced(call.answer.entries, call.count) /\ outcome.result = "none"
  BY DEF ScenarioInv, CallOK, NotCalled, Fill
<1>2. call.answer \in AnswerType /\ call.count \in Nat
  BY <1>1 DEF CallType
<1>3. call' = [call EXCEPT !.pc = "store", !.entries = Filled(call.answer, call.count)]
  BY <1>1 DEF Fill, Filled, CallType
<1>4. Filled(call.answer, call.count) \in Seq(Entries)
  BY <1>2, FilledIs
<1>5. call' \in CallType /\ call'.pc = "store" /\ call'.answer = call.answer
      /\ call'.count = call.count /\ call'.entries = Filled(call.answer, call.count)
  BY <1>1, <1>3, <1>4 DEF CallType
<1>6. CallOK'
  <2>1. rows' = <<>> /\ Len(<<>>) = 0 /\ Len(Filled(call.answer, call.count)) \in Nat
    BY <1>1, <1>4 DEF Fill
  <2> QED BY <1>5, <2>1 DEF CallOK
<1> QED BY <1>1, <1>6 DEF ScenarioInv, GeneratedAccounted, Trusted, Fill

LEMMA StoreScenarioInv ==
    ASSUME ScenarioInv, Store
    PROVE  ScenarioInv'
<1>1. call \in CallType /\ call.pc = "store" /\ rows \in Seq(Fits)
      /\ outcome.result = "none" /\ Len(rows) < Len(call.entries)
      /\ \A i \in 1..Len(rows) : rows[i] = call.entries[i]
  BY DEF ScenarioInv, CallOK, NotCalled, Store, Storing
<1>2. Entry \in Fits /\ Entry = call.entries[Len(rows) + 1]
  BY <1>1 DEF Store, Entry, Fits, CallType
<1>3. rows' \in Seq(Fits) /\ Len(rows') = Len(rows) + 1 /\ rows'[Len(rows) + 1] = Entry
      /\ \A i \in 1..Len(rows) : rows'[i] = rows[i]
  BY <1>1, <1>2 DEF Store
<1>4. CallOK'
  <2>1. call' = call
    BY DEF Store
  <2>2. Len(rows') <= Len(call.entries)
    BY <1>1, <1>3 DEF CallType
  <2>3. \A i \in 1..Len(rows') : rows'[i] = call.entries[i]
    BY <1>1, <1>2, <1>3
  <2> QED BY <1>1, <2>1, <2>2, <2>3 DEF ScenarioInv, CallOK
<1>5. GeneratedAccounted'
  <2>1. outcome'.result = "none"
    BY <1>1 DEF Store
  <2>2. \A i \in DOMAIN rows' : rows'[i] \notin Misfits
    BY <1>3 DEF Fits
  <2> QED BY <2>1, <2>2 DEF GeneratedAccounted
<1> QED BY <1>1, <1>3, <1>4, <1>5 DEF ScenarioInv, Store

\* A call that ends for another reason than one the property is about.
LEMMA QuietEnd ==
    ASSUME ScenarioInv, NEW result \in {"database error", "died"}, Ends(result), UNCHANGED rows
    PROVE  ScenarioInv'
<1>1. call' = NotCalled /\ rows' = rows /\ outcome'.result \in {"database error", "died"}
  BY DEF Ends
<1>2. GeneratedAccounted'
  BY <1>1 DEF ScenarioInv, GeneratedAccounted
<1> QED BY <1>1, <1>2 DEF ScenarioInv, CallOK

LEMMA TextRaisesScenarioInv ==
    ASSUME ScenarioInv, TextRaises
    PROVE  ScenarioInv'
<1>1. rows = <<>> /\ call.answer.kind = "text"
  BY DEF ScenarioInv, CallOK, NotCalled, TextRaises
<1>2. rows' = rows /\ outcome'.result = "raised" /\ outcome'.answer = call.answer
      /\ call' = NotCalled
  BY DEF TextRaises, Ends
<1> QED BY <1>1, <1>2 DEF ScenarioInv, CallOK, GeneratedAccounted

LEMMA ReturnScenarioInv ==
    ASSUME ScenarioInv, Return
    PROVE  ScenarioInv'
<1>1. /\ call \in CallType /\ call.pc = "store" /\ rows \in Seq(Fits)
      /\ call.entries = Filled(call.answer, call.count)
      /\ Len(rows) = Len(call.entries) /\ \A i \in 1..Len(rows) : rows[i] = call.entries[i]
  BY DEF ScenarioInv, CallOK, NotCalled, Return
<1>2. call.answer \in AnswerType /\ call.count \in Nat /\ call.entries \in Seq(Entries)
  BY <1>1 DEF CallType
<1>3. rows = call.entries /\ Len(rows) = call.count
  <2>1. rows \in Seq(Entries)
    BY <1>1 DEF Fits
  <2>2. Len(rows) = Len(call.entries) /\ \A i \in 1..Len(rows) : rows[i] = call.entries[i]
    BY <1>1
  <2>3. rows = call.entries
    BY <1>2, <2>1, <2>2, SeqEqual
  <2>4. Len(Filled(call.answer, call.count)) = call.count
    BY <1>2, FilledIs
  <2> QED BY <1>1, <2>3, <2>4
<1>4. rows' = rows /\ call' = NotCalled
      /\ outcome' = [result |-> "returned", count |-> call.count, answer |-> call.answer]
  BY DEF Return, Ends
<1>5. rows = Trusted' \o [i \in 1..(outcome'.count - Len(Trusted')) |-> "template"]
  BY <1>1, <1>3, <1>4 DEF Filled, Trusted
<1>6. GeneratedAccounted'
  <2>1. Len(rows') = outcome'.count /\ outcome'.result = "returned"
    BY <1>3, <1>4
  <2>2. \A i \in DOMAIN rows' : rows'[i] \notin Misfits
    BY <1>1, <1>4 DEF Fits
  <2> QED BY <1>4, <1>5, <2>1, <2>2 DEF GeneratedAccounted
<1> QED BY <1>1, <1>4, <1>6 DEF ScenarioInv, CallOK

LEMMA EntryRaisesScenarioInv ==
    ASSUME ScenarioInv, EntryRaises
    PROVE  ScenarioInv'
<1>1. /\ call \in CallType /\ call.pc = "store" /\ rows \in Seq(Fits)
      /\ call.entries = Filled(call.answer, call.count)
      /\ Len(rows) < Len(call.entries) /\ \A i \in 1..Len(rows) : rows[i] = call.entries[i]
  BY DEF ScenarioInv, CallOK, NotCalled, EntryRaises, Storing
<1>2. call.answer \in AnswerType /\ call.count \in Nat
  BY <1>1 DEF CallType
<1> DEFINE slice == Sliced(call.answer.entries, call.count)
<1>3. slice \in Seq(Models) /\ Len(slice) \in 0..call.count /\ Len(call.entries) = call.count
      /\ \A i \in 1..call.count : call.entries[i] = IF i <= Len(slice) THEN slice[i] ELSE "template"
  <2>1. /\ Sliced(call.answer.entries, call.count) \in Seq(Models)
        /\ Len(Sliced(call.answer.entries, call.count)) \in 0..call.count
        /\ Len(Filled(call.answer, call.count)) = call.count
        /\ \A i \in 1..call.count : Filled(call.answer, call.count)[i] =
               IF i <= Len(Sliced(call.answer.entries, call.count))
               THEN Sliced(call.answer.entries, call.count)[i] ELSE "template"
    BY <1>2, FilledIs
  <2> QED BY <1>1, <2>1
<1>4. rows' = rows /\ call' = NotCalled
      /\ outcome' = [result |-> "raised", count |-> call.count, answer |-> call.answer]
  BY DEF EntryRaises, Ends
<1>5. Trusted' = slice
  BY <1>4 DEF Trusted
<1> HIDE DEF slice
<1>6. call.entries[Len(rows) + 1] \in Misfits
  BY DEF EntryRaises, Entry
<1>7. Len(rows) < Len(slice) /\ slice[Len(rows) + 1] \in Misfits
  BY <1>1, <1>2, <1>3, <1>6 DEF Misfits
<1>8. rows = SubSeq(slice, 1, Len(rows))
  <2>1. \A i \in 1..Len(rows) : slice[i] \in Models /\ rows[i] = slice[i]
    BY <1>1, <1>2, <1>3, <1>7
  <2>2. SubSeq(slice, 1, Len(rows)) \in Seq(Models) /\ Len(SubSeq(slice, 1, Len(rows))) = Len(rows)
        /\ \A i \in 1..Len(rows) : SubSeq(slice, 1, Len(rows))[i] = slice[i]
    BY <1>1, <1>3, <1>7, <2>1
  <2>3. rows \in Seq(Entries) /\ SubSeq(slice, 1, Len(rows)) \in Seq(Entries)
    BY <1>1, <2>2 DEF Fits, Models
  <2> QED BY <2>1, <2>2, <2>3, SeqEqual
<1>9. GeneratedAccounted'
  BY <1>1, <1>4, <1>5, <1>7, <1>8 DEF GeneratedAccounted, Fits
<1> QED BY <1>1, <1>4, <1>9 DEF ScenarioInv, CallOK

LEMMA NextScenarioInv == ScenarioInv /\ [ScenarioNext]_scenarioVars => ScenarioInv'
<1> SUFFICES ASSUME ScenarioInv, [ScenarioNext]_scenarioVars PROVE ScenarioInv'
  OBVIOUS
<1>1. ASSUME NEW count \in 1..MaxCount, NEW llm \in BOOLEAN, Generate(count, llm)
      PROVE  ScenarioInv'
  BY <1>1, GenerateScenarioInv
<1>2. CASE AskAgain \/ AskFails \/ \E answer \in Answers : Answered(answer)
  BY <1>2, AskingScenarioInv
<1>3. CASE TextRaises
  BY <1>3, TextRaisesScenarioInv
<1>4. CASE Fill
  BY <1>4, FillScenarioInv
<1>5. CASE Store
  BY <1>5, StoreScenarioInv
<1>6. CASE EntryRaises
  BY <1>6, EntryRaisesScenarioInv
<1>7. CASE StoreRaises \/ CallDies
  BY <1>7, QuietEnd DEF StoreRaises, CallDies
<1>8. CASE Return
  BY <1>8, ReturnScenarioInv
<1>9. CASE UNCHANGED scenarioVars
  BY <1>9 DEF scenarioVars, ScenarioInv, CallOK, GeneratedAccounted, Trusted
<1> QED BY <1>1, <1>2, <1>3, <1>4, <1>5, <1>6, <1>7, <1>8, <1>9 DEF ScenarioNext

\* Whatever the language model answers, a call that returns has stored what it
\* was asked for, and one that raises the part before the first misfit entry
\* (scenario_generator.py:54-88).
THEOREM GeneratedIsAccounted == ScenarioSpec => []GeneratedAccounted
<1>1. ScenarioInv => GeneratedAccounted
  BY DEF ScenarioInv
<1> QED BY <1>1, InitScenarioInv, NextScenarioInv, PTL DEF ScenarioSpec
=============================================================================
